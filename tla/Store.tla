------------------------------- MODULE Store -------------------------------
(***************************************************************************)
(* The store of one component (ecs/store.go) as operators on a record s:   *)
(*   observation        unobserved, observerWaiting or observed            *)
(*   rows               owner, value, shadow and state of each dense row   *)
(*   liveRows           how many of them are live; the tail follows        *)
(*   rowByIndex         each index's row, from 1; 0 is none                *)
(*   changed, overflowed  changedEntities and whether the listing stopped  *)
(* Chunks and addresses are left out: a row is its place in rows.  A value *)
(* is written with the add or write that returned its address.  The shadow *)
(* of a new row is what its memory held, here Unset, and no state before   *)
(* the next reset reads it.                                                *)
(***************************************************************************)
EXTENDS EntityTable

CONSTANTS
  Values,
  Unset,                \* not a value: a shadow never written
  ChangedEntitiesShift  \* the listing holds liveRows >> ChangedEntitiesShift

ASSUME StoreAssumption == Unset \notin Values /\ ChangedEntitiesShift \in Nat

States == {"Unchanged", "Changed", "Added", "Removed", "Discarded"}

emptyStore(observation) ==
  [observation |-> observation, rows |-> <<>>, liveRows |-> 0,
   rowByIndex |-> [i \in Indices |-> 0], changed |-> <<>>, overflowed |-> FALSE]

linked(s, e) == s.rowByIndex[index(e)]

\* row: e has a live row.
has(s, e) ==
  linked(s, e) # 0 /\ linked(s, e) <= s.liveRows /\ s.rows[linked(s, e)].owner = e

\* tailRow: e has a row in the tail.
inTail(s, e) ==
  /\ linked(s, e) > s.liveRows /\ linked(s, e) <= Len(s.rows)
  /\ s.rows[linked(s, e)].owner = e

\* swap: b's link is read before a's slot is written.
swap(s, a, b) ==
  LET indexA == index(s.rows[a].owner)
      indexB == index(s.rows[b].owner)
      link == [s.rowByIndex EXCEPT ![indexA] = b]
  IN  IF a = b THEN s
      ELSE [s EXCEPT
              !.rowByIndex = IF @[indexB] = b THEN [link EXCEPT ![indexB] = a] ELSE link,
              !.rows = [@ EXCEPT ![a] = s.rows[b], ![b] = s.rows[a]]]

listChanged(s, e) ==
  IF Len(s.changed) < s.liveRows \div 2^ChangedEntitiesShift
  THEN [s EXCEPT !.changed = Append(@, e)]
  ELSE [s EXCEPT !.overflowed = TRUE]

markChanged(s, row) ==
  IF s.observation = "observed" /\ s.rows[row].state = "Unchanged"
  THEN listChanged([s EXCEPT !.rows[row].state = "Changed"], s.rows[row].owner)
  ELSE s

\* write, and the value written in place; e has a live row.
write(s, e, v) ==
  [markChanged(s, linked(s, e)) EXCEPT !.rows[linked(s, e)].value = v]

\* add brings back the row e left in the tail this window,
readd(s, e) ==
  LET live == s.liveRows + 1
      back == swap(s, linked(s, e), live)
  IN  [back EXCEPT
         !.rows[live].state = IF @ = "Discarded" THEN "Added" ELSE "Changed",
         !.liveRows = live]
\* or appends one and, in an observed store, swaps it with the tail's first.
append(s, e) ==
  LET observed == s.observation = "observed"
      row == Len(s.rows) + 1
      new == [owner |-> e, value |-> Unset, shadow |-> Unset,
              state |-> IF observed THEN "Added" ELSE "Unchanged"]
      grown == [s EXCEPT !.overflowed = @ \/ (observed /\ linked(s, e) # 0),
                         !.rows = Append(@, new),
                         !.rowByIndex[index(e)] = row]
      placed == IF observed THEN swap(listChanged(grown, e), row, s.liveRows + 1)
                ELSE grown
  IN  [placed EXCEPT !.liveRows = @ + 1]
add(s, e, v) ==
  LET added == IF s.observation = "observed" /\ inTail(s, e)
               THEN readd(s, e) ELSE append(s, e)
  IN  [added EXCEPT !.rows[added.liveRows].value = v]

\* Mutant: an unchanged row goes to the tail unlisted.
toTail_unlisted(s, e) ==
  LET last == s.liveRows
      moved == swap([s EXCEPT !.liveRows = last - 1], linked(s, e), last)
  IN  [moved EXCEPT !.rows[last].state =
         IF @ = "Added" THEN "Discarded" ELSE "Removed"]
\* Mutant: the row moved into the gap keeps its old link.
drop_unlinked(s, e) ==
  [s EXCEPT !.rows = SubSeq([s.rows EXCEPT ![linked(s, e)] = s.rows[s.liveRows]], 1, s.liveRows - 1),
            !.liveRows = @ - 1,
            !.rowByIndex[index(e)] = 0]
\* remove of e's live row: kept in the tail, or dropped if nobody observes.
toTail(s, e) ==
  LET last == s.liveRows
      moved == swap([s EXCEPT !.liveRows = last - 1], linked(s, e), last)
      state == s.rows[linked(s, e)].state
      left == IF state = "Unchanged" THEN listChanged(moved, e) ELSE moved
  IN  [left EXCEPT !.rows[last].state =
         IF state = "Added" THEN "Discarded" ELSE "Removed"]
drop(s, e) ==
  LET row == linked(s, e)
      moved == [s.rows EXCEPT ![row] = s.rows[s.liveRows]]
  IN  [s EXCEPT !.rows = SubSeq(moved, 1, s.liveRows - 1),
                !.liveRows = @ - 1,
                !.rowByIndex = [i \in Indices |->
                   IF i = index(e) THEN 0
                   ELSE IF i = index(s.rows[s.liveRows].owner) THEN row
                        ELSE s.rowByIndex[i]]]
remove(s, e) == IF s.observation = "observed" THEN toTail(s, e) ELSE drop(s, e)

\* delta: what an observer is told of a row.
delta(row) ==
  CASE row.state = "Added" -> "Added"
    [] row.state = "Changed" /\ row.value # row.shadow -> "Changed"
    [] row.state = "Removed" -> "Removed"
    [] OTHER -> "None"

\* walkedRows and listedRow: the rows a delta query and the reset visit.
walked(s) ==
  IF s.overflowed THEN [row \in DOMAIN s.rows |-> row]
  ELSE [n \in DOMAIN s.changed |-> linked(s, s.changed[n])]

\* startObservation, at the first end of a window.
startObservation(s) ==
  IF s.observation # "observerWaiting" THEN s
  ELSE [s EXCEPT !.observation = "observed", !.overflowed = TRUE,
                 !.rows = [r \in DOMAIN @ |-> [@[r] EXCEPT !.state = "Added"]]]

\* resetObservation, at every other one.
resetObservation(s) ==
  LET settled(r) == IF r \in ToSet(walked(s)) /\ s.rows[r].state # "Unchanged"
                    THEN [s.rows[r] EXCEPT !.shadow = s.rows[r].value,
                                           !.state = "Unchanged"]
                    ELSE s.rows[r]
  IN  IF s.observation # "observed" THEN s
      ELSE [s EXCEPT !.rows = [r \in 1..s.liveRows |-> settled(r)],
                     !.rowByIndex = [i \in Indices |->
                        IF \E r \in s.liveRows + 1..Len(s.rows) :
                             index(s.rows[r].owner) = i /\ @[i] = r
                        THEN 0 ELSE @[i]],
                     !.changed = <<>>, !.overflowed = FALSE]

=============================================================================
