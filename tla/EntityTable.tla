---------------------------- MODULE EntityTable ----------------------------
(***************************************************************************)
(* The entity table of an ECS world (ecs/entitytable.go) as operators on a *)
(* record t:                                                               *)
(*   live, last, mask  the slot of each index: the generation alive there  *)
(*                     (0: none), the last one handed out, its components  *)
(*   free              freeEntities, handed out from the back              *)
(*   count             reservationCount                                    *)
(*   fresh             nextFreshIndex                                      *)
(*   observing, despawned, outside                                         *)
(* An entity is a pair of an index and a generation.  nextGeneration's     *)
(* step over 0 at 2^32 is left out: generations only grow here.            *)
(***************************************************************************)
EXTENDS Integers, Sequences, SequencesExt

CONSTANTS
  FirstIndex, LastIndex,  \* the allocation range
  Outside,                \* indices outside it, for place
  MaxGeneration           \* bound: the last generation handed out or placed

ASSUME EntityTableAssumption ==
  /\ FirstIndex \in Nat /\ LastIndex \in Nat /\ FirstIndex <= LastIndex
  /\ MaxGeneration \in Nat \ {0}
  /\ Outside \subseteq Nat \ (FirstIndex..LastIndex)

InRange == FirstIndex..LastIndex
Indices == InRange \cup Outside
Entities == Indices \X (1..MaxGeneration)
NoEntity == <<0, 0>>
index(e) == e[1]
generation(e) == e[2]
lesser(a, b) == IF a < b THEN a ELSE b

emptyTable ==
  [live |-> [i \in Indices |-> 0],
   last |-> [i \in Indices |-> 0],
   mask |-> [i \in Indices |-> {}],
   free |-> <<>>, count |-> 0, fresh |-> FirstIndex,
   observing |-> FALSE, despawned |-> <<>>, outside |-> {}]

nextGeneration(g) == g + 1
alive(t, e) == t.live[index(e)] = generation(e) /\ t.live[index(e)] # 0

setComponent(t, e, c) == [t EXCEPT !.mask[index(e)] = @ \cup {c}]
unsetComponent(t, e, c) == [t EXCEPT !.mask[index(e)] = @ \ {c}]
setAlive(t, e) ==
  [t EXCEPT !.live[index(e)] = generation(e), !.last[index(e)] = generation(e)]

\* The entity that reservation n, counted from 0, of those not settled takes.
reservation(t, n) ==
  IF n < Len(t.free) THEN t.free[Len(t.free) - n]
  ELSE IF t.fresh + n - Len(t.free) > LastIndex THEN NoEntity
       ELSE <<t.fresh + n - Len(t.free), 1>>

\* reserve: the count is taken with one atomic add, and what it selects from
\* does not change while reservations are taken.
reserve(t) ==
  [table |-> [t EXCEPT !.count = @ + 1], entity |-> reservation(t, t.count)]

takenFree(t) == lesser(t.count, Len(t.free))
takenFresh(t) == lesser(t.count - takenFree(t), LastIndex + 1 - t.fresh)
untaken(t) == SubSeq(t.free, 1, Len(t.free) - takenFree(t))

taken(t) ==
  SubSeq(t.free, Len(untaken(t)) + 1, Len(t.free))
    \o [i \in 1..takenFresh(t) |-> <<t.fresh + i - 1, 1>>]

\* burn, and the reservation it finds never spawned back on the free list.
\* Mutated: its generation is not burned.
burn_unrecorded(t, e) ==
  IF t.last[index(e)] = generation(e) THEN t
  ELSE [t EXCEPT !.free = Append(@, <<index(e), nextGeneration(generation(e))>>)]
burn(t, e) ==
  IF t.last[index(e)] = generation(e) THEN t
  ELSE [t EXCEPT !.last[index(e)] = generation(e),
                 !.free = Append(@, <<index(e), nextGeneration(generation(e))>>)]

\* settleReservations: what was taken leaves the free list and the fresh
\* indices; with reclaim, the reservations never spawned come back burned.
settleReservations(t, reclaim) ==
  LET left == [t EXCEPT !.free = untaken(t)]
      kept == IF reclaim THEN FoldLeft(burn, left, taken(t)) ELSE left
  IN  [kept EXCEPT !.fresh = @ + takenFresh(t), !.count = 0]

\* Mutant: spawn settles the reservations of an observing table too.
spawn_settles(t) ==
  LET r == reserve(settleReservations(t, FALSE))
  IN  IF r.entity = NoEntity THEN r
      ELSE [r EXCEPT !.table = setAlive(@, r.entity)]

\* spawn: the next entity, at once alive; NoEntity when the range is used up.
spawn(t) ==
  LET r == reserve(IF t.observing THEN t ELSE settleReservations(t, FALSE))
  IN  IF r.entity = NoEntity THEN r
      ELSE [r EXCEPT !.table = setAlive(@, r.entity)]

\* spawnReserved's condition, the reservation still waiting.
reserved(t, e) ==
  t.live[index(e)] = 0 /\ generation(e) = nextGeneration(t.last[index(e)])
spawnReserved(t, e) == IF reserved(t, e) THEN setAlive(t, e) ELSE t

\* place's conditions.
placeable(t, e) ==
  /\ generation(e) # 0
  /\ index(e) \notin InRange
  /\ t.live[index(e)] = 0
  /\ index(e) \notin t.outside

free(t, i) ==
  IF i \in InRange
  THEN [t EXCEPT !.free = Append(@, <<i, nextGeneration(t.last[i])>>)]
  ELSE t

\* despawn of a live entity; the world takes its components from the mask.
despawn(t, e) ==
  LET i == index(e)
      gone == [t EXCEPT !.mask[i] = {}, !.live[i] = 0]
  IN  IF t.observing
      THEN [gone EXCEPT !.despawned = Append(@, i),
                        !.outside = @ \cup ({i} \ InRange)]
      ELSE free(settleReservations(gone, FALSE), i)

\* endWindow; the first end, while the table does not observe, only starts.
endWindow(t) ==
  IF ~t.observing
  THEN [settleReservations(t, FALSE) EXCEPT !.observing = TRUE]
  ELSE LET freed == FoldLeft(free, settleReservations(t, TRUE), t.despawned)
       IN  [freed EXCEPT !.despawned = <<>>,
                         !.outside = @ \ ToSet(t.despawned)]

=============================================================================
