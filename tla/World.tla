------------------------------- MODULE World -------------------------------
(***************************************************************************)
(* An ECS world (ecs/world.go) over EntityTable and Store: the writes made *)
(* under the barrier, the reservations and records that systems make       *)
(* concurrently into the lanes of a command buffer, the commit of that     *)
(* buffer (ecs/commands.go) and the end of an observation window.          *)
(*                                                                         *)
(* The kernel's locks make every operation but two exclusive, a step: a    *)
(* reservation is one atomic add, a record is appended under the mutex of  *)
(* its lane.  Refs are left out, and so are the lanes that record them.    *)
(***************************************************************************)
EXTENDS Store

CONSTANTS
  Components,
  LaneCount,        \* lanes of the command buffer
  MaxReservations,  \* bound: reservations not settled
  Workloads         \* bounds on the calls of a behaviour, which has one of:
                    \*   entities  entities handed out in the range
                    \*   mirrors   the entities placed outside it
                    \*   values    the values components are given
                    \*   records   records in the lanes
                    \*   operations  what they record
                    \*   direct    whether the world is also written directly

ASSUME WorldAssumption ==
  /\ MaxReservations \in Nat /\ LaneCount \in Nat
  /\ \A w \in Workloads :
       /\ w.entities \in Nat /\ w.records \in Nat /\ w.direct \in BOOLEAN
       /\ w.mirrors \subseteq Outside \X (1..MaxGeneration) /\ w.values \subseteq Values

\* In registration order.
Lanes == 1..LaneCount

VARIABLES
  workload,
  table,  \* entities
  stores, \* the store of each component
  lanes,  \* the records of each lane
  fate,   \* history: what became of each entity
  truth,  \* history: the components of each entity and their values
  base    \* history: truth as of the last end of a window

world == <<table, stores>>
history == <<fate, truth, base>>
vars == <<workload, world, lanes, history>>

\* Early is a reservation taken before the world observed: no window's end
\* takes it back.
Fates == {"none", "early", "waiting", "alive", "ended", "burned"}

record(op, e, c, v) == [op |-> op, entity |-> e, component |-> c, value |-> v]
Records ==
  {record(op, e, c, v) : op \in {"Add", "Set"}, e \in Entities, c \in Components, v \in Values}
  \cup {record("Remove", e, c, Unset) : e \in Entities, c \in Components}
  \cup {record(op, e, c, Unset) : op \in {"Spawn", "Despawn"}, e \in Entities,
                                  c \in {CHOOSE c \in Components : TRUE}}
nothing == [c \in Components |-> Unset]

Init ==
  /\ workload \in Workloads
  /\ table = emptyTable
  /\ stores \in [Components -> {emptyStore(o) : o \in {"unobserved", "observerWaiting"}}]
  /\ lanes = [l \in Lanes |-> <<>>]
  /\ fate = [e \in Entities |-> "none"]
  /\ truth = [e \in Entities |-> nothing]
  /\ base = truth

\* The world with its history, which an operation of the world is a map of.
state == [table |-> table, stores |-> stores, fate |-> fate, truth |-> truth]
becomes(w) ==
  table' = w.table /\ stores' = w.stores /\ fate' = w.fate /\ truth' = w.truth

\* worldResource.put and the value it is given; e is alive.
put(w, e, c, v) ==
  LET s == w.stores[c]
  IN  [w EXCEPT !.stores[c] = IF has(s, e) THEN write(s, e, v) ELSE add(s, e, v),
                !.table = IF has(s, e) THEN @ ELSE setComponent(@, e, c),
                !.truth[e][c] = v]

\* worldResource.remove; e has a row.
removeRow(w, e, c) ==
  [w EXCEPT !.stores[c] = remove(@, e),
            !.table = unsetComponent(@, e, c),
            !.truth[e][c] = Unset]

\* worldResource.despawn; e is alive.
despawnEntity(w, e) ==
  [w EXCEPT !.table = despawn(@, e),
            !.stores = [c \in Components |->
                          IF c \in w.table.mask[index(e)] THEN remove(@[c], e) ELSE @[c]],
            !.truth[e] = nothing,
            !.fate[e] = "ended"]

\* The bounds on what is handed out.
mayHandOut(e) ==
  /\ generation(e) <= MaxGeneration
  /\ e # NoEntity => Cardinality({d \in Entities : index(d) \in InRange /\ fate[d] # "none"})
                       < workload.entities

spawned(w, e) == [w EXCEPT !.table = spawnReserved(@, e), !.fate[e] = "alive"]

----------------------------------------------------------------------------
(* Under the barrier.                                                      *)

Spawn ==
  LET r == spawn(table)
  IN  /\ workload.direct
      /\ mayHandOut(r.entity)
      /\ r.table.count <= MaxReservations
      /\ table' = r.table
      /\ fate' = IF r.entity = NoEntity THEN fate ELSE [fate EXCEPT ![r.entity] = "alive"]
      /\ UNCHANGED <<workload, stores, lanes, truth, base>>

CreateAt(e) ==
  /\ e \in workload.mirrors
  /\ placeable(table, e)
  /\ table' = setAlive(table, e)
  /\ fate' = [fate EXCEPT ![e] = "alive"]
  /\ UNCHANGED <<workload, stores, lanes, truth, base>>

Despawn(e) ==
  /\ workload.direct
  /\ alive(table, e)
  /\ becomes(despawnEntity(state, e))
  /\ UNCHANGED <<workload, lanes, base>>

\* Add, and Write of a component it has; the two differ in what they do for
\* an entity without one.
Add(e, c, v) ==
  /\ workload.direct /\ v \in workload.values
  /\ alive(table, e)
  /\ becomes(put(state, e, c, v))
  /\ UNCHANGED <<workload, lanes, base>>

RemoveComponent(e, c) ==
  /\ workload.direct
  /\ has(stores[c], e)
  /\ becomes(removeRow(state, e, c))
  /\ UNCHANGED <<workload, lanes, base>>

\* worldResource.resetObservation, run by ObservationResetSystem and by the
\* Shrink of a world that observes.
ResetObservation ==
  /\ table' = endWindow(table)
  /\ stores' = [c \in Components |->
                  IF table.observing THEN resetObservation(stores[c])
                  ELSE startObservation(stores[c])]
  /\ fate' = [e \in Entities |->
                IF table.observing /\ fate[e] = "waiting" THEN "burned" ELSE fate[e]]
  /\ base' = IF table.observing THEN truth ELSE base
  /\ UNCHANGED <<workload, lanes, truth>>

----------------------------------------------------------------------------
(* The command buffer.                                                     *)

Reserve ==
  LET r == reserve(table)
  IN  /\ mayHandOut(r.entity)
      /\ r.table.count <= MaxReservations
      /\ table' = r.table
      /\ fate' = IF r.entity = NoEntity THEN fate
                 ELSE [fate EXCEPT ![r.entity] = IF table.observing THEN "waiting" ELSE "early"]
      /\ UNCHANGED <<workload, stores, lanes, truth, base>>

\* A system names entities it was given, stale ones among them.
known(e) == fate[e] # "none"
recorded == FoldLeft(LAMBDA n, l : n + Len(lanes[l]), 0, [l \in Lanes |-> l])

Record(l, r) ==
  /\ recorded < workload.records
  /\ known(r.entity)
  /\ r.op \in workload.operations /\ r.value \in workload.values \cup {Unset}
  /\ r.op = "Spawn" => index(r.entity) \in InRange
  /\ lanes' = [lanes EXCEPT ![l] = Append(@, r)]
  /\ UNCHANGED <<workload, world, history>>

\* What the three passes of Commit and apply do with a record: nothing with
\* one that is dropped.
applySpawn(w, r) ==
  IF r.op = "Spawn" /\ reserved(w.table, r.entity) THEN spawned(w, r.entity) ELSE w
applyDespawn(w, r) ==
  IF r.op = "Despawn" /\ alive(w.table, r.entity) THEN despawnEntity(w, r.entity) ELSE w
apply(w, r) ==
  CASE r.op = "Add" /\ alive(w.table, r.entity) ->
         put(w, r.entity, r.component, r.value)
    [] r.op = "Set" /\ alive(w.table, r.entity) /\ has(w.stores[r.component], r.entity) ->
         put(w, r.entity, r.component, r.value)
    [] r.op = "Remove" /\ alive(w.table, r.entity) /\ has(w.stores[r.component], r.entity) ->
         removeRow(w, r.entity, r.component)
    [] OTHER -> w
visit(w, x) ==
  CASE x.pass = "spawns" -> applySpawn(w, x.record)
    [] x.pass = "despawns" -> applyDespawn(w, x.record)
    [] OTHER -> apply(w, x.record)

inLaneOrder == FlattenSeq([l \in Lanes |-> lanes[l]])
pass(name, q) == [n \in DOMAIN q |-> [pass |-> name, record |-> q[n]]]
passes(q) == pass("spawns", q) \o pass("despawns", q) \o pass("writes", q)
\* Mutant: the three passes made lane by lane.
commit_laneByLane == FoldLeft(LAMBDA w, q : FoldLeft(visit, w, passes(q)), state, lanes)
commit == FoldLeft(visit, state, passes(inLaneOrder))
Commit ==
  /\ recorded > 0
  /\ becomes(commit)
  /\ lanes' = [l \in Lanes |-> <<>>]
  /\ UNCHANGED <<workload, base>>

Next ==
  \/ Spawn \/ Reserve \/ ResetObservation \/ Commit
  \/ \E e \in Entities : CreateAt(e) \/ Despawn(e)
  \/ \E e \in Entities, c \in Components : RemoveComponent(e, c)
  \/ \E e \in Entities, c \in Components, v \in Values : Add(e, c, v)
  \/ \E l \in Lanes, r \in Records : Record(l, r)

Spec == Init /\ [][Next]_vars

----------------------------------------------------------------------------
(* Properties.                                                             *)

TypeOK ==
  /\ table.live \in [Indices -> 0..MaxGeneration]
  /\ table.last \in [Indices -> 0..MaxGeneration]
  /\ table.mask \in [Indices -> SUBSET Components]
  /\ table.free \in Seq(InRange \X (1..MaxGeneration + 1))
  /\ table.count \in 0..MaxReservations
  /\ table.fresh \in FirstIndex..LastIndex + 1
  /\ table.observing \in BOOLEAN
  /\ table.despawned \in Seq(Indices) /\ table.outside \subseteq Outside
  /\ \A c \in Components :
       /\ stores[c].observation \in {"unobserved", "observerWaiting", "observed"}
       /\ stores[c].rows \in Seq([owner : Entities, value : Values,
                                  shadow : Values \cup {Unset}, state : States])
       /\ stores[c].liveRows \in 0..Len(stores[c].rows)
       /\ stores[c].rowByIndex \in [Indices -> 0..Len(stores[c].rows)]
       /\ stores[c].changed \in Seq(Entities) /\ stores[c].overflowed \in BOOLEAN
  /\ lanes \in [Lanes -> Seq(Records)]
  /\ fate \in [Entities -> Fates]
  /\ truth \in [Entities -> [Components -> Values \cup {Unset}]]
  /\ base \in [Entities -> [Components -> Values \cup {Unset}]]

\* Of the entities handed out, exactly those still waiting for their commit
\* would be accepted by it, however late: one taken back at the end of its
\* window, spawned already or despawned since never comes alive, and one
\* taken before the world observed is never lost (spawnReserved, burn).
ReservationsHonoured ==
  \A e \in Entities :
    /\ index(e) \in InRange /\ known(e) =>
         (reserved(table, e) <=> fate[e] \in {"early", "waiting"})
    /\ alive(table, e) <=> fate[e] = "alive"

\* Every index of the allocation range is in exactly one place: never handed
\* out, free once, the place of a waiting reservation, alive, or despawned in
\* this window (reserve, settleReservations, despawn, endWindow).
occurrences(q, Is(_)) == Cardinality({n \in DOMAIN q : Is(q[n])})
IndicesAccounted ==
  /\ \A i \in InRange :
       (IF i >= table.fresh + takenFresh(table) THEN 1 ELSE 0)
       + occurrences(untaken(table), LAMBDA e : index(e) = i)
       + Cardinality({e \in Entities : index(e) = i /\ fate[e] \in {"early", "waiting"}})
       + (IF table.live[i] # 0 THEN 1 ELSE 0)
       + occurrences(table.despawned, LAMBDA d : d = i) = 1
  /\ \A d \in ToSet(table.despawned) : table.live[d] = 0

\* The swaps of rows lose and confuse nothing: each entity finds the value it
\* was last given, by its index, it has the components its mask names, and a
\* live row belongs to a live entity (storeResource.add, remove, swap).
ValuesKept ==
  \A c \in Components :
    LET s == stores[c]
    IN  /\ \A e \in Entities :
             /\ has(s, e) <=> truth[e][c] # Unset
             /\ has(s, e) => /\ s.rows[linked(s, e)].value = truth[e][c]
                             /\ alive(table, e)
             /\ alive(table, e) => (c \in table.mask[index(e)] <=> has(s, e))
        /\ \A r \in 1..s.liveRows : linked(s, s.rows[r].owner) = r

\* The rows a delta query walks tell, once each, exactly how the store differs
\* from what it was at the last end of a window, however often an entity was
\* changed, removed, added again or despawned since, and whether or not the
\* listing stopped; the shadow is the value it had (delta, walkedRows).
differs(e, c) ==
  IF base[e][c] = truth[e][c] THEN "None"
  ELSE CASE base[e][c] = Unset -> "Added"
         [] truth[e][c] = Unset -> "Removed"
         [] OTHER -> "Changed"
DeltasExact ==
  \A c \in Components : stores[c].observation = "observed" =>
    LET s == stores[c]
        visits == walked(s)
        told == {r \in ToSet(visits) : delta(s.rows[r]) # "None"}
    IN  /\ IsInjective(visits)
        /\ \A e \in Entities :
             {delta(s.rows[r]) : r \in {t \in told : s.rows[t].owner = e}}
               = {differs(e, c)} \ {"None"}
        /\ \A r \in told : /\ \A t \in told : s.rows[t].owner = s.rows[r].owner => t = r
                           /\ delta(s.rows[r]) # "Added" =>
                                s.rows[r].shadow = base[s.rows[r].owner][c]

\* A commit is what its lanes say, in whatever lanes the records of an entity
\* are: a reservation it spawns lives unless it is despawned in the same
\* commit, and then its last record decides what an entity has (Commit).
outcome(e, c) ==
  LET q == SelectSeq(inLaneOrder, LAMBDA r :
             /\ r.entity = e /\ r.component = c /\ r.op \in {"Add", "Set", "Remove"})
      given == {n \in DOMAIN q : q[n].op # "Set"}
      set == IF given = {} THEN truth[e][c]
             ELSE q[Max(given)].value
  IN  IF set = Unset \/ q = <<>> THEN set ELSE q[Len(q)].value
CommitInOrder ==
  [][Commit => \A e \in Entities :
       LET says(op) == \E r \in ToSet(inLaneOrder) : r.entity = e /\ r.op = op
           comes == \/ fate[e] = "alive"
                    \/ fate[e] \in {"early", "waiting"} /\ says("Spawn")
       IN  /\ (fate'[e] = "alive") <=> comes /\ ~says("Despawn")
           /\ fate'[e] = "alive" => \A c \in Components : truth'[e][c] = outcome(e, c)]_vars
=============================================================================
