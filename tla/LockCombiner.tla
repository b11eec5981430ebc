---------------------------- MODULE LockCombiner ----------------------------
(***************************************************************************)
(* The kernel's lock combiner (kernel/combiner.go, kernel/lockstate.go).   *)
(*                                                                         *)
(* A goroutine that lets a job arrive, or releases a finished job's locks, *)
(* queues the request and then tries to become the combiner; only the      *)
(* holder of the mutex touches the lock state and the waiting list, and    *)
(* nobody ever waits for the mutex.  A goroutine steps through combine one *)
(* shared access at a time; work on state that only the combiner touches   *)
(* is one step per request.                                                *)
(*                                                                         *)
(* A job stands for one use of a job slot with a task: the code queues the *)
(* slot and the task, of which the combiner reads only the task's masks.   *)
(* A job may arrive again once its release was unlocked, so behaviours     *)
(* are unbounded although the state is finite.                             *)
(***************************************************************************)
EXTENDS Integers, Sequences, FiniteSets

CONSTANTS
  Goroutines, \* workers and publishers that call into the combiner
  Jobs,       \* jobs of the kernel
  Resources,  \* the kernel's resources, one bit of every mask each
  Reads,      \* Reads[j]: the read mask of job j's task
  Writes,     \* Writes[j]: its write mask
  NoGoroutine \* the owner of the free mutex

ASSUME CombinerAssumption ==
  /\ NoGoroutine \notin Goroutines
  /\ IsFiniteSet(Jobs)
  /\ Reads \in [Jobs -> SUBSET Resources]
  /\ Writes \in [Jobs -> SUBSET Resources]
  /\ \A j \in Jobs : Reads[j] \cap Writes[j] = {}

VARIABLES
  arrivals,  \* jobs that arrived and lock something, for the combiner to drain
  releases,  \* finished jobs whose locks are not unlocked yet, likewise
  mutex,     \* the goroutine that is the combiner, or NoGoroutine
  released,  \* the combiner's buffer of drained releases not unlocked yet
  waiting,   \* jobs whose locks are not free yet, oldest first; during a
             \* pass, those the pass has not looked at
  kept,      \* stillWaiting of the running pass, oldest first
  writeHeld, \* resources a running job writes
  readHeld,  \* resources at least one running job reads
  readers,   \* how many running jobs read each resource
  reserved,  \* resources a waiting writer is next for
  ready,     \* jobs handed to the runner that have not finished
  pc,        \* where each goroutine is
  ahead      \* history: for each job that asks for its locks, the jobs that
             \* arrived before it and still ask

queues == <<arrivals, releases>>
lockState == <<writeHeld, readHeld, readers, reserved>>
pass == <<released, waiting, kept>>
vars == <<queues, mutex, pass, lockState, ready, pc, ahead>>

Entries(s) == {s[i] : i \in 1..Len(s)}

Pending == Entries(arrivals) \cup Entries(waiting) \cup Entries(kept)
Unreleased == Entries(releases) \cup Entries(released)

\* The jobs whose locks the lock state has to show as held.
Holders == ready \cup Unreleased

LocksNothing(j) == Reads[j] \cup Writes[j] = {}

Critical == {"drainReleases", "unlock", "scan"}

goto(g, label) == pc' = [pc EXCEPT ![g] = label]

Init ==
  /\ arrivals = <<>> /\ releases = <<>>
  /\ mutex = NoGoroutine
  /\ released = <<>> /\ waiting = <<>> /\ kept = <<>>
  /\ writeHeld = {} /\ readHeld = {}
  /\ readers = [r \in Resources |-> 0]
  /\ reserved = {}
  /\ ready = {}
  /\ pc = [g \in Goroutines |-> "idle"]
  /\ ahead = [j \in Jobs |-> {}]

-----------------------------------------------------------------------------
(* lockState *)

\* Mutated: readers do not keep writers out.
canLock_IgnoresReaders(j) ==
  (writeHeld \cup reserved) \cap (Reads[j] \cup Writes[j]) = {}

canLock(j) ==
  /\ (writeHeld \cup reserved) \cap (Reads[j] \cup Writes[j]) = {}
  /\ readHeld \cap Writes[j] = {}

\* Mutated: the reader counts are not raised.
lock_CountsNoReader(j) ==
  /\ writeHeld' = writeHeld \cup Writes[j]
  /\ readHeld' = readHeld \cup Reads[j]
  /\ UNCHANGED readers

lock(j) ==
  /\ writeHeld' = writeHeld \cup Writes[j]
  /\ readHeld' = readHeld \cup Reads[j]
  /\ readers' = [r \in Resources |->
                   IF r \in Reads[j] THEN readers[r] + 1 ELSE readers[r]]

\* Mutated: the first reader to finish clears the bit.
unlock_FirstReader(j) ==
  /\ writeHeld' = writeHeld \ Writes[j]
  /\ readers' = [r \in Resources |->
                   IF r \in Reads[j] THEN readers[r] - 1 ELSE readers[r]]
  /\ readHeld' = readHeld \ Reads[j]

unlock(j) ==
  /\ writeHeld' = writeHeld \ Writes[j]
  /\ readers' = [r \in Resources |->
                   IF r \in Reads[j] THEN readers[r] - 1 ELSE readers[r]]
  /\ readHeld' = readHeld \ {r \in Reads[j] : readers[r] - 1 = 0}

\* Mutated: a waiting writer reserves nothing.
reserve_Nothing(j) == UNCHANGED reserved

reserve(j) == reserved' = reserved \cup Writes[j]

\* Mutated: the reservations of the pass before stay.
clearReservations_Skipped == UNCHANGED reserved

clearReservations == reserved' = {}

-----------------------------------------------------------------------------
(* arrive, release *)

\* A job whose dependencies have all finished asks for its locks.
Arrive(g, j) ==
  /\ pc[g] = "idle"
  /\ j \notin Pending \cup Unreleased \cup ready
  /\ \/ /\ LocksNothing(j)
        /\ ready' = ready \cup {j}
        /\ UNCHANGED <<arrivals, pc, ahead>>
     \/ /\ ~LocksNothing(j)
        /\ arrivals' = Append(arrivals, j)
        /\ ahead' = [ahead EXCEPT ![j] = Pending]
        /\ goto(g, "tryLock")
        /\ UNCHANGED ready
  /\ UNCHANGED <<releases, mutex, pass, lockState>>

\* A job has run to its end and gives its locks back.
Release(g, j) ==
  /\ pc[g] = "idle"
  /\ j \in ready
  /\ ready' = ready \ {j}
  /\ \/ /\ LocksNothing(j)
        /\ UNCHANGED <<releases, pc>>
     \/ /\ ~LocksNothing(j)
        /\ releases' = Append(releases, j)
        /\ goto(g, "tryLock")
  /\ UNCHANGED <<arrivals, mutex, pass, lockState, ahead>>

-----------------------------------------------------------------------------
(* combine *)

TryLock(g) ==
  /\ pc[g] = "tryLock"
  /\ \/ /\ mutex = NoGoroutine
        /\ mutex' = g
        /\ goto(g, "drainReleases")
     \/ /\ mutex # NoGoroutine
        /\ goto(g, "idle")
        /\ UNCHANGED mutex
  /\ UNCHANGED <<queues, pass, lockState, ready, ahead>>

DrainReleases(g) ==
  /\ pc[g] = "drainReleases"
  /\ released' = releases
  /\ releases' = <<>>
  /\ goto(g, "unlock")
  /\ UNCHANGED <<arrivals, mutex, waiting, kept, lockState, ready,
                 ahead>>

UnlockNext(g) ==
  /\ pc[g] = "unlock"
  /\ released # <<>>
  /\ unlock(Head(released))
  /\ released' = Tail(released)
  /\ UNCHANGED <<queues, mutex, waiting, kept, reserved, ready, pc,
                 ahead>>

\* Drain the arrivals behind the waiting jobs and start a pass.
DrainArrivals(g) ==
  /\ pc[g] = "unlock"
  /\ released = <<>>
  /\ waiting' = waiting \o arrivals
  /\ arrivals' = <<>>
  /\ clearReservations
  /\ goto(g, "scan")
  /\ UNCHANGED <<releases, mutex, released, kept, writeHeld, readHeld,
                 readers, ready, ahead>>

\* The pass hands its oldest request to the runner, its locks now held.
GrantNext(g) ==
  /\ pc[g] = "scan"
  /\ waiting # <<>>
  /\ LET j == Head(waiting) IN
       /\ canLock(j)
       /\ lock(j)
       /\ ready' = ready \cup {j}
       /\ ahead' = [k \in Jobs |-> IF k = j THEN {} ELSE ahead[k] \ {j}]
  /\ waiting' = Tail(waiting)
  /\ UNCHANGED <<queues, mutex, released, kept, reserved, pc>>

\* The pass keeps its oldest request waiting and reserves what it writes.
KeepNext(g) ==
  /\ pc[g] = "scan"
  /\ waiting # <<>>
  /\ LET j == Head(waiting) IN
       /\ ~canLock(j)
       /\ reserve(j)
       /\ kept' = Append(kept, j)
  /\ waiting' = Tail(waiting)
  /\ UNCHANGED <<queues, mutex, released, writeHeld, readHeld, readers,
                 ready, pc, ahead>>

Unlock(g) ==
  /\ pc[g] = "scan"
  /\ waiting = <<>>
  /\ waiting' = kept
  /\ kept' = <<>>
  /\ mutex' = NoGoroutine
  /\ goto(g, "lookReleases")
  /\ UNCHANGED <<queues, released, lockState, ready, ahead>>

\* Mutated: with no release queued the arrivals are not looked at.
LookReleases_Only(g) ==
  /\ pc[g] = "lookReleases"
  /\ goto(g, IF releases = <<>> THEN "idle" ELSE "tryLock")
  /\ UNCHANGED <<queues, mutex, pass, lockState, ready, ahead>>

\* Look again before giving up: first at the releases, then, if there are
\* none, at the arrivals.
LookReleases(g) ==
  /\ pc[g] = "lookReleases"
  /\ goto(g, IF releases = <<>> THEN "lookArrivals" ELSE "tryLock")
  /\ UNCHANGED <<queues, mutex, pass, lockState, ready, ahead>>

LookArrivals(g) ==
  /\ pc[g] = "lookArrivals"
  /\ goto(g, IF arrivals = <<>> THEN "idle" ELSE "tryLock")
  /\ UNCHANGED <<queues, mutex, pass, lockState, ready, ahead>>

combine(g) ==
  \/ TryLock(g)
  \/ DrainReleases(g)
  \/ UnlockNext(g)
  \/ DrainArrivals(g)
  \/ GrantNext(g)
  \/ KeepNext(g)
  \/ Unlock(g)
  \/ LookReleases(g)
  \/ LookArrivals(g)

Next ==
  \E g \in Goroutines :
    \/ combine(g)
    \/ \E j \in Jobs : Arrive(g, j) \/ Release(g, j)

Spec == Init /\ [][Next]_vars

\* Go schedules every runnable goroutine, so each goes on with its combine.
\* Every ready job is taken by a worker, first in first out, and its body
\* returns, but only while some goroutine is free to run it: strong fairness.
\* Nothing makes jobs arrive.
Fairness ==
  /\ \A g \in Goroutines : WF_vars(combine(g))
  /\ \A j \in Jobs : SF_vars(\E g \in Goroutines : Release(g, j))

FairSpec == Spec /\ Fairness

-----------------------------------------------------------------------------
(* Properties *)

Labels == Critical \cup {"idle", "tryLock", "lookReleases", "lookArrivals"}

\* Every variable keeps its type.
TypeOK ==
  /\ arrivals \in Seq(Jobs) /\ releases \in Seq(Jobs)
  /\ mutex \in Goroutines \cup {NoGoroutine}
  /\ released \in Seq(Jobs) /\ waiting \in Seq(Jobs) /\ kept \in Seq(Jobs)
  /\ writeHeld \in SUBSET Resources /\ readHeld \in SUBSET Resources
  /\ readers \in [Resources -> Nat]
  /\ reserved \in SUBSET Resources
  /\ ready \in SUBSET Jobs
  /\ pc \in [Goroutines -> Labels]
  /\ ahead \in [Jobs -> SUBSET Jobs]

Conflict(j, k) ==
  \/ Writes[j] \cap (Reads[k] \cup Writes[k]) # {}
  \/ Writes[k] \cap (Reads[j] \cup Writes[j]) # {}

\* "Jobs whose locks conflict run one at a time" (TaskBody): no two jobs
\* handed to the runner conflict, and neither does a job handed over with one
\* whose release is still queued.
MutualExclusion ==
  \A j, k \in Holders : j # k => ~Conflict(j, k)

\* The lock state says exactly what the jobs that hold locks hold: a bit
\* cleared too early would let a conflicting job in, one left behind would
\* block the resource for ever.  The bit of a read resource and the count of
\* its readers never part.
LockStateExact ==
  /\ writeHeld = UNION {Writes[j] : j \in Holders}
  /\ readHeld = UNION {Reads[j] : j \in Holders}
  /\ \A r \in Resources :
       readers[r] = Cardinality({j \in Holders : r \in Reads[j]})

\* "A request queued while it was busy, by a goroutine that then failed to
\* become combiner, is never left behind" (combine): whenever something is
\* queued, some goroutine is still going to look at that queue.
NoRequestLeftBehind ==
  /\ releases # <<>> =>
       \E g \in Goroutines :
         pc[g] \in Critical \cup {"tryLock", "lookReleases"}
  /\ arrivals # <<>> => \E g \in Goroutines : pc[g] # "idle"

\* Once every goroutine has left the combiner, each waiting job is blocked by
\* a job that holds its locks or by what an older waiting job reserved, so a
\* release is still to come that will look at it again.
QuietWaitersAreBlocked ==
  (\A g \in Goroutines : pc[g] = "idle") =>
    \A i \in 1..Len(waiting) :
      \/ \E k \in ready : Conflict(waiting[i], k)
      \/ /\ \E h \in 1..(i - 1) :
              Writes[waiting[h]] \cap
                (Reads[waiting[i]] \cup Writes[waiting[i]]) # {}
         /\ ready # {}

\* "A waiting writer reserves what it writes, so no job that arrived after it
\* locks that first" (lockCombiner), whichever passes and combiners the two
\* went through.
WriterNotOvertaken ==
  [][\A k \in ready' \ ready, j \in Jobs :
       j \in ahead[k] => Writes[j] \cap (Reads[k] \cup Writes[k]) = {}]_vars

\* "Jobs whose locks conflict are granted one at a time, oldest first"
\* (lockCombiner), read literally: no job is granted its locks while one that
\* arrived before it, and conflicts with it, still waits.
ConflictsGrantedOldestFirst ==
  [][\A k \in ready' \ ready, j \in Jobs :
       j \in ahead[k] => ~Conflict(j, k)]_vars

\* The combiner implements the abstract lock service.
Locks == INSTANCE ResourceLocks WITH asking <- Pending, holding <- ready

ImplementsResourceLocks == Locks!Spec

\* Every job that asks for its locks is granted them in the end, as long as
\* no job reads more than one resource that others write.
EveryRequestGranted == \A j \in Jobs : j \in Pending ~> j \in ready

=============================================================================
