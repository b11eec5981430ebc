---------------------------- MODULE RunnerProofs ----------------------------
(***************************************************************************)
(* Proofs about Runner, for any number of workers and publishers and for   *)
(* any jobs, batches and dependencies between the jobs of a batch.         *)
(***************************************************************************)
EXTENDS Runner, SequenceTheorems, FiniteSetTheorems, TLAPS

-----------------------------------------------------------------------------
(* The inductive invariant of the drain *)

Handing == {"hand", "wakeWorker", "wakeMain"}
Settling == {"check", "submit", "settle"} \cup Handing
Parking == {"pop", "countIdle", "look", "park", "uncount", "ended", "wait", "tick"}
Labels == Settling \cup Parking \cup {"last", "body", "rest"}

\* Where a job is: not counted yet, waiting for the job it depends on, in a
\* queue, about to be made ready, run by a goroutine, or settled.
Places == {"none", "waiting", "ready", "pinned", "batch", "hand", "run", "settled"}

Types ==
  /\ at \in [Goroutines -> Labels]
  /\ job \in [Goroutines -> Jobs \cup {NoJob}]
  /\ hand \in [Goroutines -> SUBSET Jobs]
  /\ outstanding \in Int
  /\ finished \in SUBSET Jobs

\* What a goroutine has while it is somewhere.
Control(g) ==
  /\ g \in Publishers => at[g] \in Settling \cup {"rest", "last"} /\ job[g] = NoJob
  /\ at[g] = "rest" => g \in Publishers
  /\ at[g] \in Settling => g \in Publishers \/ job[g] \in Jobs
  /\ at[g] = "last" => g \in Publishers \/ job[g] \in finished
  /\ at[g] = "body" => job[g] \in Jobs \ finished
  /\ at[g] \in {"check", "submit"} =>
       job[g] \notin finished /\ publisher(g) \in DOMAIN Batch \cap published
  /\ at[g] \in Parking => job[g] = NoJob
  /\ at[g] \notin Handing => hand[g] = {}

\* Queue q holds each of its jobs once, and they are at place p.
Holds(q, loc, p) ==
  /\ q \in Seq(Jobs)
  /\ IsInjective(q)
  /\ \A j \in ToSet(q) : loc[j] = p

\* The publications running, and the jobs counted and not settled.
Publications == {g \in Goroutines : at[g] \in Settling /\ job[g] \notin finished}
Counted(loc) == {j \in Jobs : loc[j] \notin {"none", "settled"}}

\* The batch that x publishes has not been submitted.
Unsubmitted(x) ==
  \/ x \notin published
  \/ \E g \in Goroutines : at[g] \in {"check", "submit"} /\ publisher(g) = x

\* Every job is at one place.
Queued(loc) ==
  Holds(ready, loc, "ready") /\ Holds(pinned, loc, "pinned") /\ Holds(batch, loc, "batch")

Handed(loc) ==
  /\ \A g \in Goroutines : \A j \in hand[g] : loc[j] = "hand"
  /\ \A g, h \in Goroutines : g # h => hand[g] \cap hand[h] = {}

Run(loc) ==
  /\ \A g \in Goroutines :
       job[g] \in Jobs => loc[job[g]] = IF at[g] = "last" THEN "settled" ELSE "run"
  /\ \A g, h \in Goroutines : job[g] \in Jobs /\ job[g] = job[h] => g = h
  /\ \A j \in finished : loc[j] \in {"run", "settled"}

\* A job waits while the job it depends on is not finished, and none of a
\* batch is anywhere before the batch is submitted.
Waiting(loc) ==
  /\ \A j \in Jobs : DependsOn[j] \in Jobs \ finished /\ loc[DependsOn[j]] # "none"
                       => loc[j] = "waiting"
  /\ \A x \in DOMAIN Batch : Unsubmitted(x) => \A j \in ToSet(Batch[x]) : loc[j] = "none"

\* outstanding counts the jobs not settled and the publications running.
Counts(loc) ==
  /\ IsFiniteSet(Counted(loc))
  /\ outstanding = Cardinality(Counted(loc)) + Cardinality(Publications)

Busy == {"submit", "body"} \cup Handing

\* Nothing is left to run or to submit.
Quiet(loc) ==
  /\ Counted(loc) = {}
  /\ \A g \in Goroutines : at[g] \notin Busy

\* Unless a publication crossed it, nothing is outstanding while the last one
\* out has not looked, and nothing is left once drain is, or was, let go.
Drains(loc) ==
  /\ closed <=> drain # "running"
  /\ drained => closed
  /\ ~crossed /\ (\E g \in Goroutines : at[g] = "last") => outstanding = 0
  /\ ~crossed /\ (drained \/ drain \in {"finished", "stopping", "done"}) => Quiet(loc)

Located(loc) ==
  /\ Queued(loc) /\ Handed(loc) /\ Run(loc) /\ Waiting(loc) /\ Counts(loc)
  /\ Drains(loc)

IInv ==
  /\ Types
  /\ \A g \in Goroutines : Control(g)
  /\ \E loc \in [Jobs -> Places] : Located(loc)

-----------------------------------------------------------------------------
(* The inductive invariant of the parking *)

\* The workers that are counted idle.
Idling == {"look", "park", "uncount", "ended"}
IdleWorkers == {w \in Workers : at[w] \in Idling}

\* A ready job has a worker that will look, a token, or a goroutine that will
\* put one in; and a pinned one the main thread.
WorkerWoken ==
  ready # <<>> /\ wake = 0 => \/ \E w \in Workers : at[w] # "park"
                             \/ \E g \in Goroutines : at[g] = "wakeWorker"

MainWoken ==
  pinned # <<>> /\ at[Main] = "wait" /\ ~mainWake
    => \E g \in Goroutines : at[g] = "wakeMain"

PInv ==
  /\ at \in [Goroutines -> Labels]
  /\ wake \in Nat
  /\ idle = Cardinality(IdleWorkers)
  /\ WorkerWoken
  /\ MainWoken

-----------------------------------------------------------------------------
(* Queues, and the places of the jobs in them *)

\* An empty queue holds what is at any place.
LEMMA HoldsNone ==
  ASSUME NEW loc, NEW p
  PROVE  Holds(<<>>, loc, p)
BY DEF Holds, IsInjective, ToSet

\* A queue holds its jobs at the place they have moved to.
LEMMA HoldsKept ==
  ASSUME NEW q, NEW loc, NEW moved, NEW p, NEW r, Holds(q, loc, p),
         \A j \in Jobs : loc[j] = p => moved[j] = r
  PROVE  Holds(q, moved, r)
<1>1. ToSet(q) \subseteq Jobs
  BY DEF Holds, ToSet
<1> QED BY <1>1 DEF Holds

\* A queue is empty when no job is at its place.
LEMMA HoldsEmpty ==
  ASSUME NEW q, NEW loc, NEW p, Holds(q, loc, p), \A j \in Jobs : loc[j] # p
  PROVE  q = <<>>
<1> SUFFICES ASSUME q # <<>> PROVE FALSE
  OBVIOUS
<1>1. q \in Seq(Jobs) /\ Len(q) >= 1
  BY EmptySeq DEF Holds
<1>2. q[1] \in Jobs /\ q[1] \in ToSet(q)
  BY <1>1 DEF ToSet
<1> QED BY <1>2 DEF Holds

\* A job moves to the end of a queue (Queue.Push).
LEMMA HoldsAppend ==
  ASSUME NEW q, NEW loc \in [Jobs -> Places], NEW p \in Places, NEW j \in Jobs,
         Holds(q, loc, p), loc[j] # p
  PROVE  Holds(Append(q, j), [loc EXCEPT ![j] = p], p)
<1> DEFINE s == Append(q, j)
           moved == [loc EXCEPT ![j] = p]
<1>1. q \in Seq(Jobs) /\ Len(q) \in Nat /\ DOMAIN q = 1..Len(q)
  BY DEF Holds
<1>2. /\ s \in Seq(Jobs) /\ Len(s) = Len(q) + 1 /\ DOMAIN s = 1..(Len(q) + 1)
      /\ \A i \in 1..Len(q) : s[i] = q[i]
      /\ s[Len(q) + 1] = j
  BY <1>1, AppendProperties
<1>3. \A i \in 1..Len(q) : q[i] \in Jobs /\ loc[q[i]] = p
  BY <1>1 DEF Holds, ToSet
<1>4. \A i \in 1..Len(q) : q[i] # j
  BY <1>3
<1> HIDE DEF s
<1>5. ASSUME NEW a \in DOMAIN s, NEW b \in DOMAIN s, s[a] = s[b] PROVE a = b
  <2>1. \A x, y \in 1..Len(q) : q[x] = q[y] => x = y
    BY <1>1 DEF Holds, IsInjective
  <2> QED BY <1>1, <1>2, <1>4, <1>5, <2>1
<1>6. \A x \in ToSet(s) : moved[x] = p
  BY <1>1, <1>2, <1>3 DEF ToSet
<1>7. Holds(s, moved, p)
  BY <1>2, <1>5, <1>6 DEF Holds, IsInjective
<1> QED BY <1>7 DEF s

\* The first job of a queue moves elsewhere (Queue.Pop).
LEMMA HoldsTail ==
  ASSUME NEW q, NEW loc \in [Jobs -> Places], NEW p \in Places, NEW r \in Places,
         Holds(q, loc, p), q # <<>>
  PROVE  /\ Head(q) \in Jobs /\ loc[Head(q)] = p
         /\ Holds(Tail(q), [loc EXCEPT ![Head(q)] = r], p)
<1> DEFINE s == Tail(q)
           moved == [loc EXCEPT ![Head(q)] = r]
<1>1. q \in Seq(Jobs) /\ Len(q) \in Nat /\ Len(q) >= 1 /\ DOMAIN q = 1..Len(q)
  BY EmptySeq DEF Holds
<1>2. /\ s \in Seq(Jobs) /\ Len(s) = Len(q) - 1 /\ DOMAIN s = 1..(Len(q) - 1)
      /\ \A i \in 1..Len(s) : s[i] = q[i + 1]
      /\ Head(q) = q[1]
  BY <1>1, HeadTailProperties
<1>3. \A i \in 1..Len(q) : q[i] \in Jobs /\ loc[q[i]] = p
  BY <1>1 DEF Holds, ToSet
<1>4. \A x, y \in 1..Len(q) : q[x] = q[y] => x = y
  BY <1>1 DEF Holds, IsInjective
<1> HIDE DEF s
<1>5. ASSUME NEW a \in DOMAIN s, NEW b \in DOMAIN s, s[a] = s[b] PROVE a = b
  BY <1>1, <1>2, <1>4, <1>5
<1>6. ASSUME NEW i \in DOMAIN s PROVE moved[s[i]] = p
  <2>1. i + 1 \in 1..Len(q) /\ i + 1 # 1 /\ s[i] = q[i + 1]
    BY <1>1, <1>2
  <2>2. q[i + 1] # Head(q) /\ q[i + 1] \in Jobs /\ loc[q[i + 1]] = p
    BY <1>1, <1>2, <1>3, <1>4, <2>1
  <2> QED BY <2>1, <2>2
<1>7. Holds(s, moved, p)
  BY <1>2, <1>5, <1>6 DEF Holds, IsInjective, ToSet
<1>8. Head(q) \in Jobs /\ loc[Head(q)] = p
  BY <1>1, <1>2, <1>3
<1> QED BY <1>7, <1>8 DEF s

\* As many jobs as a batch has places.
LEMMA BatchSize ==
  ASSUME NEW x \in DOMAIN Batch
  PROVE  /\ ToSet(Batch[x]) \subseteq Jobs
         /\ IsFiniteSet(ToSet(Batch[x]))
         /\ Cardinality(ToSet(Batch[x])) = Len(Batch[x])
<1> DEFINE q == Batch[x]
           B == ToSet(q)
<1>1. q \in Seq(Jobs) /\ IsInjective(q) /\ Len(q) \in Nat
  BY RunnerAssumption, DistinctAssumption
<1>2. DOMAIN q = 1..Len(q) /\ \A i \in 1..Len(q) : q[i] \in Jobs
  BY <1>1
<1>3. q \in [1..Len(q) -> B] /\ \A b \in B : \E i \in 1..Len(q) : q[i] = b
  BY <1>1, <1>2 DEF ToSet
<1>4. q \in Bijection(1..Len(q), B)
  BY <1>1, <1>2, <1>3 DEF Bijection, Injection, Surjection, IsInjective
<1>5. ExistsBijection(1..Len(q), B)
  BY <1>4 DEF ExistsBijection
<1>6. IsFiniteSet(B) /\ Cardinality(B) = Len(q)
  BY <1>1, <1>5, FS_NatBijection, FS_CountingElements
<1> QED BY <1>2, <1>3, <1>6 DEF ToSet

-----------------------------------------------------------------------------
(* What the invariant says of one state *)

\* There are finitely many goroutines, so they can be counted.
LEMMA GoroutinesFinite == IsFiniteSet(Goroutines)
BY RunnerAssumption, DistinctAssumption, FS_Union, FS_Singleton DEF Goroutines

\* So can the publications running be.
LEMMA PublicationsFinite ==
  IsFiniteSet(Publications) /\ Cardinality(Publications) \in Nat
<1>1. Publications \in SUBSET Goroutines
  BY DEF Publications
<1> QED BY <1>1, GoroutinesFinite, FS_Subset, FS_CardinalityType

\* Two goroutines never publish the same batch.
LEMMA OnePublisher ==
  ASSUME Types, NEW loc, Run(loc), NEW g \in Goroutines, NEW h \in Goroutines,
         publisher(g) = publisher(h)
  PROVE  g = h
BY RunnerAssumption, DistinctAssumption DEF Types, Run, publisher

\* A running publication and a job not settled are both counted.
LEMMA CountedPublication ==
  ASSUME NEW loc, Counts(loc), NEW g \in Publications
  PROVE  outstanding >= 1 /\ (Counted(loc) # {} => outstanding >= 2)
<1>1. /\ Cardinality(Counted(loc)) \in Nat /\ Cardinality(Publications) \in Nat
      /\ Cardinality(Publications) # 0
      /\ Counted(loc) # {} => Cardinality(Counted(loc)) # 0
  BY PublicationsFinite, FS_EmptySet, FS_CardinalityType DEF Counts
<1> QED BY <1>1 DEF Counts

\* While a job is counted, outstanding is not zero.
LEMMA CountedJob ==
  ASSUME NEW loc, Counts(loc), NEW j \in Counted(loc)
  PROVE  outstanding >= 1
<1>1. /\ Cardinality(Counted(loc)) \in Nat /\ Cardinality(Publications) \in Nat
      /\ Cardinality(Counted(loc)) # 0
  BY PublicationsFinite, FS_EmptySet, FS_CardinalityType DEF Counts
<1> QED BY <1>1 DEF Counts

\* If nothing is outstanding, nothing is left to run or to submit.
LEMMA NothingOutstanding ==
  ASSUME Types, \A g \in Goroutines : Control(g), NEW loc, Run(loc), Counts(loc),
         outstanding = 0
  PROVE  Quiet(loc)
<1>1. Counted(loc) = {}
  BY CountedJob
<1>2. Publications = {}
  BY CountedPublication
<1>3. ASSUME NEW g \in Goroutines PROVE at[g] \notin Busy
  <2>1. CASE job[g] \in finished
    <3>1. job[g] \in Jobs /\ (at[g] # "last" => loc[job[g]] = "run")
      BY <2>1 DEF Types, Run
    <3> QED BY <1>1, <3>1 DEF Counted, Busy, Handing
  <2>2. CASE job[g] \notin finished
    <3>1. at[g] \notin Settling
      BY <1>2, <2>2 DEF Publications
    <3>2. at[g] # "body"
      BY <1>1, RunnerAssumption DEF Control, Run, Counted
    <3> QED BY <3>1, <3>2 DEF Busy, Settling
  <2> QED BY <2>1, <2>2
<1> QED BY <1>1, <1>3 DEF Quiet

\* A goroutine that is about to settle a job or a publication has it counted.
LEMMA SettlingIsCounted ==
  ASSUME Types, NEW loc \in [Jobs -> Places], Run(loc), Counts(loc),
         NEW g \in Goroutines, at[g] \in Settling
  PROVE  outstanding >= 1
<1>1. CASE job[g] \in finished
  <2>1. job[g] \in Counted(loc)
    BY <1>1 DEF Types, Run, Counted, Settling, Handing
  <2> QED BY <2>1, CountedJob
<1>2. CASE job[g] \notin finished
  BY <1>2, CountedPublication DEF Publications
<1> QED BY <1>1, <1>2

-----------------------------------------------------------------------------
(* Steps that only move a goroutine *)

\* No job is anywhere before the first publication.
LEMMA InitIInv == Init => IInv
<1> SUFFICES ASSUME Init PROVE IInv
  OBVIOUS
<1> USE RunnerAssumption, DistinctAssumption
<1>1. Types
  BY DEF Init, Types, Labels, Parking
<1>2. ASSUME NEW g \in Goroutines PROVE Control(g)
  BY DEF Init, Control, Goroutines, Settling, Handing, Parking
<1> DEFINE loc == [j \in Jobs |-> "none"]
<1>3. loc \in [Jobs -> Places]
  BY DEF Places
<1>4. Queued(loc)
  BY HoldsNone DEF Init, Queued
<1>5. Handed(loc) /\ Run(loc) /\ Waiting(loc)
  <2>1. Handed(loc)
    BY DEF Init, Handed
  <2>2. Run(loc)
    BY DEF Init, Run
  <2>3. \A x \in DOMAIN Batch : ToSet(Batch[x]) \subseteq Jobs
    BY BatchSize
  <2>4. Waiting(loc)
    BY <2>3 DEF Waiting
  <2> QED BY <2>1, <2>2, <2>4
<1>6. Counted(loc) = {} /\ Publications = {}
  BY DEF Counted, Publications, Init, Settling, Handing
<1>7. Counts(loc)
  <2> HIDE DEF loc
  <2>1. IsFiniteSet(Counted(loc)) /\ Cardinality(Counted(loc)) = 0 /\ Cardinality(Publications) = 0
    BY <1>6, FS_EmptySet
  <2>2. outstanding = 0
    BY DEF Init
  <2> QED BY <2>1, <2>2 DEF Counts
<1>8. Drains(loc)
  BY DEF Init, Drains
<1>9. Located(loc)
  BY <1>4, <1>5, <1>7, <1>8 DEF Located
<1> QED BY <1>1, <1>2, <1>3, <1>9 DEF IInv

\* A step of g that takes no job and gives none away and settles nothing.
LEMMA GoroutineMoves ==
  ASSUME IInv, NEW g \in Goroutines, NEW label \in Labels, goto(g, label),
         UNCHANGED <<queues, draining, job, hand, past>>,
         label # "last", at[g] # "last",
         label \in Settling <=> at[g] \in Settling,
         label \in {"check", "submit"} => at[g] \in {"check", "submit"},
         closed /\ label \in Busy => at[g] \in Busy,
         at'[g] = label => Control(g)'
  PROVE  IInv'
<1>1. PICK loc \in [Jobs -> Places] : Located(loc)
  BY DEF IInv
<1>2. UNCHANGED <<ready, pinned, batch, stop, outstanding, closed, drained, drain, job,
                  hand, published, finished, crossed>>
  BY DEF queues, draining, past
<1>3. /\ at' \in [Goroutines -> Labels] /\ at'[g] = label
      /\ \A h \in Goroutines \ {g} : at'[h] = at[h]
  BY DEF IInv, Types, goto
<1>4. Types'
  BY <1>2, <1>3 DEF IInv, Types
<1>5. ASSUME NEW h \in Goroutines PROVE Control(h)'
  <2>1. CASE h = g
    BY <1>3, <2>1
  <2>2. CASE h # g
    <3>1. Control(h) /\ at'[h] = at[h]
      BY <1>3, <2>2 DEF IInv
    <3> QED BY <1>2, <3>1 DEF Control, publisher
  <2> QED BY <2>1, <2>2
<1>6. Queued(loc)' /\ Handed(loc)'
  BY <1>1, <1>2 DEF Located, Queued, Handed
<1>7. Run(loc)'
  BY <1>1, <1>2, <1>3 DEF Located, Run
<1>8. Waiting(loc)'
  <2>1. \A x : Unsubmitted(x)' => Unsubmitted(x)
    BY <1>2, <1>3 DEF Unsubmitted, publisher
  <2> QED BY <1>1, <1>2, <2>1 DEF Located, Waiting
<1>9. Counts(loc)'
  <2>1. Publications' = Publications
    BY <1>2, <1>3 DEF Publications
  <2> QED BY <1>1, <1>2, <2>1 DEF Located, Counts, Counted
<1>10. Drains(loc)'
  <2>1. (\E h \in Goroutines : at'[h] = "last") => \E h \in Goroutines : at[h] = "last"
    BY <1>3
  <2>2. closed /\ Quiet(loc) => Quiet(loc)'
    BY <1>3 DEF Quiet, Counted
  <2> QED BY <1>1, <1>2, <2>1, <2>2 DEF Located, Drains
<1>11. Located(loc)'
  BY <1>6, <1>7, <1>8, <1>9, <1>10 DEF Located
<1> QED BY <1>4, <1>5, <1>11 DEF IInv

\* A publication is let through, or not (runner.add).
LEMMA CheckOpenIInv ==
  ASSUME IInv, NEW g \in Goroutines, CheckOpen(g)
  PROVE  IInv'
<1> DEFINE label == IF closed THEN "settle" ELSE "submit"
<1>1. at[g] = "check" /\ goto(g, label) /\ UNCHANGED <<queues, draining, job, hand, past>>
  BY DEF CheckOpen
<1>2. /\ label \in Labels /\ label # "last" /\ label \in Settling /\ at[g] \in Settling
      /\ closed => label \notin Busy
  BY <1>1 DEF Labels, Settling, Busy, Handing
<1>3. ASSUME at'[g] = label PROVE Control(g)'
  BY <1>1, <1>3 DEF IInv, Control, publisher, past, Settling, Handing, Parking
<1> HIDE DEF label
<1> QED BY <1>1, <1>2, <1>3, GoroutineMoves

\* A wake token is put in (runner.makeReady, Supervisor.pushPinned).
LEMMA WakeIInv ==
  ASSUME IInv, NEW g \in Goroutines, wakeWorker(g) \/ wakeMain(g)
  PROVE  IInv'
<1>1. /\ at[g] \in Handing \ {"hand"} /\ goto(g, "hand")
      /\ UNCHANGED <<queues, draining, job, hand, past>>
  BY DEF wakeWorker, wakeMain, Handing
<1>2. "hand" \in Labels /\ "hand" \in Settling /\ at[g] \in Settling \cap Busy /\ at[g] # "last"
  BY <1>1 DEF Labels, Settling, Busy, Handing
<1>3. ASSUME at'[g] = "hand" PROVE Control(g)'
  BY <1>1, <1>2, <1>3 DEF IInv, Control, publisher, past, Settling, Handing, Parking
<1> QED BY <1>1, <1>2, <1>3, GoroutineMoves

\* A goroutine has handed on all its jobs.
LEMMA HandedOnIInv ==
  ASSUME IInv, NEW g \in Goroutines, HandedOn(g)
  PROVE  IInv'
<1>1. /\ at[g] = "hand" /\ hand[g] = {} /\ goto(g, "settle")
      /\ UNCHANGED <<queues, draining, job, hand, past>>
  BY DEF HandedOn
<1>2. "settle" \in Labels /\ "settle" \in Settling \ Busy /\ at[g] \in Settling /\ at[g] # "last"
  BY <1>1 DEF Labels, Settling, Busy, Handing
<1>3. ASSUME at'[g] = "settle" PROVE Control(g)'
  BY <1>1, <1>2, <1>3 DEF IInv, Control, publisher, past, Settling, Handing, Parking
<1> QED BY <1>1, <1>2, <1>3, GoroutineMoves

\* Parking and unparking, of a worker and of the main thread.
LEMMA ParkingIInv ==
  ASSUME IInv, NEW g \in Goroutines, NEW label \in Parking, at[g] \in Parking,
         goto(g, label), UNCHANGED <<queues, draining, job, hand, past>>
  PROVE  IInv'
<1>1. /\ label \in Labels /\ label \notin Settling \cup Busy
      /\ at[g] \notin Settling \cup Busy /\ label # "last" /\ at[g] # "last"
  BY DEF Labels, Settling, Busy, Handing, Parking
<1>2. ASSUME at'[g] = label PROVE Control(g)'
  BY <1>1, <1>2 DEF IInv, Control, past, Settling, Handing, Parking
<1>3. label \notin {"check", "submit"}
  BY DEF Parking
<1> QED BY <1>1, <1>2, <1>3, GoroutineMoves

-----------------------------------------------------------------------------
(* Publications *)

\* A publication begins and is counted (Kernel.Publish).
LEMMA PublishIInv ==
  ASSUME IInv, NEW g \in Goroutines, Publish(g)
  PROVE  IInv'
<1>1. PICK loc \in [Jobs -> Places] : Located(loc)
  BY DEF IInv
<1>2. /\ at[g] \in {"rest", "body"} /\ publisher(g) \in DOMAIN Batch \ published
      /\ published' = published \cup {publisher(g)}
      /\ crossed' = (crossed \/ \E h \in Goroutines : at[h] = "last")
      /\ outstanding' = outstanding + 1
      /\ UNCHANGED <<ready, pinned, batch, closed, drained, drain, job, hand, finished>>
  BY DEF Publish, queues
<1>3. /\ at' \in [Goroutines -> Labels] /\ at'[g] = "check"
      /\ \A h \in Goroutines \ {g} : at'[h] = at[h]
  BY DEF IInv, Types, Publish, goto, Labels, Settling
<1>4. Types'
  BY <1>2, <1>3 DEF IInv, Types
<1>5. Control(g) /\ job[g] \notin finished
  BY <1>2, RunnerAssumption DEF IInv, Types, Control
<1>6. ASSUME NEW h \in Goroutines PROVE Control(h)'
  <2>1. CASE h = g
    BY <1>2, <1>3, <1>5, <2>1 DEF Control, publisher, Settling, Handing, Parking
  <2>2. CASE h # g
    <3>1. Control(h) /\ at'[h] = at[h]
      BY <1>3, <2>2 DEF IInv
    <3> QED BY <1>2, <3>1 DEF Control, publisher
  <2> QED BY <2>1, <2>2
<1>7. Queued(loc)' /\ Handed(loc)'
  BY <1>1, <1>2 DEF Located, Queued, Handed
<1>8. Run(loc)'
  BY <1>1, <1>2, <1>3 DEF Located, Run
<1>9. Waiting(loc)'
  <2>1. \A x : Unsubmitted(x)' => Unsubmitted(x)
    BY <1>2, <1>3 DEF Unsubmitted, publisher
  <2> QED BY <1>1, <1>2, <2>1 DEF Located, Waiting
<1>10. Counts(loc)'
  <2>1. Publications' = Publications \cup {g} /\ g \notin Publications
    BY <1>2, <1>3, <1>5 DEF Publications, Settling, Handing
  <2>2. Cardinality(Publications') = Cardinality(Publications) + 1
    BY <2>1, PublicationsFinite, FS_AddElement
  <2>3. Cardinality(Counted(loc)) \in Nat /\ IsFiniteSet(Counted(loc))
    BY <1>1, FS_CardinalityType DEF Located, Counts
  <2>4. outstanding = Cardinality(Counted(loc)) + Cardinality(Publications)
    BY <1>1 DEF Located, Counts
  <2>5. outstanding' = Cardinality(Counted(loc)) + Cardinality(Publications')
    BY <1>2, <2>2, <2>3, <2>4, PublicationsFinite
  <2> QED BY <2>3, <2>5 DEF Counts, Counted
<1>11. Drains(loc)'
  <2>1. (\E h \in Goroutines : at'[h] = "last") => crossed'
    BY <1>2, <1>3
  <2>2. Quiet(loc) => Quiet(loc)'
    BY <1>3 DEF Quiet, Counted, Busy, Handing
  <2>3. crossed => crossed'
    BY <1>2
  <2> QED BY <1>1, <1>2, <2>1, <2>2, <2>3 DEF Located, Drains
<1>12. Located(loc)'
  BY <1>7, <1>8, <1>9, <1>10, <1>11 DEF Located
<1> QED BY <1>4, <1>6, <1>12 DEF IInv

\* A batch is counted and its jobs taken in hand, or left waiting (Executor.submit).
LEMMA SubmitIInv ==
  ASSUME IInv, NEW g \in Goroutines, submit(g)
  PROVE  IInv'
<1>1. PICK loc \in [Jobs -> Places] : Located(loc)
  BY DEF IInv
<1> DEFINE x == publisher(g)
           B == ToSet(Batch[x])
           first == {j \in B : DependsOn[j] = NoJob}
<1>2. /\ at[g] = "submit" /\ outstanding' = outstanding + Len(Batch[x])
      /\ hand' = [hand EXCEPT ![g] = first] /\ goto(g, "hand")
      /\ UNCHANGED <<ready, pinned, batch, closed, drained, drain, job, published, finished, crossed>>
  BY DEF submit, counted, queues, past
<1>3. /\ at' \in [Goroutines -> Labels] /\ at'[g] = "hand"
      /\ \A h \in Goroutines \ {g} : at'[h] = at[h]
  BY <1>2 DEF IInv, Types, goto, Labels, Settling, Handing
<1>4. Control(g)
  BY DEF IInv
<1>5. x \in DOMAIN Batch \cap published /\ job[g] \notin finished /\ at[g] \in Settling
  BY <1>2, <1>4 DEF Control, Settling
<1>6. B \subseteq Jobs /\ IsFiniteSet(B) /\ Cardinality(B) = Len(Batch[x])
  BY <1>5, BatchSize
<1>7. \A j \in B : loc[j] = "none"
  BY <1>1, <1>2, <1>5 DEF Located, Waiting, Unsubmitted
<1> HIDE DEF x, B
<1>8. first \in SUBSET Jobs
  BY <1>6
<1>9. /\ hand' \in [Goroutines -> SUBSET Jobs] /\ hand'[g] = first
      /\ \A h \in Goroutines \ {g} : hand'[h] = hand[h]
  BY <1>2, <1>8 DEF IInv, Types
<1>10. PICK moved \in [Jobs -> Places] :
         /\ \A j \in first : moved[j] = "hand"
         /\ \A j \in B \ first : moved[j] = "waiting"
         /\ \A j \in Jobs \ B : moved[j] = loc[j]
  <2> DEFINE m == [j \in Jobs |-> IF j \in first THEN "hand"
                                  ELSE IF j \in B THEN "waiting" ELSE loc[j]]
  <2>1. m \in [Jobs -> Places]
    BY DEF Places
  <2>2. first \subseteq B
    OBVIOUS
  <2> HIDE DEF first
  <2>3. /\ \A j \in first : m[j] = "hand"
        /\ \A j \in B \ first : m[j] = "waiting"
        /\ \A j \in Jobs \ B : m[j] = loc[j]
    BY <1>6, <2>2
  <2> HIDE DEF m
  <2> QED BY <2>1, <2>3
<1> HIDE DEF first
<1>11. Types'
  <2>1. Len(Batch[x]) \in Int
    BY <1>5, RunnerAssumption
  <2> QED BY <1>2, <1>3, <1>9, <2>1 DEF IInv, Types
<1>12. ASSUME NEW h \in Goroutines PROVE Control(h)'
  <2>1. CASE h = g
    BY <1>2, <1>3, <1>4, <2>1 DEF Control, Settling, Handing, Parking
  <2>2. CASE h # g
    <3>1. Control(h) /\ at'[h] = at[h] /\ hand'[h] = hand[h]
      BY <1>3, <1>9, <2>2 DEF IInv
    <3> QED BY <1>2, <3>1 DEF Control, publisher
  <2> QED BY <2>1, <2>2
<1>13. \A j \in Jobs : loc[j] # "none" => moved[j] = loc[j]
  BY <1>7, <1>10
<1>14. Queued(moved)'
  BY <1>1, <1>2, <1>13, HoldsKept DEF Located, Queued
<1>15. Handed(moved)'
  <2>1. \A h \in Goroutines : \A j \in hand[h] : j \in Jobs /\ loc[j] = "hand"
    BY <1>1 DEF Located, Handed, IInv, Types
  <2>2. first \subseteq B
    BY DEF first
  <2>3. \A h \in Goroutines : \A j \in hand'[h] : moved[j] = "hand"
    BY <1>9, <1>10, <1>13, <2>1
  <2>4. \A h \in Goroutines : hand[h] \cap first = {}
    BY <1>7, <2>1, <2>2
  <2>5. \A h, k \in Goroutines : h # k => hand'[h] \cap hand'[k] = {}
    BY <1>1, <1>9, <2>4 DEF Located, Handed
  <2> QED BY <2>3, <2>5 DEF Handed
<1>16. Run(moved)'
  BY <1>1, <1>2, <1>3, <1>13 DEF Located, Run, IInv, Types
<1>17. Waiting(moved)'
  <2>1. ASSUME NEW j \in Jobs, DependsOn[j] \in Jobs \ finished, moved[DependsOn[j]] # "none"
        PROVE  moved[j] = "waiting"
    <3>1. CASE DependsOn[j] \in B
      <4>1. j \in B
        BY <1>5, <2>1, <3>1, DistinctAssumption DEF B
      <4>2. j \notin first
        BY <2>1, RunnerAssumption DEF first
      <4> QED BY <1>10, <4>1, <4>2
    <3>2. CASE DependsOn[j] \notin B
      BY <1>1, <1>10, <1>13, <2>1, <3>2 DEF Located, Waiting
    <3> QED BY <3>1, <3>2
  <2>2. ASSUME NEW y \in DOMAIN Batch, Unsubmitted(y)', NEW j \in ToSet(Batch[y])
        PROVE  moved[j] = "none"
    <3>1. y # x
      <4>1. SUFFICES ASSUME y = x PROVE FALSE
        OBVIOUS
      <4>2. PICK h \in Goroutines : at'[h] \in {"check", "submit"} /\ publisher(h)' = x
        BY <1>2, <1>5, <2>2, <4>1 DEF Unsubmitted
      <4>3. publisher(h) = x /\ h # g
        BY <1>2, <1>3, <4>2 DEF publisher
      <4> QED BY <1>1, <4>3, OnePublisher DEF IInv, Located, x
    <3>2. j \notin B /\ j \in Jobs
      BY <1>5, <3>1, BatchSize, DistinctAssumption DEF B
    <3>3. Unsubmitted(y)
      BY <1>2, <1>3, <2>2 DEF Unsubmitted, publisher
    <3>4. loc[j] = "none"
      BY <1>1, <2>2, <3>3 DEF Located, Waiting
    <3> QED BY <1>10, <3>2, <3>4
  <2> QED BY <1>2, <2>1, <2>2 DEF Waiting
<1>18. Publications' = Publications /\ g \in Publications
  BY <1>2, <1>3, <1>5 DEF Publications, Settling, Handing
<1>19. Counts(moved)'
  <2>1. Counted(moved) = Counted(loc) \cup B /\ Counted(loc) \cap B = {}
    BY <1>6, <1>7, <1>10 DEF Counted
  <2>2. /\ IsFiniteSet(Counted(loc)) /\ Cardinality(Counted(loc)) \in Nat
        /\ outstanding = Cardinality(Counted(loc)) + Cardinality(Publications)
    BY <1>1, FS_CardinalityType DEF Located, Counts
  <2>3. /\ IsFiniteSet(Counted(moved))
        /\ Cardinality(Counted(moved))
             = Cardinality(Counted(loc)) + Cardinality(B) - Cardinality(Counted(loc) \cap B)
    <3>1. PICK C, D : C = Counted(loc) /\ D = B
      OBVIOUS
    <3>2. IsFiniteSet(C) /\ IsFiniteSet(D)
      BY <1>6, <2>2, <3>1
    <3>3. /\ IsFiniteSet(C \cup D)
          /\ Cardinality(C \cup D) = Cardinality(C) + Cardinality(D) - Cardinality(C \cap D)
      BY <3>2, FS_Union
    <3> QED BY <2>1, <3>1, <3>3
  <2>4. Cardinality(B) \in Nat /\ Cardinality(Counted(loc) \cap B) = 0
    BY <1>6, <2>1, FS_CardinalityType, FS_EmptySet
  <2>5. outstanding' = Cardinality(Counted(moved)) + Cardinality(Publications')
    BY <1>2, <1>6, <1>18, <2>2, <2>3, <2>4, PublicationsFinite
  <2> QED BY <2>3, <2>5 DEF Counts, Counted
<1>20. Drains(moved)'
  <2>1. outstanding >= 1 /\ outstanding \in Int
    BY <1>1, <1>18, CountedPublication DEF Located, IInv, Types
  <2>2. (\E h \in Goroutines : at'[h] = "last") => \E h \in Goroutines : at[h] = "last"
    BY <1>3
  <2>3. ~Quiet(loc)
    BY <1>2 DEF Quiet, Busy
  <2> QED BY <1>1, <1>2, <2>1, <2>2, <2>3 DEF Located, Drains
<1>21. Located(moved)'
  BY <1>14, <1>15, <1>16, <1>17, <1>19, <1>20 DEF Located
<1> QED BY <1>11, <1>12, <1>21 DEF IInv

-----------------------------------------------------------------------------
(* Jobs handed on, taken and completed *)

\* A job that goes from one counted place to another.
LEMMA StillCounted ==
  ASSUME NEW loc \in [Jobs -> Places], NEW j \in Jobs, NEW p \in Places,
         loc[j] \notin {"none", "settled"}, p \notin {"none", "settled"}
  PROVE  /\ [loc EXCEPT ![j] = p] \in [Jobs -> Places]
         /\ [loc EXCEPT ![j] = p][j] = p
         /\ \A i \in Jobs \ {j} : [loc EXCEPT ![j] = p][i] = loc[i]
         /\ Counted([loc EXCEPT ![j] = p]) = Counted(loc)
BY DEF Counted

\* A job in hand is pushed to its queue (runner.makeReady).
LEMMA PushReadyIInv ==
  ASSUME IInv, NEW g \in Goroutines, pushReady(g)
  PROVE  IInv'
<1>1. PICK loc \in [Jobs -> Places] : Located(loc)
  BY DEF IInv
<1>2. PICK j \in hand[g], p \in {"ready", "pinned"} :
        /\ at[g] = "hand" /\ hand' = [hand EXCEPT ![g] = @ \ {j}]
        /\ IF p = "pinned" THEN pinned' = Append(pinned, j) /\ goto(g, "wakeMain") /\ UNCHANGED ready
                           ELSE ready' = Append(ready, j) /\ goto(g, "wakeWorker") /\ UNCHANGED pinned
        /\ UNCHANGED <<batch, outstanding, closed, drained, drain, job, published, finished, crossed>>
  BY DEF pushReady, draining, past
<1> DEFINE moved == [loc EXCEPT ![j] = p]
<1>3. PICK label \in {"wakeMain", "wakeWorker"} :
        /\ at' \in [Goroutines -> Labels] /\ at'[g] = label
        /\ \A h \in Goroutines \ {g} : at'[h] = at[h]
  BY <1>2 DEF IInv, Types, goto, Labels, Settling, Handing
<1>4. /\ hand' \in [Goroutines -> SUBSET Jobs] /\ hand'[g] = hand[g] \ {j}
      /\ \A h \in Goroutines \ {g} : hand'[h] = hand[h]
  BY <1>2 DEF IInv, Types
<1>5. j \in Jobs /\ loc[j] = "hand"
  BY <1>1 DEF IInv, Types, Located, Handed
<1>6. p \in Places /\ p \notin {"none", "settled"}
  BY DEF Places
<1>7. /\ moved \in [Jobs -> Places] /\ moved[j] = p
      /\ \A i \in Jobs \ {j} : moved[i] = loc[i]
      /\ Counted(moved) = Counted(loc)
  <2>1. loc[j] \notin {"none", "settled"}
    BY <1>5
  <2> HIDE DEF moved
  <2>2. PICK q, i : q = p /\ i = j
    OBVIOUS
  <2>3. moved = [loc EXCEPT ![i] = q]
    BY <2>2 DEF moved
  <2>4. i \in Jobs /\ q \in Places /\ loc[i] \notin {"none", "settled"} /\ q \notin {"none", "settled"}
    BY <1>5, <1>6, <2>1, <2>2
  <2> QED BY <2>2, <2>3, <2>4, StillCounted
<1>8. /\ Holds(ready, loc, "ready") /\ Holds(pinned, loc, "pinned") /\ Holds(batch, loc, "batch")
  BY <1>1 DEF Located, Queued
<1>9. /\ p = "ready" => Holds(Append(ready, j), moved, "ready")
      /\ p = "pinned" => Holds(Append(pinned, j), moved, "pinned")
  BY <1>5, <1>6, <1>8, HoldsAppend
<1> HIDE DEF moved
<1>18. Queued(moved)'
  <2>1. /\ \A i \in Jobs : loc[i] = "ready" => moved[i] = "ready"
        /\ \A i \in Jobs : loc[i] = "pinned" => moved[i] = "pinned"
        /\ \A i \in Jobs : loc[i] = "batch" => moved[i] = "batch"
    BY <1>5, <1>7
  <2>2. Holds(ready, moved, "ready") /\ Holds(pinned, moved, "pinned") /\ Holds(batch, moved, "batch")
    BY <1>8, <2>1, HoldsKept
  <2> QED BY <1>2, <1>9, <2>2 DEF Queued
<1>10. Types'
  BY <1>2, <1>3, <1>4 DEF IInv, Types
<1>11. ASSUME NEW h \in Goroutines PROVE Control(h)'
  <2>1. CASE h = g
    <3>1. Control(g)
      BY DEF IInv
    <3> QED BY <1>2, <1>3, <2>1, <3>1 DEF Control, Settling, Handing, Parking
  <2>2. CASE h # g
    <3>1. Control(h) /\ at'[h] = at[h] /\ hand'[h] = hand[h]
      BY <1>3, <1>4, <2>2 DEF IInv
    <3> QED BY <1>2, <3>1 DEF Control, publisher
  <2> QED BY <2>1, <2>2
<1>12. Handed(moved)'
  <2>1. /\ \A h \in Goroutines : \A i \in hand[h] : i \in Jobs /\ loc[i] = "hand"
        /\ \A h, k \in Goroutines : h # k => hand[h] \cap hand[k] = {}
    BY <1>1 DEF Located, Handed, IInv, Types
  <2>2. \A h \in Goroutines : hand'[h] \subseteq hand[h] /\ j \notin hand'[h]
    BY <1>4, <2>1
  <2>3. \A h \in Goroutines : \A i \in hand'[h] : moved[i] = "hand"
    BY <1>7, <2>1, <2>2
  <2>4. \A h, k \in Goroutines : h # k => hand'[h] \cap hand'[k] = {}
    BY <2>1, <2>2
  <2> QED BY <2>3, <2>4 DEF Handed
<1>13. Run(moved)'
  BY <1>1, <1>2, <1>3, <1>5, <1>7 DEF Located, Run, IInv, Types
<1>14. Waiting(moved)'
  <2>1. \A x : Unsubmitted(x)' => Unsubmitted(x)
    BY <1>2, <1>3 DEF Unsubmitted, publisher
  <2>2. \A i \in Jobs : (moved[i] = "none" <=> loc[i] = "none") /\ (loc[i] = "waiting" => moved[i] = "waiting")
    BY <1>5, <1>7
  <2>3. \A x \in DOMAIN Batch : ToSet(Batch[x]) \subseteq Jobs
    BY BatchSize
  <2> QED BY <1>1, <1>2, <2>1, <2>2, <2>3 DEF Located, Waiting
<1>15. Counts(moved)'
  <2>1. Publications' = Publications
    BY <1>2, <1>3 DEF Publications, Settling, Handing
  <2> QED BY <1>1, <1>2, <1>7, <2>1 DEF Located, Counts, Counted
<1>16. Drains(moved)'
  <2>1. (\E h \in Goroutines : at'[h] = "last") => \E h \in Goroutines : at[h] = "last"
    BY <1>3
  <2>2. ~Quiet(loc)
    BY <1>2 DEF Quiet, Busy, Handing
  <2> QED BY <1>1, <1>2, <2>1, <2>2 DEF Located, Drains
<1>17. Located(moved)'
  BY <1>12, <1>13, <1>14, <1>15, <1>16, <1>18 DEF Located
<1> QED BY <1>7, <1>10, <1>11, <1>17 DEF IInv

\* A goroutine takes a job out of a queue to run it.
LEMMA TakeIInv ==
  ASSUME IInv, NEW loc \in [Jobs -> Places], Located(loc),
         NEW g \in Goroutines, at[g] \in Parking, g \notin Publishers,
         NEW j \in Jobs, loc[j] \in {"ready", "batch"},
         job' = [job EXCEPT ![g] = j], goto(g, "body"),
         UNCHANGED <<outstanding, closed, drained, drain, hand, published, finished, crossed>>,
         Queued([loc EXCEPT ![j] = "run"])'
  PROVE  IInv'
<1> DEFINE moved == [loc EXCEPT ![j] = "run"]
<1>1. /\ at' \in [Goroutines -> Labels] /\ at'[g] = "body"
      /\ \A h \in Goroutines \ {g} : at'[h] = at[h]
  BY DEF IInv, Types, goto, Labels
<1>2. /\ job' \in [Goroutines -> Jobs \cup {NoJob}] /\ job'[g] = j
      /\ \A h \in Goroutines \ {g} : job'[h] = job[h]
  BY DEF IInv, Types
<1>3. "run" \in Places
  BY DEF Places
<1>4. /\ moved \in [Jobs -> Places] /\ moved[j] = "run"
      /\ \A i \in Jobs \ {j} : moved[i] = loc[i]
      /\ Counted(moved) = Counted(loc)
  BY <1>3, StillCounted
<1>5. Queued(moved)'
  OBVIOUS
<1> HIDE DEF moved
<1>6. job[g] = NoJob /\ NoJob \notin Jobs
  BY RunnerAssumption DEF IInv, Control
<1>7. j \notin finished /\ \A h \in Goroutines : job[h] # j
  BY DEF Located, Run
<1>8. Types'
  BY <1>1, <1>2 DEF IInv, Types
<1>9. ASSUME NEW h \in Goroutines PROVE Control(h)'
  <2>1. CASE h = g
    <3>1. Control(g)
      BY DEF IInv
    <3> QED BY <1>1, <1>2, <1>7, <2>1, <3>1 DEF Control, Settling, Handing, Parking
  <2>2. CASE h # g
    <3>1. Control(h) /\ at'[h] = at[h] /\ job'[h] = job[h]
      BY <1>1, <1>2, <2>2 DEF IInv
    <3> QED BY <3>1 DEF Control, publisher
  <2> QED BY <2>1, <2>2
<1>10. Handed(moved)'
  <2>1. /\ \A h \in Goroutines : \A i \in hand[h] : i \in Jobs /\ loc[i] = "hand"
        /\ \A h, k \in Goroutines : h # k => hand[h] \cap hand[k] = {}
    BY DEF Located, Handed, IInv, Types
  <2> QED BY <1>4, <2>1 DEF Handed
<1>11. Run(moved)'
  <2>1. \A h \in Goroutines : job'[h] \in Jobs =>
          moved[job'[h]] = IF at'[h] = "last" THEN "settled" ELSE "run"
    BY <1>1, <1>2, <1>4, <1>7 DEF Located, Run
  <2>2. \A h, k \in Goroutines : job'[h] \in Jobs /\ job'[h] = job'[k] => h = k
    BY <1>2, <1>7 DEF Located, Run
  <2>3. \A i \in finished' : moved[i] \in {"run", "settled"}
    BY <1>4, <1>7 DEF Located, Run, IInv, Types
  <2> QED BY <2>1, <2>2, <2>3 DEF Run
<1>12. Waiting(moved)'
  <2>1. \A x : Unsubmitted(x)' => Unsubmitted(x)
    BY <1>1, <1>2 DEF Unsubmitted, publisher
  <2>2. \A i \in Jobs : (moved[i] = "none" <=> loc[i] = "none") /\ (loc[i] = "waiting" => moved[i] = "waiting")
    BY <1>4
  <2>3. \A x \in DOMAIN Batch : ToSet(Batch[x]) \subseteq Jobs
    BY BatchSize
  <2> QED BY <2>1, <2>2, <2>3 DEF Located, Waiting
<1>13. Counts(moved)'
  <2>1. Publications' = Publications
    BY <1>1, <1>2 DEF Publications, Settling, Handing, Parking
  <2> QED BY <1>4, <2>1 DEF Located, Counts, Counted
<1>14. Drains(moved)'
  <2>1. (\E h \in Goroutines : at'[h] = "last") => \E h \in Goroutines : at[h] = "last"
    BY <1>1
  <2>2. ~Quiet(loc)
    BY DEF Quiet, Counted
  <2> QED BY <2>1, <2>2 DEF Located, Drains
<1>15. Located(moved)'
  BY <1>5, <1>10, <1>11, <1>12, <1>13, <1>14 DEF Located
<1> QED BY <1>4, <1>8, <1>9, <1>15 DEF IInv

\* A worker takes a job from the ready queue (Queue.Pop).
LEMMA PopIInv ==
  ASSUME IInv, NEW w \in Workers, Pop(w)
  PROVE  IInv'
<1>1. w \in Goroutines /\ w \notin Publishers /\ at[w] = "pop" /\ at[w] \in Parking
  BY DistinctAssumption DEF Pop, Goroutines, Parking
<1>2. CASE ready = <<>>
  <2>1. goto(w, "countIdle") /\ UNCHANGED <<queues, draining, job, hand, past>>
    BY <1>2 DEF Pop, queues
  <2>2. "countIdle" \in Parking
    BY DEF Parking
  <2> QED BY <1>1, <2>1, <2>2, ParkingIInv
<1>3. CASE ready # <<>>
  <2>1. PICK loc \in [Jobs -> Places] : Located(loc)
    BY DEF IInv
  <2> DEFINE h == Head(ready)
  <2>2. /\ ready' = Tail(ready) /\ job' = [job EXCEPT ![w] = h] /\ goto(w, "body")
        /\ UNCHANGED <<pinned, batch, outstanding, closed, drained, drain, hand,
                       published, finished, crossed>>
    BY <1>3 DEF Pop, draining, past
  <2>3. /\ Holds(ready, loc, "ready") /\ Holds(pinned, loc, "pinned") /\ Holds(batch, loc, "batch")
        /\ "ready" \in Places /\ "run" \in Places
    BY <2>1 DEF Located, Queued, Places
  <2>4. PICK j \in Jobs : j = h
    BY <1>3, <2>3, HoldsTail
  <2>5. loc[j] = "ready" /\ Holds(ready', [loc EXCEPT ![j] = "run"], "ready")
    BY <1>3, <2>2, <2>3, <2>4, HoldsTail
  <2> HIDE DEF h
  <2>6. /\ Holds(pinned, [loc EXCEPT ![j] = "run"], "pinned")
        /\ Holds(batch, [loc EXCEPT ![j] = "run"], "batch")
    <3> DEFINE moved == [loc EXCEPT ![j] = "run"]
    <3>1. /\ \A i \in Jobs : loc[i] = "pinned" => moved[i] = "pinned"
          /\ \A i \in Jobs : loc[i] = "batch" => moved[i] = "batch"
      BY <2>5
    <3> HIDE DEF moved
    <3>2. Holds(pinned, moved, "pinned") /\ Holds(batch, moved, "batch")
      BY <2>3, <3>1, HoldsKept
    <3> QED BY <3>2 DEF moved
  <2>7. Queued([loc EXCEPT ![j] = "run"])'
    BY <2>2, <2>5, <2>6 DEF Queued
  <2> QED BY <1>1, <2>1, <2>2, <2>4, <2>5, <2>7, TakeIInv
<1> QED BY <1>2, <1>3

\* The main thread takes the pinned jobs over as a batch.
LEMMA DrainPinnedIInv ==
  ASSUME IInv, at[Main] = "tick", batch = <<>>, batch' = pinned, pinned' = <<>>,
         NEW label \in {"wait", "tick"}, goto(Main, label),
         UNCHANGED <<ready, draining, job, hand, past>>
  PROVE  IInv'
<1>1. PICK loc \in [Jobs -> Places] : Located(loc)
  BY DEF IInv
<1>2. UNCHANGED <<outstanding, closed, drained, drain, published, finished, crossed>>
  BY DEF draining, past
<1>3. /\ at' \in [Goroutines -> Labels] /\ at'[Main] = label /\ Main \in Goroutines
      /\ \A h \in Goroutines \ {Main} : at'[h] = at[h]
  BY DEF IInv, Types, goto, Labels, Parking, Goroutines
<1> DEFINE moved == [j \in Jobs |-> IF loc[j] = "pinned" THEN "batch" ELSE loc[j]]
<1>4. moved \in [Jobs -> Places]
  BY DEF Places
<1>5. /\ \A j \in Jobs : loc[j] = "pinned" => moved[j] = "batch"
      /\ \A j \in Jobs : loc[j] # "pinned" => moved[j] = loc[j]
  OBVIOUS
<1> HIDE DEF moved
<1>6. Types'
  BY <1>2, <1>3 DEF IInv, Types
<1>7. ASSUME NEW h \in Goroutines PROVE Control(h)'
  <2>1. CASE h = Main
    <3>1. Control(Main) /\ Main \notin Publishers
      BY <1>3, DistinctAssumption DEF IInv
    <3> QED BY <1>2, <1>3, <2>1, <3>1 DEF Control, Settling, Handing, Parking
  <2>2. CASE h # Main
    <3>1. Control(h) /\ at'[h] = at[h]
      BY <1>3, <2>2 DEF IInv
    <3> QED BY <1>2, <3>1 DEF Control, publisher
  <2> QED BY <2>1, <2>2
<1>8. Queued(moved)'
  <2>1. Holds(ready, loc, "ready") /\ Holds(pinned, loc, "pinned")
    BY <1>1 DEF Located, Queued
  <2>2. Holds(ready, moved, "ready")
    BY <1>5, <2>1, HoldsKept
  <2>3. Holds(pinned, moved, "batch")
    BY <1>5, <2>1, HoldsKept
  <2> QED BY <2>2, <2>3, HoldsNone DEF Queued
<1>9. Handed(moved)'
  <2>1. /\ \A h \in Goroutines : \A i \in hand[h] : i \in Jobs /\ loc[i] = "hand"
        /\ \A h, k \in Goroutines : h # k => hand[h] \cap hand[k] = {}
    BY <1>1 DEF Located, Handed, IInv, Types
  <2> QED BY <1>5, <2>1 DEF Handed
<1>10. Run(moved)'
  BY <1>1, <1>2, <1>3, <1>5 DEF Located, Run, IInv, Types
<1>11. Waiting(moved)'
  <2>1. \A x : Unsubmitted(x)' => Unsubmitted(x)
    BY <1>2, <1>3 DEF Unsubmitted, publisher
  <2>2. \A i \in Jobs : (moved[i] = "none" <=> loc[i] = "none") /\ (loc[i] = "waiting" => moved[i] = "waiting")
    BY <1>5
  <2>3. \A x \in DOMAIN Batch : ToSet(Batch[x]) \subseteq Jobs
    BY BatchSize
  <2> QED BY <1>1, <1>2, <2>1, <2>2, <2>3 DEF Located, Waiting
<1>12. Counted(moved) = Counted(loc)
  BY <1>5 DEF Counted
<1>13. Counts(moved)'
  <2>1. Publications' = Publications
    BY <1>2, <1>3 DEF Publications, Settling, Handing
  <2> QED BY <1>1, <1>2, <1>12, <2>1 DEF Located, Counts, Counted
<1>14. Drains(moved)'
  <2>1. (\E h \in Goroutines : at'[h] = "last") => \E h \in Goroutines : at[h] = "last"
    BY <1>3
  <2>2. Quiet(loc) => Quiet(moved)'
    BY <1>3, <1>12 DEF Quiet, Counted, Busy, Handing
  <2> QED BY <1>1, <1>2, <2>1, <2>2 DEF Located, Drains
<1>15. Located(moved)'
  BY <1>8, <1>9, <1>10, <1>11, <1>13, <1>14 DEF Located
<1> QED BY <1>4, <1>6, <1>7, <1>15 DEF IInv

\* The main thread takes a pinned job (TickMainThread).
LEMMA TickIInv ==
  ASSUME IInv, TickMainThread
  PROVE  IInv'
<1>1. Main \in Goroutines /\ Main \notin Publishers /\ at[Main] = "tick" /\ at[Main] \in Parking
  BY DistinctAssumption DEF TickMainThread, Goroutines, Parking
<1>2. CASE batch = <<>>
  BY <1>1, <1>2, DrainPinnedIInv DEF TickMainThread
<1>3. CASE batch # <<>>
  <2>1. PICK loc \in [Jobs -> Places] : Located(loc)
    BY DEF IInv
  <2> DEFINE h == Head(batch)
  <2>2. /\ batch' = Tail(batch) /\ job' = [job EXCEPT ![Main] = h] /\ goto(Main, "body")
        /\ UNCHANGED <<pinned, ready, outstanding, closed, drained, drain, hand,
                       published, finished, crossed>>
    BY <1>3 DEF TickMainThread, draining, past
  <2>3. /\ Holds(ready, loc, "ready") /\ Holds(pinned, loc, "pinned") /\ Holds(batch, loc, "batch")
        /\ "batch" \in Places /\ "run" \in Places
    BY <2>1 DEF Located, Queued, Places
  <2>4. PICK j \in Jobs : j = h
    BY <1>3, <2>3, HoldsTail
  <2>5. loc[j] = "batch" /\ Holds(batch', [loc EXCEPT ![j] = "run"], "batch")
    BY <1>3, <2>2, <2>3, <2>4, HoldsTail
  <2> HIDE DEF h
  <2>6. /\ Holds(pinned, [loc EXCEPT ![j] = "run"], "pinned")
        /\ Holds(ready, [loc EXCEPT ![j] = "run"], "ready")
    <3> DEFINE moved == [loc EXCEPT ![j] = "run"]
    <3>1. /\ \A i \in Jobs : loc[i] = "pinned" => moved[i] = "pinned"
          /\ \A i \in Jobs : loc[i] = "ready" => moved[i] = "ready"
      BY <2>5
    <3> HIDE DEF moved
    <3>2. Holds(pinned, moved, "pinned") /\ Holds(ready, moved, "ready")
      BY <2>3, <3>1, HoldsKept
    <3> QED BY <3>2 DEF moved
  <2>7. Queued([loc EXCEPT ![j] = "run"])'
    BY <2>2, <2>5, <2>6 DEF Queued
  <2> QED BY <1>1, <2>1, <2>2, <2>4, <2>5, <2>7, TakeIInv
<1> QED BY <1>2, <1>3

\* A job is complete, and those that waited for it are in hand (completeJob).
LEMMA CompleteJobIInv ==
  ASSUME IInv, NEW g \in Goroutines, completeJob(g)
  PROVE  IInv'
<1>1. PICK loc \in [Jobs -> Places] : Located(loc)
  BY DEF IInv
<1>2. Control(g)
  BY DEF IInv
<1>3. PICK d \in Jobs \ finished : d = job[g]
  BY <1>2 DEF completeJob, Control
<1> DEFINE next == {j \in Jobs : DependsOn[j] = d}
<1>4. /\ at[g] = "body" /\ finished' = finished \cup {d}
      /\ hand' = [hand EXCEPT ![g] = next]
      /\ UNCHANGED <<ready, pinned, batch, outstanding, closed, drained, drain, job, published, crossed>>
  BY <1>3 DEF completeJob, queues, draining
<1>5. /\ at' \in [Goroutines -> Labels] /\ at'[g] = "hand"
      /\ \A h \in Goroutines \ {g} : at'[h] = at[h]
  BY DEF completeJob, IInv, Types, goto, Labels, Settling, Handing
<1>6. /\ hand' \in [Goroutines -> SUBSET Jobs] /\ hand'[g] = next
      /\ \A h \in Goroutines \ {g} : hand'[h] = hand[h]
  BY <1>4 DEF IInv, Types
<1>7. loc[d] = "run" /\ \A h \in Goroutines : job[h] = d => h = g
  BY <1>1, <1>3, <1>4 DEF Located, Run
<1>8. \A j \in next : j \in Jobs /\ loc[j] = "waiting"
  BY <1>1, <1>3, <1>7 DEF Located, Waiting
<1>9. \A j \in Jobs : DependsOn[j] = d <=> j \in next
  OBVIOUS
<1> HIDE DEF next
<1> DEFINE moved == [j \in Jobs |-> IF j \in next THEN "hand" ELSE loc[j]]
<1>10. moved \in [Jobs -> Places]
  BY DEF Places
<1>11. /\ \A j \in next : moved[j] = "hand"
       /\ \A j \in Jobs \ next : moved[j] = loc[j]
  BY <1>8
<1> HIDE DEF moved
<1>13. \A j \in Jobs : loc[j] # "waiting" => moved[j] = loc[j]
  BY <1>8, <1>11
<1>14. PICK m \in [Jobs -> Places] : m = moved
  BY <1>10
<1>15. Types'
  BY <1>3, <1>4, <1>5, <1>6 DEF IInv, Types
<1>16. ASSUME NEW h \in Goroutines PROVE Control(h)'
  <2>1. CASE h = g
    BY <1>2, <1>3, <1>4, <1>5, <2>1 DEF Control, Settling, Handing, Parking
  <2>2. CASE h # g
    <3>1. Control(h) /\ at'[h] = at[h] /\ hand'[h] = hand[h] /\ job[h] # d
      BY <1>5, <1>6, <1>7, <2>2 DEF IInv
    <3> QED BY <1>4, <3>1 DEF Control, publisher
  <2> QED BY <2>1, <2>2
<1>17. Queued(m)'
  BY <1>1, <1>4, <1>13, <1>14, HoldsKept DEF Located, Queued
<1>18. Handed(m)'
  <2>1. /\ \A h \in Goroutines : \A j \in hand[h] : j \in Jobs /\ loc[j] = "hand"
        /\ \A h, k \in Goroutines : h # k => hand[h] \cap hand[k] = {}
    BY <1>1 DEF Located, Handed, IInv, Types
  <2>2. \A h \in Goroutines : hand[h] \cap next = {}
    BY <1>8, <2>1
  <2>3. \A h \in Goroutines : \A j \in hand'[h] : m[j] = "hand"
    BY <1>6, <1>11, <1>13, <1>14, <2>1
  <2>4. \A h, k \in Goroutines : h # k => hand'[h] \cap hand'[k] = {}
    BY <1>6, <2>1, <2>2
  <2> QED BY <2>3, <2>4 DEF Handed
<1>19. Run(m)'
  <2>1. \A h \in Goroutines : job'[h] \in Jobs =>
          m[job'[h]] = IF at'[h] = "last" THEN "settled" ELSE "run"
    BY <1>1, <1>4, <1>5, <1>13, <1>14 DEF Located, Run
  <2>2. \A h, k \in Goroutines : job'[h] \in Jobs /\ job'[h] = job'[k] => h = k
    BY <1>1, <1>4 DEF Located, Run
  <2>3. \A j \in finished' : m[j] \in {"run", "settled"}
    BY <1>1, <1>4, <1>7, <1>13, <1>14 DEF Located, Run, IInv, Types
  <2> QED BY <2>1, <2>2, <2>3 DEF Run
<1>20. Waiting(m)'
  <2>1. \A x : Unsubmitted(x)' => Unsubmitted(x)
    BY <1>4, <1>5 DEF Unsubmitted, publisher
  <2>2. \A j \in Jobs : m[j] = "none" <=> loc[j] = "none"
    BY <1>8, <1>11, <1>14
  <2>3. \A x \in DOMAIN Batch : ToSet(Batch[x]) \subseteq Jobs
    BY BatchSize
  <2>4. ASSUME NEW j \in Jobs, DependsOn[j] \in Jobs \ finished', m[DependsOn[j]] # "none"
        PROVE  m[j] = "waiting"
    <3>1. DependsOn[j] \in Jobs \ finished /\ loc[DependsOn[j]] # "none" /\ j \notin next
      BY <1>4, <1>9, <2>2, <2>4
    <3>2. loc[j] = "waiting"
      BY <1>1, <3>1 DEF Located, Waiting
    <3> QED BY <1>11, <1>14, <3>1, <3>2
  <2>5. \A x \in DOMAIN Batch : Unsubmitted(x)' => \A j \in ToSet(Batch[x]) : m[j] = "none"
    BY <1>1, <2>1, <2>2, <2>3 DEF Located, Waiting
  <2> QED BY <2>4, <2>5 DEF Waiting
<1>21. Counted(m) = Counted(loc)
  BY <1>8, <1>11, <1>14 DEF Counted
<1>22. Counts(m)'
  <2>1. \A h \in Goroutines \ {g} : job[h] \in finished' <=> job[h] \in finished
    BY <1>4, <1>7
  <2>2. g \notin Publications /\ g \notin Publications'
    BY <1>3, <1>4, <1>5 DEF Publications, Settling, Handing
  <2>3. \A h \in Goroutines \ {g} : h \in Publications' <=> h \in Publications
    BY <1>4, <1>5, <2>1 DEF Publications
  <2>4. Publications' = Publications
    BY <2>2, <2>3 DEF Publications
  <2> QED BY <1>1, <1>4, <1>21, <2>4 DEF Located, Counts, Counted
<1>23. Drains(m)'
  <2>1. (\E h \in Goroutines : at'[h] = "last") => \E h \in Goroutines : at[h] = "last"
    BY <1>5
  <2>2. ~Quiet(loc)
    BY <1>4 DEF Quiet, Busy
  <2> QED BY <1>1, <1>4, <2>1, <2>2 DEF Located, Drains
<1>24. Located(m)'
  BY <1>17, <1>18, <1>19, <1>20, <1>22, <1>23 DEF Located
<1> QED BY <1>15, <1>16, <1>24 DEF IInv

-----------------------------------------------------------------------------
(* Settling *)

\* Where a goroutine goes on that has not settled the last one.
LEMMA Resumes ==
  ASSUME IInv, NEW g \in Goroutines, at[g] \in {"settle", "last"}
  PROVE  /\ g \in Publishers => resume(g) = "rest"
         /\ g \notin Publishers /\ job[g] \in Jobs \ finished => resume(g) = "body"
         /\ g \notin Publishers /\ job[g] \in finished => resume(g) \in {"tick", "pop"}
         /\ g \in Publishers \/ job[g] \in Jobs
         /\ g \in Publishers => job[g] = NoJob
<1>1. Control(g)
  BY DEF IInv
<1>2. g \in Publishers \/ job[g] \in Jobs
  BY <1>1 DEF Control, IInv, Types, Settling, Handing
<1>3. g \in Publishers \/ g \in Workers \/ g = Main
  BY DEF Goroutines
<1> QED BY <1>1, <1>2, <1>3, DistinctAssumption DEF resume, Control

\* What a publication that is settled leaves, unless it was the last.
LEMMA SettlePublicationIInv ==
  ASSUME IInv, NEW g \in Goroutines, settle(g), job[g] \notin finished
  PROVE  IInv'
<1>1. PICK loc \in [Jobs -> Places] : Located(loc)
  BY DEF IInv
<1>2. /\ at[g] = "settle" /\ outstanding' = outstanding - 1
      /\ UNCHANGED <<ready, pinned, batch, closed, drained, drain, hand, published, finished, crossed>>
  BY DEF settle, queues, past
<1>3. Control(g) /\ at[g] \in Settling /\ g \in Publications
  BY <1>2 DEF IInv, Settling, Publications
<1>4. outstanding \in Int /\ outstanding >= 1 /\ (Counted(loc) # {} => outstanding >= 2)
  BY <1>1, <1>3, CountedPublication DEF Located, IInv, Types
<1>5. job[g] \in Jobs => job[g] \in Counted(loc)
  BY <1>1, <1>2 DEF Located, Run, Counted
<1>6. PICK label \in {"last", "rest", "body"} :
        /\ goto(g, label) /\ UNCHANGED job
        /\ label = "last" => outstanding = 1
        /\ label \in {"last", "rest"} => g \in Publishers
        /\ label = "body" => g \notin Publishers /\ job[g] \in Jobs
  <2>1. CASE outstanding = 1
    <3>1. g \in Publishers
      BY <1>2, <1>3, <1>4, <1>5, <2>1 DEF Control, Settling
    <3> QED BY <2>1, <3>1 DEF settle
  <2>2. CASE outstanding # 1 /\ g \in Publishers
    <3>1. resume(g) = "rest" /\ job[g] = NoJob
      BY <1>2, <2>2, Resumes
    <3>2. job' = [job EXCEPT ![g] = NoJob] /\ goto(g, "rest")
      BY <2>2, <3>1 DEF settle, leave
    <3>3. job' = job
      BY <3>1, <3>2 DEF IInv, Types
    <3> QED BY <2>2, <3>2, <3>3
  <2>3. CASE outstanding # 1 /\ g \notin Publishers
    <3>1. resume(g) = "body" /\ job[g] \in Jobs
      BY <1>2, <2>3, Resumes
    <3>2. job' = [job EXCEPT ![g] = job[g]] /\ goto(g, "body")
      BY <2>3, <3>1 DEF settle, leave
    <3>3. job' = job
      BY <3>2 DEF IInv, Types
    <3> QED BY <2>3, <3>1, <3>2, <3>3
  <2> QED BY <2>1, <2>2, <2>3
<1>7. /\ at' \in [Goroutines -> Labels] /\ at'[g] = label
      /\ \A h \in Goroutines \ {g} : at'[h] = at[h]
  BY <1>6 DEF IInv, Types, goto, Labels
<1>8. Types'
  BY <1>2, <1>4, <1>6, <1>7 DEF IInv, Types
<1>9. ASSUME NEW h \in Goroutines PROVE Control(h)'
  <2>1. CASE h = g
    BY <1>2, <1>3, <1>6, <1>7, <2>1 DEF Control, Settling, Handing, Parking
  <2>2. CASE h # g
    <3>1. Control(h) /\ at'[h] = at[h]
      BY <1>7, <2>2 DEF IInv
    <3> QED BY <1>2, <1>6, <3>1 DEF Control, publisher
  <2> QED BY <2>1, <2>2
<1>10. Queued(loc)' /\ Handed(loc)'
  BY <1>1, <1>2 DEF Located, Queued, Handed
<1>11. Run(loc)'
  <2>1. label = "last" => job[g] \notin Jobs
    BY <1>3, <1>6, RunnerAssumption DEF Control
  <2> QED BY <1>1, <1>2, <1>6, <1>7, <2>1 DEF Located, Run
<1>12. Waiting(loc)'
  <2>1. \A x : Unsubmitted(x)' => Unsubmitted(x)
    BY <1>2, <1>6, <1>7 DEF Unsubmitted, publisher
  <2> QED BY <1>1, <1>2, <2>1 DEF Located, Waiting
<1>13. Counts(loc)'
  <2>1. Publications' = Publications \ {g}
    BY <1>2, <1>6, <1>7 DEF Publications, Settling, Handing
  <2>2. Cardinality(Publications') = Cardinality(Publications) - 1
    BY <1>3, <2>1, PublicationsFinite, FS_RemoveElement
  <2>3. /\ IsFiniteSet(Counted(loc)) /\ Cardinality(Counted(loc)) \in Nat
        /\ outstanding = Cardinality(Counted(loc)) + Cardinality(Publications)
    BY <1>1, FS_CardinalityType DEF Located, Counts
  <2>4. outstanding' = Cardinality(Counted(loc)) + Cardinality(Publications')
    BY <1>2, <2>2, <2>3, PublicationsFinite
  <2> QED BY <2>3, <2>4 DEF Counts, Counted
<1>14. Drains(loc)'
  <2>1. ~crossed /\ (\E h \in Goroutines : at'[h] = "last") => label = "last"
    BY <1>1, <1>4, <1>7 DEF Located, Drains
  <2>2. Quiet(loc) => Quiet(loc)'
    <3>1. Quiet(loc) => label # "body"
      BY <1>5, <1>6 DEF Quiet
    <3> QED BY <1>6, <1>7, <3>1 DEF Quiet, Counted, Busy, Handing
  <2> QED BY <1>1, <1>2, <1>4, <1>6, <2>1, <2>2 DEF Located, Drains
<1>15. Located(loc)'
  BY <1>10, <1>11, <1>12, <1>13, <1>14 DEF Located
<1> QED BY <1>8, <1>9, <1>15 DEF IInv

\* A job or a publication is settled (runner.settle).
LEMMA SettleJobIInv ==
  ASSUME IInv, NEW g \in Goroutines, settle(g), job[g] \in finished
  PROVE  IInv'
<1>1. PICK loc \in [Jobs -> Places] : Located(loc)
  BY DEF IInv
<1>2. /\ at[g] = "settle" /\ outstanding' = outstanding - 1
      /\ UNCHANGED <<ready, pinned, batch, closed, drained, drain, hand, published, finished, crossed>>
  BY DEF settle, queues, past
<1>3. PICK d \in finished : d = job[g]
  OBVIOUS
<1>4. d \in Jobs /\ loc[d] = "run" /\ g \notin Publishers /\ Control(g)
  BY <1>1, <1>2, <1>3, RunnerAssumption DEF IInv, Types, Control, Located, Run
<1> DEFINE moved == [loc EXCEPT ![d] = "settled"]
<1>5. /\ moved \in [Jobs -> Places] /\ moved[d] = "settled"
      /\ \A i \in Jobs \ {d} : moved[i] = loc[i]
  BY <1>4 DEF Places
<1> HIDE DEF moved
<1>6. outstanding \in Int /\ outstanding >= 1
  BY <1>1, <1>2, SettlingIsCounted DEF Located, IInv, Types, Settling
<1>7. PICK label \in {"last", "tick", "pop"} :
        /\ goto(g, label)
        /\ label = "last" => outstanding = 1 /\ UNCHANGED job
        /\ label # "last" => job' = [job EXCEPT ![g] = NoJob]
  <2>1. CASE outstanding = 1
    BY <2>1 DEF settle
  <2>2. CASE outstanding # 1
    <3>1. resume(g) \in {"tick", "pop"}
      BY <1>2, <1>4, Resumes
    <3>2. job' = [job EXCEPT ![g] = NoJob] /\ goto(g, resume(g))
      BY <2>2, <3>1 DEF settle, leave
    <3> QED BY <3>1, <3>2
  <2> QED BY <2>1, <2>2
<1>8. /\ at' \in [Goroutines -> Labels] /\ at'[g] = label
      /\ \A h \in Goroutines \ {g} : at'[h] = at[h]
  BY <1>7 DEF IInv, Types, goto, Labels, Parking
<1>9. /\ job' \in [Goroutines -> Jobs \cup {NoJob}]
      /\ job'[g] = IF label = "last" THEN d ELSE NoJob
      /\ \A h \in Goroutines \ {g} : job'[h] = job[h]
  BY <1>3, <1>7 DEF IInv, Types
<1>10. Types'
  BY <1>2, <1>6, <1>8, <1>9 DEF IInv, Types
<1>11. ASSUME NEW h \in Goroutines PROVE Control(h)'
  <2>1. CASE h = g
    BY <1>2, <1>4, <1>8, <1>9, <2>1 DEF Control, Settling, Handing, Parking
  <2>2. CASE h # g
    <3>1. Control(h) /\ at'[h] = at[h] /\ job'[h] = job[h]
      BY <1>8, <1>9, <2>2 DEF IInv
    <3> QED BY <1>2, <3>1 DEF Control, publisher
  <2> QED BY <2>1, <2>2
<1>12. \A i \in Jobs : loc[i] # "run" => moved[i] = loc[i]
  BY <1>4, <1>5
<1>13. Queued(moved)'
  BY <1>1, <1>2, <1>12, HoldsKept DEF Located, Queued
<1>14. Handed(moved)'
  <2>1. /\ \A h \in Goroutines : \A j \in hand[h] : j \in Jobs /\ loc[j] = "hand"
        /\ \A h, k \in Goroutines : h # k => hand[h] \cap hand[k] = {}
    BY <1>1 DEF Located, Handed, IInv, Types
  <2> QED BY <1>2, <1>12, <2>1 DEF Handed
<1>15. Run(moved)'
  <2>1. \A h \in Goroutines \ {g} : job[h] # d
    BY <1>1, <1>3, <1>4 DEF Located, Run
  <2>2. \A h \in Goroutines : job'[h] \in Jobs =>
          moved[job'[h]] = IF at'[h] = "last" THEN "settled" ELSE "run"
    BY <1>1, <1>5, <1>8, <1>9, <2>1, RunnerAssumption DEF Located, Run
  <2>3. \A h, k \in Goroutines : job'[h] \in Jobs /\ job'[h] = job'[k] => h = k
    BY <1>1, <1>9, <2>1, RunnerAssumption DEF Located, Run
  <2>4. \A j \in finished' : moved[j] \in {"run", "settled"}
    BY <1>1, <1>2, <1>5 DEF Located, Run, IInv, Types
  <2> QED BY <2>2, <2>3, <2>4 DEF Run
<1>16. Waiting(moved)'
  <2>1. \A x : Unsubmitted(x)' => Unsubmitted(x)
    BY <1>2, <1>8, <1>9 DEF Unsubmitted, publisher
  <2>2. \A i \in Jobs : (moved[i] = "none" <=> loc[i] = "none") /\ (loc[i] = "waiting" => moved[i] = "waiting")
    BY <1>4, <1>5
  <2>3. \A x \in DOMAIN Batch : ToSet(Batch[x]) \subseteq Jobs
    BY BatchSize
  <2> QED BY <1>1, <1>2, <2>1, <2>2, <2>3 DEF Located, Waiting
<1>17. Counted(moved) = Counted(loc) \ {d} /\ d \in Counted(loc)
  BY <1>4, <1>5 DEF Counted
<1>18. Counts(moved)'
  <2>1. Publications' = Publications
    <3>1. g \notin Publications /\ g \notin Publications'
      BY <1>2, <1>3, <1>7, <1>8 DEF Publications, Settling, Handing
    <3>2. \A h \in Goroutines \ {g} : h \in Publications' <=> h \in Publications
      BY <1>2, <1>8, <1>9 DEF Publications
    <3> QED BY <3>1, <3>2 DEF Publications
  <2>2. /\ IsFiniteSet(Counted(loc)) /\ Cardinality(Counted(loc)) \in Nat
        /\ outstanding = Cardinality(Counted(loc)) + Cardinality(Publications)
    BY <1>1, FS_CardinalityType DEF Located, Counts
  <2>3. IsFiniteSet(Counted(moved)) /\ Cardinality(Counted(moved)) = Cardinality(Counted(loc)) - 1
    BY <1>17, <2>2, FS_RemoveElement
  <2>4. outstanding' = Cardinality(Counted(moved)) + Cardinality(Publications')
    BY <1>2, <2>1, <2>2, <2>3, PublicationsFinite
  <2> QED BY <2>3, <2>4 DEF Counts, Counted
<1>19. Drains(moved)'
  <2>1. ~crossed /\ (\E h \in Goroutines : at'[h] = "last") => label = "last"
    BY <1>1, <1>6, <1>8 DEF Located, Drains
  <2>2. ~Quiet(loc)
    BY <1>17 DEF Quiet
  <2> QED BY <1>1, <1>2, <1>6, <1>7, <2>1, <2>2 DEF Located, Drains
<1>20. Located(moved)'
  BY <1>13, <1>14, <1>15, <1>16, <1>18, <1>19 DEF Located
<1> QED BY <1>5, <1>10, <1>11, <1>20 DEF IInv

\* The last one out looks whether the runner is closed (runner.settle).
LEMMA SettleLastIInv ==
  ASSUME IInv, NEW g \in Goroutines, settleLast(g)
  PROVE  IInv'
<1>1. PICK loc \in [Jobs -> Places] : Located(loc)
  BY DEF IInv
<1>2. /\ at[g] = "last" /\ drained' = (drained \/ closed) /\ leave(g, resume(g))
      /\ UNCHANGED <<ready, pinned, batch, outstanding, closed, drain, hand, published, finished, crossed>>
  BY DEF settleLast, queues, past
<1>3. Control(g)
  BY DEF IInv
<1>4. PICK label \in {"rest", "tick", "pop"} :
        /\ label = resume(g)
        /\ label = "rest" <=> g \in Publishers
  BY <1>2, <1>3, Resumes DEF Control
<1>5. goto(g, label) /\ job' = [job EXCEPT ![g] = NoJob]
  BY <1>2, <1>4 DEF leave
<1>6. /\ at' \in [Goroutines -> Labels] /\ at'[g] = label
      /\ \A h \in Goroutines \ {g} : at'[h] = at[h]
  BY <1>5 DEF IInv, Types, goto, Labels, Parking
<1>7. /\ job' \in [Goroutines -> Jobs \cup {NoJob}] /\ job'[g] = NoJob
      /\ \A h \in Goroutines \ {g} : job'[h] = job[h]
  BY <1>5 DEF IInv, Types
<1>8. Types'
  BY <1>2, <1>6, <1>7 DEF IInv, Types
<1>9. ASSUME NEW h \in Goroutines PROVE Control(h)'
  <2>1. CASE h = g
    BY <1>2, <1>3, <1>4, <1>6, <1>7, <2>1 DEF Control, Settling, Handing, Parking
  <2>2. CASE h # g
    <3>1. Control(h) /\ at'[h] = at[h] /\ job'[h] = job[h]
      BY <1>6, <1>7, <2>2 DEF IInv
    <3> QED BY <1>2, <3>1 DEF Control, publisher
  <2> QED BY <2>1, <2>2
<1>10. Queued(loc)' /\ Handed(loc)'
  BY <1>1, <1>2 DEF Located, Queued, Handed
<1>11. Run(loc)'
  BY <1>1, <1>2, <1>6, <1>7, RunnerAssumption DEF Located, Run
<1>12. Waiting(loc)'
  <2>1. \A x : Unsubmitted(x)' => Unsubmitted(x)
    BY <1>2, <1>6, <1>7 DEF Unsubmitted, publisher
  <2> QED BY <1>1, <1>2, <2>1 DEF Located, Waiting
<1>13. Publications' = Publications
  <2>1. g \notin Publications /\ g \notin Publications'
    BY <1>2, <1>4, <1>6 DEF Publications, Settling, Handing
  <2>2. \A h \in Goroutines \ {g} : h \in Publications' <=> h \in Publications
    BY <1>2, <1>6, <1>7 DEF Publications
  <2> QED BY <2>1, <2>2 DEF Publications
<1>14. Counts(loc)'
  BY <1>1, <1>2, <1>13 DEF Located, Counts, Counted
<1>15. Drains(loc)'
  <2>1. (\E h \in Goroutines : at'[h] = "last") => \E h \in Goroutines : at[h] = "last"
    BY <1>2
  <2>2. ~crossed => outstanding = 0
    BY <1>1, <1>2 DEF Located, Drains
  <2>3. ~crossed => Quiet(loc)
    BY <1>1, <2>2, NothingOutstanding DEF Located, IInv
  <2>4. Quiet(loc) => Quiet(loc)'
    BY <1>6 DEF Quiet, Counted, Busy, Handing
  <2> QED BY <1>1, <1>2, <2>1, <2>2, <2>3, <2>4 DEF Located, Drains
<1>16. Located(loc)'
  BY <1>10, <1>11, <1>12, <1>14, <1>15 DEF Located
<1> QED BY <1>8, <1>9, <1>16 DEF IInv

-----------------------------------------------------------------------------
(* The drain *)

\* A step that moves no goroutine and no job.
LEMMA DrainMoves ==
  ASSUME IInv, UNCHANGED <<queues, outstanding, procs, past>>,
         \A loc \in [Jobs -> Places] : Located(loc) => Drains(loc)'
  PROVE  IInv'
<1>1. PICK loc \in [Jobs -> Places] : Located(loc)
  BY DEF IInv
<1>2. UNCHANGED <<ready, pinned, batch, outstanding, at, job, hand, published, finished, crossed>>
  BY DEF queues, procs, past
<1>3. Types' /\ \A g \in Goroutines : Control(g)'
  BY <1>2 DEF IInv, Types, Control, publisher
<1>4. Queued(loc)' /\ Handed(loc)' /\ Run(loc)'
  BY <1>1, <1>2 DEF Located, Queued, Handed, Run
<1>5. Waiting(loc)' /\ Counts(loc)'
  <2>1. \A x : Unsubmitted(x)' => Unsubmitted(x)
    BY <1>2 DEF Unsubmitted, publisher
  <2>2. Publications' = Publications
    BY <1>2 DEF Publications
  <2>3. Waiting(loc)'
    BY <1>1, <1>2, <2>1 DEF Located, Waiting
  <2> QED BY <1>1, <1>2, <2>2, <2>3 DEF Located, Counts, Counted
<1>6. Located(loc)'
  BY <1>1, <1>4, <1>5 DEF Located
<1> QED BY <1>3, <1>6 DEF IInv

\* The steps of the drain (runner.drain).
LEMMA DrainIInv ==
  ASSUME IInv, destroy \/ UNCHANGED vars
  PROVE  IInv'
<1>1. UNCHANGED <<queues, outstanding, procs, past>>
  BY DEF destroy, Close, CheckOutstanding, AwaitDrained, CloseStop, AwaitWorkers,
         vars, draining
<1>2. UNCHANGED <<at, outstanding, crossed>>
  BY <1>1 DEF procs, past
<1>3. ASSUME NEW loc \in [Jobs -> Places], Located(loc) PROVE Drains(loc)'
  <2>1. Drains(loc)
    BY <1>3 DEF Located
  <2>2. Quiet(loc) => Quiet(loc)'
    BY <1>2 DEF Quiet, Counted
  <2>3. CASE Close
    BY <1>2, <2>1, <2>2, <2>3 DEF Drains, Close
  <2>4. CASE CheckOutstanding
    <3>1. outstanding = 0 => Quiet(loc)
      BY <1>3, NothingOutstanding DEF Located, IInv
    <3> QED BY <1>2, <2>1, <2>2, <2>4, <3>1 DEF Drains, CheckOutstanding, awaits
  <2>5. CASE AwaitDrained
    BY <1>2, <2>1, <2>2, <2>5 DEF Drains, AwaitDrained
  <2>6. CASE CloseStop
    BY <1>2, <2>1, <2>2, <2>6 DEF Drains, CloseStop
  <2>7. CASE AwaitWorkers
    BY <1>2, <2>1, <2>2, <2>7 DEF Drains, AwaitWorkers
  <2>8. CASE UNCHANGED vars
    BY <1>2, <2>1, <2>2, <2>8 DEF Drains, vars, draining
  <2> QED BY <2>3, <2>4, <2>5, <2>6, <2>7, <2>8 DEF destroy
<1> QED BY <1>1, <1>3, DrainMoves

\* Every step keeps the invariant.
LEMMA NextIInv == IInv /\ [Next]_vars => IInv'
<1> SUFFICES ASSUME IInv, [Next]_vars PROVE IInv'
  OBVIOUS
<1>1. ASSUME NEW g \in Goroutines, Publish(g) \/ completeJob(g) PROVE IInv'
  BY <1>1, PublishIInv, CompleteJobIInv
<1>2. ASSUME NEW g \in Goroutines, hands(g) PROVE IInv'
  BY <1>2, CheckOpenIInv, SubmitIInv, PushReadyIInv, WakeIInv, HandedOnIInv,
     SettlePublicationIInv, SettleJobIInv, SettleLastIInv DEF hands
<1>3. ASSUME NEW w \in Workers, work(w) PROVE IInv'
  <2>1. w \in Goroutines
    BY DEF Goroutines
  <2>2. CASE Pop(w)
    BY <2>2, PopIInv
  <2>3. CASE CountIdle(w)
    BY <2>1, <2>3, ParkingIInv DEF CountIdle, Parking
  <2>4. CASE LookAgain(w)
    <3>1. (IF ready = <<>> THEN "park" ELSE "uncount") \in Parking
      BY DEF Parking
    <3> QED BY <2>1, <2>4, <3>1, ParkingIInv DEF LookAgain, Parking
  <2>5. CASE Unpark(w) \/ Stop(w)
    BY <2>1, <2>5, ParkingIInv DEF Unpark, Stop, Parking
  <2>6. CASE UncountIdle(w)
    BY <2>1, <2>6, ParkingIInv DEF UncountIdle, Parking
  <2> QED BY <1>3, <2>2, <2>3, <2>4, <2>5, <2>6 DEF work
<1>4. CASE main
  <2>1. Main \in Goroutines
    BY DEF Goroutines
  <2>2. CASE WaitMainThread \/ MainEnds
    BY <2>1, <2>2, ParkingIInv DEF WaitMainThread, MainEnds, Parking
  <2> QED BY <1>4, <2>2, TickIInv DEF main
<1>5. CASE destroy \/ AllOver \/ UNCHANGED vars
  BY <1>5, DrainIInv DEF AllOver
<1> QED BY <1>1, <1>2, <1>3, <1>4, <1>5 DEF Next

\* However publications, jobs that publish, completions and the drain come
\* between each other, every job is at one place, and the counter that drain
\* waits for is the number of the jobs not settled and the publications running.
THEOREM Accounting == Spec => []IInv
<1> QED BY InitIInv, NextIInv, PTL DEF Spec

\* drain goes on to end the workers only when no job is left to run and no
\* publication that add let through is running, unless some publication was
\* counted between the last settle's decrement and its look at closed: that
\* race is the only way to end the workers under a job.
THEOREM DrainWaits == Spec => []DrainWaitsUnlessCrossed
<1>1. ASSUME IInv PROVE DrainWaitsUnlessCrossed
  <2> SUFFICES ASSUME ~crossed, drain \in {"finished", "stopping", "done"}
               PROVE  /\ \A g \in Goroutines :
                           at[g] \notin {"submit", "hand", "wakeWorker", "wakeMain", "body"}
                      /\ ready = <<>> /\ pinned = <<>> /\ batch = <<>>
    BY DEF DrainWaitsUnlessCrossed, NothingLeft
  <2>1. PICK loc \in [Jobs -> Places] : Located(loc)
    BY <1>1 DEF IInv
  <2>2. Quiet(loc)
    BY <2>1 DEF Located, Drains
  <2>3. \A j \in Jobs : loc[j] \notin {"ready", "pinned", "batch"}
    BY <2>2 DEF Quiet, Counted
  <2>4. ready = <<>> /\ pinned = <<>> /\ batch = <<>>
    BY <2>1, <2>3, HoldsEmpty DEF Located, Queued
  <2> QED BY <2>2, <2>4 DEF Quiet, Busy, Handing
<1> QED BY <1>1, Accounting, PTL

-----------------------------------------------------------------------------
(* Parking *)

\* The idle workers can be counted.
LEMMA IdleWorkersFinite ==
  IsFiniteSet(IdleWorkers) /\ Cardinality(IdleWorkers) \in Nat
<1>1. IdleWorkers \in SUBSET Workers
  BY DEF IdleWorkers
<1> QED BY <1>1, RunnerAssumption, FS_Subset, FS_CardinalityType

\* No worker is idle and no job is queued before the first publication.
LEMMA InitPInv == Init => PInv
<1> SUFFICES ASSUME Init PROVE PInv
  OBVIOUS
<1>1. at \in [Goroutines -> Labels]
  BY DEF Init, Labels, Parking
<1>2. IdleWorkers = {}
  BY DEF Init, IdleWorkers, Idling, Goroutines
<1>3. idle = Cardinality(IdleWorkers)
  BY <1>2, FS_EmptySet DEF Init
<1> QED BY <1>1, <1>3 DEF Init, PInv, WorkerWoken, MainWoken

\* A step that parks nobody, pushes nothing and puts no token in or out.
LEMMA StepAside ==
  ASSUME PInv, NEW g \in Goroutines, NEW label \in Labels, goto(g, label),
         label \notin {"park", "wait"}, at[g] \notin {"wakeWorker", "wakeMain"},
         g \in Workers => (label \in Idling <=> at[g] \in Idling),
         UNCHANGED parking,
         ready' # <<>> => ready # <<>>, pinned' # <<>> => pinned # <<>>
  PROVE  PInv'
<1>1. UNCHANGED <<idle, wake, mainWake>>
  BY DEF parking
<1>2. /\ at' \in [Goroutines -> Labels] /\ at'[g] = label
      /\ \A h \in Goroutines \ {g} : at'[h] = at[h]
  BY DEF PInv, goto
<1>3. Workers \subseteq Goroutines /\ Main \in Goroutines
  BY DEF Goroutines
<1>4. IdleWorkers' = IdleWorkers
  BY <1>2, <1>3 DEF IdleWorkers
<1>5. WorkerWoken'
  BY <1>1, <1>2, <1>3 DEF PInv, WorkerWoken
<1>6. MainWoken'
  BY <1>1, <1>2, <1>3 DEF PInv, MainWoken
<1> QED BY <1>1, <1>2, <1>4, <1>5, <1>6 DEF PInv

\* The steps that queue nothing and park nobody.
LEMMA HandsPInv ==
  ASSUME PInv, NEW g \in Goroutines,
         Publish(g) \/ CheckOpen(g) \/ submit(g) \/ HandedOn(g) \/ completeJob(g)
  PROVE  PInv'
<1>1. PICK label \in {"check", "settle", "submit", "hand"} : goto(g, label)
  BY DEF Publish, CheckOpen, submit, HandedOn, completeJob
<1>2. /\ at[g] \in {"rest", "body", "check", "submit", "hand"}
      /\ UNCHANGED <<queues, parking>>
  BY DEF Publish, CheckOpen, submit, HandedOn, completeJob
<1>3. label \in Labels /\ label \notin {"park", "wait"} \cup Idling /\ at[g] \notin Idling
  BY <1>2 DEF Labels, Settling, Handing, Idling
<1> QED BY <1>1, <1>2, <1>3, StepAside DEF queues

\* Settling wakes nobody but the drain.
LEMMA SettlePInv ==
  ASSUME PInv, NEW g \in Goroutines, settle(g) \/ settleLast(g)
  PROVE  PInv'
<1>1. resume(g) \in {"rest", "body", "tick", "pop"}
  BY DEF resume, Goroutines
<1>2. PICK label \in {"rest", "body", "tick", "pop", "last"} : goto(g, label)
  BY <1>1 DEF settle, settleLast, leave
<1>3. at[g] \in {"settle", "last"} /\ UNCHANGED <<queues, parking>>
  BY DEF settle, settleLast
<1>4. label \in Labels /\ label \notin {"park", "wait"} \cup Idling /\ at[g] \notin Idling
  BY <1>3 DEF Labels, Parking, Idling
<1> QED BY <1>2, <1>3, <1>4, StepAside DEF queues

\* Whoever pushes a job goes on to wake somebody, if anybody is idle (runner.makeReady).
LEMMA PushReadyPInv ==
  ASSUME PInv, NEW g \in Goroutines, pushReady(g)
  PROVE  PInv'
<1>1. UNCHANGED <<idle, wake, mainWake>> /\ at[g] = "hand"
  BY DEF pushReady, parking
<1>2. PICK label \in {"wakeMain", "wakeWorker"} :
        /\ goto(g, label)
        /\ label = "wakeMain" => UNCHANGED ready
        /\ label = "wakeWorker" => UNCHANGED pinned
  BY DEF pushReady
<1>3. /\ at' \in [Goroutines -> Labels] /\ at'[g] = label
      /\ \A h \in Goroutines \ {g} : at'[h] = at[h]
  BY <1>2 DEF PInv, goto, Labels, Settling, Handing
<1>4. Workers \subseteq Goroutines /\ Main \in Goroutines
  BY DEF Goroutines
<1>5. IdleWorkers' = IdleWorkers
  BY <1>1, <1>3, <1>4 DEF IdleWorkers, Idling
<1>6. WorkerWoken'
  BY <1>1, <1>2, <1>3, <1>4 DEF PInv, WorkerWoken
<1>7. MainWoken'
  BY <1>1, <1>2, <1>3, <1>4 DEF PInv, MainWoken
<1> QED BY <1>1, <1>3, <1>5, <1>6, <1>7 DEF PInv

\* If no worker is counted idle then none is parked.
LEMMA WakePInv ==
  ASSUME PInv, NEW g \in Goroutines, wakeWorker(g) \/ wakeMain(g)
  PROVE  PInv'
<1>1. /\ at[g] \in {"wakeWorker", "wakeMain"} /\ goto(g, "hand") /\ UNCHANGED <<ready, pinned, idle>>
      /\ at[g] = "wakeWorker" =>
           wake' = (IF idle > 0 /\ wake < Cardinality(Workers) THEN wake + 1 ELSE wake) /\ UNCHANGED mainWake
      /\ at[g] = "wakeMain" => mainWake' = TRUE /\ UNCHANGED wake
  BY DEF wakeWorker, wakeMain, mainToken, queues
<1>2. /\ at' \in [Goroutines -> Labels] /\ at'[g] = "hand"
      /\ \A h \in Goroutines \ {g} : at'[h] = at[h]
  BY <1>1 DEF PInv, goto, Labels, Settling, Handing
<1>3. Workers \subseteq Goroutines /\ Main \in Goroutines
  BY DEF Goroutines
<1>4. IdleWorkers' = IdleWorkers
  BY <1>1, <1>2, <1>3 DEF IdleWorkers, Idling
<1>5. Cardinality(Workers) \in Nat /\ Cardinality(Workers) # 0
  BY RunnerAssumption, FS_CardinalityType, FS_EmptySet
<1>6. idle \in Nat /\ wake \in Nat
  BY IdleWorkersFinite DEF PInv
<1>7. wake' \in Nat
  BY <1>1, <1>6
<1>8. WorkerWoken'
  <2>1. CASE at[g] = "wakeMain"
    BY <1>1, <1>2, <1>3, <2>1 DEF PInv, WorkerWoken
  <2>2. CASE at[g] = "wakeWorker" /\ idle = 0
    <3>1. IdleWorkers = {}
      BY <2>2, IdleWorkersFinite, FS_EmptySet DEF PInv
    <3>2. PICK w \in Workers : TRUE
      BY RunnerAssumption
    <3>3. at[w] \notin Idling
      BY <3>1 DEF IdleWorkers
    <3>4. at'[w] # "park"
      BY <1>2, <1>3, <3>3 DEF Idling
    <3> QED BY <3>4 DEF WorkerWoken
  <2>3. CASE at[g] = "wakeWorker" /\ idle # 0
    <3>1. wake' # 0
      BY <1>1, <1>5, <1>6, <2>3
    <3> QED BY <3>1 DEF WorkerWoken
  <2> QED BY <1>1, <2>1, <2>2, <2>3
<1>9. MainWoken'
  BY <1>1, <1>2, <1>3 DEF PInv, MainWoken
<1> QED BY <1>1, <1>2, <1>4, <1>7, <1>8, <1>9 DEF PInv

\* A worker looks again after it has counted itself idle (runner.work).
LEMMA WorkPInv ==
  ASSUME PInv, NEW w \in Workers, work(w)
  PROVE  PInv'
<1>1. w \in Goroutines /\ w # Main /\ Main \in Goroutines /\ Workers \subseteq Goroutines
  BY DistinctAssumption DEF Goroutines
<1>2. CASE Pop(w)
  <2>1. PICK label \in {"body", "countIdle"} : goto(w, label)
    BY <1>2 DEF Pop
  <2>2. /\ at[w] = "pop" /\ UNCHANGED <<parking, pinned>> /\ (ready' # <<>> => ready # <<>>)
    BY <1>2 DEF Pop
  <2>3. label \in Labels /\ label \notin {"park", "wait"} \cup Idling /\ at[w] \notin Idling
    BY <2>2 DEF Labels, Parking, Idling
  <2> QED BY <1>1, <2>1, <2>2, <2>3, StepAside
<1>3. CASE Stop(w)
  <2>1. goto(w, "ended") /\ at[w] = "park" /\ UNCHANGED <<parking, queues>>
    BY <1>3 DEF Stop
  <2>2. "ended" \in Labels /\ "ended" \in Idling /\ at[w] \in Idling
    BY <2>1 DEF Labels, Parking, Idling
  <2> QED BY <1>1, <2>1, <2>2, StepAside DEF queues
<1>4. CASE CountIdle(w) \/ LookAgain(w) \/ Unpark(w) \/ UncountIdle(w)
  <2>1. PICK label \in {"look", "park", "uncount", "pop"} :
          /\ goto(w, label)
          /\ label = "park" => ready = <<>>
          /\ CountIdle(w) => label = "look"
          /\ LookAgain(w) => label \in {"park", "uncount"}
          /\ Unpark(w) => label = "uncount"
          /\ UncountIdle(w) => label = "pop"
    <3>1. CASE CountIdle(w)
      BY <3>1 DEF CountIdle, LookAgain, Unpark, UncountIdle
    <3>2. CASE LookAgain(w)
      BY <3>2 DEF CountIdle, LookAgain, Unpark, UncountIdle
    <3>3. CASE Unpark(w)
      BY <3>3 DEF CountIdle, LookAgain, Unpark, UncountIdle
    <3>4. CASE UncountIdle(w)
      BY <3>4 DEF CountIdle, LookAgain, Unpark, UncountIdle
    <3> QED BY <1>4, <3>1, <3>2, <3>3, <3>4
  <2>2. /\ at' \in [Goroutines -> Labels] /\ at'[w] = label
        /\ \A h \in Goroutines \ {w} : at'[h] = at[h]
    BY <1>1, <2>1 DEF PInv, goto, Labels, Parking
  <2>3. UNCHANGED <<ready, pinned, mainWake>> /\ at[w] \in {"countIdle", "look", "park", "uncount"}
    BY <1>4 DEF CountIdle, LookAgain, Unpark, UncountIdle, queues, parking
  <2>4. idle' = Cardinality(IdleWorkers')
    <3>1. CASE CountIdle(w)
      <4>1. at[w] = "countIdle" /\ idle' = idle + 1 /\ label = "look"
        BY <2>1, <3>1 DEF CountIdle
      <4>2. IdleWorkers' = IdleWorkers \cup {w} /\ w \notin IdleWorkers
        BY <1>1, <2>2, <4>1 DEF IdleWorkers, Idling
      <4> QED BY <4>1, <4>2, IdleWorkersFinite, FS_AddElement DEF PInv
    <3>2. CASE LookAgain(w) \/ Unpark(w)
      <4>1. at[w] \in {"look", "park"} /\ idle' = idle /\ label \in {"park", "uncount"}
        BY <2>1, <3>2 DEF LookAgain, Unpark, parking
      <4>2. IdleWorkers' = IdleWorkers
        BY <1>1, <2>2, <4>1 DEF IdleWorkers, Idling
      <4> QED BY <4>1, <4>2 DEF PInv
    <3>3. CASE UncountIdle(w)
      <4>1. at[w] = "uncount" /\ idle' = idle - 1 /\ label = "pop"
        BY <2>1, <3>3 DEF UncountIdle
      <4>2. IdleWorkers' = IdleWorkers \ {w} /\ w \in IdleWorkers
        BY <1>1, <2>2, <4>1 DEF IdleWorkers, Idling
      <4> QED BY <4>1, <4>2, IdleWorkersFinite, FS_RemoveElement DEF PInv
    <3> QED BY <1>4, <3>1, <3>2, <3>3
  <2>5. wake' \in Nat
    BY <1>4 DEF PInv, CountIdle, LookAgain, Unpark, UncountIdle, parking
  <2>6. WorkerWoken'
    BY <2>1, <2>2, <2>3 DEF WorkerWoken
  <2>7. MainWoken'
    BY <1>1, <2>2, <2>3 DEF PInv, MainWoken
  <2> QED BY <2>2, <2>4, <2>5, <2>6, <2>7 DEF PInv
<1> QED BY <1>2, <1>3, <1>4 DEF work

\* The main thread takes the token or a pinned job (WaitMainThread, TickMainThread).
LEMMA MainPInv ==
  ASSUME PInv, main
  PROVE  PInv'
<1>1. Main \in Goroutines /\ Main \notin Workers /\ Workers \subseteq Goroutines
  BY DistinctAssumption DEF Goroutines
<1>2. PICK label \in {"tick", "ended", "body", "wait"} :
        /\ goto(Main, label)
        /\ label = "wait" => pinned' = <<>>
  BY DEF main, WaitMainThread, MainEnds, TickMainThread
<1>3. /\ UNCHANGED <<ready, idle, wake>> /\ at[Main] \in {"wait", "tick"}
  BY DEF main, WaitMainThread, MainEnds, TickMainThread, queues, parking
<1>4. /\ at' \in [Goroutines -> Labels] /\ at'[Main] = label
      /\ \A h \in Goroutines \ {Main} : at'[h] = at[h]
  BY <1>1, <1>2 DEF PInv, goto, Labels, Parking
<1>5. IdleWorkers' = IdleWorkers
  BY <1>1, <1>4 DEF IdleWorkers
<1>6. WorkerWoken'
  BY <1>1, <1>3, <1>4 DEF PInv, WorkerWoken
<1>7. MainWoken'
  BY <1>2, <1>4 DEF MainWoken
<1> QED BY <1>3, <1>4, <1>5, <1>6, <1>7 DEF PInv

\* Every step keeps it.
LEMMA NextPInv == PInv /\ [Next]_vars => PInv'
<1> SUFFICES ASSUME PInv, [Next]_vars PROVE PInv'
  OBVIOUS
<1>1. ASSUME NEW g \in Goroutines, Publish(g) \/ hands(g) \/ completeJob(g) PROVE PInv'
  BY <1>1, HandsPInv, SettlePInv, PushReadyPInv, WakePInv DEF hands
<1>2. ASSUME UNCHANGED <<queues, parking, procs>> PROVE PInv'
  <2>1. UNCHANGED <<ready, pinned, idle, wake, mainWake, at>>
    BY <1>2 DEF queues, parking, procs
  <2>2. IdleWorkers' = IdleWorkers
    BY <2>1 DEF IdleWorkers
  <2> QED BY <2>1, <2>2 DEF PInv, WorkerWoken, MainWoken
<1>3. CASE destroy \/ AllOver \/ UNCHANGED vars
  BY <1>2, <1>3 DEF destroy, Close, CheckOutstanding, AwaitDrained, CloseStop,
                    AwaitWorkers, AllOver, vars
<1> QED BY <1>1, <1>3, WorkPInv, MainPInv DEF Next

\* However pushes and parking interleave, and whatever number of tokens the
\* wake channel holds, no ready job is left with every worker parked and no
\* token to come, and no pinned one with the main thread waiting for nothing.
THEOREM Wakeups == Spec => []NoLostWakeup
<1>1. PInv => NoLostWakeup
  BY DEF PInv, WorkerWoken, MainWoken, NoLostWakeup
<1> QED BY InitPInv, NextPInv, <1>1, PTL DEF Spec

=============================================================================
