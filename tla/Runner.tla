------------------------------- MODULE Runner -------------------------------
(***************************************************************************)
(* How a kernel runs jobs and how it drains (kernel/runner.go, with the    *)
(* main thread's part of kernel/supervisor.go): workers that park when     *)
(* nothing is ready, the main thread that ticks pinned jobs, publications  *)
(* that add jobs, and the drain that ends it all.                          *)
(*                                                                         *)
(* The job graph and the lock combiner are reduced to what they hand over: *)
(* a job of a submitted batch is made ready by its publication, or, if it  *)
(* depends on another job of the batch, by the goroutine completing that   *)
(* one.  Every access to an atomic, a queue or a channel is a step, except *)
(* that a look and the send that depends on it are one: of idle, before a  *)
(* token goes to wake, and of closed, before one goes to drained.  Neither *)
(* send blocks; closed stays set once it is, and a token for a worker that *)
(* is no longer idle only makes it look again.                             *)
(***************************************************************************)
EXTENDS Integers, Sequences, FiniteSets, SequencesExt

CONSTANTS
  Workers,   \* the kernel's worker goroutines
  Main,      \* the main thread
  Plugins,   \* goroutines of plugins, which publish until their plugin stops
  Outsiders, \* goroutines outside the kernel that publish into it
  Jobs,      \* every job that may be scheduled
  Pinned,    \* the jobs of tasks pinned to the main thread
  Batch,     \* Batch[x]: the batch that the handlers schedule as goroutine x, or
             \* the body of job x, publishes
  DependsOn, \* DependsOn[j]: the job of its batch that j waits for, or NoJob
  NoJob

Publishers == Plugins \cup Outsiders
Goroutines == Workers \cup {Main} \cup Publishers

ASSUME RunnerAssumption ==
  /\ IsFiniteSet(Workers) /\ Workers # {}
  /\ NoJob \notin Jobs /\ Pinned \subseteq Jobs
  /\ DOMAIN Batch \subseteq Publishers \cup Jobs
  /\ \A x \in DOMAIN Batch : Batch[x] \in Seq(Jobs)
  /\ DependsOn \in [Jobs -> Jobs \cup {NoJob}]

\* Goroutines are distinct things; a job is made by one publication, once, and
\* depends on jobs of that publication only.
ASSUME DistinctAssumption ==
  /\ IsFiniteSet(Publishers)
  /\ Workers \cap Publishers = {} /\ Main \notin Workers \cup Publishers
  /\ Goroutines \cap (Jobs \cup {NoJob}) = {}
  /\ \A x \in DOMAIN Batch : IsInjective(Batch[x])
  /\ \A x, y \in DOMAIN Batch :
       x # y => ToSet(Batch[x]) \cap ToSet(Batch[y]) = {}
  /\ \A x \in DOMAIN Batch, j \in Jobs : DependsOn[j] \in Jobs =>
       (j \in ToSet(Batch[x]) <=> DependsOn[j] \in ToSet(Batch[x]))

VARIABLES
  ready,       \* jobs waiting for a worker
  idle,        \* how many workers counted themselves idle
  wake,        \* tokens in the wake channel, one slot per worker
  stop,        \* whether the stop channel is closed
  outstanding, \* jobs not finished and publications still running
  closed,      \* whether the kernel takes no more work
  drained,     \* whether the drained channel holds its token
  pinned,      \* pinned jobs waiting for the main thread
  mainWake,    \* whether the mainWake channel holds its token
  drain,       \* how far drain is
  at,          \* where each goroutine is
  job,         \* the job each goroutine runs, or NoJob
  hand,        \* the jobs it is about to make ready
  batch,       \* the main thread's drained pinned jobs
  published,   \* history: the goroutines and jobs that have published
  finished,    \* history: jobs that have finished
  crossed      \* history: whether a publication was ever counted while some
               \* goroutine, having settled the last one, had not yet looked
               \* whether the kernel is closed

queues == <<ready, pinned, batch>>
parking == <<idle, wake, mainWake>>
draining == <<stop, outstanding, closed, drained, drain>>
procs == <<at, job, hand>>
past == <<published, finished, crossed>>
vars == <<queues, parking, draining, procs, past>>

Init ==
  /\ ready = <<>> /\ pinned = <<>> /\ batch = <<>>
  /\ idle = 0 /\ wake = 0 /\ mainWake = FALSE
  /\ stop = FALSE /\ outstanding = 0 /\ closed = FALSE /\ drained = FALSE
  /\ drain = "running"
  /\ at = [g \in Goroutines |-> IF g \in Workers THEN "pop"
                                ELSE IF g = Main THEN "wait" ELSE "rest"]
  /\ job = [g \in Goroutines |-> NoJob]
  /\ hand = [g \in Goroutines |-> {}]
  /\ published = {} /\ finished = {} /\ crossed = FALSE

goto(g, label) == at' = [at EXCEPT ![g] = label]

-----------------------------------------------------------------------------
(* add, Publish, submit *)

\* What a publication belongs to: the job whose body publishes, or the
\* publishing goroutine.
publisher(g) == IF job[g] = NoJob THEN g ELSE job[g]

\* Kernel.Publish counts the publication before it checks.
Publish(g) ==
  /\ at[g] \in {"rest", "body"}
  /\ publisher(g) \in DOMAIN Batch \ published
  /\ drain = "running" \/ g \notin Plugins
  /\ published' = published \cup {publisher(g)}
  /\ crossed' = (crossed \/ \E h \in Goroutines : at[h] = "last")
  /\ outstanding' = outstanding + 1
  /\ goto(g, "check")
  /\ UNCHANGED <<queues, parking, stop, closed, drained, drain, job, hand,
                 finished>>

\* A kernel that drains publishes nothing.
CheckOpen(g) ==
  /\ at[g] = "check"
  /\ goto(g, IF closed THEN "settle" ELSE "submit")
  /\ UNCHANGED <<queues, parking, draining, job, hand, past>>

\* The handlers have returned: the batch is counted while the publication
\* still is, then submitted.
counted(jobs) == Len(jobs)

submit(g) ==
  /\ at[g] = "submit"
  /\ LET jobs == Batch[publisher(g)] IN
       /\ outstanding' = outstanding + counted(jobs)
       /\ hand' = [hand EXCEPT ![g] =
                     {j \in ToSet(jobs) : DependsOn[j] = NoJob}]
  /\ goto(g, "hand")
  /\ UNCHANGED <<queues, parking, stop, closed, drained, drain, job,
                 past>>

-----------------------------------------------------------------------------
(* makeReady, pushPinned *)

\* One after another, in whatever order the graph's edges have.
pushReady(g) ==
  /\ at[g] = "hand"
  /\ \E j \in hand[g] :
       /\ \/ /\ j \in Pinned
             /\ pinned' = Append(pinned, j)
             /\ goto(g, "wakeMain")
             /\ UNCHANGED ready
          \/ /\ j \notin Pinned
             /\ ready' = Append(ready, j)
             /\ goto(g, "wakeWorker")
             /\ UNCHANGED pinned
       /\ hand' = [hand EXCEPT ![g] = @ \ {j}]
  /\ UNCHANGED <<batch, parking, draining, job, past>>

\* A token for an idle worker, unless every worker already has one.
wakeWorker(g) ==
  /\ at[g] = "wakeWorker"
  /\ wake' = IF idle > 0 /\ wake < Cardinality(Workers) THEN wake + 1 ELSE wake
  /\ goto(g, "hand")
  /\ UNCHANGED <<queues, idle, mainWake, draining, job, hand, past>>

\* A token for the main thread, unless one is already there.  Mutated: none.
mainToken_None == mainWake
mainToken == TRUE

wakeMain(g) ==
  /\ at[g] = "wakeMain"
  /\ mainWake' = mainToken
  /\ goto(g, "hand")
  /\ UNCHANGED <<queues, idle, wake, draining, job, hand, past>>

\* Everything is handed on: the publication, or else the job, is settled.
HandedOn(g) ==
  /\ at[g] = "hand"
  /\ hand[g] = {}
  /\ goto(g, "settle")
  /\ UNCHANGED <<queues, parking, draining, job, hand, past>>

-----------------------------------------------------------------------------
(* settle *)

\* Where a goroutine goes on after settling a publication or a job.
resume(g) ==
  CASE g \in Publishers -> "rest"
    [] g \notin Publishers /\ job[g] \in Jobs \ finished -> "body"
    [] g = Main /\ job[g] \notin Jobs \ finished -> "tick"
    [] g \in Workers /\ job[g] \notin Jobs \ finished -> "pop"

\* Leave the settled job behind, if it was one.
leave(g, label) ==
  /\ goto(g, label)
  /\ job' = [job EXCEPT ![g] = IF label = "body" THEN @ ELSE NoJob]

settle(g) ==
  /\ at[g] = "settle"
  /\ outstanding' = outstanding - 1
  /\ IF outstanding = 1 THEN goto(g, "last") /\ UNCHANGED job
                        ELSE leave(g, resume(g))
  /\ UNCHANGED <<queues, parking, stop, closed, drained, drain, hand,
                 past>>

\* Mutated: the last one out leaves drain asleep.
settleLast_Silent(g) ==
  /\ at[g] = "last"
  /\ leave(g, resume(g))
  /\ UNCHANGED <<queues, parking, stop, outstanding, closed, drained, drain,
                 hand, past>>

\* The last one out wakes drain, if the kernel is draining.
settleLast(g) ==
  /\ at[g] = "last"
  /\ drained' = (drained \/ closed)
  /\ leave(g, resume(g))
  /\ UNCHANGED <<queues, parking, stop, outstanding, closed, drain, hand,
                 past>>

-----------------------------------------------------------------------------
(* work, TickMainThread *)

Pop(w) ==
  /\ at[w] = "pop"
  /\ \/ /\ ready # <<>>
        /\ ready' = Tail(ready)
        /\ job' = [job EXCEPT ![w] = Head(ready)]
        /\ goto(w, "body")
     \/ /\ ready = <<>>
        /\ goto(w, "countIdle")
        /\ UNCHANGED <<ready, job>>
  /\ UNCHANGED <<pinned, batch, parking, draining, hand, past>>

CountIdle(w) ==
  /\ at[w] = "countIdle"
  /\ idle' = idle + 1
  /\ goto(w, "look")
  /\ UNCHANGED <<queues, wake, mainWake, draining, job, hand, past>>

\* Mutated: the worker parks without looking again.
LookAgain_Parks(w) ==
  /\ at[w] = "look"
  /\ goto(w, "park")
  /\ UNCHANGED <<queues, parking, draining, job, hand, past>>

LookAgain(w) ==
  /\ at[w] = "look"
  /\ goto(w, IF ready = <<>> THEN "park" ELSE "uncount")
  /\ UNCHANGED <<queues, parking, draining, job, hand, past>>

Unpark(w) ==
  /\ at[w] = "park"
  /\ wake > 0
  /\ wake' = wake - 1
  /\ goto(w, "uncount")
  /\ UNCHANGED <<queues, idle, mainWake, draining, job, hand, past>>

Stop(w) ==
  /\ at[w] = "park"
  /\ stop
  /\ goto(w, "ended")
  /\ UNCHANGED <<queues, parking, draining, job, hand, past>>

UncountIdle(w) ==
  /\ at[w] = "uncount"
  /\ idle' = idle - 1
  /\ goto(w, "pop")
  /\ UNCHANGED <<queues, wake, mainWake, draining, job, hand, past>>

\* The body returns and the job completes: its successors are made ready.
completeJob(g) ==
  /\ at[g] = "body"
  /\ finished' = finished \cup {job[g]}
  /\ hand' = [hand EXCEPT ![g] = {j \in Jobs : DependsOn[j] = job[g]}]
  /\ goto(g, "hand")
  /\ UNCHANGED <<queues, parking, draining, job, published, crossed>>

WaitMainThread ==
  /\ at[Main] = "wait"
  /\ mainWake
  /\ mainWake' = FALSE
  /\ goto(Main, "tick")
  /\ UNCHANGED <<queues, idle, wake, draining, job, hand, past>>

\* Done is closed once the kernel is gone: a kernel that Quit takes.  Done does
\* not wait for one whose Destroy had begun before (Supervisor has that), and
\* "a pinned job nobody ticks waits forever", its kernel's drain included.
MainEnds ==
  /\ at[Main] = "wait"
  /\ drain = "done"
  /\ goto(Main, "ended")
  /\ UNCHANGED <<queues, parking, draining, job, hand, past>>

\* The tick drains the pinned jobs and runs them, until none is pending.
TickMainThread ==
  /\ at[Main] = "tick"
  /\ \/ /\ batch # <<>>
        /\ job' = [job EXCEPT ![Main] = Head(batch)]
        /\ batch' = Tail(batch)
        /\ goto(Main, "body")
        /\ UNCHANGED pinned
     \/ /\ batch = <<>>
        /\ batch' = pinned
        /\ pinned' = <<>>
        /\ goto(Main, IF pinned = <<>> THEN "wait" ELSE "tick")
        /\ UNCHANGED job
  /\ UNCHANGED <<ready, parking, draining, hand, past>>

-----------------------------------------------------------------------------
(* drain, after the plugins were stopped *)

\* destroy: every plugin's Stop has returned, its goroutines publish no more.
Close ==
  /\ drain = "running"
  /\ \A p \in Plugins : at[p] = "rest"
  /\ closed' = TRUE
  /\ drain' = "closed"
  /\ UNCHANGED <<queues, parking, stop, outstanding, drained, procs,
                 past>>

\* Mutated: drain does not wait.
awaits_Nothing == "finished"
awaits == IF outstanding # 0 THEN "waiting" ELSE "finished"

CheckOutstanding ==
  /\ drain = "closed"
  /\ drain' = awaits
  /\ UNCHANGED <<queues, parking, stop, outstanding, closed, drained, procs,
                 past>>

AwaitDrained ==
  /\ drain = "waiting"
  /\ drained
  /\ drained' = FALSE
  /\ drain' = "finished"
  /\ UNCHANGED <<queues, parking, stop, outstanding, closed, procs, past>>

CloseStop ==
  /\ drain = "finished"
  /\ stop' = TRUE
  /\ drain' = "stopping"
  /\ UNCHANGED <<queues, parking, outstanding, closed, drained, procs,
                 past>>

AwaitWorkers ==
  /\ drain = "stopping"
  /\ \A w \in Workers : at[w] = "ended"
  /\ drain' = "done"
  /\ UNCHANGED <<queues, parking, stop, outstanding, closed, drained, procs,
                 past>>

-----------------------------------------------------------------------------

hands(g) ==
  \/ CheckOpen(g) \/ submit(g)
  \/ pushReady(g) \/ wakeWorker(g) \/ wakeMain(g) \/ HandedOn(g)
  \/ settle(g) \/ settleLast(g)

work(w) ==
  \/ Pop(w) \/ CountIdle(w) \/ LookAgain(w) \/ Unpark(w) \/ Stop(w)
  \/ UncountIdle(w)

main == WaitMainThread \/ MainEnds \/ TickMainThread

destroy ==
  Close \/ CheckOutstanding \/ AwaitDrained \/ CloseStop \/ AwaitWorkers

AllOver ==
  /\ drain = "done" /\ at[Main] = "ended"
  /\ \A p \in Publishers : at[p] = "rest"
  /\ UNCHANGED vars

Next ==
  \/ \E g \in Goroutines : Publish(g) \/ hands(g) \/ completeJob(g)
  \/ \E w \in Workers : work(w)
  \/ main
  \/ destroy
  \/ AllOver

Spec == Init /\ [][Next]_vars

\* Every goroutine that can go on does, task bodies return, and the main
\* thread keeps ticking until the end.  Publications and the drain may come at
\* any time or never.
Fairness ==
  /\ \A g \in Goroutines : WF_vars(hands(g) \/ completeJob(g))
  /\ \A w \in Workers : WF_vars(work(w))
  /\ WF_vars(main)
  /\ WF_vars(CheckOutstanding \/ AwaitDrained \/ CloseStop \/ AwaitWorkers)

FairSpec == Spec /\ Fairness

-----------------------------------------------------------------------------
(* Properties *)

\* Every variable keeps its type; no counter goes below zero and no channel
\* over its capacity.
TypeOK ==
  /\ outstanding \in Nat
  /\ idle \in 0..Cardinality(Workers)
  /\ wake \in 0..Cardinality(Workers)
  /\ stop \in BOOLEAN /\ closed \in BOOLEAN /\ drained \in BOOLEAN
  /\ ToSet(ready) \subseteq Jobs \ Pinned
  /\ ToSet(pinned) \cup ToSet(batch) \subseteq Pinned
  /\ job \in [Goroutines -> Jobs \cup {NoJob}]

\* No publication runs that was let through, and no job waits to run or runs.
NothingLeft ==
  /\ \A g \in Goroutines : at[g] \notin {"submit", "hand", "wakeWorker", "wakeMain", "body"}
  /\ ready = <<>> /\ pinned = <<>> /\ batch = <<>>

\* drain "blocks until every job and publication still outstanding has
\* finished, then ends the workers" (runner.go:97), and a plugin's Destroy runs
\* "once every job of the kernel has finished" (plugin.go:49): when drain has
\* returned, and the plugins are about to be destroyed, nothing is left.
DrainWaitsForAll == drain = "done" => NothingLeft

\* drain does not even go on to end the workers while something is left, except
\* where a publication crossed the last settle: that race is the only way for
\* drain to go on too early.
DrainWaitsUnlessCrossed ==
  crossed \/ (drain \in {"finished", "stopping", "done"} => NothingLeft)

\* "A worker that parks after the job was pushed still wakes" (runner): while
\* a job is ready, some worker is about to look, or a token or the goroutine
\* that will put one in is there; the same for the main thread.
NoLostWakeup ==
  /\ ready # <<>> /\ (\A w \in Workers : at[w] \in {"park", "body"}) /\ wake = 0
       => \/ \E w \in Workers : at[w] = "body"
          \/ \E g \in Goroutines : at[g] = "wakeWorker"
  /\ pinned # <<>> /\ at[Main] = "wait" /\ ~mainWake
       => \E g \in Goroutines : at[g] = "wakeMain"

\* Every job of a submitted batch runs in the end, however the workers park
\* and whenever the kernel drains, except where drain went on too early.
EveryJobFinishes ==
  \A g \in Publishers \cap DOMAIN Batch :
    at[g] = "hand" ~> crossed \/ ToSet(Batch[g]) \subseteq finished

\* A drain that has begun ends.
DrainReturns == closed ~> drain = "done"

=============================================================================
