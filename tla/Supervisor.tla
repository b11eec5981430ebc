----------------------------- MODULE Supervisor -----------------------------
(***************************************************************************)
(* The supervisor and the lifecycle of its kernels (kernel/supervisor.go,  *)
(* kernel/lifecycle.go, Kernel.init and destroy): kernels are spawned,     *)
(* published into, destroyed and quit from any goroutine at any time, and  *)
(* each takes its plugins up in order and down in reverse.                 *)
(*                                                                         *)
(* A call of a plugin is one step, in which it may publish a job, and so   *)
(* is the body of a job.  What the supervisor does under its mutex is one  *)
(* step.  The runner is reduced to the jobs it still has and to the steps  *)
(* of its drain: how a publication is counted, checked and settled, and    *)
(* what drain looks at and waits for.  Runner.tla has the whole of it.     *)
(***************************************************************************)
EXTENDS Integers, Sequences, FiniteSets, SequencesExt

CONSTANTS
  Kernels,     \* the kernels that may be spawned, each by a Spawn of its own
  PluginCount, \* how many plugins each has
  Workers,     \* the worker goroutines of each kernel
  Main,        \* the main thread
  Callers,     \* goroutines that call GetKernel and Broadcast
  Workloads    \* bounds on a behaviour, which has one of them: the kernels,
               \* workers and callers in it, and how many jobs and pinned jobs
               \* a kernel has at a time

ASSUME SupervisorAssumption ==
  /\ IsFiniteSet(Kernels)
  /\ PluginCount \in Nat
  /\ Workloads \subseteq [kernels : SUBSET Kernels, workers : SUBSET Workers,
                          callers : SUBSET Callers, jobs : Nat, pinned : Nat]

VARIABLES
  workload,
  kernels,    \* every live kernel
  spawnOrder, \* the same kernels in the order they were spawned
  quitting,   \* whether Quit was called
  taken,      \* the kernels Quit took, for whose end Done waits
  done,       \* whether Done is closed
  mainEnded,  \* whether the main thread has seen that
  phase,      \* what the goroutine taking each kernel up or down does
  next,       \* the plugin it is at
  open,       \* kernels that take work
  jobs,       \* how many unpinned jobs each kernel still has
  pinned,     \* how many pinned ones
  last,       \* goroutines that settled the last outstanding one of each kernel
              \* and have not yet looked whether it is closed
  drained,    \* kernels whose drained channel holds its token
  reached,    \* the kernels each caller is still going to publish into
  stage,      \* how far its publication into the first of them is
  crossed,    \* history: kernels where work was let through past a goroutine
              \* in last
  calls       \* history: what was called on each plugin

super == <<workload, kernels, spawnOrder, quitting, taken, done>>
life == <<phase, next, open>>
work == <<jobs, pinned>>
settling == <<last, drained, crossed>>
publishing == <<reached, stage>>
vars == <<super, mainEnded, life, work, settling, publishing, calls>>

Plugins == 1..PluginCount
Goroutines == Workers \cup {Main} \cup Callers

Init ==
  /\ workload \in Workloads
  /\ kernels = {} /\ spawnOrder = <<>>
  /\ quitting = FALSE /\ taken = {} /\ done = FALSE /\ mainEnded = FALSE
  /\ phase = [k \in Kernels |-> "absent"]
  /\ next = [k \in Kernels |-> 0]
  /\ open = {}
  /\ jobs = [k \in Kernels |-> 0] /\ pinned = [k \in Kernels |-> 0]
  /\ last = [k \in Kernels |-> {}] /\ drained = {} /\ crossed = {}
  /\ reached = [c \in Callers |-> <<>>] /\ stage = [c \in Callers |-> "next"]
  /\ calls = [k \in Kernels |-> [i \in Plugins |-> <<>>]]

enter(k, p, i) ==
  /\ phase' = [phase EXCEPT ![k] = p]
  /\ next' = [next EXCEPT ![k] = i]

called(k, call) == calls' = [calls EXCEPT ![k][next[k]] = Append(@, call)]

-----------------------------------------------------------------------------
(* What is outstanding, and how it is settled *)

publishesInto(c, k) == reached[c] # <<>> /\ Head(reached[c]) = k

\* Every job and every publication is counted until it is settled.  Mutated:
\* pinned jobs are not.
nothingOutstanding_Unpinned(k) ==
  /\ jobs[k] = 0
  /\ \A c \in Callers : stage[c] # "next" => ~publishesInto(c, k)
nothingOutstanding(k) ==
  /\ jobs[k] = 0 /\ pinned[k] = 0
  /\ \A c \in Callers : stage[c] # "next" => ~publishesInto(c, k)

busy(g) == \E k \in Kernels : g \in last[k]

\* settle, up to its decrement: the last one still has to look whether the
\* kernel is closed.
settle(k, g) ==
  last' = [last EXCEPT ![k] = IF nothingOutstanding(k)' THEN @ \cup {g} ELSE @]

\* It wakes the drain of a closed kernel.
settleLast(k, g) ==
  /\ g \in last[k]
  /\ last' = [last EXCEPT ![k] = @ \ {g}]
  /\ \/ /\ k \in open
        /\ crossed' = IF last[k] = {g} THEN crossed \ {k} ELSE crossed
        /\ UNCHANGED drained
     \/ /\ k \notin open
        /\ drained' = drained \cup {k}
        /\ UNCHANGED crossed
  /\ UNCHANGED <<super, mainEnded, life, work, publishing, calls>>

\* Work was let through that the goroutines in last do not know of.
crosses(k) == crossed' = IF last[k] = {} THEN crossed ELSE crossed \cup {k}

addJob(k) ==
  \/ /\ jobs[k] < workload.jobs
     /\ jobs' = [jobs EXCEPT ![k] = @ + 1]
     /\ UNCHANGED pinned
  \/ /\ pinned[k] < workload.pinned
     /\ pinned' = [pinned EXCEPT ![k] = @ + 1]
     /\ UNCHANGED jobs

\* Kernel.Publish by a plugin's Start or Stop, whose goroutine is the one that
\* would close the kernel: an open kernel may get a job, pinned or not.
Publish(k) ==
  \/ UNCHANGED <<work, crossed>>
  \/ /\ k \in open
     /\ addJob(k)
     /\ crosses(k)

-----------------------------------------------------------------------------
(* Up: Spawn, Kernel.init, lifecycle.init, lifecycle.start *)

Spawn(k) ==
  /\ k \in workload.kernels
  /\ phase[k] = "absent"
  /\ IF quitting THEN enter(k, "refused", 0) ELSE enter(k, "init", 1)
  /\ UNCHANGED <<super, mainEnded, open, work, settling, publishing, calls>>

InitPlugin(k) ==
  /\ phase[k] = "init"
  /\ next[k] \in Plugins
  /\ \/ called(k, "init") /\ enter(k, "init", next[k] + 1)
     \/ called(k, "init failed") /\ enter(k, "destroy", next[k] - 1)
  /\ UNCHANGED <<super, mainEnded, open, work, settling, publishing>>

\* Registration is settled and the workers start, with channels of their own.
StartWorkers(k) ==
  /\ phase[k] = "init"
  /\ next[k] > PluginCount
  /\ open' = open \cup {k}
  /\ drained' = drained \ {k}
  /\ enter(k, "start", 1)
  /\ UNCHANGED <<super, mainEnded, work, last, crossed, publishing, calls>>

\* A failed Start stops the plugins started before it.  Mutated: it stops
\* itself, too.
lastStarted_Failed(k) == next[k]
lastStarted(k) == next[k] - 1

StartPlugin(k) ==
  /\ phase[k] = "start"
  /\ next[k] \in Plugins
  /\ Publish(k)
  /\ \/ called(k, "start") /\ enter(k, "start", next[k] + 1)
     \/ called(k, "start failed") /\ enter(k, "stop", lastStarted(k))
  /\ UNCHANGED <<super, mainEnded, open, last, drained, publishing>>

\* Under the mutex, Spawn looks again whether Quit was called before the
\* kernel becomes live.  Mutated: it does not.
mayAdd_Unchecked == TRUE
mayAdd == ~quitting

AddKernel(k) ==
  /\ phase[k] = "start"
  /\ next[k] > PluginCount
  /\ \/ /\ mayAdd
        /\ kernels' = kernels \cup {k}
        /\ spawnOrder' = Append(spawnOrder, k)
        /\ enter(k, "live", 0)
     \/ /\ ~mayAdd
        /\ enter(k, "stop", PluginCount)
        /\ UNCHANGED <<kernels, spawnOrder>>
  /\ UNCHANGED <<workload, quitting, taken, done, mainEnded, open, work,
                 settling, publishing, calls>>

-----------------------------------------------------------------------------
(* Down: Kernel.destroy, lifecycle.stopFrom, drain, lifecycle.destroyFrom *)

StopPlugin(k) ==
  /\ phase[k] = "stop"
  /\ next[k] \in Plugins
  /\ Publish(k)
  /\ called(k, "stop")
  /\ enter(k, "stop", next[k] - 1)
  /\ UNCHANGED <<super, mainEnded, open, last, drained, publishing>>

\* From here on the kernel takes no work.  Mutated: it does.
BeginDrain_Open(k) ==
  /\ phase[k] = "stop"
  /\ next[k] = 0
  /\ enter(k, "drain", 0)
  /\ UNCHANGED <<super, mainEnded, open, work, settling, publishing, calls>>

BeginDrain(k) ==
  /\ phase[k] = "stop"
  /\ next[k] = 0
  /\ open' = open \ {k}
  /\ enter(k, "drain", 0)
  /\ UNCHANGED <<super, mainEnded, work, settling, publishing, calls>>

CheckOutstanding(k) ==
  /\ phase[k] = "drain"
  /\ enter(k, IF nothingOutstanding(k) THEN "join" ELSE "await", 0)
  /\ UNCHANGED <<super, mainEnded, open, work, settling, publishing, calls>>

AwaitDrained(k) ==
  /\ phase[k] = "await"
  /\ k \in drained
  /\ drained' = drained \ {k}
  /\ enter(k, "join", 0)
  /\ UNCHANGED <<super, mainEnded, open, work, last, crossed, publishing,
                 calls>>

\* The workers end once they find nothing ready.  A job that is left then can
\* only wait for a pinned one.
AwaitWorkers(k) ==
  /\ phase[k] = "join"
  /\ jobs[k] = 0 \/ pinned[k] > 0
  /\ last[k] \cap Workers = {}
  /\ enter(k, "destroy", PluginCount)
  /\ UNCHANGED <<super, mainEnded, open, work, settling, publishing, calls>>

DestroyPlugin(k) ==
  /\ phase[k] = "destroy"
  /\ next[k] \in Plugins
  /\ called(k, "destroy")
  /\ enter(k, "destroy", next[k] - 1)
  /\ UNCHANGED <<super, mainEnded, open, work, settling, publishing>>

Gone(k) ==
  /\ phase[k] = "destroy"
  /\ next[k] = 0
  /\ enter(k, "gone", 0)
  /\ UNCHANGED <<super, mainEnded, open, work, settling, publishing, calls>>

-----------------------------------------------------------------------------
(* Jobs: the workers' and the main thread's *)

\* A job's body may publish a job of the other kind in its own kernel.  The job
\* itself is outstanding meanwhile.
RunJob(k, w) ==
  /\ phase[k] \in {"start", "live", "stop", "drain", "await", "join"}
  /\ w \in workload.workers \ last[k]
  /\ jobs[k] > 0
  /\ jobs' = [jobs EXCEPT ![k] = @ - 1]
  /\ \/ UNCHANGED pinned
     \/ /\ k \in open /\ pinned[k] < workload.pinned
        /\ pinned' = [pinned EXCEPT ![k] = @ + 1]
  /\ UNCHANGED publishing
  /\ settle(k, w)
  /\ UNCHANGED <<super, mainEnded, life, drained, crossed, calls>>

RunPinned(k) ==
  /\ ~mainEnded /\ ~busy(Main)
  /\ pinned[k] > 0
  /\ pinned' = [pinned EXCEPT ![k] = @ - 1]
  /\ \/ UNCHANGED jobs
     \/ /\ k \in open /\ jobs[k] < workload.jobs
        /\ jobs' = [jobs EXCEPT ![k] = @ + 1]
  /\ UNCHANGED publishing
  /\ settle(k, Main)
  /\ UNCHANGED <<super, mainEnded, life, drained, crossed, calls>>

\* WaitMainThread answers false once Done is closed.  Mutated: once Quit was
\* called.
MainEnds_AtQuit ==
  /\ quitting /\ ~busy(Main)
  /\ mainEnded' = TRUE
  /\ UNCHANGED <<super, life, work, settling, publishing, calls>>

MainEnds ==
  /\ done /\ ~busy(Main)
  /\ mainEnded' = TRUE
  /\ UNCHANGED <<super, life, work, settling, publishing, calls>>

-----------------------------------------------------------------------------
(* GetKernel, Broadcast, Destroy, Quit *)

GetKernel(c, k) ==
  /\ c \in workload.callers /\ reached[c] = <<>> /\ ~busy(c)
  /\ k \in kernels
  /\ reached' = [reached EXCEPT ![c] = <<k>>]
  /\ UNCHANGED <<super, mainEnded, life, work, settling, stage, calls>>

Broadcast(c) ==
  /\ c \in workload.callers /\ reached[c] = <<>> /\ ~busy(c)
  /\ spawnOrder # <<>>
  /\ reached' = [reached EXCEPT ![c] = spawnOrder]
  /\ UNCHANGED <<super, mainEnded, life, work, settling, stage, calls>>

\* Kernel.Publish into the next kernel reached, which may have begun to stop,
\* or be gone, since.  It is counted before the kernel is checked.
PublishNext(c) ==
  /\ stage[c] = "next" /\ ~busy(c)
  /\ reached[c] # <<>>
  /\ stage' = [stage EXCEPT ![c] = "counted"]
  /\ UNCHANGED <<super, mainEnded, life, work, settling, reached, calls>>

\* The publication is over, what it scheduled is counted.
settlePublication(c) ==
  /\ stage' = [stage EXCEPT ![c] = "next"]
  /\ reached' = [reached EXCEPT ![c] = Tail(@)]
  /\ \E k \in {Head(reached[c])} : settle(k, c)

\* A closed kernel publishes nothing.
CheckOpen(c) ==
  /\ stage[c] = "counted"
  /\ \/ /\ Head(reached[c]) \in open
        /\ stage' = [stage EXCEPT ![c] = "handlers"]
        /\ crosses(Head(reached[c]))
        /\ UNCHANGED <<work, last, reached>>
     \/ /\ Head(reached[c]) \notin open
        /\ UNCHANGED <<work, crossed>>
        /\ settlePublication(c)
  /\ UNCHANGED <<super, mainEnded, life, drained, calls>>

\* The handlers run; what they scheduled is submitted.
Submit(c) ==
  /\ stage[c] = "handlers"
  /\ UNCHANGED work \/ addJob(Head(reached[c]))
  /\ settlePublication(c)
  /\ UNCHANGED <<super, mainEnded, life, drained, crossed, calls>>

withoutKernel(k) == SelectSeq(spawnOrder, LAMBDA other : other # k)

Destroy(k) ==
  /\ k \in kernels
  /\ kernels' = kernels \ {k}
  /\ spawnOrder' = withoutKernel(k)
  /\ enter(k, "stop", PluginCount)
  /\ UNCHANGED <<workload, quitting, taken, done, mainEnded, open, work,
                 settling, publishing, calls>>

Quit ==
  /\ ~quitting
  /\ quitting' = TRUE
  /\ taken' = kernels
  /\ kernels' = {}
  /\ spawnOrder' = <<>>
  /\ phase' = [k \in Kernels |-> IF k \in kernels THEN "stop" ELSE phase[k]]
  /\ next' = [k \in Kernels |-> IF k \in kernels THEN PluginCount ELSE next[k]]
  /\ UNCHANGED <<workload, done, mainEnded, open, work, settling, publishing,
                 calls>>

CloseDone ==
  /\ quitting /\ ~done
  /\ \A k \in taken : phase[k] = "gone"
  /\ done' = TRUE
  /\ UNCHANGED <<workload, kernels, spawnOrder, quitting, taken, mainEnded, life,
                 work, settling, publishing, calls>>

-----------------------------------------------------------------------------

\* The goroutine that takes kernel k up or down.
goOn(k) ==
  \/ InitPlugin(k) \/ StartWorkers(k) \/ StartPlugin(k) \/ AddKernel(k)
  \/ StopPlugin(k) \/ BeginDrain(k) \/ CheckOutstanding(k) \/ AwaitDrained(k)
  \/ AwaitWorkers(k) \/ DestroyPlugin(k) \/ Gone(k)

\* The rest of a publication that has begun.
publish(c) == CheckOpen(c) \/ Submit(c)

Next ==
  \/ \E k \in Kernels :
       \/ Spawn(k) \/ goOn(k) \/ RunPinned(k) \/ Destroy(k)
       \/ \E w \in Workers : RunJob(k, w)
       \/ \E g \in Goroutines : settleLast(k, g)
  \/ \E c \in Callers :
       \/ Broadcast(c) \/ PublishNext(c) \/ publish(c)
       \/ \E k \in Kernels : GetKernel(c, k)
  \/ Quit \/ CloseDone \/ MainEnds

Spec == Init /\ [][Next]_vars

\* Goroutines go on, plugins' calls and handlers return, workers run their jobs
\* and the main thread ticks until it has seen Done closed, every kernel's
\* pinned jobs in the order they came.  Nobody has to spawn, destroy, publish or
\* quit.
Fairness ==
  /\ \A k \in Kernels :
       /\ WF_vars(goOn(k))
       /\ \A w \in Workers : WF_vars(RunJob(k, w) \/ settleLast(k, w))
       /\ SF_vars(RunPinned(k))
  /\ WF_vars(\E k \in Kernels : settleLast(k, Main))
  /\ \A c \in Callers :
       WF_vars(publish(c) \/ \E k \in Kernels : settleLast(k, c))
  /\ WF_vars(CloseDone)

FairSpec == Spec /\ Fairness

-----------------------------------------------------------------------------
(* Properties *)

Phases == {"absent", "refused", "init", "start", "live", "stop", "drain",
           "await", "join", "destroy", "gone"}
Stages == {"next", "counted", "handlers"}

\* Every variable keeps its type, and the order holds the live kernels, each
\* once.
TypeOK ==
  /\ kernels \subseteq Kernels /\ taken \subseteq Kernels
  /\ ToSet(spawnOrder) = kernels /\ IsInjective(spawnOrder)
  /\ quitting \in BOOLEAN /\ done \in BOOLEAN /\ mainEnded \in BOOLEAN
  /\ phase \in [Kernels -> Phases]
  /\ next \in [Kernels -> 0..(PluginCount + 1)]
  /\ open \subseteq Kernels
  /\ jobs \in [Kernels -> 0..workload.jobs]
  /\ pinned \in [Kernels -> 0..workload.pinned]
  /\ last \in [Kernels -> SUBSET Goroutines]
  /\ drained \subseteq Kernels /\ crossed \subseteq Kernels
  /\ stage \in [Callers -> Stages]

up == <<"init", "start">>

\* A kernel that GetKernel and Broadcast reach has all its plugins started,
\* none stopped, and no kernel is reached once Quit was called, not even one
\* whose Spawn was under way: Quit would never destroy it.
LiveKernelsAreUp ==
  /\ \A k \in kernels : k \in open /\ \A i \in Plugins : calls[k][i] = up
  /\ quitting => kernels = {}

\* What may be called on a plugin, in this order: a failed Init is the end of
\* it, a failed Start is followed by Destroy, and Destroy is the last call.
legalCalls ==
  {<<"init failed">>, <<"init", "destroy">>,
   <<"init", "start failed", "destroy">>,
   <<"init", "start", "stop", "destroy">>}

\* A plugin comes up after the ones before it and goes down before them: while
\* it is initialized, or started, so are all the plugins given before it.
\* And a kernel leaves nothing behind: when it is gone, every plugin that was
\* touched was taken down to the end, exactly once.
PluginsNest ==
  \A k \in Kernels :
    /\ \A i \in Plugins : \A j \in 1..(i - 1) :
         /\ calls[k][i] = up => calls[k][j] = up
         /\ calls[k][i] # <<>> /\ Last(calls[k][i]) \notin {"init failed", "destroy"}
              => calls[k][j] # <<>> /\ Last(calls[k][j]) # "destroy"
    /\ phase[k] = "gone" =>
         \A i \in Plugins : calls[k][i] \in legalCalls \cup {<<>>}

\* Whether a kernel still has a job, or handlers that it let through run.
atWork(k) ==
  \/ jobs[k] > 0 \/ pinned[k] > 0
  \/ \E c \in Callers : stage[c] = "handlers" /\ publishesInto(c, k)

\* A plugin's Destroy runs "once every job of the kernel has finished"
\* (plugin.go:49): no job and no handler runs in a kernel while its plugins are
\* being initialized or destroyed, and none is left when it is gone, however
\* its drain, publications and jobs interleave; except where, before the kernel
\* closed, work was let through past a goroutine that had settled the last
\* outstanding one and had still not looked whether the kernel is closed when
\* it did close.
NoJobAfterPlugins ==
  \A k \in Kernels \ crossed :
    phase[k] \in {"destroy", "gone", "init"} => ~atWork(k)

\* Quit leads to Done, whatever the kernels it took still have to run.
QuitEnds == quitting ~> done

\* A kernel that is taken down is gone in the end, unless Done was closed
\* before and nobody ticks its pinned jobs any more.
KernelsGoAway ==
  \A k \in Kernels :
    phase[k] \in {"stop", "drain", "await", "join", "destroy"} ~>
      phase[k] = "gone" \/ done

=============================================================================
