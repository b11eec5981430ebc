------------------------------ MODULE JobGraph ------------------------------
(***************************************************************************)
(* The kernel's lock-free job graph (kernel/job.go), with the callers that *)
(* drive it: publications that schedule a batch and submit it, workers     *)
(* that run and complete jobs, and goroutines that arm a Signal.           *)
(*                                                                         *)
(* A step is one atomic access to shared state: a list word loaded,        *)
(* swapped or compared and swapped, a waiting count changed, a pool        *)
(* operation.  Accesses nobody else can observe are merged with the step   *)
(* they belong to.  The lock combiner and the runner stand between arrive  *)
(* and Start here: any worker may start any job that has arrived.          *)
(***************************************************************************)
EXTENDS Integers, Sequences, FiniteSets, SequencesExt

CONSTANTS
  Publications, \* publications, each with its executor and its batch
  Panicking,    \* those of them whose jobs' bodies panic
  Workers,      \* goroutines that run jobs
  Notifiers,    \* goroutines that call Notify once, each with its own Signal
  Slots,        \* bound: slots of the job pool
  EdgeSlots,    \* bound: slots of each edge pool
  MaxJobs,      \* bound: jobs scheduled altogether
  MaxDeps       \* bound: handles in the deps of one job

ASSUME JobGraphAssumption ==
  /\ Panicking \subseteq Publications /\ Publications \cap Notifiers = {}
  /\ Slots \in Nat /\ EdgeSlots \in Nat /\ MaxJobs \in Nat /\ MaxDeps \in Nat

VARIABLES
  jobs,          \* per slot: the words successors and signals, waiting, arg
  edge,          \* per list and edge: next, and the successor waiting for the
                 \* job and whether it is fed, or whose Signal is armed
  free,          \* free slots of the job pool and of the two edge pools
  linker,        \* how far each publication or notifier is within link
  pub,           \* each publication's progress
  worker,        \* each worker's progress
  notifier,      \* the job each notifier armed its Signal for
  arrived,       \* slots handed to the lock combiner and not started
  sent,          \* notifiers whose Signal was sent
  log            \* history: what became of each job, by handle

graph == <<jobs, edge, free>>
vars == <<graph, linker, pub, worker, notifier, arrived, sent, log>>

None == 0         \* container.None: no slot, no edge
closedList == -1  \* the head of a list whose job has finished

\* The zero JobHandle names a job that has already finished.  A result is
\* named by the handle of the job that answered it, the zero value by the
\* zero handle.
ZeroHandle == [slot |-> None, gen |-> 0]
ZeroValue == ZeroHandle

Slot == 1..Slots
EdgeSlot == 1..EdgeSlots

packList(gen, head) == [gen |-> gen, head |-> head]
noWord == packList(0, None)
noEdge == [next |-> None, successor |-> None, feeds |-> FALSE, signal |-> {}]
notLinking == [at |-> "idle", list |-> "none", to |-> ZeroHandle,
               edge |-> None, old |-> noWord]
handle(s) == [slot |-> s, gen |-> jobs[s].successors.gen]

\* container.Pool: the slot released last is taken first, and a fresh chunk
\* hands its slots out in ascending order.  Mutated: a slot is not put back.
grow(n) == [i \in 1..n |-> n + 1 - i]
Release_Lost(pool, i) == pool
Release(pool, i) == Append(pool, i)

Init ==
  /\ jobs = [s \in Slot |-> [successors |-> noWord, signals |-> noWord,
                             waiting |-> 0, arg |-> ZeroValue]]
  /\ edge = [successors |-> [e \in EdgeSlot |-> noEdge],
             signals |-> [e \in EdgeSlot |-> noEdge]]
  /\ free = [jobs |-> grow(Slots), successors |-> grow(EdgeSlots),
             signals |-> grow(EdgeSlots)]
  /\ linker = [g \in Publications \cup Notifiers |-> notLinking]
  /\ pub = [p \in Publications |->
              [at |-> "schedule", batch |-> <<>>, job |-> ZeroHandle,
               todo |-> <<>>]]
  /\ worker = [w \in Workers |->
                 [at |-> "idle", job |-> ZeroHandle, result |-> ZeroValue,
                  successors |-> None, signals |-> None]]
  /\ notifier = [n \in Notifiers |-> [called |-> FALSE, job |-> ZeroHandle]]
  /\ arrived = {} /\ sent = {} /\ log = <<>>

\* The handles acquireJob has returned.
handles == {h \in DOMAIN log : \A p \in Publications : pub[p].job # h}

-----------------------------------------------------------------------------
(* link loads a list word, refuses, or points the edge at the loaded head  *)
(* and compares and swaps, and starts over if that fails.                  *)

\* Mutated: closed lists are not refused; an empty list is taken for a closed
\* one.
linkRefuses_NeverClosed(old, gen) == old.gen # gen
linkRefuses_Empty(old, gen) == old.gen # gen \/ old.head \in {closedList, None}

linkRefuses(old, gen) == old.gen # gen \/ old.head = closedList

\* The caller takes an edge, fills it in and starts to link it.
beginLink(g, list, to, content) ==
  /\ linker[g].at = "idle"
  /\ free[list] # <<>>
  /\ LET e == Last(free[list]) IN
       /\ free' = [free EXCEPT ![list] = Front(@)]
       /\ edge' = [edge EXCEPT ![list][e] = content]
       /\ linker' = [linker EXCEPT ![g] =
                       [at |-> "load", list |-> list, to |-> to, edge |-> e,
                        old |-> noWord]]

LoadWord(g) ==
  /\ linker[g].at = "load"
  /\ LET me == linker[g]
         old == jobs[me.to.slot][me.list]
     IN \/ /\ linkRefuses(old, me.to.gen)
           /\ linker' = [linker EXCEPT ![g].at = "refused"]
           /\ UNCHANGED edge
        \/ /\ ~linkRefuses(old, me.to.gen)
           /\ linker' = [linker EXCEPT ![g].at = "swap", ![g].old = old]
           /\ edge' = [edge EXCEPT ![me.list][me.edge].next = old.head]
  /\ UNCHANGED <<jobs, free, pub, worker, notifier, arrived, sent, log>>

SwapWord(g) ==
  /\ linker[g].at = "swap"
  /\ LET me == linker[g] IN
       \/ /\ jobs[me.to.slot][me.list] = me.old
          /\ jobs' = [jobs EXCEPT ![me.to.slot][me.list] =
                        packList(me.to.gen, me.edge)]
          /\ linker' = [linker EXCEPT ![g] = notLinking]
       \/ /\ jobs[me.to.slot][me.list] # me.old
          /\ linker' = [linker EXCEPT ![g].at = "load", ![g].old = noWord]
          /\ UNCHANGED jobs
  /\ UNCHANGED <<edge, free, pub, worker, notifier, arrived, sent, log>>

\* The caller of a link that refused gives its edge back.
endRefused(g) ==
  /\ linker[g].at = "refused"
  /\ free' = [free EXCEPT ![linker[g].list] = Release(@, linker[g].edge)]
  /\ linker' = [linker EXCEPT ![g] = notLinking]

-----------------------------------------------------------------------------
(* Publications: acquireJob, addSuccessor, submit *)

\* acquireJob takes a slot and sets it up, under the generation it carries and
\* with one hold.  A zero handle is skipped; there is none in deps here.
acquireJob(p, deps, from) ==
  /\ pub[p].at = "schedule"
  /\ Cardinality(DOMAIN log) < MaxJobs
  /\ free.jobs # <<>>
  /\ LET s == Last(free.jobs)
         h == handle(s)
         links == [i \in 1..Len(deps) |-> [to |-> deps[i], feeds |-> FALSE]]
         last == [to |-> from, feeds |-> TRUE]
     IN /\ free' = [free EXCEPT !.jobs = Front(@)]
        /\ jobs' = [jobs EXCEPT ![s] =
                      [successors |-> packList(h.gen, None),
                       signals |-> packList(h.gen, None),
                       waiting |-> 1, arg |-> ZeroValue]]
        /\ pub' = [pub EXCEPT
                     ![p].at = "addSuccessor", ![p].job = h,
                     ![p].todo = IF from = ZeroHandle THEN links ELSE Append(links, last)]
        /\ log' = [x \in DOMAIN log \cup {h} |->
                     IF x # h THEN log[x]
                     ELSE [batch |-> p, deps |-> ToSet(deps) \cup {from},
                           from |-> from, submitted |-> FALSE,
                           started |-> FALSE, arg |-> ZeroValue,
                           done |-> FALSE, result |-> ZeroValue]]
  /\ UNCHANGED <<edge, linker, worker, notifier, arrived, sent>>

\* The waiting count is raised before the edge is linked.
RaiseWaiting(p) ==
  /\ pub[p].at = "addSuccessor"
  /\ pub[p].todo # <<>>
  /\ LET s == pub[p].job.slot
         link == Head(pub[p].todo)
     IN /\ beginLink(p, "successors", link.to,
                     [noEdge EXCEPT !.successor = s, !.feeds = link.feeds])
        /\ jobs' = [jobs EXCEPT ![s].waiting = @ + 1]
  /\ pub' = [pub EXCEPT ![p].todo = Tail(@)]
  /\ UNCHANGED <<worker, notifier, arrived, sent, log>>

\* A predecessor that has finished is not waited for.
RefuseSuccessor(p) ==
  /\ endRefused(p)
  /\ jobs' = [jobs EXCEPT ![pub[p].job.slot].waiting = @ - 1]
  /\ UNCHANGED <<edge, pub, worker, notifier, arrived, sent, log>>

\* acquireJob returns, and the executor adds the job to its batch.
add(p) ==
  /\ pub[p].at = "addSuccessor"
  /\ pub[p].todo = <<>>
  /\ linker[p].at = "idle"
  /\ pub' = [pub EXCEPT ![p].at = "schedule", ![p].job = ZeroHandle,
                        ![p].batch = Append(@, pub[p].job)]
  /\ UNCHANGED <<graph, linker, worker, notifier, arrived, sent, log>>

\* A waiting count drops by one, and at zero its job goes to the combiner.
\* Mutated: a job that waits for one more goes, too.
lowerWaiting_OneLeft(s) ==
  /\ jobs' = [jobs EXCEPT ![s].waiting = @ - 1]
  /\ arrived' = IF jobs[s].waiting \in 1..2 THEN arrived \cup {s} ELSE arrived

lowerWaiting(s) ==
  /\ jobs' = [jobs EXCEPT ![s].waiting = @ - 1]
  /\ arrived' = IF jobs[s].waiting = 1 THEN arrived \cup {s} ELSE arrived

\* The handlers have returned: the hold of the batch's next job is released.
submit(p) ==
  /\ pub[p].at \in {"schedule", "submit"}
  /\ pub[p].batch # <<>>
  /\ LET h == Head(pub[p].batch) IN
       /\ lowerWaiting(h.slot)
       /\ log' = [log EXCEPT ![h].submitted = TRUE]
  /\ pub' = [pub EXCEPT ![p].at = IF Len(pub[p].batch) = 1 THEN "done"
                                                           ELSE "submit",
                        ![p].batch = Tail(@)]
  /\ UNCHANGED <<edge, free, linker, worker, notifier, sent>>

-----------------------------------------------------------------------------
(* Workers: runJob, finishJob *)

\* runJob takes the arg out of the arg pool and runs the body.
runJob(w, s) ==
  /\ worker[w].at = "idle"
  /\ s \in arrived
  /\ arrived' = arrived \ {s}
  /\ log' = [log EXCEPT ![handle(s)].started = TRUE,
                        ![handle(s)].arg = jobs[s].arg]
  /\ jobs' = [jobs EXCEPT ![s].arg = ZeroValue]
  /\ worker' = [worker EXCEPT ![w].at = "body", ![w].job = handle(s)]
  /\ UNCHANGED <<edge, free, linker, pub, notifier, sent>>

\* The body returns its result, or panics and the job answers the zero one,
\* and finishJob closes the successor list: whether a link came before the
\* return or between the two makes no difference.
runRecovering(w) ==
  /\ worker[w].at = "body"
  /\ LET h == worker[w].job
         result == IF log[h].batch \in Panicking THEN ZeroValue ELSE h
     IN /\ log' = [log EXCEPT ![h].done = TRUE, ![h].result = result]
        /\ jobs' = [jobs EXCEPT ![h.slot].successors =
                      packList(h.gen, closedList)]
        /\ worker' = [worker EXCEPT
                        ![w].at = "closeSignals", ![w].result = result,
                        ![w].successors = jobs[h.slot].successors.head]
  /\ UNCHANGED <<edge, free, linker, pub, notifier, arrived, sent>>

CloseSignals(w) ==
  /\ worker[w].at = "closeSignals"
  /\ LET s == worker[w].job.slot IN
       /\ jobs' = [jobs EXCEPT ![s].signals =
                     packList(worker[w].job.gen, closedList)]
       /\ worker' = [worker EXCEPT ![w].at = "walk",
                                   ![w].signals = jobs[s].signals.head]
  /\ UNCHANGED <<edge, free, linker, pub, notifier, arrived, sent, log>>

\* The next armed Signal is sent and its edge given back.
SendSignal(w) ==
  /\ worker[w].at = "walk"
  /\ worker[w].signals # None
  /\ LET e == worker[w].signals IN
       /\ sent' = sent \cup edge.signals[e].signal
       /\ edge' = [edge EXCEPT !.signals[e].signal = {}]
       /\ free' = [free EXCEPT !.signals = Release(@, e)]
       /\ worker' = [worker EXCEPT ![w].signals = edge.signals[e].next]
  /\ UNCHANGED <<jobs, linker, pub, notifier, arrived, log>>

\* Mutated: no edge feeds.
receiveArg_Never(e, result) == jobs[e.successor].arg

receiveArg(e, result) == IF e.feeds THEN result ELSE jobs[e.successor].arg

\* Once the Signals are sent, the next successor is fed ...
FeedSuccessor(w) ==
  /\ worker[w].at = "walk"
  /\ worker[w].signals = None
  /\ worker[w].successors # None
  /\ LET e == edge.successors[worker[w].successors] IN
       jobs' = [jobs EXCEPT ![e.successor].arg =
                  receiveArg(e, worker[w].result)]
  /\ worker' = [worker EXCEPT ![w].at = "lower"]
  /\ UNCHANGED <<edge, free, linker, pub, notifier, arrived, sent, log>>

\* ... then waits for one job less, and its edge is given back.
LowerSuccessor(w) ==
  /\ worker[w].at = "lower"
  /\ LET e == worker[w].successors IN
       /\ lowerWaiting(edge.successors[e].successor)
       /\ free' = [free EXCEPT !.successors = Release(@, e)]
       /\ worker' = [worker EXCEPT ![w].at = "walk",
                                   ![w].successors = edge.successors[e].next]
  /\ UNCHANGED <<edge, linker, pub, notifier, sent, log>>

\* Both lists stay closed, under a generation no handle names yet, and then
\* the slot is given back.
nextGeneration(gen) == gen + 1

ReleaseJob(w) ==
  /\ worker[w].at = "walk"
  /\ worker[w].signals = None
  /\ worker[w].successors = None
  /\ LET s == worker[w].job.slot
         closed == packList(nextGeneration(worker[w].job.gen), closedList)
     IN /\ jobs' = [jobs EXCEPT ![s].successors = closed,
                                ![s].signals = closed]
        /\ free' = [free EXCEPT !.jobs = Release(@, s)]
  /\ worker' = [worker EXCEPT ![w].at = "idle", ![w].job = ZeroHandle,
                              ![w].result = ZeroValue]
  /\ UNCHANGED <<edge, linker, pub, notifier, arrived, sent, log>>

finishJob(w) ==
  \/ CloseSignals(w)
  \/ SendSignal(w)
  \/ FeedSuccessor(w)
  \/ LowerSuccessor(w)
  \/ ReleaseJob(w)

-----------------------------------------------------------------------------
(* Notify, armSignal *)

\* The zero handle is not armed: it is signalled at once.
NotifyZero(n) ==
  /\ ~notifier[n].called
  /\ notifier' = [notifier EXCEPT ![n].called = TRUE]
  /\ sent' = sent \cup {n}
  /\ UNCHANGED <<graph, linker, pub, worker, arrived, log>>

Notify(n, h) ==
  /\ ~notifier[n].called
  /\ notifier' = [notifier EXCEPT ![n] = [called |-> TRUE, job |-> h]]
  /\ beginLink(n, "signals", h, [noEdge EXCEPT !.signal = {n}])
  /\ UNCHANGED <<jobs, pub, worker, arrived, sent, log>>

\* A job that has finished is not armed: Notify sends the Signal at once.
RefuseSignal(n) ==
  /\ endRefused(n)
  /\ edge' = [edge EXCEPT !.signals[linker[n].edge].signal = {}]
  /\ sent' = sent \cup {n}
  /\ UNCHANGED <<jobs, pub, worker, notifier, arrived, log>>

-----------------------------------------------------------------------------

\* Handlers and tasks hand handles on freely: any handle ever returned may be
\* depended on, or fed from.
Schedule(p) ==
  \E from \in handles \cup {ZeroHandle}, n \in 0..MaxDeps :
    \E deps \in [1..n -> handles \ {from}] : acquireJob(p, deps, from)

link(g) == LoadWord(g) \/ SwapWord(g)

addSuccessor(p) == RaiseWaiting(p) \/ link(p) \/ RefuseSuccessor(p) \/ add(p)

armSignal(n) == link(n) \/ RefuseSignal(n)

\* Everything scheduled has finished and nobody is under way.
AllOver ==
  /\ \A p \in Publications :
       pub[p].at \in {"schedule", "done"} /\ pub[p].batch = <<>>
  /\ \A h \in DOMAIN log : log[h].done
  /\ \A w \in Workers : worker[w].at = "idle"
  /\ \A n \in Notifiers : notifier[n].called /\ linker[n].at = "idle"
  /\ UNCHANGED vars

Next ==
  \/ \E p \in Publications : Schedule(p) \/ addSuccessor(p) \/ submit(p)
  \/ \E w \in Workers :
       \/ \E s \in Slot : runJob(w, s)
       \/ runRecovering(w)
       \/ finishJob(w)
  \/ \E n \in Notifiers :
       NotifyZero(n) \/ armSignal(n) \/ \E h \in handles : Notify(n, h)
  \/ AllOver

Spec == Init /\ [][Next]_vars

-----------------------------------------------------------------------------
(* Properties *)

\* Every variable keeps its type; no waiting count goes below zero.
TypeOK ==
  /\ \A s \in Slot, list \in {"successors", "signals"} :
       jobs[s][list] \in [gen : 0..MaxJobs,
                          head : EdgeSlot \cup {None, closedList}]
  /\ \A s \in Slot : jobs[s].waiting \in Nat
  /\ \A p \in Publications : ToSet(pub[p].batch) \subseteq handles
  /\ arrived \subseteq Slot /\ sent \subseteq Notifiers

\* "It starts once every job in deps has finished" (Executor.Schedule) and its
\* batch was submitted, whichever of them finished while it was being linked
\* and whoever has taken their slots since.
StartsAfterDependencies ==
  \A h \in DOMAIN log : log[h].started =>
    /\ log[h].submitted
    /\ \A d \in log[h].deps : d = ZeroHandle \/ log[d].done

\* A job runs with the result of the job it was scheduled after or with the
\* zero arg, never with anything an earlier job of a reused slot left; and
\* inside one batch, where nothing starts before submit, always with the
\* result.
RunsWithFedResult ==
  \A h \in DOMAIN log :
    LET from == log[h].from IN
      log[h].started =>
        /\ log[h].arg # ZeroValue =>
             from # ZeroHandle /\ log[h].arg = log[from].result
        /\ from # ZeroHandle /\ log[from].batch = log[h].batch =>
             log[h].arg = log[from].result

\* "From any other job, the zero arg is what the job runs with"
\* (Executor.ScheduleAfter, of a from outside the job's batch).
OnlyBatchFeeds ==
  \A h \in DOMAIN log :
    LET from == log[h].from IN
      log[h].started /\ from # ZeroHandle /\ log[from].batch # log[h].batch =>
        log[h].arg = ZeroValue

\* A Signal is never sent before the job it was armed for has finished.
SignalNotEarly ==
  \A n \in sent : notifier[n].job = ZeroHandle \/ log[notifier[n].job].done

\* The edges of the lists that begin at heads: the least set that has them and,
\* with an edge, the one after it.
edgesOf(list, heads) ==
  LET closed == {X \in SUBSET EdgeSlot :
                   /\ heads \cap EdgeSlot \subseteq X
                   /\ \A e \in X : edge[list][e].next \in X \cup {None}}
  IN {e \in EdgeSlot : \A X \in closed : e \in X}

\* Every slot and every edge is free, once, or in use: linked to a job that
\* has not finished, walked by the worker finishing it, or being linked.
\* Nothing leaks, and nothing is handed out twice.
PoolsConserved ==
  LET linked(list) ==
        edgesOf(list, {jobs[s][list].head : s \in Slot} \cup {worker[w][list] : w \in Workers})
      linking(list) ==
        {linker[g].edge : g \in {x \in DOMAIN linker : linker[x].list = list}}
      exact(pool, all, used) ==
        IsInjective(pool) /\ ToSet(pool) = all \ used
  IN /\ \A list \in DOMAIN edge :
          exact(free[list], EdgeSlot, linked(list) \cup linking(list))
     /\ exact(free.jobs, Slot,
              {s \in Slot : handle(s) \in DOMAIN log}
                \cup {worker[w].job.slot : w \in Workers})

\* Once every batch is submitted and nobody is under way, every job has
\* finished and every Signal was sent: no count stays raised for an edge that
\* nobody will walk, and "no finish is missed however late Notify is called"
\* (Kernel.Notify).
NothingStranded ==
  (/\ \A g \in DOMAIN linker : linker[g].at = "idle"
   /\ \A p \in Publications :
        pub[p].at \in {"schedule", "done"} /\ pub[p].batch = <<>>
   /\ \A w \in Workers : worker[w].at = "idle"
   /\ arrived = {})
  => /\ \A h \in DOMAIN log : log[h].done
     /\ \A n \in Notifiers : notifier[n].called => n \in sent

=============================================================================
