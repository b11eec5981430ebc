--------------------------- MODULE JobGraphProofs ---------------------------
(***************************************************************************)
(* What holds of the job graph for every number of publications, workers   *)
(* and notifiers and every size of its pools: a job starts once what it    *)
(* depends on has finished, runs with the result it is fed, and a Signal   *)
(* is not sent before its job has finished; no slot or edge is lost from   *)
(* its pool, and when all have returned no job is left unfinished.         *)
(*                                                                         *)
(* The argument: every edge taken from its pool and not being linked       *)
(* belongs to one job, the one whose list it is linked to or whose list a  *)
(* worker walks.  A job's waiting count is one for its hold and one for    *)
(* each edge taken for it, so it is handed to the combiner once, and every *)
(* dependency that has not finished has such an edge or is about to.       *)
(* Every linked edge can be reached from a list that is open or walked,    *)
(* and a job that nothing holds back any more is in somebody's hands.      *)
(*                                                                         *)
(* First the inductive invariant and what its parts rest on: when each     *)
(* part survives a step that leaves what it reads alone, and the link      *)
(* protocol of jobslot.go, which publications and Notifiers share.  Then a *)
(* lemma per action, and the theorems.                                     *)
(***************************************************************************)
EXTENDS JobGraph, SequenceTheorems, FiniteSetTheorems, TLAPS

-----------------------------------------------------------------------------
(* Types *)

Handles == [slot : Slot \cup {None}, gen : Nat]
Words == [gen : Nat, head : EdgeSlot \cup {None, closedList}]
Jobs == [successors : Words, signals : Words, waiting : Int, arg : Handles]
Edges == [next : EdgeSlot \cup {None}, successor : Slot \cup {None},
          feeds : BOOLEAN, signal : SUBSET Notifiers]
Links == [to : Handles, feeds : BOOLEAN]
Linkers == [at : {"idle", "load", "swap", "refused"},
            list : {"none", "successors", "signals"},
            to : Handles, edge : EdgeSlot \cup {None}, old : Words]
Pubs == [at : {"schedule", "addSuccessor", "submit", "done"},
         batch : Seq(Handles), job : Handles, todo : Seq(Links)]
WorkerStates == [at : {"idle", "body", "closeSignals", "walk", "lower"},
                 job : Handles, result : Handles,
                 successors : EdgeSlot \cup {None}, signals : EdgeSlot \cup {None}]
Entries == [batch : Publications, deps : SUBSET Handles, from : Handles,
            submitted : BOOLEAN, started : BOOLEAN, arg : Handles,
            done : BOOLEAN, result : Handles]
Goroutines == Publications \cup Notifiers

Types ==
  /\ jobs \in [Slot -> Jobs]
  /\ edge \in [successors : [EdgeSlot -> Edges], signals : [EdgeSlot -> Edges]]
  /\ free \in [jobs : Seq(Slot), successors : Seq(EdgeSlot), signals : Seq(EdgeSlot)]
  /\ linker \in [Goroutines -> Linkers]
  /\ pub \in [Publications -> Pubs]
  /\ worker \in [Workers -> WorkerStates]
  /\ notifier \in [Notifiers -> [called : BOOLEAN, job : Handles]]
  /\ arrived \subseteq Slot /\ sent \subseteq Notifiers
  /\ log \in [DOMAIN log -> Entries] /\ DOMAIN log \subseteq Handles

-----------------------------------------------------------------------------
(* The invariants *)

\* A slot's job is the one its words name, as long as the log has it: an
\* earlier job of the slot has finished, and a free slot has none.  Its
\* successor list is closed once it has finished, its signals no sooner.
SlotsInv ==
  /\ \A s \in Slot : jobs[s].signals.gen = jobs[s].successors.gen
  /\ \A h \in DOMAIN log :
       /\ h.slot \in Slot /\ h.gen <= jobs[h.slot].successors.gen
       /\ h.gen # jobs[h.slot].successors.gen => log[h].done
  /\ IsInjective(free.jobs)
  /\ \A s \in ToSet(free.jobs) : handle(s) \notin DOMAIN log
  /\ \A s \in Slot : handle(s) \in DOMAIN log =>
       /\ log[handle(s)].done <=> jobs[s].successors.head = closedList
       /\ jobs[s].signals.head = closedList => log[handle(s)].done

\* A worker that is not idle has a job of its own, the one of its slot.
RunInv ==
  /\ \A w \in Workers :
       LET me == worker[w] IN
       /\ me.at = "idle" => me.successors = None /\ me.signals = None
       /\ me.at # "idle" =>
            /\ me.job \in DOMAIN log /\ me.job = handle(me.job.slot)
            /\ log[me.job].started /\ (log[me.job].done <=> me.at # "body")
       /\ me.at \in {"body", "closeSignals"} =>
            me.signals = None /\ jobs[me.job.slot].signals.head # closedList
       /\ me.at = "body" => me.successors = None
       /\ me.at \notin {"idle", "body"} => me.result = log[me.job].result
       /\ me.at \in {"walk", "lower"} => jobs[me.job.slot].signals.head = closedList
       /\ me.at = "lower" => me.successors # None /\ me.signals = None
  /\ \A v, w \in Workers :
       worker[v].at # "idle" /\ worker[w].at # "idle" /\ worker[v].job = worker[w].job => v = w

\* The edges taken for the job in slot s to wait for.
waitsFor(s) ==
  {e \in EdgeSlot : e \notin ToSet(free.successors) /\ edge.successors[e].successor = s}
held(s) == handle(s) \in DOMAIN log /\ ~log[handle(s)].submitted

\* The waiting count is one for the hold and one for each edge taken; at zero
\* the job has been handed to the combiner, once.
WaitInv ==
  /\ \A s \in Slot :
       /\ jobs[s].waiting = Cardinality(waitsFor(s)) + (IF held(s) THEN 1 ELSE 0)
       /\ handle(s) \notin DOMAIN log => jobs[s].waiting = 0 /\ s \notin arrived
       /\ handle(s) \in DOMAIN log =>
            /\ jobs[s].waiting = 0 <=> s \in arrived \/ log[handle(s)].started
            /\ ~(s \in arrived /\ log[handle(s)].started)
  /\ \A h \in DOMAIN log : log[h].done => log[h].started
  /\ \A h \in DOMAIN log : log[h].started => log[h].submitted
  /\ IsInjective(free.successors) /\ IsInjective(free.signals)
  /\ \A e \in EdgeSlot \ ToSet(free.successors) : edge.successors[e].successor \in Slot

\* A publication's jobs are its own, each once, and submitted only after the
\* last is scheduled; what it still links is what its job depends on.
PubInv ==
  \A p \in Publications :
    LET me == pub[p] IN
    /\ \A h \in ToSet(me.batch) : h \in DOMAIN log /\ log[h].batch = p /\ ~log[h].submitted
    /\ IsInjective(me.batch)
    /\ me.at = "addSuccessor" =>
         /\ me.job \in DOMAIN log /\ log[me.job].batch = p /\ ~log[me.job].submitted
         /\ me.job \notin ToSet(me.batch)
         /\ \A l \in ToSet(me.todo) :
              /\ l.to \in DOMAIN log /\ l.to \in log[me.job].deps
              /\ l.feeds => l.to = log[me.job].from
    /\ me.at # "addSuccessor" => me.job = ZeroHandle
    /\ me.at \in {"schedule", "addSuccessor"} =>
         \A h \in DOMAIN log : log[h].batch = p => ~log[h].submitted

\* A goroutine links an edge of its own; when it is refused, the job it linked
\* to has finished.
LinkInv ==
  /\ \A g \in Goroutines :
       LET me == linker[g] IN
       /\ me.at = "idle" => me.list = "none"
       /\ me.at # "idle" =>
            /\ me.list = IF g \in Publications THEN "successors" ELSE "signals"
            /\ me.to \in DOMAIN log /\ me.edge \in EdgeSlot
       /\ me.at = "refused" => log[me.to].done
       /\ me.at = "swap" => me.old.gen = me.to.gen /\ me.old.head # closedList
  /\ \A p \in Publications :
       LET me == linker[p] e == edge.successors[me.edge] IN
       me.at # "idle" =>
         /\ me.edge \notin ToSet(free.successors)
         /\ pub[p].at = "addSuccessor" /\ e.successor = pub[p].job.slot
         /\ me.to \in log[pub[p].job].deps /\ (e.feeds => me.to = log[pub[p].job].from)
         /\ me.at = "swap" => e.next = me.old.head
  /\ \A n \in Notifiers :
       LET me == linker[n] e == edge.signals[me.edge] IN
       /\ ~notifier[n].called => me.at = "idle" /\ n \notin sent /\ notifier[n].job = ZeroHandle
       /\ notifier[n].job = ZeroHandle \/ notifier[n].job \in DOMAIN log
       /\ me.at # "idle" =>
            /\ me.edge \notin ToSet(free.signals)
            /\ e.signal = {n} /\ me.to = notifier[n].job
            /\ me.at = "swap" => e.next = me.old.head
  /\ \A g, k \in Goroutines :
       linker[g].at # "idle" /\ linker[g].list = linker[k].list /\ linker[g].edge = linker[k].edge
         => g = k

\* The edges linked: neither free nor being linked.
linkedSuccessors ==
  {e \in EdgeSlot : /\ e \notin ToSet(free.successors)
                    /\ \A p \in Publications : linker[p].at # "idle" => linker[p].edge # e}
linkedSignals ==
  {e \in EdgeSlot : /\ e \notin ToSet(free.signals)
                    /\ \A n \in Notifiers : linker[n].at # "idle" => linker[n].edge # e}

\* Where the lists begin, and the jobs whose lists they are.
successorHeads ==
  {<<jobs[s].successors.head, handle(s)>> : s \in Slot}
    \cup {<<worker[w].successors, worker[w].job>> : w \in Workers}
signalHeads ==
  {<<jobs[s].signals.head, handle(s)>> : s \in Slot}
    \cup {<<worker[w].signals, worker[w].job>> : w \in Workers}

\* The linked edges N, with contents E, are the lists that begin at heads: an
\* edge is followed by one of the same owner, and comes after one at most.
Chained(E, N, own, heads) ==
  /\ own \in [EdgeSlot -> Handles]
  /\ \A e \in N : E[e].next # None => E[e].next \in N /\ own[E[e].next] = own[e]
  /\ \A e, f \in N : E[e].next # None /\ E[e].next = E[f].next => e = f
  /\ \A x \in EdgeSlot, h \in Handles : <<x, h>> \in heads =>
       x \in N /\ own[x] = h /\ \A e \in N : E[e].next # x

\* A linked signal edge is owned by the job its Signal was armed for.
SignalsOwned(own) ==
  /\ Chained(edge.signals, linkedSignals, own, signalHeads)
  /\ \A e \in linkedSignals : \A n \in edge.signals[e].signal :
       notifier[n].called /\ notifier[n].job = own[e]
SignalsInv ==
  /\ \E own \in [EdgeSlot -> Handles] : SignalsOwned(own)
  /\ SignalNotEarly

\* A linked successor edge is owned by a job that its successor depends on.
Waits(own, e) ==
  LET h == handle(edge.successors[e].successor) IN
  /\ h \in DOMAIN log /\ own[e] \in log[h].deps
  /\ edge.successors[e].feeds => own[e] = log[h].from

\* A dependency d of h is still to be linked, being linked, or linked.
Pending(own, h, d) ==
  \/ \E p \in Publications : pub[p].job = h /\ \E l \in ToSet(pub[p].todo) : l.to = d
  \/ \E p \in Publications : pub[p].job = h /\ linker[p].at # "idle" /\ linker[p].to = d
  \/ \E e \in linkedSuccessors : own[e] = d /\ edge.successors[e].successor = h.slot

\* So is the edge that feeds h from d.
Feeding(own, h, d) ==
  \/ \E p \in Publications : /\ pub[p].job = h
                             /\ \E l \in ToSet(pub[p].todo) : l.to = d /\ l.feeds
  \/ \E p \in Publications : /\ pub[p].job = h /\ linker[p].at # "idle" /\ linker[p].to = d
                             /\ edge.successors[linker[p].edge].feeds
  \/ \E e \in linkedSuccessors : /\ own[e] = d /\ edge.successors[e].successor = h.slot
                                 /\ edge.successors[e].feeds

\* The arg of h is nothing or what the job it was scheduled after answered.
Fed(h, arg) ==
  LET from == log[h].from IN
  arg # ZeroValue => from # ZeroHandle /\ log[from].done /\ arg = log[from].result

SuccessorsOwned(own) ==
  /\ Chained(edge.successors, linkedSuccessors, own, successorHeads)
  /\ \A e \in linkedSuccessors : Waits(own, e)
  /\ \A h \in DOMAIN log : \A d \in log[h].deps :
       d = ZeroHandle \/ (d \in DOMAIN log /\ (log[d].done \/ (~log[h].started /\ Pending(own, h, d))))

\* Within a batch an edge that feeds is never refused.
FedInBatch(own, h) ==
  LET from == log[h].from
      arg == IF log[h].started THEN log[h].arg ELSE jobs[h.slot].arg
  IN from # ZeroHandle /\ log[from].batch = log[h].batch =>
       \/ log[from].done /\ arg = log[from].result
       \/ ~log[h].started /\ Feeding(own, h, from)

\* What a job is fed.
FedOwned(own) ==
  /\ \A h \in DOMAIN log : log[h].from \in log[h].deps
  /\ \A h \in DOMAIN log : log[h].started => Fed(h, log[h].arg)
  /\ \A s \in Slot : handle(s) \in DOMAIN log => Fed(handle(s), jobs[s].arg)
  /\ \A h \in DOMAIN log : FedInBatch(own, h)
  /\ \A w \in Workers : worker[w].at = "lower" =>
       LET e == edge.successors[worker[w].successors] IN
       e.feeds => jobs[e.successor].arg = worker[w].result

SuccessorsInv == \E own \in [EdgeSlot -> Handles] : SuccessorsOwned(own) /\ FedOwned(own)

\* Every linked edge is on a list that a slot or a worker has: of any of them,
\* one is the first of a list or comes after another linked edge.
Reached(E, N, firsts) ==
  \A X \in SUBSET N : X # {} =>
    \E e \in X : e \in firsts \/ \E f \in N \ X : E[f].next = e

successorFirsts ==
  {jobs[s].successors.head : s \in Slot} \cup {worker[w].successors : w \in Workers}
signalFirsts ==
  {jobs[s].signals.head : s \in Slot} \cup {worker[w].signals : w \in Workers}

SuccessorsReached == Reached(edge.successors, linkedSuccessors, successorFirsts)
SignalsReached == Reached(edge.signals, linkedSignals, signalFirsts)

\* Whoever has something to do with a job is still there: a worker with the
\* job that was started, ...
StartedInv ==
  \A s \in Slot : handle(s) \in DOMAIN log /\ log[handle(s)].started =>
    \E w \in Workers : worker[w].at # "idle" /\ worker[w].job = handle(s)

\* ... its publication with the job that is not submitted, ...
HeldInv ==
  \A h \in DOMAIN log : ~log[h].submitted =>
    \E p \in Publications : \/ h \in ToSet(pub[p].batch)
                            \/ pub[p].at = "addSuccessor" /\ pub[p].job = h

\* ... and a linked edge with the Signal that is armed and not sent.
ArmedInv ==
  \A n \in Notifiers : notifier[n].called /\ n \notin sent /\ linker[n].at = "idle" =>
    \E e \in linkedSignals : edge.signals[e].signal = {n}

\* A slot that is not free has a job, a slot that has none has no lists, and an
\* idle worker has no job.
UsedInv ==
  /\ \A s \in Slot : s \notin ToSet(free.jobs) => handle(s) \in DOMAIN log
  /\ \A s \in Slot : handle(s) \notin DOMAIN log =>
       jobs[s].successors.head \notin EdgeSlot /\ jobs[s].signals.head \notin EdgeSlot
  /\ \A w \in Workers : worker[w].at = "idle" => worker[w].job = ZeroHandle

\* No job depends on itself, however indirectly: of any jobs, one depends on
\* none of them.
OrderInv ==
  \A S \in SUBSET DOMAIN log : S # {} => \E h \in S : log[h].deps \cap S = {}

FlowInv == StartedInv /\ HeldInv /\ ArmedInv /\ UsedInv /\ OrderInv

\* The inductive invariant.
IInv ==
  /\ Types /\ SlotsInv /\ RunInv /\ WaitInv /\ PubInv /\ LinkInv
  /\ SignalsInv /\ SuccessorsInv /\ SuccessorsReached /\ SignalsReached /\ FlowInv

-----------------------------------------------------------------------------
(* Sequences: the pools, the batches and what is still to be linked *)

\* The pool after its last slot is taken.
LEMMA Taken ==
  ASSUME NEW S, NEW q \in Seq(S), q # <<>>, IsInjective(q)
  PROVE  /\ Front(q) \in Seq(S) /\ Last(q) \in S /\ Last(q) \in ToSet(q)
         /\ IsInjective(Front(q)) /\ ToSet(Front(q)) = ToSet(q) \ {Last(q)}
<1>1. PICK n \in Nat : n = Len(q) /\ n > 0 /\ DOMAIN q = 1..n
  BY EmptySeq, LenProperties
<1>2. PICK f : f = Front(q)
  OBVIOUS
<1>3. /\ f \in Seq(S) /\ Len(f) = n - 1 /\ \A i \in 1..n - 1 : f[i] = q[i]
  <2>1. f = SubSeq(q, 1, n - 1)
    BY <1>1, <1>2 DEF Front
  <2>2. /\ n - 1 \in Int /\ 1 \in 1..Len(q) + 1 /\ n - 1 \in (1 - 1)..Len(q)
    BY <1>1
  <2> QED BY <1>1, <2>1, <2>2, SubSeqProperties
<1>4. DOMAIN f = 1..n - 1
  BY <1>3, LenProperties
<1>5. Last(q) = q[n] /\ q[n] \in S /\ n \in 1..n
  BY <1>1, ElementOfSeq DEF Last
<1>6. \A i, j \in 1..n : q[i] = q[j] => i = j
  BY <1>1 DEF IsInjective
<1>7. IsInjective(f)
  BY <1>1, <1>3, <1>4, <1>6 DEF IsInjective
<1>8. ToSet(f) = {q[i] : i \in 1..n - 1}
  BY <1>3, <1>4 DEF ToSet
<1>9. ToSet(q) = {q[i] : i \in 1..n}
  BY <1>1 DEF ToSet
<1>10. {q[i] : i \in 1..n - 1} = {q[i] : i \in 1..n} \ {q[n]}
  <2>1. 1..n = 1..n - 1 \cup {n} /\ n \notin 1..n - 1
    BY <1>1
  <2> QED BY <1>6, <2>1
<1> QED BY <1>2, <1>3, <1>5, <1>7, <1>8, <1>9, <1>10

\* The pool after a slot is put back.
LEMMA PutBack ==
  ASSUME NEW S, NEW q \in Seq(S), NEW e \in S
  PROVE  /\ Append(q, e) \in Seq(S) /\ ToSet(Append(q, e)) = ToSet(q) \cup {e}
         /\ IsInjective(q) /\ e \notin ToSet(q) => IsInjective(Append(q, e))
<1>1. PICK n \in Nat : n = Len(q) /\ DOMAIN q = 1..n
  BY LenProperties
<1>2. PICK f : f = Append(q, e)
  OBVIOUS
<1>3. /\ f \in Seq(S) /\ Len(f) = n + 1 /\ f[n + 1] = e /\ \A i \in 1..n : f[i] = q[i]
  BY <1>1, <1>2, AppendProperties
<1>4. DOMAIN f = 1..n + 1 /\ 1..n + 1 = 1..n \cup {n + 1}
  BY <1>1, <1>3, LenProperties
<1>5. ToSet(f) = ToSet(q) \cup {e}
  BY <1>1, <1>3, <1>4 DEF ToSet
<1>6. ASSUME IsInjective(q), e \notin ToSet(q) PROVE IsInjective(f)
  <2>1. \A i \in 1..n : q[i] # e
    BY <1>1, <1>6 DEF ToSet
  <2> QED BY <1>1, <1>3, <1>4, <1>6, <2>1 DEF IsInjective
<1> QED BY <1>2, <1>3, <1>5, <1>6

\* A queue without its first.
LEMMA Shortened ==
  ASSUME NEW S, NEW q \in Seq(S), q # <<>>
  PROVE  /\ Tail(q) \in Seq(S) /\ Head(q) \in S /\ Head(q) \in ToSet(q)
         /\ ToSet(q) = ToSet(Tail(q)) \cup {Head(q)}
         /\ IsInjective(q) => IsInjective(Tail(q)) /\ Head(q) \notin ToSet(Tail(q))
<1>1. PICK n \in Nat : n = Len(q) /\ n > 0 /\ DOMAIN q = 1..n
  BY EmptySeq, LenProperties
<1>2. PICK f : f = Tail(q)
  OBVIOUS
<1>3. /\ f \in Seq(S) /\ Len(f) = n - 1 /\ \A i \in 1..n - 1 : f[i] = q[i + 1]
  BY <1>1, <1>2, HeadTailProperties
<1>4. DOMAIN f = 1..n - 1
  BY <1>3, LenProperties
<1>5. Head(q) = q[1] /\ q[1] \in S /\ 1 \in 1..n
  BY <1>1, HeadTailProperties, ElementOfSeq
<1>6. Head(q) \in ToSet(q)
  BY <1>1, <1>5 DEF ToSet
<1>7. ToSet(q) = ToSet(f) \cup {q[1]}
  <2>1. ASSUME NEW i \in 1..n PROVE q[i] \in ToSet(f) \cup {q[1]}
    <3>1. CASE i = 1
      BY <3>1
    <3>2. CASE i # 1
      <4>1. i - 1 \in 1..n - 1 /\ (i - 1) + 1 = i
        BY <1>1, <3>2
      <4>2. f[i - 1] = q[i]
        BY <1>3, <4>1
      <4> QED BY <1>4, <4>1, <4>2 DEF ToSet
    <3> QED BY <3>1, <3>2
  <2>2. ASSUME NEW i \in 1..n - 1 PROVE f[i] \in ToSet(q)
    <3>1. i + 1 \in 1..n /\ f[i] = q[i + 1]
      BY <1>1, <1>3
    <3> QED BY <1>1, <3>1 DEF ToSet
  <2> QED BY <1>1, <1>4, <1>5, <1>6, <2>1, <2>2 DEF ToSet
<1>8. ASSUME IsInjective(q) PROVE IsInjective(f) /\ q[1] \notin ToSet(f)
  <2>1. \A i, j \in 1..n : q[i] = q[j] => i = j
    BY <1>1, <1>8 DEF IsInjective
  <2>2. \A i \in 1..n - 1 : i + 1 \in 1..n /\ i + 1 # 1
    BY <1>1
  <2>3. \A i, j \in 1..n - 1 : f[i] = f[j] => i + 1 = j + 1
    BY <1>3, <2>1, <2>2
  <2>4. \A i, j \in 1..n - 1 : i + 1 = j + 1 => i = j
    BY <1>1
  <2>5. \A i \in 1..n - 1 : f[i] # q[1]
    BY <1>3, <1>5, <2>1, <2>2
  <2> QED BY <1>4, <2>3, <2>4, <2>5 DEF IsInjective, ToSet
<1> QED BY <1>2, <1>3, <1>5, <1>6, <1>7, <1>8

-----------------------------------------------------------------------------
(* The lists of edges *)

\* The lists as they are, with a head less or an edge being linked changed.
LEMMA ChainKept ==
  ASSUME NEW E, NEW N, NEW own, NEW heads, Chained(E, N, own, heads),
         NEW E1, \A e \in N : E1[e].next = E[e].next,
         NEW heads1, \A x \in EdgeSlot, h \in Handles : <<x, h>> \in heads1 => <<x, h>> \in heads
  PROVE  Chained(E1, N, own, heads1)
<1>1. \A e \in N : E1[e].next # None => E1[e].next \in N /\ own[E1[e].next] = own[e]
  BY DEF Chained
<1>2. \A e, f \in N : E1[e].next # None /\ E1[e].next = E1[f].next => e = f
  BY DEF Chained
<1>3. \A x \in EdgeSlot, h \in Handles : <<x, h>> \in heads1 =>
        x \in N /\ own[x] = h /\ \A e \in N : E1[e].next # x
  BY DEF Chained
<1> QED BY <1>1, <1>2, <1>3 DEF Chained

\* An edge is linked at the head of a list of job h (link).
LEMMA ChainPushed ==
  ASSUME NEW E, NEW N, NEW own, NEW heads, Chained(E, N, own, heads), N \subseteq EdgeSlot,
         NEW e \in EdgeSlot, e \notin N, NEW h \in Handles,
         E[e].next = None \/ (E[e].next \in EdgeSlot /\ <<E[e].next, h>> \in heads),
         NEW heads1,
         \A x \in EdgeSlot, k \in Handles : <<x, k>> \in heads1 =>
           \/ x = e /\ k = h
           \/ <<x, k>> \in heads /\ ~(x = E[e].next /\ k = h)
  PROVE  Chained(E, N \cup {e}, [own EXCEPT ![e] = h], heads1)
<1>1. PICK own1, M, x : own1 = [own EXCEPT ![e] = h] /\ M = N \cup {e} /\ x = E[e].next
  OBVIOUS
<1>2. /\ own \in [EdgeSlot -> Handles]
      /\ \A f \in N : E[f].next # None => E[f].next \in N /\ own[E[f].next] = own[f]
      /\ \A f, g \in N : E[f].next # None /\ E[f].next = E[g].next => f = g
      /\ \A y \in EdgeSlot, k \in Handles : <<y, k>> \in heads =>
           y \in N /\ own[y] = k /\ \A f \in N : E[f].next # y
  BY DEF Chained
<1>3. own1 \in [EdgeSlot -> Handles] /\ own1[e] = h /\ \A f \in N : own1[f] = own[f]
  BY <1>1, <1>2
<1>4. x # None => x \in N /\ own[x] = h /\ \A f \in N : E[f].next # x
  BY <1>1, <1>2
<1>5. \A f \in N : E[f].next # e
  <2>1. e # None
    BY DEF EdgeSlot, None
  <2> QED BY <1>2, <2>1
<1>6. \A f \in M : E[f].next # None => E[f].next \in M /\ own1[E[f].next] = own1[f]
  BY <1>1, <1>2, <1>3, <1>4
<1>7. \A f, g \in M : E[f].next # None /\ E[f].next = E[g].next => f = g
  BY <1>1, <1>2, <1>4
<1>8. ASSUME NEW y \in EdgeSlot, NEW k \in Handles, <<y, k>> \in heads1
      PROVE  y \in M /\ own1[y] = k /\ \A f \in M : E[f].next # y
  <2>1. CASE y = e /\ k = h
    <3>1. x # e
      BY <1>4 DEF EdgeSlot, None
    <3> QED BY <1>1, <1>3, <1>5, <2>1, <3>1
  <2>2. CASE <<y, k>> \in heads /\ ~(y = x /\ k = h)
    <3>1. y \in N /\ own[y] = k /\ \A f \in N : E[f].next # y
      BY <1>2, <2>2
    <3>2. y # x
      <4>1. y # None
        BY DEF EdgeSlot, None
      <4> QED BY <1>4, <2>2, <3>1, <4>1
    <3> QED BY <1>1, <1>3, <3>1, <3>2
  <2> QED BY <1>1, <1>8, <2>1, <2>2
<1> QED BY <1>1, <1>3, <1>6, <1>7, <1>8 DEF Chained

\* A worker takes the edge at the head of the list of job h (finishJob).
LEMMA ChainPopped ==
  ASSUME NEW E, NEW N, NEW own, NEW heads, Chained(E, N, own, heads),
         NEW e \in EdgeSlot, NEW h \in Handles, <<e, h>> \in heads,
         NEW heads1,
         \A x \in EdgeSlot, k \in Handles : <<x, k>> \in heads1 =>
           \/ x = E[e].next /\ k = h
           \/ <<x, k>> \in heads /\ ~(x = e /\ k = h)
  PROVE  Chained(E, N \ {e}, own, heads1)
<1>1. PICK M, x : M = N \ {e} /\ x = E[e].next
  OBVIOUS
<1>2. /\ own \in [EdgeSlot -> Handles]
      /\ \A f \in N : E[f].next # None => E[f].next \in N /\ own[E[f].next] = own[f]
      /\ \A f, g \in N : E[f].next # None /\ E[f].next = E[g].next => f = g
      /\ \A y \in EdgeSlot, k \in Handles : <<y, k>> \in heads =>
           y \in N /\ own[y] = k /\ \A f \in N : E[f].next # y
  BY DEF Chained
<1>3. e \in N /\ own[e] = h /\ \A f \in N : E[f].next # e
  BY <1>2
<1>4. \A f \in M : E[f].next # None => E[f].next \in M /\ own[E[f].next] = own[f]
  BY <1>1, <1>2, <1>3
<1>5. \A f, g \in M : E[f].next # None /\ E[f].next = E[g].next => f = g
  BY <1>1, <1>2
<1>6. ASSUME NEW y \in EdgeSlot, NEW k \in Handles, <<y, k>> \in heads1
      PROVE  y \in M /\ own[y] = k /\ \A f \in M : E[f].next # y
  <2>0. y # None
    BY DEF EdgeSlot, None
  <2>1. CASE y = x /\ k = h
    BY <1>1, <1>2, <1>3, <2>0, <2>1
  <2>2. CASE <<y, k>> \in heads /\ ~(y = e /\ k = h)
    BY <1>1, <1>2, <1>3, <2>2
  <2> QED BY <1>1, <1>6, <2>1, <2>2
<1> QED BY <1>1, <1>2, <1>4, <1>5, <1>6 DEF Chained

-----------------------------------------------------------------------------
(* What a step may leave alone.  Each invariant reads part of the state only. *)

\* The jobs stay in their slots.
sameHandles == \A s \in Slot : jobs'[s].successors.gen = jobs[s].successors.gen

\* No list is closed or opened again.
sameLists ==
  \A s \in Slot :
    /\ jobs'[s].successors.gen = jobs[s].successors.gen
    /\ jobs'[s].signals.gen = jobs[s].signals.gen
    /\ jobs'[s].successors.head = closedList <=> jobs[s].successors.head = closedList
    /\ jobs'[s].signals.head = closedList <=> jobs[s].signals.head = closedList

\* What the log says of a job it says for good.
logGrows ==
  /\ DOMAIN log \subseteq DOMAIN log'
  /\ \A h \in DOMAIN log :
       /\ log'[h].batch = log[h].batch /\ log'[h].deps = log[h].deps /\ log'[h].from = log[h].from
       /\ log[h].submitted => log'[h].submitted
       /\ log[h].started => log'[h].started /\ log'[h].arg = log[h].arg
       /\ log[h].done => log'[h].done /\ log'[h].result = log[h].result

\* SlotsInv reads the words, the free slots and which jobs are done.
LEMMA SlotsKept ==
  ASSUME SlotsInv, sameLists, free'.jobs = free.jobs, DOMAIN log' = DOMAIN log,
         \A h \in DOMAIN log : log'[h].done = log[h].done
  PROVE  SlotsInv'
<1>1. \A s \in Slot : handle(s)' = handle(s)
  BY DEF sameLists, handle
<1>2. \A s \in Slot : jobs'[s].signals.gen = jobs'[s].successors.gen
  BY DEF SlotsInv, sameLists
<1>3. \A h \in DOMAIN log' :
        /\ h.slot \in Slot /\ h.gen <= jobs'[h.slot].successors.gen
        /\ h.gen # jobs'[h.slot].successors.gen => log'[h].done
  BY DEF SlotsInv, sameLists
<1>4. \A s \in Slot : handle(s)' \in DOMAIN log' =>
        /\ log'[handle(s)'].done <=> jobs'[s].successors.head = closedList
        /\ jobs'[s].signals.head = closedList => log'[handle(s)'].done
  BY <1>1 DEF SlotsInv, sameLists
<1>5. \A s \in ToSet(free'.jobs) : handle(s)' \notin DOMAIN log'
  <2>1. \A s \in ToSet(free'.jobs) : handle(s) \notin DOMAIN log
    BY DEF SlotsInv
  <2>2. ASSUME NEW s \in ToSet(free'.jobs), handle(s)' \in DOMAIN log PROVE FALSE
    <3>1. s \in Slot
      <4>1. handle(s)'.slot \in Slot
        BY <2>2 DEF SlotsInv
      <4> QED BY <4>1 DEF handle
    <3> QED BY <1>1, <2>1, <2>2, <3>1
  <2> QED BY <2>2
<1> QED BY <1>2, <1>3, <1>4, <1>5 DEF SlotsInv

\* RunInv reads the workers, which job a slot in use has, whether its signals
\* are closed, and what the log says of it.
LEMMA RunKept ==
  ASSUME RunInv, SlotsInv, worker' = worker, logGrows,
         \A s \in Slot : handle(s) \in DOMAIN log =>
           /\ jobs'[s].successors.gen = jobs[s].successors.gen
           /\ jobs'[s].signals.head = closedList <=> jobs[s].signals.head = closedList,
         \A h \in DOMAIN log : log'[h].done = log[h].done
  PROVE  RunInv'
<1>1. ASSUME NEW w \in Workers, worker[w].at # "idle"
      PROVE  LET me == worker[w] IN
             /\ me.job \in DOMAIN log /\ me.job \in DOMAIN log'
             /\ handle(me.job.slot)' = handle(me.job.slot)
             /\ jobs'[me.job.slot].signals.head = closedList
                  <=> jobs[me.job.slot].signals.head = closedList
  <2>1. worker[w].job \in DOMAIN log /\ worker[w].job = handle(worker[w].job.slot)
    BY <1>1 DEF RunInv
  <2>2. worker[w].job.slot \in Slot
    BY <2>1 DEF SlotsInv
  <2> QED BY <2>1, <2>2 DEF handle, logGrows
<1>2. ASSUME NEW w \in Workers
      PROVE  LET me == worker[w] IN
       /\ me.at = "idle" => me.successors = None /\ me.signals = None
       /\ me.at # "idle" =>
            /\ me.job \in DOMAIN log' /\ me.job = handle(me.job.slot)'
            /\ log'[me.job].started /\ (log'[me.job].done <=> me.at # "body")
       /\ me.at \in {"body", "closeSignals"} =>
            me.signals = None /\ jobs'[me.job.slot].signals.head # closedList
       /\ me.at = "body" => me.successors = None
       /\ me.at \notin {"idle", "body"} => me.result = log'[me.job].result
       /\ me.at \in {"walk", "lower"} => jobs'[me.job.slot].signals.head = closedList
       /\ me.at = "lower" => me.successors # None /\ me.signals = None
  <2>1. CASE worker[w].at = "idle"
    BY <2>1 DEF RunInv
  <2>2. CASE worker[w].at # "idle"
    BY <1>1, <2>2 DEF RunInv, logGrows
  <2> QED BY <2>1, <2>2
<1> QED BY <1>2 DEF RunInv

\* WaitInv reads the counts, the pools, what the edges are for and the log.
LEMMA WaitKept ==
  ASSUME WaitInv, sameHandles, \A s \in Slot : jobs'[s].waiting = jobs[s].waiting,
         arrived' = arrived, free'.successors = free.successors, IsInjective(free'.signals),
         \A e \in EdgeSlot : edge'.successors[e].successor = edge.successors[e].successor,
         DOMAIN log' = DOMAIN log,
         \A h \in DOMAIN log : /\ log'[h].submitted = log[h].submitted
                               /\ log'[h].started = log[h].started
                               /\ log'[h].done => log'[h].started
  PROVE  WaitInv'
<1>1. ASSUME NEW s \in Slot
      PROVE  handle(s)' = handle(s) /\ waitsFor(s)' = waitsFor(s) /\ held(s)' = held(s)
  BY DEF handle, waitsFor, held, sameHandles
<1>2. ASSUME NEW s \in Slot
      PROVE  /\ jobs'[s].waiting = Cardinality(waitsFor(s)') + (IF held(s)' THEN 1 ELSE 0)
             /\ handle(s)' \notin DOMAIN log' => jobs'[s].waiting = 0 /\ s \notin arrived'
             /\ handle(s)' \in DOMAIN log' =>
                  /\ jobs'[s].waiting = 0 <=> s \in arrived' \/ log'[handle(s)'].started
                  /\ ~(s \in arrived' /\ log'[handle(s)'].started)
  BY <1>1 DEF WaitInv
<1>3. \A h \in DOMAIN log' : log'[h].done => log'[h].started
  OBVIOUS
<1>4. \A h \in DOMAIN log' : log'[h].started => log'[h].submitted
  BY DEF WaitInv
<1>5. \A e \in EdgeSlot \ ToSet(free'.successors) : edge'.successors[e].successor \in Slot
  BY DEF WaitInv
<1>6. IsInjective(free'.successors)
  BY DEF WaitInv
<1> QED BY <1>2, <1>3, <1>4, <1>5, <1>6 DEF WaitInv

\* PubInv reads the publications and what the log says of their jobs.
LEMMA PubKept ==
  ASSUME PubInv, pub' = pub, logGrows, DOMAIN log' = DOMAIN log,
         \A h \in DOMAIN log : log'[h].submitted = log[h].submitted
  PROVE  PubInv'
<1> SUFFICES ASSUME NEW p \in Publications
             PROVE  LET me == pub[p] IN
    /\ \A h \in ToSet(me.batch) : h \in DOMAIN log' /\ log'[h].batch = p /\ ~log'[h].submitted
    /\ IsInjective(me.batch)
    /\ me.at = "addSuccessor" =>
         /\ me.job \in DOMAIN log' /\ log'[me.job].batch = p /\ ~log'[me.job].submitted
         /\ me.job \notin ToSet(me.batch)
         /\ \A l \in ToSet(me.todo) :
              /\ l.to \in DOMAIN log' /\ l.to \in log'[me.job].deps
              /\ l.feeds => l.to = log'[me.job].from
    /\ me.at # "addSuccessor" => me.job = ZeroHandle
    /\ me.at \in {"schedule", "addSuccessor"} =>
         \A h \in DOMAIN log' : log'[h].batch = p => ~log'[h].submitted
  BY DEF PubInv
<1>1. PICK me : me = pub[p]
  OBVIOUS
<1>2. /\ \A h \in ToSet(me.batch) : h \in DOMAIN log' /\ log'[h].batch = p /\ ~log'[h].submitted
      /\ IsInjective(me.batch)
  BY <1>1 DEF PubInv, logGrows
<1>3. me.at = "addSuccessor" =>
         /\ me.job \in DOMAIN log' /\ log'[me.job].batch = p /\ ~log'[me.job].submitted
         /\ me.job \notin ToSet(me.batch)
  BY <1>1 DEF PubInv, logGrows
<1>4. me.at = "addSuccessor" =>
         \A l \in ToSet(me.todo) :
              /\ l.to \in DOMAIN log' /\ l.to \in log'[me.job].deps
              /\ l.feeds => l.to = log'[me.job].from
  BY <1>1 DEF PubInv, logGrows
<1>5. me.at # "addSuccessor" => me.job = ZeroHandle
  BY <1>1 DEF PubInv
<1>6. me.at \in {"schedule", "addSuccessor"} =>
         \A h \in DOMAIN log' : log'[h].batch = p => ~log'[h].submitted
  BY <1>1 DEF PubInv, logGrows
<1> QED BY <1>1, <1>2, <1>3, <1>4, <1>5, <1>6

\* LinkInv reads the linkers, their edges, the publications and the notifiers.
LEMMA LinkKept ==
  ASSUME LinkInv, logGrows,
         \A g \in Goroutines : linker'[g] = linker[g] \/ linker'[g] = notLinking,
         \A p \in Publications : linker'[p].at # "idle" =>
           /\ pub'[p].at = pub[p].at /\ pub'[p].job = pub[p].job /\ pub[p].job \in DOMAIN log
           /\ linker[p].edge \notin ToSet(free'.successors)
           /\ edge'.successors[linker[p].edge] = edge.successors[linker[p].edge],
         \A n \in Notifiers : linker'[n].at # "idle" =>
           /\ linker[n].edge \notin ToSet(free'.signals)
           /\ edge'.signals[linker[n].edge] = edge.signals[linker[n].edge],
         \A n \in Notifiers : /\ notifier'[n].job = notifier[n].job
                              /\ notifier[n].called => notifier'[n].called
                              /\ n \in sent' => n \in sent \/ notifier'[n].called
  PROVE  LinkInv'
<1>0. notLinking.at = "idle" /\ notLinking.list = "none"
  BY DEF notLinking
<1>k. \A g \in Goroutines : linker'[g].at # "idle" => linker'[g] = linker[g]
  BY <1>0
<1>1. ASSUME NEW g \in Goroutines
      PROVE  LET me == linker'[g] IN
       /\ me.at = "idle" => me.list = "none"
       /\ me.at # "idle" =>
            /\ me.list = IF g \in Publications THEN "successors" ELSE "signals"
            /\ me.to \in DOMAIN log' /\ me.edge \in EdgeSlot
       /\ me.at = "refused" => log'[me.to].done
       /\ me.at = "swap" => me.old.gen = me.to.gen /\ me.old.head # closedList
  <2>1. CASE linker'[g] = notLinking
    BY <1>0, <2>1
  <2>2. CASE linker'[g] = linker[g]
    BY <2>2 DEF LinkInv, logGrows
  <2> QED BY <2>1, <2>2
<1>2. ASSUME NEW p \in Publications
      PROVE  LET me == linker'[p] e == edge'.successors[me.edge] IN
       me.at # "idle" =>
         /\ me.edge \notin ToSet(free'.successors)
         /\ pub'[p].at = "addSuccessor" /\ e.successor = pub'[p].job.slot
         /\ me.to \in log'[pub'[p].job].deps /\ (e.feeds => me.to = log'[pub'[p].job].from)
         /\ me.at = "swap" => e.next = me.old.head
  <2>1. p \in Goroutines
    BY DEF Goroutines
  <2> QED BY <1>k, <2>1, SMTT(30) DEF LinkInv, logGrows
<1>3. ASSUME NEW n \in Notifiers
      PROVE  LET me == linker'[n] e == edge'.signals[me.edge] IN
       /\ ~notifier'[n].called => me.at = "idle" /\ n \notin sent' /\ notifier'[n].job = ZeroHandle
       /\ notifier'[n].job = ZeroHandle \/ notifier'[n].job \in DOMAIN log'
       /\ me.at # "idle" =>
            /\ me.edge \notin ToSet(free'.signals)
            /\ e.signal = {n} /\ me.to = notifier'[n].job
            /\ me.at = "swap" => e.next = me.old.head
  <2>0. n \in Goroutines
    BY DEF Goroutines
  <2>1. /\ ~notifier'[n].called => linker'[n].at = "idle" /\ n \notin sent'
        /\ ~notifier'[n].called => notifier'[n].job = ZeroHandle
    BY <1>k, <2>0 DEF LinkInv
  <2>2. notifier'[n].job = ZeroHandle \/ notifier'[n].job \in DOMAIN log'
    BY DEF LinkInv, logGrows
  <2>3. ASSUME linker'[n].at # "idle"
        PROVE  /\ linker'[n].edge \notin ToSet(free'.signals)
               /\ edge'.signals[linker'[n].edge].signal = {n} /\ linker'[n].to = notifier'[n].job
               /\ linker'[n].at = "swap" => edge'.signals[linker'[n].edge].next = linker'[n].old.head
    <3>1. PICK x, x1 : x = edge.signals[linker[n].edge] /\ x1 = edge'.signals[linker[n].edge]
      OBVIOUS
    <3>2. x1 = x /\ linker[n].edge \notin ToSet(free'.signals) /\ linker'[n] = linker[n]
      BY <1>k, <2>0, <2>3, <3>1
    <3>3. /\ x.signal = {n} /\ linker[n].to = notifier[n].job
          /\ linker[n].at = "swap" => x.next = linker[n].old.head
      BY <2>3, <3>1, <3>2 DEF LinkInv
    <3> QED BY <3>1, <3>2, <3>3
  <2> QED BY <2>1, <2>2, <2>3
<1>4. \A g, k \in Goroutines :
       linker'[g].at # "idle" /\ linker'[g].list = linker'[k].list /\ linker'[g].edge = linker'[k].edge
         => g = k
  <2>1. SUFFICES ASSUME NEW g \in Goroutines, NEW k \in Goroutines, linker'[g].at # "idle",
                        linker'[g].list = linker'[k].list, linker'[g].edge = linker'[k].edge
                 PROVE  g = k
    OBVIOUS
  <2>2. linker'[g] = linker[g] /\ linker[g].list # "none"
    BY <1>k, <2>1 DEF LinkInv
  <2>3. linker'[k] = linker[k]
    BY <1>0, <2>1, <2>2
  <2> QED BY <2>1, <2>2, <2>3 DEF LinkInv
<1> QED BY <1>1, <1>2, <1>3, <1>4 DEF LinkInv

\* The heads of the signal lists after a step that begins none.
LEMMA SignalHeadsKept ==
  ASSUME \A s \in Slot : jobs'[s].signals.head \in EdgeSlot =>
           <<jobs'[s].signals.head, handle(s)'>> \in signalHeads,
         \A w \in Workers : worker'[w].signals \in EdgeSlot =>
           <<worker'[w].signals, worker'[w].job>> \in signalHeads
  PROVE  \A x \in EdgeSlot, h \in Handles : <<x, h>> \in signalHeads' => <<x, h>> \in signalHeads
<1> SUFFICES ASSUME NEW x \in EdgeSlot, NEW h \in Handles, <<x, h>> \in signalHeads'
             PROVE  <<x, h>> \in signalHeads
  OBVIOUS
<1>1. CASE \E s \in Slot : <<x, h>> = <<jobs'[s].signals.head, handle(s)'>>
  BY <1>1
<1>2. CASE \E w \in Workers : <<x, h>> = <<worker'[w].signals, worker'[w].job>>
  BY <1>2
<1> QED BY <1>1, <1>2 DEF signalHeads

\* The heads of the successor lists after a step that begins none.
LEMMA SuccessorHeadsKept ==
  ASSUME \A s \in Slot : jobs'[s].successors.head \in EdgeSlot =>
           <<jobs'[s].successors.head, handle(s)'>> \in successorHeads,
         \A w \in Workers : worker'[w].successors \in EdgeSlot =>
           <<worker'[w].successors, worker'[w].job>> \in successorHeads
  PROVE  \A x \in EdgeSlot, h \in Handles : <<x, h>> \in successorHeads' => <<x, h>> \in successorHeads
<1> SUFFICES ASSUME NEW x \in EdgeSlot, NEW h \in Handles, <<x, h>> \in successorHeads'
             PROVE  <<x, h>> \in successorHeads
  OBVIOUS
<1>1. CASE \E s \in Slot : <<x, h>> = <<jobs'[s].successors.head, handle(s)'>>
  BY <1>1
<1>2. CASE \E w \in Workers : <<x, h>> = <<worker'[w].successors, worker'[w].job>>
  BY <1>2
<1> QED BY <1>1, <1>2 DEF successorHeads

\* SignalsInv reads the linked signal edges, the heads and the notifiers.
LEMMA SignalsKept ==
  ASSUME SignalsInv, LinkInv, logGrows, sent' = sent, linkedSignals' = linkedSignals,
         \A e \in linkedSignals : edge'.signals[e] = edge.signals[e],
         \A x \in EdgeSlot, h \in Handles : <<x, h>> \in signalHeads' => <<x, h>> \in signalHeads,
         \A n \in Notifiers : notifier[n].called => notifier'[n] = notifier[n],
         sent \subseteq Notifiers, \A e \in linkedSignals : edge.signals[e].signal \subseteq Notifiers
  PROVE  SignalsInv'
<1>1. PICK own \in [EdgeSlot -> Handles] : SignalsOwned(own)
  BY DEF SignalsInv
<1>2. Chained(edge'.signals, linkedSignals', own, signalHeads')
  <2>1. Chained(edge.signals, linkedSignals, own, signalHeads)
    BY <1>1 DEF SignalsOwned
  <2> QED BY <2>1, ChainKept
<1>3. \A e \in linkedSignals' : \A n \in edge'.signals[e].signal :
        notifier'[n].called /\ notifier'[n].job = own[e]
  BY <1>1 DEF SignalsOwned
<1>4. SignalsOwned(own)'
  BY <1>2, <1>3 DEF SignalsOwned
<1>5. ASSUME NEW n \in sent'
      PROVE  notifier'[n].job = ZeroHandle \/ log'[notifier'[n].job].done
  <2>1. n \in Notifiers /\ notifier[n].called
    BY <1>5 DEF LinkInv
  <2>2. notifier[n].job = ZeroHandle \/ (notifier[n].job \in DOMAIN log /\ log[notifier[n].job].done)
    BY <1>5, <2>1 DEF SignalsInv, SignalNotEarly, LinkInv
  <2> QED BY <2>1, <2>2 DEF logGrows
<1> QED BY <1>4, <1>5 DEF SignalsInv, SignalNotEarly

\* What is still to be linked, being linked or linked, stays so or goes on.
LEMMA PendingKept ==
  ASSUME NEW own, NEW own1, NEW h, NEW d,
         \A p \in Publications : pub[p].job = h =>
           /\ ToSet(pub[p].todo) # {} \/ linker[p].at # "idle" => pub'[p].job = h
           /\ \A l \in ToSet(pub[p].todo) :
                \/ l \in ToSet(pub'[p].todo)
                \/ /\ linker'[p].at # "idle" /\ linker'[p].to = l.to
                   /\ edge'.successors[linker'[p].edge].feeds = l.feeds
           /\ linker[p].at # "idle" /\ linker[p].to = d =>
                \/ /\ linker'[p].at # "idle" /\ linker'[p].to = d
                   /\ edge'.successors[linker'[p].edge].feeds = edge.successors[linker[p].edge].feeds
                \/ \E e \in linkedSuccessors' :
                     /\ own1[e] = d /\ edge'.successors[e].successor = h.slot
                     /\ edge'.successors[e].feeds = edge.successors[linker[p].edge].feeds,
         \A e \in linkedSuccessors : edge.successors[e].successor = h.slot /\ own[e] = d =>
           /\ e \in linkedSuccessors' /\ own1[e] = d
           /\ edge'.successors[e].successor = edge.successors[e].successor
           /\ edge'.successors[e].feeds = edge.successors[e].feeds
  PROVE  /\ Pending(own, h, d) => Pending(own1, h, d)'
         /\ Feeding(own, h, d) => Feeding(own1, h, d)'
<1>1. ASSUME Pending(own, h, d) PROVE Pending(own1, h, d)'
  <2>1. CASE \E p \in Publications : pub[p].job = h /\ \E l \in ToSet(pub[p].todo) : l.to = d
    BY <2>1, ZenonT(40) DEF Pending
  <2>2. CASE \E p \in Publications : pub[p].job = h /\ linker[p].at # "idle" /\ linker[p].to = d
    BY <2>2 DEF Pending
  <2>3. CASE \E e \in linkedSuccessors : own[e] = d /\ edge.successors[e].successor = h.slot
    BY <2>3 DEF Pending
  <2> QED BY <1>1, <2>1, <2>2, <2>3 DEF Pending
<1>2. ASSUME Feeding(own, h, d) PROVE Feeding(own1, h, d)'
  <2>1. CASE \E p \in Publications : /\ pub[p].job = h
                                     /\ \E l \in ToSet(pub[p].todo) : l.to = d /\ l.feeds
    <3>1. PICK p \in Publications : /\ pub[p].job = h
                                    /\ \E l \in ToSet(pub[p].todo) : l.to = d /\ l.feeds
      BY <2>1
    <3>2. PICK l \in ToSet(pub[p].todo) : l.to = d /\ l.feeds
      BY <3>1
    <3>3. pub'[p].job = h
      BY <3>1, <3>2
    <3>4. CASE l \in ToSet(pub'[p].todo)
      BY <3>2, <3>3, <3>4 DEF Feeding
    <3>5. CASE l \notin ToSet(pub'[p].todo)
      BY <3>1, <3>2, <3>3, <3>5 DEF Feeding
    <3> QED BY <3>4, <3>5
  <2>2. CASE \E p \in Publications : /\ pub[p].job = h /\ linker[p].at # "idle" /\ linker[p].to = d
                                     /\ edge.successors[linker[p].edge].feeds
    BY <2>2 DEF Feeding
  <2>3. CASE \E e \in linkedSuccessors : /\ own[e] = d /\ edge.successors[e].successor = h.slot
                                         /\ edge.successors[e].feeds
    BY <2>3 DEF Feeding
  <2> QED BY <1>2, <2>1, <2>2, <2>3 DEF Feeding
<1> QED BY <1>1, <1>2

\* What a job was fed stays what it was fed.
LEMMA FedKept ==
  ASSUME logGrows, NEW h \in DOMAIN log, log[h].from = ZeroHandle \/ log[h].from \in DOMAIN log,
         NEW arg, Fed(h, arg)
  PROVE  Fed(h, arg)'
BY DEF Fed, logGrows

\* Within a batch, the edge that feeds goes on, or has done so.
LEMMA BatchKept ==
  ASSUME NEW own, NEW own1, logGrows, NEW h \in DOMAIN log, FedInBatch(own, h),
         log[h].from = ZeroHandle \/ log[h].from \in DOMAIN log,
         log'[h].started = log[h].started, log[h].started \/ jobs'[h.slot].arg = jobs[h.slot].arg,
         NEW f, f = log[h].from, Feeding(own, h, f) => Feeding(own1, h, f)'
  PROVE  FedInBatch(own1, h)'
<1>1. PICK a : a = IF log[h].started THEN log[h].arg ELSE jobs[h.slot].arg
  OBVIOUS
<1>2. /\ log'[h].from = f /\ log'[h].batch = log[h].batch /\ log'[h].started = log[h].started
      /\ a = IF log'[h].started THEN log'[h].arg ELSE jobs'[h.slot].arg
  BY <1>1 DEF logGrows
<1>3. f # ZeroHandle /\ log[f].batch = log[h].batch =>
        \/ log[f].done /\ a = log[f].result
        \/ ~log[h].started /\ Feeding(own, h, f)
  BY <1>1 DEF FedInBatch
<1>4. f # ZeroHandle /\ log'[f].batch = log'[h].batch =>
        \/ log'[f].done /\ a = log'[f].result
        \/ ~log'[h].started /\ Feeding(own1, h, f)'
  BY <1>2, <1>3 DEF logGrows
<1>5. Feeding(own1, h, f)' => Feeding(own1, h, log[h].from)'
  BY <1>2 DEF Feeding
<1> QED BY <1>2, <1>4, <1>5 DEF FedInBatch

\* SuccessorsInv, from what a step does to each part of it.
LEMMA SuccessorsMoved ==
  ASSUME NEW own \in [EdgeSlot -> Handles], SuccessorsOwned(own), FedOwned(own), logGrows,
         DOMAIN log' = DOMAIN log,
         \A s \in Slot : handle(s)' \in DOMAIN log' => handle(s)' = handle(s),
         NEW own1 \in [EdgeSlot -> Handles],
         Chained(edge'.successors, linkedSuccessors', own1, successorHeads'),
         \A e \in linkedSuccessors' : Waits(own1, e)',
         \A h, d \in DOMAIN log : d \in log[h].deps /\ ~log[d].done /\ ~log[h].started /\ Pending(own, h, d) =>
           log'[d].done \/ (~log'[h].started /\ Pending(own1, h, d)'),
         \A h \in DOMAIN log : log'[h].started =>
           \/ log[h].started
           \/ h.slot \in Slot /\ h = handle(h.slot) /\ log'[h].arg = jobs[h.slot].arg,
         \A s \in Slot : handle(s)' \in DOMAIN log' =>
           \/ jobs'[s].arg = jobs[s].arg
           \/ jobs'[s].arg = ZeroValue
           \/ Fed(handle(s), jobs[s].arg)',
         \A h \in DOMAIN log : FedInBatch(own1, h)',
         \A w \in Workers : worker'[w].at = "lower" =>
           LET e == edge'.successors[worker'[w].successors] IN
           e.feeds => jobs'[e.successor].arg = worker'[w].result
  PROVE  SuccessorsInv'
<1>1. \A h \in DOMAIN log : /\ log[h].from = ZeroHandle \/ log[h].from \in DOMAIN log
                            /\ log[h].from \in log[h].deps
  BY DEF FedOwned, SuccessorsOwned
<1>2. ASSUME NEW h \in DOMAIN log', NEW d \in log'[h].deps
      PROVE  d = ZeroHandle \/ (d \in DOMAIN log' /\ (log'[d].done \/ (~log'[h].started /\ Pending(own1, h, d)')))
  <2>1. d \in log[h].deps
    BY DEF logGrows
  <2>2. d = ZeroHandle \/ (d \in DOMAIN log /\ (log[d].done \/ (~log[h].started /\ Pending(own, h, d))))
    BY <2>1 DEF SuccessorsOwned
  <2> QED BY <2>1, <2>2 DEF logGrows
<1>3. SuccessorsOwned(own1)'
  BY <1>2 DEF SuccessorsOwned
<1>4. \A h \in DOMAIN log' : log'[h].from \in log'[h].deps
  BY <1>1 DEF logGrows
<1>5. ASSUME NEW h \in DOMAIN log', log'[h].started PROVE Fed(h, log[h].arg)'
  <2>1. PICK a : a = log'[h].arg
    OBVIOUS
  <2>2. Fed(h, a)
    <3>1. CASE log[h].started
      <4>1. Fed(h, log[h].arg) /\ log'[h].arg = log[h].arg
        BY <3>1 DEF FedOwned, logGrows
      <4> QED BY <2>1, <4>1 DEF Fed
    <3>2. CASE ~log[h].started
      <4>1. h.slot \in Slot /\ h = handle(h.slot) /\ a = jobs[h.slot].arg
        BY <1>5, <2>1, <3>2
      <4>2. Fed(handle(h.slot), jobs[h.slot].arg)
        BY <4>1 DEF FedOwned
      <4> QED BY <4>1, <4>2 DEF Fed
    <3> QED BY <3>1, <3>2
  <2>3. Fed(h, a)'
    BY <1>1, <2>2, FedKept
  <2> QED BY <2>1, <2>3 DEF Fed
<1>6. ASSUME NEW s \in Slot, handle(s)' \in DOMAIN log' PROVE Fed(handle(s), jobs[s].arg)'
  <2>1. PICK a, h : a = jobs'[s].arg /\ h = handle(s)
    OBVIOUS
  <2>2. handle(s)' = h /\ h \in DOMAIN log
    BY <1>6, <2>1
  <2>3. CASE a = jobs[s].arg
    <3>1. Fed(h, a)
      <4>1. Fed(handle(s), jobs[s].arg)
        BY <2>1, <2>2 DEF FedOwned
      <4> QED BY <2>1, <2>3, <4>1 DEF Fed
    <3>2. Fed(h, a)'
      BY <1>1, <2>2, <3>1, FedKept
    <3> QED BY <2>1, <2>2, <3>2 DEF Fed
  <2>4. CASE a = ZeroValue
    BY <2>1, <2>4 DEF Fed
  <2> QED BY <1>6, <2>1, <2>3, <2>4
<1>7. FedOwned(own1)'
  BY <1>4, <1>5, <1>6 DEF FedOwned
<1> QED BY <1>3, <1>7 DEF SuccessorsInv

\* The edge a worker is about to lower its successor for is a linked one.
LEMMA LowerLinked ==
  ASSUME Types, SlotsInv, RunInv, NEW own, SuccessorsOwned(own), NEW w \in Workers,
         worker[w].successors # None
  PROVE  LET x == worker[w].successors
             s == edge.successors[x].successor IN
         /\ x \in EdgeSlot /\ x \in linkedSuccessors /\ own[x] = worker[w].job
         /\ s \in Slot /\ handle(s) \in DOMAIN log
<1>1. PICK x, s : x = worker[w].successors /\ s = edge.successors[x].successor
  OBVIOUS
<1>2. x \in EdgeSlot /\ worker[w].job \in Handles
  BY <1>1 DEF Types, WorkerStates
<1>3. x \in linkedSuccessors /\ own[x] = worker[w].job
  <2>1. <<x, worker[w].job>> \in successorHeads
    BY <1>1 DEF successorHeads
  <2> QED BY <1>2, <2>1 DEF SuccessorsOwned, Chained
<1>4. handle(s) \in DOMAIN log
  BY <1>1, <1>3 DEF SuccessorsOwned, Waits
<1>5. s \in Slot
  <2>1. handle(s).slot \in Slot
    BY <1>4 DEF SlotsInv
  <2> QED BY <2>1 DEF handle
<1> QED BY <1>1, <1>2, <1>3, <1>4, <1>5

\* A linked edge waits as it did, while it, its slot's job and the log stay.
LEMMA WaitsKept ==
  ASSUME SlotsInv, NEW own, NEW own1, NEW e, Waits(own, e), logGrows, own1[e] = own[e],
         edge'.successors[e] = edge.successors[e],
         LET s == edge.successors[e].successor IN handle(s)' = handle(s)
  PROVE  Waits(own1, e)'
<1>1. PICK x, h : x = edge.successors[e] /\ h = handle(x.successor)
  OBVIOUS
<1>2. h \in DOMAIN log /\ own[e] \in log[h].deps /\ (x.feeds => own[e] = log[h].from)
  BY <1>1 DEF Waits
<1>3. edge'.successors[e] = x /\ handle(x.successor)' = h
  BY <1>1
<1> QED BY <1>2, <1>3 DEF Waits, logGrows

\* SuccessorsInv, where the linked edges stay and the log starts no job.
LEMMA SuccessorsKept ==
  ASSUME Types, SlotsInv, RunInv, SuccessorsInv, sameHandles, logGrows, DOMAIN log' = DOMAIN log,
         \A h \in DOMAIN log : log'[h].started = log[h].started,
         linkedSuccessors' = linkedSuccessors,
         \A e \in linkedSuccessors : edge'.successors[e] = edge.successors[e],
         \A x \in EdgeSlot, h \in Handles : <<x, h>> \in successorHeads' => <<x, h>> \in successorHeads,
         \A s \in Slot : jobs'[s].arg = jobs[s].arg,
         \A p \in Publications :
           /\ pub'[p].job = pub[p].job /\ pub'[p].todo = pub[p].todo
           /\ linker[p].at # "idle" =>
                /\ linker'[p].at # "idle" /\ linker'[p].to = linker[p].to
                /\ edge'.successors[linker'[p].edge].feeds = edge.successors[linker[p].edge].feeds,
         \A w \in Workers : worker'[w].at = "lower" =>
           worker[w].at = "lower" /\ worker'[w].successors = worker[w].successors
             /\ worker'[w].result = worker[w].result
  PROVE  SuccessorsInv'
<1>1. PICK own \in [EdgeSlot -> Handles] : SuccessorsOwned(own) /\ FedOwned(own)
  BY DEF SuccessorsInv
<1>2. Chained(edge'.successors, linkedSuccessors', own, successorHeads')
  <2>1. Chained(edge.successors, linkedSuccessors, own, successorHeads)
    BY <1>1 DEF SuccessorsOwned
  <2> QED BY <2>1, ChainKept
<1>3. \A s \in Slot : handle(s)' = handle(s)
  BY DEF handle, sameHandles
<1>4. ASSUME NEW e \in linkedSuccessors'
      PROVE  Waits(own, e)'
  <2>1. Waits(own, e)
    BY <1>1 DEF SuccessorsOwned
  <2>2. edge.successors[e].successor \in Slot
    <3>1. handle(edge.successors[e].successor).slot \in Slot
      BY <2>1 DEF SlotsInv, Waits
    <3> QED BY <3>1 DEF handle
  <2> QED BY <1>3, <2>1, <2>2, WaitsKept
<1>5. ASSUME NEW h, NEW d
      PROVE  /\ Pending(own, h, d) => Pending(own, h, d)'
             /\ Feeding(own, h, d) => Feeding(own, h, d)'
  BY PendingKept
<1>6. ASSUME NEW h \in DOMAIN log
      PROVE  FedInBatch(own, h)'
  <2>1. PICK f : f = log[h].from
    OBVIOUS
  <2>2. h.slot \in Slot
    BY DEF SlotsInv
  <2>3. f = ZeroHandle \/ f \in DOMAIN log
    BY <1>1, <2>1 DEF FedOwned, SuccessorsOwned
  <2>4. FedInBatch(own, h)
    BY <1>1 DEF FedOwned
  <2>5. Feeding(own, h, f) => Feeding(own, h, f)'
    BY <1>5
  <2>6. jobs'[h.slot].arg = jobs[h.slot].arg
    BY <2>2
  <2> QED BY <2>1, <2>3, <2>4, <2>5, <2>6, BatchKept
<1>7. ASSUME NEW w \in Workers, worker'[w].at = "lower"
      PROVE  LET e == edge'.successors[worker'[w].successors] IN
             e.feeds => jobs'[e.successor].arg = worker'[w].result
  <2>1. PICK x, y : x = worker[w].successors /\ y = edge.successors[x]
    OBVIOUS
  <2>2. worker[w].at = "lower" /\ worker'[w].successors = x /\ worker'[w].result = worker[w].result
    BY <1>7, <2>1
  <2>3. x # None
    BY <2>1, <2>2 DEF RunInv
  <2>4. x \in linkedSuccessors /\ y.successor \in Slot
    BY <1>1, <2>1, <2>3, LowerLinked
  <2>5. edge'.successors[x] = y
    BY <2>1, <2>4
  <2>6. y.feeds => jobs[y.successor].arg = worker[w].result
    BY <1>1, <2>1, <2>2 DEF FedOwned
  <2> QED BY <2>2, <2>4, <2>5, <2>6
<1> QED BY <1>1, <1>2, <1>3, <1>4, <1>5, <1>6, <1>7, SuccessorsMoved

\* What a worker feeds its successor before it lowers the count stays fed.
LEMMA LowerKept ==
  ASSUME Types, SlotsInv, RunInv, NEW own, SuccessorsOwned(own), FedOwned(own),
         \A f \in linkedSuccessors :
           /\ edge'.successors[f] = edge.successors[f]
           /\ LET t == edge.successors[f].successor IN jobs'[t].arg = jobs[t].arg,
         NEW w \in Workers, worker[w].at = "lower", worker'[w].result = worker[w].result,
         worker'[w].successors = worker[w].successors
  PROVE  LET f == edge'.successors[worker'[w].successors] IN
         f.feeds => jobs'[f.successor].arg = worker'[w].result
<1>1. PICK y, f : y = worker[w].successors /\ f = edge.successors[y]
  OBVIOUS
<1>2. y \in linkedSuccessors /\ f.successor \in Slot /\ handle(f.successor) \in DOMAIN log
  <2>1. worker[w].successors # None
    BY DEF RunInv
  <2> QED BY <1>1, <2>1, LowerLinked
<1>3. f.feeds => jobs[f.successor].arg = worker[w].result
  BY <1>1 DEF FedOwned
<1> QED BY <1>1, <1>2, <1>3

\* SuccessorsInv, where a link that is refused may end: the job it was to wait
\* for has finished, and is not one of its own batch.
LEMMA SuccessorsStay ==
  ASSUME Types, SlotsInv, RunInv, WaitInv, PubInv, LinkInv, SuccessorsInv, sameHandles, log' = log,
         worker' = worker, linkedSuccessors' = linkedSuccessors,
         \A f \in linkedSuccessors : edge'.successors[f] = edge.successors[f],
         \A t \in Slot : jobs'[t].successors.head = jobs[t].successors.head /\ jobs'[t].arg = jobs[t].arg,
         \A p \in Publications : ToSet(pub[p].todo) # {} =>
           pub'[p].job = pub[p].job /\ pub'[p].todo = pub[p].todo,
         \A p \in Publications : linker[p].at # "idle" =>
           /\ pub'[p].job = pub[p].job
           /\ \/ /\ linker'[p] = linker[p]
                 /\ edge'.successors[linker[p].edge].feeds = edge.successors[linker[p].edge].feeds
              \/ log[linker[p].to].done
  PROVE  SuccessorsInv'
<1>1. PICK own \in [EdgeSlot -> Handles] : SuccessorsOwned(own) /\ FedOwned(own)
  BY DEF SuccessorsInv
<1>2. logGrows /\ \A t \in Slot : handle(t)' = handle(t)
  BY DEF logGrows, handle, sameHandles
<1>3. Chained(edge'.successors, linkedSuccessors', own, successorHeads')
  <2>1. \A y \in EdgeSlot, j \in Handles : <<y, j>> \in successorHeads' => <<y, j>> \in successorHeads
    <3>1. \A t \in Slot : <<jobs'[t].successors.head, handle(t)'>> \in successorHeads
      BY <1>2 DEF successorHeads
    <3>2. \A w \in Workers : <<worker'[w].successors, worker'[w].job>> \in successorHeads
      BY DEF successorHeads
    <3> QED BY <3>1, <3>2, SuccessorHeadsKept
  <2>2. Chained(edge.successors, linkedSuccessors, own, successorHeads)
    BY <1>1 DEF SuccessorsOwned
  <2> QED BY <2>1, <2>2, ChainKept
<1>4. ASSUME NEW f \in linkedSuccessors'
      PROVE  Waits(own, f)'
  <2>1. f \in linkedSuccessors /\ Waits(own, f) /\ edge.successors[f].successor \in Slot
    BY <1>1 DEF SuccessorsOwned, WaitInv, linkedSuccessors
  <2> QED BY <1>2, <2>1, WaitsKept
<1>5. ASSUME NEW j, NEW d, ~log[d].done
      PROVE  /\ Pending(own, j, d) => Pending(own, j, d)'
             /\ Feeding(own, j, d) => Feeding(own, j, d)'
  <2>1. ASSUME NEW q \in Publications, pub[q].job = j
        PROVE  /\ ToSet(pub[q].todo) # {} \/ linker[q].at # "idle" => pub'[q].job = j
               /\ \A m \in ToSet(pub[q].todo) : m \in ToSet(pub'[q].todo)
               /\ linker[q].at # "idle" /\ linker[q].to = d =>
                    /\ linker'[q].at # "idle" /\ linker'[q].to = d
                    /\ edge'.successors[linker'[q].edge].feeds = edge.successors[linker[q].edge].feeds
    <3>1. \A m \in ToSet(pub[q].todo) : m \in ToSet(pub'[q].todo)
      OBVIOUS
    <3>2. ToSet(pub[q].todo) # {} \/ linker[q].at # "idle" => pub'[q].job = j
      BY <2>1
    <3>3. ASSUME linker[q].at # "idle", linker[q].to = d
          PROVE  /\ linker'[q].at # "idle" /\ linker'[q].to = d
                 /\ edge'.successors[linker'[q].edge].feeds = edge.successors[linker[q].edge].feeds
      BY <1>5, <3>3
    <3> QED BY <3>1, <3>2, <3>3
  <2> QED BY <2>1, PendingKept
<1>6. ASSUME NEW j \in DOMAIN log
      PROVE  FedInBatch(own, j)'
  <2>1. PICK f : f = log[j].from
    OBVIOUS
  <2>2. j.slot \in Slot /\ jobs'[j.slot].arg = jobs[j.slot].arg
    BY DEF SlotsInv
  <2>3. log[j].from = ZeroHandle \/ log[j].from \in DOMAIN log
    BY <1>1 DEF FedOwned, SuccessorsOwned
  <2>4. FedInBatch(own, j)
    BY <1>1 DEF FedOwned
  <2>5. CASE ~log[f].done
    <3>1. Feeding(own, j, f) => Feeding(own, j, f)'
      BY <1>5, <2>5
    <3> QED BY <1>2, <2>1, <2>2, <2>3, <2>4, <3>1, BatchKept
  <2>6. CASE log[f].done
    <3>1. PICK a : a = IF log[j].started THEN log[j].arg ELSE jobs[j.slot].arg
      OBVIOUS
    <3>2. a = IF log'[j].started THEN log'[j].arg ELSE jobs'[j.slot].arg
      BY <2>2, <3>1
    <3>3. f # ZeroHandle /\ log[f].batch = log[j].batch =>
            \/ log[f].done /\ a = log[f].result
            \/ ~log[j].started /\ Feeding(own, j, f)
      BY <2>1, <2>4, <3>1 DEF FedInBatch
    <3>4. ASSUME f # ZeroHandle, log[f].batch = log[j].batch, ~log[j].started, Feeding(own, j, f)
          PROVE  Feeding(own, j, f)'
      <4>1. ASSUME NEW q \in Publications, pub[q].job = j, linker[q].at # "idle"
            PROVE  linker[q].to # f
        <5>1. pub[q].at = "addSuccessor"
          BY <4>1 DEF LinkInv
        <5>2. log[j].batch = q /\ \A i \in DOMAIN log : log[i].batch = q => ~log[i].submitted
          BY <4>1, <5>1 DEF PubInv
        <5>3. f \in DOMAIN log /\ log[f].submitted
          BY <2>1, <2>3, <2>6, <3>4 DEF WaitInv
        <5> QED BY <3>4, <5>2, <5>3
      <4>2. ASSUME NEW q \in Publications, pub[q].job = j
            PROVE  /\ ToSet(pub[q].todo) # {} \/ linker[q].at # "idle" => pub'[q].job = j
                   /\ \A m \in ToSet(pub[q].todo) : m \in ToSet(pub'[q].todo)
                   /\ ~(linker[q].at # "idle" /\ linker[q].to = f)
        BY <4>1, <4>2
      <4> QED BY <3>4, <4>2, PendingKept
    <3>5. f = log'[j].from /\ (Feeding(own, j, f)' => Feeding(own, j, log[j].from)')
      BY <2>1 DEF Feeding
    <3> QED BY <3>2, <3>3, <3>4, <3>5 DEF FedInBatch
  <2> QED BY <2>5, <2>6
<1>7. ASSUME NEW w \in Workers, worker'[w].at = "lower"
      PROVE  LET f == edge'.successors[worker'[w].successors] IN
             f.feeds => jobs'[f.successor].arg = worker'[w].result
  <2>1. \A f \in linkedSuccessors : edge.successors[f].successor \in Slot
    BY DEF WaitInv, linkedSuccessors
  <2> QED BY <1>1, <1>7, <2>1, LowerKept
<1> QED BY <1>1, <1>2, <1>3, <1>4, <1>5, <1>6, <1>7, SuccessorsMoved

-----------------------------------------------------------------------------
(* Where the lists lead, and who is still there *)

\* The lists as they are, with first edges more or an edge being linked changed.
LEMMA ReachKept ==
  ASSUME NEW E, NEW N, NEW firsts, Reached(E, N, firsts), N \subseteq EdgeSlot,
         NEW E1, \A e \in N : E1[e].next = E[e].next,
         NEW firsts1, \A e \in EdgeSlot : e \in firsts => e \in firsts1
  PROVE  Reached(E1, N, firsts1)
BY DEF Reached

\* An edge is linked before the first of a list.
LEMMA ReachPushed ==
  ASSUME NEW E, NEW N, NEW firsts, Reached(E, N, firsts), N \subseteq EdgeSlot,
         NEW e, NEW firsts1, e \in firsts1,
         \A f \in EdgeSlot : f \in firsts => f \in firsts1 \/ f = E[e].next
  PROVE  Reached(E, N \cup {e}, firsts1)
<1>1. ASSUME NEW X \in SUBSET (N \cup {e}), X # {}
      PROVE  \E y \in X : y \in firsts1 \/ \E f \in (N \cup {e}) \ X : E[f].next = y
  <2>1. CASE e \in X
    BY <2>1
  <2>2. CASE e \notin X
    <3>1. X \in SUBSET N
      BY <2>2
    <3>2. PICK y \in X : y \in firsts \/ \E f \in N \ X : E[f].next = y
      BY <1>1, <3>1 DEF Reached
    <3> QED BY <2>2, <3>1, <3>2
  <2> QED BY <2>1, <2>2
<1> QED BY <1>1 DEF Reached

\* A worker takes the first edge of a list.
LEMMA ReachPopped ==
  ASSUME NEW E, NEW N, NEW firsts, Reached(E, N, firsts), N \subseteq EdgeSlot, NEW e,
         NEW firsts1,
         \A f \in EdgeSlot : f \in firsts /\ f # e => f \in firsts1,
         \A f \in EdgeSlot : f = E[e].next => f \in firsts1
  PROVE  Reached(E, N \ {e}, firsts1)
<1>1. ASSUME NEW X \in SUBSET (N \ {e}), X # {}
      PROVE  \E y \in X : y \in firsts1 \/ \E f \in (N \ {e}) \ X : E[f].next = y
  <2>1. PICK y \in X : y \in firsts \/ \E f \in N \ X : E[f].next = y
    BY <1>1 DEF Reached
  <2> QED BY <1>1, <2>1
<1> QED BY <1>1 DEF Reached

\* The lists are of linked edges.
LEMMA OnLists ==
  ASSUME SignalsInv, SuccessorsInv, Types
  PROVE  /\ \A e \in linkedSuccessors :
              edge.successors[e].next # None => edge.successors[e].next \in linkedSuccessors
         /\ \A e \in linkedSignals :
              edge.signals[e].next # None => edge.signals[e].next \in linkedSignals
         /\ \A e \in EdgeSlot : e \in successorFirsts => e \in linkedSuccessors
         /\ \A e \in EdgeSlot : e \in signalFirsts => e \in linkedSignals
<1>1. PICK own : SuccessorsOwned(own)
  BY DEF SuccessorsInv
<1>2. PICK own1 : SignalsOwned(own1)
  BY DEF SignalsInv
<1>3. /\ \A e \in linkedSuccessors :
           edge.successors[e].next # None => edge.successors[e].next \in linkedSuccessors
      /\ \A x \in EdgeSlot, h \in Handles : <<x, h>> \in successorHeads => x \in linkedSuccessors
  BY <1>1 DEF SuccessorsOwned, Chained
<1>4. /\ \A e \in linkedSignals :
           edge.signals[e].next # None => edge.signals[e].next \in linkedSignals
      /\ \A x \in EdgeSlot, h \in Handles : <<x, h>> \in signalHeads => x \in linkedSignals
  BY <1>2 DEF SignalsOwned, Chained
<1>5. /\ \A s \in Slot : handle(s) \in Handles
      /\ \A w \in Workers : worker[w].job \in Handles
  BY DEF Types, Jobs, Words, WorkerStates, handle, Handles
<1>6. ASSUME NEW e \in EdgeSlot, e \in successorFirsts PROVE e \in linkedSuccessors
  <2>1. \E h \in Handles : <<e, h>> \in successorHeads
    BY <1>5, <1>6 DEF successorFirsts, successorHeads
  <2> QED BY <1>3, <2>1
<1>7. ASSUME NEW e \in EdgeSlot, e \in signalFirsts PROVE e \in linkedSignals
  <2>1. \E h \in Handles : <<e, h>> \in signalHeads
    BY <1>5, <1>7 DEF signalFirsts, signalHeads
  <2> QED BY <1>4, <2>1
<1> QED BY <1>3, <1>4, <1>6, <1>7

\* SuccessorsReached reads the linked edges' next and where the lists begin.
LEMMA SuccessorsReachKept ==
  ASSUME SuccessorsReached, linkedSuccessors' = linkedSuccessors,
         \A e \in linkedSuccessors : edge'.successors[e].next = edge.successors[e].next,
         \A s \in Slot : jobs[s].successors.head \in EdgeSlot => jobs[s].successors.head \in successorFirsts',
         \A w \in Workers : worker[w].successors \in EdgeSlot => worker[w].successors \in successorFirsts'
  PROVE  SuccessorsReached'
<1>1. PICK N, F, F1, E, E1 : /\ N = linkedSuccessors /\ F = successorFirsts /\ F1 = successorFirsts'
                             /\ E = edge.successors /\ E1 = edge'.successors
  OBVIOUS
<1>2. Reached(E, N, F) /\ N \subseteq EdgeSlot
  BY <1>1 DEF SuccessorsReached, linkedSuccessors
<1>3. \A e \in N : E1[e].next = E[e].next
  BY <1>1
<1>4. \A e \in EdgeSlot : e \in F => e \in F1
  BY <1>1 DEF successorFirsts
<1>5. Reached(E1, N, F1)
  BY <1>2, <1>3, <1>4, ReachKept
<1> QED BY <1>1, <1>5 DEF SuccessorsReached

\* So does SignalsReached.
LEMMA SignalsReachKept ==
  ASSUME SignalsReached, linkedSignals' = linkedSignals,
         \A e \in linkedSignals : edge'.signals[e].next = edge.signals[e].next,
         \A s \in Slot : jobs[s].signals.head \in EdgeSlot => jobs[s].signals.head \in signalFirsts',
         \A w \in Workers : worker[w].signals \in EdgeSlot => worker[w].signals \in signalFirsts'
  PROVE  SignalsReached'
<1>1. PICK N, F, F1, E, E1 : /\ N = linkedSignals /\ F = signalFirsts /\ F1 = signalFirsts'
                             /\ E = edge.signals /\ E1 = edge'.signals
  OBVIOUS
<1>2. Reached(E, N, F) /\ N \subseteq EdgeSlot
  BY <1>1 DEF SignalsReached, linkedSignals
<1>3. \A e \in N : E1[e].next = E[e].next
  BY <1>1
<1>4. \A e \in EdgeSlot : e \in F => e \in F1
  BY <1>1 DEF signalFirsts
<1>5. Reached(E1, N, F1)
  BY <1>2, <1>3, <1>4, ReachKept
<1> QED BY <1>1, <1>5 DEF SignalsReached

\* Where no list begins elsewhere, every list still begins somewhere.
LEMMA FirstsStay ==
  ASSUME worker' = worker
  PROVE  /\ (\A s \in Slot : jobs'[s].successors.head = jobs[s].successors.head) =>
              /\ \A s \in Slot : jobs[s].successors.head \in successorFirsts'
              /\ \A w \in Workers : worker[w].successors \in successorFirsts'
         /\ (\A s \in Slot : jobs'[s].signals.head = jobs[s].signals.head) =>
              /\ \A s \in Slot : jobs[s].signals.head \in signalFirsts'
              /\ \A w \in Workers : worker[w].signals \in signalFirsts'
BY DEF successorFirsts, signalFirsts

\* The lists after a step that links and takes no edge.
LEMMA ReachStays ==
  ASSUME SuccessorsReached, SignalsReached,
         linkedSuccessors' = linkedSuccessors, linkedSignals' = linkedSignals,
         \A e \in linkedSuccessors : edge'.successors[e].next = edge.successors[e].next,
         \A e \in linkedSignals : edge'.signals[e].next = edge.signals[e].next,
         \A s \in Slot :
           /\ jobs[s].successors.head \in EdgeSlot => jobs'[s].successors.head = jobs[s].successors.head
           /\ jobs[s].signals.head \in EdgeSlot => jobs'[s].signals.head = jobs[s].signals.head,
         \A w \in Workers :
           /\ worker[w].successors \in EdgeSlot => worker'[w].successors = worker[w].successors
           /\ worker[w].signals \in EdgeSlot => worker'[w].signals = worker[w].signals
  PROVE  SuccessorsReached' /\ SignalsReached'
<1>1. /\ \A s \in Slot : jobs'[s].successors.head \in successorFirsts' /\ jobs'[s].signals.head \in signalFirsts'
      /\ \A w \in Workers : worker'[w].successors \in successorFirsts' /\ worker'[w].signals \in signalFirsts'
  BY DEF successorFirsts, signalFirsts
<1>2. /\ \A s \in Slot : jobs[s].successors.head \in EdgeSlot => jobs[s].successors.head \in successorFirsts'
      /\ \A w \in Workers : worker[w].successors \in EdgeSlot => worker[w].successors \in successorFirsts'
  BY <1>1
<1>3. /\ \A s \in Slot : jobs[s].signals.head \in EdgeSlot => jobs[s].signals.head \in signalFirsts'
      /\ \A w \in Workers : worker[w].signals \in EdgeSlot => worker[w].signals \in signalFirsts'
  BY <1>1
<1> QED BY <1>2, <1>3, SuccessorsReachKept, SignalsReachKept

\* StartedInv reads which jobs are started and what the workers have.
LEMMA StartedKept ==
  ASSUME StartedInv,
         \A s \in Slot : handle(s)' \in DOMAIN log' /\ log'[handle(s)'].started =>
           handle(s)' = handle(s) /\ handle(s) \in DOMAIN log /\ log[handle(s)].started,
         \A w \in Workers : worker[w].at # "idle" => worker'[w].at # "idle" /\ worker'[w].job = worker[w].job
  PROVE  StartedInv'
<1>1. ASSUME NEW s \in Slot, handle(s)' \in DOMAIN log', log'[handle(s)'].started
      PROVE  \E w \in Workers : worker'[w].at # "idle" /\ worker'[w].job = handle(s)'
  <2>1. handle(s)' = handle(s) /\ handle(s) \in DOMAIN log /\ log[handle(s)].started
    BY <1>1
  <2>2. PICK w \in Workers : worker[w].at # "idle" /\ worker[w].job = handle(s)
    BY <2>1 DEF StartedInv
  <2> QED BY <2>1, <2>2
<1> QED BY <1>1 DEF StartedInv

\* HeldInv reads which jobs are submitted and what the publications have.
LEMMA HeldKept ==
  ASSUME HeldInv,
         \A h \in DOMAIN log' : ~log'[h].submitted => h \in DOMAIN log /\ ~log[h].submitted,
         \A p \in Publications : /\ pub'[p].batch = pub[p].batch /\ pub'[p].at = pub[p].at
                                 /\ pub'[p].job = pub[p].job
  PROVE  HeldInv'
<1>1. ASSUME NEW h \in DOMAIN log', ~log'[h].submitted
      PROVE  \E p \in Publications : \/ h \in ToSet(pub'[p].batch)
                                     \/ pub'[p].at = "addSuccessor" /\ pub'[p].job = h
  <2>1. PICK p \in Publications : \/ h \in ToSet(pub[p].batch)
                                  \/ pub[p].at = "addSuccessor" /\ pub[p].job = h
    BY <1>1 DEF HeldInv
  <2> QED BY <2>1
<1> QED BY <1>1 DEF HeldInv

\* ArmedInv reads whose Signals are armed and what the linked edges have.
LEMMA ArmedKept ==
  ASSUME ArmedInv,
         \A n \in Notifiers : notifier'[n].called /\ n \notin sent' /\ linker'[n].at = "idle" =>
           notifier[n].called /\ n \notin sent /\ linker[n].at = "idle",
         linkedSignals \subseteq linkedSignals',
         \A e \in linkedSignals : edge'.signals[e].signal = edge.signals[e].signal
  PROVE  ArmedInv'
<1>1. ASSUME NEW n \in Notifiers, notifier'[n].called, n \notin sent', linker'[n].at = "idle"
      PROVE  \E e \in linkedSignals' : edge'.signals[e].signal = {n}
  <2>1. notifier[n].called /\ n \notin sent /\ linker[n].at = "idle"
    BY <1>1
  <2>2. PICK e \in linkedSignals : edge.signals[e].signal = {n}
    BY <2>1 DEF ArmedInv
  <2> QED BY <2>2
<1> QED BY <1>1 DEF ArmedInv

\* UsedInv reads the free slots, which slots have jobs and which workers none.
LEMMA UsedKept ==
  ASSUME UsedInv, free'.jobs = free.jobs, DOMAIN log' = DOMAIN log,
         \A s \in Slot : handle(s)' = handle(s),
         \A s \in Slot : handle(s) \notin DOMAIN log =>
           /\ jobs'[s].successors.head = jobs[s].successors.head
           /\ jobs'[s].signals.head = jobs[s].signals.head,
         \A w \in Workers : worker'[w].at = "idle" => worker[w].at = "idle" /\ worker'[w].job = worker[w].job
  PROVE  UsedInv'
<1>1. \A s \in Slot : s \notin ToSet(free'.jobs) => handle(s)' \in DOMAIN log'
  BY DEF UsedInv
<1>2. \A s \in Slot : handle(s)' \notin DOMAIN log' =>
        jobs'[s].successors.head \notin EdgeSlot /\ jobs'[s].signals.head \notin EdgeSlot
  BY DEF UsedInv
<1>3. \A w \in Workers : worker'[w].at = "idle" => worker'[w].job = ZeroHandle
  BY DEF UsedInv
<1> QED BY <1>1, <1>2, <1>3 DEF UsedInv

\* OrderInv reads what the jobs depend on.
LEMMA OrderKept ==
  ASSUME OrderInv, DOMAIN log' = DOMAIN log, \A h \in DOMAIN log : log'[h].deps = log[h].deps
  PROVE  OrderInv'
BY DEF OrderInv

\* FlowInv after a step that starts, submits and arms nothing.
LEMMA FlowKept ==
  ASSUME FlowInv, free'.jobs = free.jobs, DOMAIN log' = DOMAIN log,
         \A h \in DOMAIN log : /\ log'[h].deps = log[h].deps /\ log'[h].submitted = log[h].submitted
                               /\ log'[h].started = log[h].started,
         \A s \in Slot : handle(s)' = handle(s),
         \A s \in Slot : handle(s) \notin DOMAIN log =>
           /\ jobs'[s].successors.head = jobs[s].successors.head
           /\ jobs'[s].signals.head = jobs[s].signals.head,
         \A w \in Workers : /\ worker'[w].at = "idle" <=> worker[w].at = "idle"
                            /\ worker'[w].job = worker[w].job,
         \A p \in Publications : /\ pub'[p].batch = pub[p].batch /\ pub'[p].at = pub[p].at
                                 /\ pub'[p].job = pub[p].job,
         \A n \in Notifiers : notifier'[n].called /\ n \notin sent' /\ linker'[n].at = "idle" =>
           notifier[n].called /\ n \notin sent /\ linker[n].at = "idle",
         linkedSignals \subseteq linkedSignals',
         \A e \in linkedSignals : edge'.signals[e].signal = edge.signals[e].signal
  PROVE  FlowInv'
<1>0. StartedInv /\ HeldInv /\ ArmedInv /\ UsedInv /\ OrderInv
  BY DEF FlowInv
<1>1. StartedInv'
  BY <1>0, StartedKept
<1>2. HeldInv'
  BY <1>0, HeldKept
<1>3. ArmedInv'
  BY <1>0, ArmedKept
<1>4. UsedInv'
  BY <1>0, UsedKept
<1>5. OrderInv'
  BY <1>0, OrderKept
<1> QED BY <1>1, <1>2, <1>3, <1>4, <1>5 DEF FlowInv

-----------------------------------------------------------------------------
(* link *)

\* SignalsInv, where no Signal is armed or sent and no signal list begins.
LEMMA SignalsSame ==
  ASSUME Types, LinkInv, SignalsInv, logGrows, sent' = sent, notifier' = notifier,
         \A n \in Notifiers : linker'[n] = linker[n],
         edge'.signals = edge.signals, free'.signals = free.signals,
         \A t \in Slot : jobs'[t].signals.head \in EdgeSlot =>
           jobs'[t].signals.head = jobs[t].signals.head /\ handle(t)' = handle(t),
         \A w \in Workers : worker'[w].signals \in EdgeSlot =>
           worker'[w].signals = worker[w].signals /\ worker'[w].job = worker[w].job
  PROVE  SignalsInv'
<1>1. linkedSignals' = linkedSignals
  BY DEF linkedSignals
<1>2. \A x \in EdgeSlot, k \in Handles : <<x, k>> \in signalHeads' => <<x, k>> \in signalHeads
  <2>1. \A t \in Slot : jobs'[t].signals.head \in EdgeSlot =>
          <<jobs'[t].signals.head, handle(t)'>> \in signalHeads
    BY DEF signalHeads
  <2>2. \A w \in Workers : worker'[w].signals \in EdgeSlot =>
          <<worker'[w].signals, worker'[w].job>> \in signalHeads
    BY DEF signalHeads
  <2> QED BY <2>1, <2>2, SignalHeadsKept
<1>3. \A x \in linkedSignals : edge.signals[x].signal \subseteq Notifiers
  BY DEF Types, Edges, linkedSignals
<1>4. sent \subseteq Notifiers
  BY DEF Types
<1> QED BY <1>1, <1>2, <1>3, <1>4, SignalsKept

\* SuccessorsInv, where no job is linked to, fed, lowered or begins to be walked.
LEMMA SuccessorsSame ==
  ASSUME Types, SlotsInv, RunInv, SuccessorsInv, logGrows, DOMAIN log' = DOMAIN log,
         \A h \in DOMAIN log : log'[h].started = log[h].started,
         \A p \in Publications : /\ linker'[p] = linker[p]
                                 /\ pub'[p].job = pub[p].job /\ pub'[p].todo = pub[p].todo,
         edge'.successors = edge.successors, free'.successors = free.successors,
         \A t \in Slot : jobs'[t].successors = jobs[t].successors /\ jobs'[t].arg = jobs[t].arg,
         \A w \in Workers : /\ worker'[w].successors = worker[w].successors
                            /\ worker'[w].job = worker[w].job /\ worker'[w].result = worker[w].result
                            /\ worker'[w].at = "lower" => worker[w].at = "lower"
  PROVE  SuccessorsInv'
<1>1. linkedSuccessors' = linkedSuccessors
  BY DEF linkedSuccessors
<1>2. sameHandles /\ \A t \in Slot : handle(t)' = handle(t)
  BY DEF sameHandles, handle
<1>3. \A x \in EdgeSlot, k \in Handles : <<x, k>> \in successorHeads' => <<x, k>> \in successorHeads
  <2>1. \A t \in Slot : <<jobs'[t].successors.head, handle(t)'>> \in successorHeads
    BY <1>2 DEF successorHeads
  <2>2. \A w \in Workers : <<worker'[w].successors, worker'[w].job>> \in successorHeads
    BY DEF successorHeads
  <2> QED BY <2>1, <2>2, SuccessorHeadsKept
<1> QED BY <1>1, <1>2, <1>3, SuccessorsKept

\* One edge of a pool is filled in.
LEMMA EdgeFilled ==
  ASSUME NEW E \in [successors : [EdgeSlot -> Edges], signals : [EdgeSlot -> Edges]],
         NEW e \in EdgeSlot, NEW x \in Edges, NEW E1
  PROVE  /\ E1 = [E EXCEPT !.successors[e] = x] =>
              /\ E1 \in [successors : [EdgeSlot -> Edges], signals : [EdgeSlot -> Edges]]
              /\ \A f \in EdgeSlot : E1.successors[f] = IF f = e THEN x ELSE E.successors[f]
              /\ E1.signals = E.signals
         /\ E1 = [E EXCEPT !.signals[e] = x] =>
              /\ E1 \in [successors : [EdgeSlot -> Edges], signals : [EdgeSlot -> Edges]]
              /\ \A f \in EdgeSlot : E1.signals[f] = IF f = e THEN x ELSE E.signals[f]
              /\ E1.successors = E.successors
<1>1. PICK S, T : S = E.successors /\ T = E.signals
  OBVIOUS
<1>2. S \in [EdgeSlot -> Edges] /\ T \in [EdgeSlot -> Edges]
  BY <1>1
<1>3. ASSUME E1 = [E EXCEPT !.successors[e] = x]
      PROVE  E1 = [E EXCEPT !.successors = [S EXCEPT ![e] = x]]
  BY <1>1, <1>3
<1>4. ASSUME E1 = [E EXCEPT !.signals[e] = x]
      PROVE  E1 = [E EXCEPT !.signals = [T EXCEPT ![e] = x]]
  BY <1>1, <1>4
<1>5. /\ [S EXCEPT ![e] = x] \in [EdgeSlot -> Edges]
      /\ \A f \in EdgeSlot : [S EXCEPT ![e] = x][f] = IF f = e THEN x ELSE S[f]
  BY <1>2
<1>6. /\ [T EXCEPT ![e] = x] \in [EdgeSlot -> Edges]
      /\ \A f \in EdgeSlot : [T EXCEPT ![e] = x][f] = IF f = e THEN x ELSE T[f]
  BY <1>2
<1> QED BY <1>1, <1>3, <1>4, <1>5, <1>6

\* A job that has not finished is the one of its slot, and its lists are open.
LEMMA Unfinished ==
  ASSUME Types, SlotsInv, NEW h \in DOMAIN log, ~log[h].done
  PROVE  /\ h \in Handles /\ h.slot \in Slot /\ h = handle(h.slot)
         /\ jobs[h.slot].successors.head # closedList /\ jobs[h.slot].signals.head # closedList
<1>1. h \in Handles /\ h.slot \in Slot /\ h.gen = jobs[h.slot].successors.gen
  BY DEF Types, SlotsInv
<1>2. h = handle(h.slot)
  BY <1>1 DEF handle, Handles
<1> QED BY <1>1, <1>2 DEF SlotsInv

\* The values things begin with are of their types.
LEMMA Initially ==
  /\ ZeroHandle \in Handles /\ ZeroHandle.slot = None /\ None \notin Slot /\ None \notin EdgeSlot
  /\ closedList \notin EdgeSlot /\ closedList # None
  /\ noWord \in Words /\ noEdge \in Edges
  /\ notLinking \in Linkers /\ notLinking.at = "idle" /\ notLinking.list = "none"
<1>1. /\ ZeroHandle \in Handles /\ ZeroHandle.slot = None /\ None \notin Slot /\ None \notin EdgeSlot
      /\ closedList \notin EdgeSlot /\ closedList # None
  BY DEF ZeroHandle, Handles, None, Slot, EdgeSlot, closedList
<1>2. noWord \in Words
  BY DEF noWord, packList, Words
<1>3. noEdge \in Edges
  BY DEF noEdge, Edges
<1>4. notLinking \in Linkers /\ notLinking.at = "idle" /\ notLinking.list = "none"
  BY <1>1, <1>2 DEF notLinking, Linkers
<1> QED BY <1>1, <1>2, <1>3, <1>4

\* A list word is stored.
LEMMA WordStored ==
  ASSUME NEW J \in [Slot -> Jobs], NEW s \in Slot, NEW w \in Words, NEW J1
  PROVE  /\ J1 = [J EXCEPT ![s].successors = w] =>
              /\ J1 \in [Slot -> Jobs] /\ \A t \in Slot : t # s => J1[t] = J[t]
              /\ J1[s].successors = w /\ J1[s].signals = J[s].signals
              /\ J1[s].waiting = J[s].waiting /\ J1[s].arg = J[s].arg
         /\ J1 = [J EXCEPT ![s].signals = w] =>
              /\ J1 \in [Slot -> Jobs] /\ \A t \in Slot : t # s => J1[t] = J[t]
              /\ J1[s].signals = w /\ J1[s].successors = J[s].successors
              /\ J1[s].waiting = J[s].waiting /\ J1[s].arg = J[s].arg
<1>1. PICK x, y, z : x = J[s] /\ y = [x EXCEPT !.successors = w] /\ z = [x EXCEPT !.signals = w]
  OBVIOUS
<1>2. /\ y \in Jobs /\ y.successors = w /\ y.signals = x.signals /\ y.waiting = x.waiting /\ y.arg = x.arg
      /\ z \in Jobs /\ z.signals = w /\ z.successors = x.successors /\ z.waiting = x.waiting /\ z.arg = x.arg
  BY <1>1 DEF Jobs
<1>3. ASSUME J1 = [J EXCEPT ![s].successors = w]
      PROVE  J1 = [J EXCEPT ![s] = y]
  BY <1>1, <1>3
<1>4. ASSUME J1 = [J EXCEPT ![s].signals = w]
      PROVE  J1 = [J EXCEPT ![s] = z]
  BY <1>1, <1>4
<1>5. ASSUME NEW v \in Jobs, J1 = [J EXCEPT ![s] = v]
      PROVE  J1 \in [Slot -> Jobs] /\ J1[s] = v /\ \A t \in Slot : t # s => J1[t] = J[t]
  BY <1>5
<1> QED BY <1>1, <1>2, <1>3, <1>4, <1>5

\* The linked edges stay those they are while linkers go on with their edges.
LEMMA LinkedKept ==
  ASSUME \A g \in Goroutines : /\ linker'[g].at = "idle" <=> linker[g].at = "idle"
                               /\ linker'[g].edge = linker[g].edge
  PROVE  /\ free'.successors = free.successors => linkedSuccessors' = linkedSuccessors
         /\ free'.signals = free.signals => linkedSignals' = linkedSignals
BY DEF linkedSuccessors, linkedSignals, Goroutines

\* Publications and notifiers are different goroutines.
LEMMA Apart ==
  ASSUME NEW g \in Goroutines
  PROVE  \/ g \in Publications /\ g \notin Notifiers
         \/ g \in Notifiers /\ g \notin Publications
BY JobGraphAssumption DEF Goroutines

\* What a publication links is an edge of the job it schedules.
LEMMA PublisherLinks ==
  ASSUME LinkInv, NEW p \in Publications, linker[p].at # "idle",
         NEW x, x = linker[p].edge, NEW h, h = pub[p].job
  PROVE  /\ x \notin ToSet(free.successors)
         /\ pub[p].at = "addSuccessor" /\ edge.successors[x].successor = h.slot
         /\ linker[p].to \in log[h].deps
         /\ edge.successors[x].feeds => linker[p].to = log[h].from
         /\ linker[p].at = "swap" => edge.successors[x].next = linker[p].old.head
BY DEF LinkInv

\* What a notifier links is the edge of its Signal.
LEMMA NotifierLinks ==
  ASSUME LinkInv, NEW n \in Notifiers, linker[n].at # "idle",
         NEW x, x = linker[n].edge
  PROVE  /\ x \notin ToSet(free.signals)
         /\ edge.signals[x].signal = {n} /\ linker[n].to = notifier[n].job
         /\ linker[n].at = "swap" => edge.signals[x].next = linker[n].old.head
BY DEF LinkInv

\* No two goroutines link the same edge.
LEMMA LinkersApart ==
  ASSUME LinkInv
  PROVE  \A g, k \in Goroutines :
           linker[g].at # "idle" /\ linker[g].list = linker[k].list /\ linker[g].edge = linker[k].edge
             => g = k
BY DEF LinkInv

\* What a publication has still to link is what its job depends on.
LEMMA PublisherOwes ==
  ASSUME PubInv, NEW p \in Publications, pub[p].at = "addSuccessor",
         NEW h, h = pub[p].job, NEW T, T = ToSet(pub[p].todo)
  PROVE  \A l \in T : l.to \in DOMAIN log /\ l.to \in log[h].deps /\ (l.feeds => l.to = log[h].from)
BY DEF PubInv

\* What the load of a word finds: the job has finished, or its list is open.
LEMMA LoadedWord ==
  ASSUME IInv, NEW g \in Goroutines, linker[g].at # "idle"
  PROVE  LET to == linker[g].to IN
         /\ to \in Handles /\ to \in DOMAIN log /\ to.slot \in Slot
         /\ \A old \in {jobs[to.slot].successors, jobs[to.slot].signals} :
              /\ old \in Words
              /\ linkRefuses(old, to.gen) => log[to].done
              /\ ~linkRefuses(old, to.gen) => old.gen = to.gen /\ old.head \in EdgeSlot \cup {None}
<1>1. PICK to : to = linker[g].to
  OBVIOUS
<1>2. to \in DOMAIN log /\ to \in Handles
  BY <1>1 DEF IInv, LinkInv, Types
<1>3. to.slot \in Slot /\ jobs[to.slot] \in Jobs
  BY <1>2 DEF IInv, SlotsInv, Types
<1>4. jobs[to.slot].signals.gen = jobs[to.slot].successors.gen
  BY <1>3 DEF IInv, SlotsInv
<1>5. ASSUME NEW old \in {jobs[to.slot].successors, jobs[to.slot].signals}
      PROVE  /\ old \in Words
             /\ linkRefuses(old, to.gen) => log[to].done
             /\ ~linkRefuses(old, to.gen) => old.gen = to.gen /\ old.head \in EdgeSlot \cup {None}
  <2>1. old \in Words /\ old.gen = jobs[to.slot].successors.gen
    BY <1>3, <1>4 DEF Jobs
  <2>2. old.gen # to.gen => log[to].done
    BY <1>2, <2>1 DEF IInv, SlotsInv
  <2>3. ASSUME old.gen = to.gen, old.head = closedList PROVE log[to].done
    <3>1. to = handle(to.slot)
      BY <1>2, <2>1, <2>3 DEF handle, Handles
    <3> QED BY <1>2, <1>3, <2>3, <3>1 DEF IInv, SlotsInv
  <2> QED BY <2>1, <2>2, <2>3 DEF linkRefuses, Words
<1> QED BY <1>1, <1>2, <1>3, <1>5

\* A goroutine goes on with its link, and nothing changes but its edge's next.
LEMMA LinkerMoves ==
  ASSUME IInv, NEW g \in Goroutines, linker[g].at # "idle", NEW k \in Linkers,
         linker' = [linker EXCEPT ![g] = k], k.list = linker[g].list, k.to = linker[g].to,
         k.edge = linker[g].edge,
         \/ k.at = "load" /\ edge' = edge
         \/ k.at = "refused" /\ log[k.to].done /\ edge' = edge
         \/ /\ k.at = "swap" /\ k.old.gen = k.to.gen /\ k.old.head \in EdgeSlot \cup {None}
            /\ edge' = [edge EXCEPT ![k.list][k.edge].next = k.old.head],
         UNCHANGED <<jobs, free, pub, worker, notifier, arrived, sent, log>>
  PROVE  IInv'
<1>p. PICK me, old : me = linker[g] /\ old = k.old
  OBVIOUS
<1>0. /\ Types /\ SlotsInv /\ RunInv /\ WaitInv /\ PubInv /\ LinkInv /\ SignalsInv /\ SuccessorsInv
      /\ linker \in [Goroutines -> Linkers] /\ me \in Linkers
      /\ UNCHANGED <<jobs, free, pub, worker, notifier, arrived, sent, log>>
  BY <1>p DEF IInv, Types
<1>1. /\ me.list = (IF g \in Publications THEN "successors" ELSE "signals")
      /\ me.to \in DOMAIN log /\ me.edge \in EdgeSlot
  BY <1>p, <1>0 DEF LinkInv
<1>2. /\ linker' = [linker EXCEPT ![g] = k] /\ k \in Linkers
      /\ k.list = me.list /\ k.to = me.to /\ k.edge = me.edge /\ k.at # "idle" /\ me.at # "idle"
      /\ \/ k.at = "load" /\ edge' = edge
         \/ k.at = "refused" /\ log[me.to].done /\ edge' = edge
         \/ /\ k.at = "swap" /\ k.old = old /\ old.gen = me.to.gen
            /\ old.head \in EdgeSlot \cup {None}
            /\ edge' = [edge EXCEPT ![me.list][me.edge].next = old.head]
  BY <1>p
<1>3. \A f \in Goroutines : linker'[f] = IF f = g THEN k ELSE linker[f]
  BY <1>0, <1>2
<1>4. /\ edge' \in [successors : [EdgeSlot -> Edges], signals : [EdgeSlot -> Edges]]
      /\ \A e \in EdgeSlot :
           /\ edge'.successors[e].successor = edge.successors[e].successor
           /\ edge'.successors[e].feeds = edge.successors[e].feeds
           /\ edge'.signals[e].signal = edge.signals[e].signal
           /\ ~(g \in Publications /\ e = me.edge) => edge'.successors[e] = edge.successors[e]
           /\ ~(g \in Notifiers /\ e = me.edge) => edge'.signals[e] = edge.signals[e]
      /\ k.at = "swap" /\ g \in Publications => edge'.successors[me.edge].next = old.head
      /\ k.at = "swap" /\ g \in Notifiers => edge'.signals[me.edge].next = old.head
  <2>1. CASE k.at \in {"load", "refused"}
    BY <1>0, <1>2, <2>1 DEF Types
  <2>2. CASE k.at = "swap" /\ g \in Publications
    <3>1. edge' = [edge EXCEPT !["successors"][me.edge].next = old.head] /\ g \notin Notifiers
      BY <1>1, <1>2, <2>2, Apart
    <3>2. PICK x, y : x = edge.successors[me.edge] /\ y = [x EXCEPT !.next = old.head]
      OBVIOUS
    <3>3. x \in Edges
      BY <1>0, <1>1, <3>2 DEF Types
    <3>4. /\ y \in Edges /\ y.next = old.head /\ y.successor = x.successor
          /\ y.feeds = x.feeds /\ y.signal = x.signal
      BY <1>2, <2>2, <3>2, <3>3 DEF Edges
    <3>5. edge' = [edge EXCEPT !.successors[me.edge] = y]
      BY <3>1, <3>2
    <3>6. /\ edge' \in [successors : [EdgeSlot -> Edges], signals : [EdgeSlot -> Edges]]
          /\ \A e \in EdgeSlot : edge'.successors[e] = IF e = me.edge THEN y ELSE edge.successors[e]
          /\ edge'.signals = edge.signals
      BY <1>0, <1>1, <3>4, <3>5, EdgeFilled DEF Types
    <3>7. /\ \A e \in EdgeSlot : e # me.edge => edge'.successors[e] = edge.successors[e]
          /\ edge'.successors[me.edge] = y
      BY <1>1, <3>6
    <3> QED BY <2>2, <3>1, <3>2, <3>4, <3>6, <3>7
  <2>3. CASE k.at = "swap" /\ g \in Notifiers
    <3>1. edge' = [edge EXCEPT !["signals"][me.edge].next = old.head] /\ g \notin Publications
      BY <1>1, <1>2, <2>3, Apart
    <3>2. PICK x, y : x = edge.signals[me.edge] /\ y = [x EXCEPT !.next = old.head]
      OBVIOUS
    <3>3. x \in Edges
      BY <1>0, <1>1, <3>2 DEF Types
    <3>4. /\ y \in Edges /\ y.next = old.head /\ y.successor = x.successor
          /\ y.feeds = x.feeds /\ y.signal = x.signal
      BY <1>2, <2>3, <3>2, <3>3 DEF Edges
    <3>5. edge' = [edge EXCEPT !.signals[me.edge] = y]
      BY <3>1, <3>2
    <3>6. /\ edge' \in [successors : [EdgeSlot -> Edges], signals : [EdgeSlot -> Edges]]
          /\ \A e \in EdgeSlot : edge'.signals[e] = IF e = me.edge THEN y ELSE edge.signals[e]
          /\ edge'.successors = edge.successors
      BY <1>0, <1>1, <3>4, <3>5, EdgeFilled DEF Types
    <3>7. /\ \A e \in EdgeSlot : e # me.edge => edge'.signals[e] = edge.signals[e]
          /\ edge'.signals[me.edge] = y
      BY <1>1, <3>6
    <3> QED BY <2>3, <3>1, <3>2, <3>4, <3>6, <3>7
  <2> QED BY <1>2, <2>1, <2>2, <2>3, Apart
<1>5. Types'
  <2>1. linker' \in [Goroutines -> Linkers]
    BY <1>0, <1>2
  <2> QED BY <1>0, <1>4, <2>1 DEF Types
<1>6. sameLists /\ sameHandles /\ logGrows
  BY <1>0 DEF sameLists, sameHandles, logGrows
<1>7. SlotsInv' /\ RunInv' /\ WaitInv' /\ PubInv'
  <2>1. SlotsInv'
    BY <1>0, <1>6, SlotsKept
  <2>2. RunInv'
    BY <1>0, <1>6, RunKept
  <2>3. WaitInv'
    <3>1. IsInjective(free'.signals) /\ \A h \in DOMAIN log : log[h].done => log[h].started
      BY <1>0 DEF WaitInv
    <3> QED BY <1>0, <1>4, <1>6, <3>1, WaitKept
  <2>4. PubInv'
    BY <1>0, <1>6, PubKept
  <2> QED BY <2>1, <2>2, <2>3, <2>4

<1>8. ASSUME NEW f \in Goroutines, f # g, linker[f].at # "idle"
      PROVE  /\ f \in Publications =>
                  edge'.successors[linker[f].edge] = edge.successors[linker[f].edge]
             /\ f \in Notifiers => edge'.signals[linker[f].edge] = edge.signals[linker[f].edge]
  <2>1. /\ linker[f].list = (IF f \in Publications THEN "successors" ELSE "signals")
        /\ linker[f].edge \in EdgeSlot
        /\ linker[f].list = linker[g].list => linker[f].edge # linker[g].edge
    BY <1>0, <1>8 DEF LinkInv
  <2>2. CASE f \in Publications
    BY <1>p, <1>1, <1>4, <2>1, <2>2, Apart
  <2>3. CASE f \in Notifiers
    BY <1>p, <1>1, <1>4, <2>1, <2>3, Apart
  <2> QED BY <2>2, <2>3, Apart
<1>9. LinkInv'
  <2>1. ASSUME NEW f \in Goroutines
        PROVE  LET x == linker'[f] IN
               /\ x.at = "idle" => x.list = "none"
               /\ x.at # "idle" =>
                    /\ x.list = IF f \in Publications THEN "successors" ELSE "signals"
                    /\ x.to \in DOMAIN log' /\ x.edge \in EdgeSlot
               /\ x.at = "refused" => log'[x.to].done
               /\ x.at = "swap" => x.old.gen = x.to.gen /\ x.old.head # closedList
    <3>1. CASE f = g
      <4>1. closedList \notin EdgeSlot \cup {None}
        BY DEF closedList, EdgeSlot, None
      <4> QED BY <1>0, <1>1, <1>2, <1>3, <3>1, <4>1
    <3>2. CASE f # g
      BY <1>0, <1>3, <3>2 DEF LinkInv
    <3> QED BY <3>1, <3>2
  <2>2. ASSUME NEW p \in Publications
        PROVE  LET x == linker'[p] e == edge'.successors[x.edge] IN
               x.at # "idle" =>
                 /\ x.edge \notin ToSet(free'.successors)
                 /\ pub'[p].at = "addSuccessor" /\ e.successor = pub'[p].job.slot
                 /\ x.to \in log'[pub'[p].job].deps /\ (e.feeds => x.to = log'[pub'[p].job].from)
                 /\ x.at = "swap" => e.next = x.old.head
    <3>1. p \in Goroutines
      BY DEF Goroutines
    <3>2. CASE p = g
      <4>1. /\ me.edge \notin ToSet(free.successors)
            /\ pub[p].at = "addSuccessor" /\ edge.successors[me.edge].successor = pub[p].job.slot
            /\ me.to \in log[pub[p].job].deps
            /\ (edge.successors[me.edge].feeds => me.to = log[pub[p].job].from)
        BY <1>p, <1>0, <3>2 DEF LinkInv
      <4> QED BY <1>0, <1>1, <1>2, <1>3, <1>4, <3>1, <3>2, <4>1
    <3>3. CASE p # g
      <4>1. linker'[p] = linker[p]
        BY <1>3, <3>1, <3>3
      <4>2. ASSUME linker[p].at # "idle"
            PROVE  edge'.successors[linker[p].edge] = edge.successors[linker[p].edge]
        BY <1>8, <3>1, <3>3, <4>2
      <4>3. PICK c, x, h : c = linker[p] /\ x = c.edge /\ h = pub[p].job
        OBVIOUS
      <4>4. c.at # "idle" =>
              /\ x \notin ToSet(free.successors)
              /\ pub[p].at = "addSuccessor" /\ edge.successors[x].successor = h.slot
              /\ c.to \in log[h].deps /\ (edge.successors[x].feeds => c.to = log[h].from)
              /\ c.at = "swap" => edge.successors[x].next = c.old.head
        BY <1>0, <4>3, PublisherLinks
      <4> QED BY <1>0, <4>1, <4>2, <4>3, <4>4
    <3> QED BY <3>2, <3>3
  <2>3. ASSUME NEW n \in Notifiers
        PROVE  LET x == linker'[n] e == edge'.signals[x.edge] IN
               /\ ~notifier'[n].called => x.at = "idle" /\ n \notin sent' /\ notifier'[n].job = ZeroHandle
               /\ notifier'[n].job = ZeroHandle \/ notifier'[n].job \in DOMAIN log'
               /\ x.at # "idle" =>
                    /\ x.edge \notin ToSet(free'.signals)
                    /\ e.signal = {n} /\ x.to = notifier'[n].job
                    /\ x.at = "swap" => e.next = x.old.head
    <3>1. n \in Goroutines
      BY DEF Goroutines
    <3>2. CASE n = g
      <4>1. /\ me.edge \notin ToSet(free.signals) /\ notifier[n].called
            /\ edge.signals[me.edge].signal = {n} /\ me.to = notifier[n].job
            /\ notifier[n].job = ZeroHandle \/ notifier[n].job \in DOMAIN log
        BY <1>p, <1>0, <3>2 DEF LinkInv
      <4> QED BY <1>0, <1>1, <1>2, <1>3, <1>4, <3>1, <3>2, <4>1
    <3>3. CASE n # g
      <4>1. linker'[n] = linker[n]
        BY <1>3, <3>1, <3>3
      <4>2. ASSUME linker[n].at # "idle"
            PROVE  /\ linker[n].edge \notin ToSet(free.signals)
                   /\ edge'.signals[linker[n].edge].signal = {n} /\ linker[n].to = notifier[n].job
                   /\ linker[n].at = "swap" => edge'.signals[linker[n].edge].next = linker[n].old.head
        <5>1. edge'.signals[linker[n].edge] = edge.signals[linker[n].edge]
          BY <1>8, <3>1, <3>3, <4>2
        <5>2. PICK c, x : c = linker[n] /\ x = c.edge
          OBVIOUS
        <5>3. /\ x \notin ToSet(free.signals) /\ edge.signals[x].signal = {n} /\ c.to = notifier[n].job
              /\ c.at = "swap" => edge.signals[x].next = c.old.head
          BY <1>0, <4>2, <5>2, NotifierLinks
        <5> QED BY <5>1, <5>2, <5>3
      <4>3. /\ ~notifier[n].called => linker[n].at = "idle" /\ n \notin sent /\ notifier[n].job = ZeroHandle
            /\ notifier[n].job = ZeroHandle \/ notifier[n].job \in DOMAIN log
        BY <1>0 DEF LinkInv
      <4> QED BY <1>0, <4>1, <4>2, <4>3
    <3> QED BY <3>2, <3>3
  <2>4. \A f, j \in Goroutines :
          linker'[f].at # "idle" /\ linker'[f].list = linker'[j].list /\ linker'[f].edge = linker'[j].edge
            => f = j
    <3>1. \A f \in Goroutines : /\ linker'[f].at = "idle" <=> linker[f].at = "idle"
                                /\ linker'[f].list = linker[f].list /\ linker'[f].edge = linker[f].edge
      BY <1>p, <1>0, <1>2, <1>3
    <3>2. \A f, j \in Goroutines :
            linker[f].at # "idle" /\ linker[f].list = linker[j].list /\ linker[f].edge = linker[j].edge
              => f = j
      BY <1>0, LinkersApart
    <3> QED BY <3>1, <3>2
  <2> QED BY <2>1, <2>2, <2>3, <2>4 DEF LinkInv
<1>10. /\ linkedSuccessors' = linkedSuccessors /\ linkedSignals' = linkedSignals
       /\ \A e \in linkedSuccessors : edge'.successors[e] = edge.successors[e]
       /\ \A e \in linkedSignals : edge'.signals[e] = edge.signals[e]
  <2>1. \A f \in Goroutines : /\ linker'[f].at = "idle" <=> linker[f].at = "idle"
                              /\ linker'[f].edge = linker[f].edge
    BY <1>p, <1>0, <1>2, <1>3
  <2>2. linkedSuccessors' = linkedSuccessors /\ linkedSignals' = linkedSignals
    BY <1>0, <2>1, LinkedKept
  <2>3. \A e \in linkedSuccessors : e \in EdgeSlot /\ ~(g \in Publications /\ e = me.edge)
    BY <1>p, <1>0 DEF linkedSuccessors
  <2>4. \A e \in linkedSignals : e \in EdgeSlot /\ ~(g \in Notifiers /\ e = me.edge)
    BY <1>p, <1>0 DEF linkedSignals
  <2> QED BY <1>4, <2>2, <2>3, <2>4
<1>11. /\ \A x \in EdgeSlot, h \in Handles : <<x, h>> \in signalHeads' => <<x, h>> \in signalHeads
       /\ \A x \in EdgeSlot, h \in Handles : <<x, h>> \in successorHeads' => <<x, h>> \in successorHeads
  <2>1. signalHeads' = signalHeads /\ successorHeads' = successorHeads
    BY <1>0 DEF signalHeads, successorHeads, handle
  <2> QED BY <2>1
<1>12. SignalsInv'
  <2>1. \A e \in linkedSignals : edge.signals[e].signal \subseteq Notifiers
    BY <1>0 DEF Types, Edges, linkedSignals
  <2>2. sent \subseteq Notifiers
    BY <1>0 DEF Types
  <2> QED BY <1>0, <1>6, <1>10, <1>11, <2>1, <2>2, SignalsKept
<1>13. SuccessorsInv'
  <2>1. ASSUME NEW p \in Publications, linker[p].at # "idle"
        PROVE  /\ linker'[p].at # "idle" /\ linker'[p].to = linker[p].to
               /\ edge'.successors[linker'[p].edge].feeds = edge.successors[linker[p].edge].feeds
    <3>1. p \in Goroutines /\ linker[p].edge \in EdgeSlot
      BY <1>0, <2>1 DEF Goroutines, LinkInv
    <3>2. /\ linker'[p].at # "idle" /\ linker'[p].to = linker[p].to /\ linker'[p].edge = linker[p].edge
      BY <1>p, <1>2, <1>3, <2>1, <3>1
    <3> QED BY <1>4, <3>1, <3>2
  <2> QED BY <1>0, <1>6, <1>10, <1>11, <2>1, SuccessorsKept
<1>14. SuccessorsReached /\ SignalsReached /\ FlowInv
  BY DEF IInv
<1>15. SuccessorsReached'
  <2>1. /\ \A s \in Slot : jobs[s].successors.head \in successorFirsts'
        /\ \A w \in Workers : worker[w].successors \in successorFirsts'
    BY <1>0, FirstsStay
  <2> QED BY <1>10, <1>14, <2>1, SuccessorsReachKept
<1>16. SignalsReached'
  <2>1. /\ \A s \in Slot : jobs[s].signals.head \in signalFirsts'
        /\ \A w \in Workers : worker[w].signals \in signalFirsts'
    BY <1>0, FirstsStay
  <2> QED BY <1>10, <1>14, <2>1, SignalsReachKept
<1>17. FlowInv'
  <2>1. \A n \in Notifiers : linker'[n].at = "idle" => linker[n].at = "idle"
    BY <1>p, <1>2, <1>3 DEF Goroutines
  <2>2. \A s \in Slot : handle(s)' = handle(s)
    BY <1>0 DEF handle
  <2> QED BY <1>0, <1>10, <1>14, <2>1, <2>2, FlowKept
<1> QED BY <1>5, <1>7, <1>9, <1>12, <1>13, <1>15, <1>16, <1>17 DEF IInv

\* The word is loaded: the link is refused, or its edge points at the head.
LEMMA LoadWordKeeps ==
  ASSUME IInv, NEW g \in Goroutines, LoadWord(g)
  PROVE  IInv'
<1>p. PICK me, old, k : /\ me = linker[g] /\ old = jobs[me.to.slot][me.list] /\ k = linker'[g]
  OBVIOUS
<1>0. /\ Types /\ SlotsInv /\ RunInv /\ WaitInv /\ PubInv /\ LinkInv /\ SignalsInv /\ SuccessorsInv
      /\ linker \in [Goroutines -> Linkers] /\ me \in Linkers /\ me.at = "load"
      /\ UNCHANGED <<jobs, free, pub, worker, notifier, arrived, sent, log>>
  BY <1>p DEF IInv, Types, LoadWord
<1>1. /\ me.list = (IF g \in Publications THEN "successors" ELSE "signals")
      /\ me.to \in DOMAIN log /\ me.edge \in EdgeSlot
      /\ old \in Words
      /\ linkRefuses(old, me.to.gen) => log[me.to].done
      /\ ~linkRefuses(old, me.to.gen) => old.gen = me.to.gen /\ old.head \in EdgeSlot \cup {None}
  <2>1. /\ me.list = (IF g \in Publications THEN "successors" ELSE "signals")
        /\ me.to \in DOMAIN log /\ me.edge \in EdgeSlot
    BY <1>p, <1>0 DEF LinkInv
  <2>2. old \in {jobs[me.to.slot].successors, jobs[me.to.slot].signals}
    <3>1. CASE me.list = "successors"
      BY <1>p, <3>1
    <3>2. CASE me.list = "signals"
      BY <1>p, <3>2
    <3> QED BY <2>1, <3>1, <3>2
  <2> QED BY <1>p, <1>0, <2>1, <2>2, LoadedWord
<1>2. /\ linker' = [linker EXCEPT ![g] = k] /\ k \in Linkers
      /\ k.list = me.list /\ k.to = me.to /\ k.edge = me.edge
      /\ \/ k.at = "refused" /\ log[me.to].done /\ edge' = edge
         \/ /\ k.at = "swap" /\ k.old = old /\ old.gen = me.to.gen
            /\ old.head \in EdgeSlot \cup {None}
            /\ edge' = [edge EXCEPT ![me.list][me.edge].next = old.head]
  <2>1. CASE linkRefuses(old, me.to.gen)
    <3>1. linker' = [linker EXCEPT ![g].at = "refused"] /\ edge' = edge
      BY <1>p, <2>1 DEF LoadWord
    <3>2. k = [me EXCEPT !.at = "refused"]
      BY <1>p, <1>0, <3>1
    <3>3. k \in Linkers /\ k.at = "refused" /\ k.list = me.list /\ k.to = me.to /\ k.edge = me.edge
      BY <1>0, <3>2 DEF Linkers
    <3>4. linker' = [linker EXCEPT ![g] = k]
      BY <1>p, <3>1, <3>2
    <3> QED BY <1>1, <2>1, <3>1, <3>3, <3>4
  <2>2. CASE ~linkRefuses(old, me.to.gen)
    <3>1. /\ linker' = [linker EXCEPT ![g].at = "swap", ![g].old = old]
          /\ edge' = [edge EXCEPT ![me.list][me.edge].next = old.head]
      BY <1>p, <2>2 DEF LoadWord
    <3>2. k = [me EXCEPT !.at = "swap", !.old = old]
      BY <1>p, <1>0, <3>1
    <3> QED BY <1>p, <1>0, <1>1, <2>2, <3>1, <3>2 DEF Linkers
  <2> QED BY <2>1, <2>2
<1>3. /\ linker[g].at # "idle"
      /\ k.list = linker[g].list /\ k.to = linker[g].to /\ k.edge = linker[g].edge
  BY <1>p, <1>0, <1>2
<1>4. \/ k.at = "load" /\ edge' = edge
      \/ k.at = "refused" /\ log[k.to].done /\ edge' = edge
      \/ /\ k.at = "swap" /\ k.old.gen = k.to.gen /\ k.old.head \in EdgeSlot \cup {None}
         /\ edge' = [edge EXCEPT ![k.list][k.edge].next = k.old.head]
  BY <1>2
<1>5. UNCHANGED <<jobs, free, pub, worker, notifier, arrived, sent, log>>
  BY <1>0
<1>6. linker' = [linker EXCEPT ![g] = k] /\ k \in Linkers
  BY <1>2
<1> QED BY <1>3, <1>4, <1>5, <1>6, LinkerMoves

\* A publication's edge is linked to the job it waits for.
LEMMA SuccessorPushed ==
  ASSUME IInv, NEW p \in Publications, NEW me, me = linker[p], me.at = "swap",
         jobs[me.to.slot].successors = me.old,
         jobs' = [jobs EXCEPT ![me.to.slot].successors = packList(me.to.gen, me.edge)],
         linker' = [linker EXCEPT ![p] = notLinking],
         UNCHANGED <<edge, free, pub, worker, notifier, arrived, sent, log>>
  PROVE  IInv'
<1>p. PICK h, e, s : h = me.to /\ e = me.edge /\ s = h.slot
  OBVIOUS
<1>0. /\ Types /\ SlotsInv /\ RunInv /\ WaitInv /\ PubInv /\ LinkInv /\ SignalsInv /\ SuccessorsInv
      /\ linker \in [Goroutines -> Linkers] /\ p \in Goroutines /\ p \notin Notifiers
      /\ jobs \in [Slot -> Jobs] /\ log \in [DOMAIN log -> Entries] /\ DOMAIN log \subseteq Handles
  BY Apart DEF IInv, Types, Goroutines
<1>1. /\ h \in DOMAIN log /\ h \in Handles /\ e \in EdgeSlot /\ s \in Slot
      /\ me.old.gen = h.gen /\ me.old.head # closedList
  <2>1. h \in DOMAIN log /\ e \in EdgeSlot /\ me.old.gen = h.gen /\ me.old.head # closedList
    BY <1>p, <1>0 DEF LinkInv
  <2> QED BY <1>p, <1>0, <2>1 DEF SlotsInv
<1>2. /\ e \notin ToSet(free.successors) /\ edge.successors[e].next = me.old.head
      /\ pub[p].at = "addSuccessor" /\ edge.successors[e].successor = pub[p].job.slot
      /\ h \in log[pub[p].job].deps /\ (edge.successors[e].feeds => h = log[pub[p].job].from)
  BY <1>p, <1>0 DEF LinkInv
<1>3. handle(s) = h /\ jobs[s].successors = me.old /\ ~log[h].done
  <2>1. jobs[s].successors = me.old
    BY <1>p
  <2>2. handle(s) = h
    BY <1>p, <1>1, <2>1 DEF handle, Handles
  <2> QED BY <1>0, <1>1, <2>1, <2>2 DEF SlotsInv
<1>4. /\ jobs' \in [Slot -> Jobs] /\ \A t \in Slot : t # s => jobs'[t] = jobs[t]
      /\ jobs'[s].successors.gen = h.gen /\ jobs'[s].successors.head = e
      /\ jobs'[s].signals = jobs[s].signals
      /\ jobs'[s].waiting = jobs[s].waiting /\ jobs'[s].arg = jobs[s].arg
  <2>1. PICK w : w = packList(h.gen, e)
    OBVIOUS
  <2>2. w \in Words /\ w.gen = h.gen /\ w.head = e
    BY <1>1, <2>1 DEF packList, Words, Handles
  <2>3. jobs' = [jobs EXCEPT ![s].successors = w]
    BY <1>p, <2>1
  <2>4. /\ jobs' \in [Slot -> Jobs] /\ \A t \in Slot : t # s => jobs'[t] = jobs[t]
        /\ jobs'[s].successors = w /\ jobs'[s].signals = jobs[s].signals
        /\ jobs'[s].waiting = jobs[s].waiting /\ jobs'[s].arg = jobs[s].arg
    <3>1. PICK J, J1 : J = jobs /\ J1 = jobs'
      OBVIOUS
    <3>2. J \in [Slot -> Jobs] /\ J1 = [J EXCEPT ![s].successors = w]
      BY <1>0, <2>3, <3>1
    <3>3. /\ J1 \in [Slot -> Jobs] /\ \A t \in Slot : t # s => J1[t] = J[t]
          /\ J1[s].successors = w /\ J1[s].signals = J[s].signals
          /\ J1[s].waiting = J[s].waiting /\ J1[s].arg = J[s].arg
      BY <1>1, <2>2, <3>2, WordStored
    <3> QED BY <3>1, <3>3
  <2> QED BY <2>2, <2>4
<1>5. sameLists /\ sameHandles /\ logGrows /\ \A t \in Slot : handle(t)' = handle(t)
  <2>1. \A t \in Slot : jobs'[t].successors.gen = jobs[t].successors.gen
    BY <1>1, <1>3, <1>4, ZenonT(40)
  <2>2. \A t \in Slot : jobs'[t].signals = jobs[t].signals
    BY <1>4
  <2>3. \A t \in Slot : jobs'[t].successors.head = closedList <=> jobs[t].successors.head = closedList
    BY <1>1, <1>3, <1>4, Initially, ZenonT(40)
  <2> QED BY <2>1, <2>2, <2>3 DEF sameLists, sameHandles, logGrows, handle
<1>6. \A g \in Goroutines : linker'[g] = IF g = p THEN notLinking ELSE linker[g]
  BY <1>0
<1>7. Types'
  <2>1. linker' \in [Goroutines -> Linkers]
    BY <1>0, Initially
  <2> QED BY <1>0, <1>4, <2>1 DEF Types
<1>8. SlotsInv' /\ RunInv' /\ WaitInv' /\ PubInv'
  <2>1. SlotsInv'
    BY <1>0, <1>5, SlotsKept
  <2>2. RunInv'
    BY <1>0, <1>5, RunKept DEF sameLists
  <2>3. WaitInv'
    <3>1. \A t \in Slot : jobs'[t].waiting = jobs[t].waiting
      BY <1>4
    <3>2. IsInjective(free'.signals) /\ \A k \in DOMAIN log : log[k].done => log[k].started
      BY <1>0 DEF WaitInv
    <3> QED BY <1>0, <1>5, <3>1, <3>2, WaitKept
  <2>4. PubInv'
    BY <1>0, <1>5, PubKept
  <2> QED BY <2>1, <2>2, <2>3, <2>4
<1>9. \A n \in Notifiers : linker'[n] = linker[n]
  BY <1>0, <1>6 DEF Goroutines
<1>10. LinkInv'
  <2>1. \A g \in Goroutines : linker'[g] = linker[g] \/ linker'[g] = notLinking
    BY <1>6
  <2>2. ASSUME NEW q \in Publications, linker'[q].at # "idle"
        PROVE  pub[q].job \in DOMAIN log /\ linker[q].edge \notin ToSet(free.successors)
    <3>1. linker[q].at # "idle"
      BY <1>6, <2>2, Initially DEF Goroutines
    <3> QED BY <1>0, <3>1 DEF LinkInv, PubInv
  <2>3. ASSUME NEW n \in Notifiers, linker'[n].at # "idle"
        PROVE  linker[n].edge \notin ToSet(free.signals)
    BY <1>0, <1>9, <2>3, NotifierLinks
  <2> QED BY <1>0, <1>5, <2>1, <2>2, <2>3, LinkKept
<1>11. SignalsInv'
  <2>1. linkedSignals' = linkedSignals
    BY <1>9 DEF linkedSignals
  <2>2. \A x \in EdgeSlot, k \in Handles : <<x, k>> \in signalHeads' => <<x, k>> \in signalHeads
    <3>1. \A t \in Slot : <<jobs'[t].signals.head, handle(t)'>> \in signalHeads
      <4>1. \A t \in Slot : <<jobs[t].signals.head, handle(t)>> \in signalHeads
        BY DEF signalHeads
      <4>2. \A t \in Slot : jobs'[t].signals = jobs[t].signals /\ handle(t)' = handle(t)
        BY <1>4, <1>5
      <4> QED BY <4>1, <4>2
    <3>2. \A w \in Workers : <<worker'[w].signals, worker'[w].job>> \in signalHeads
      BY DEF signalHeads
    <3> QED BY <3>1, <3>2, SignalHeadsKept
  <2>3. \A x \in linkedSignals : edge.signals[x].signal \subseteq Notifiers
    BY <1>0 DEF Types, Edges, linkedSignals
  <2>4. sent \subseteq Notifiers
    BY <1>0 DEF Types
  <2> QED BY <1>0, <1>5, <2>1, <2>2, <2>3, <2>4, SignalsKept
<1>12. linkedSuccessors' = linkedSuccessors \cup {e} /\ e \notin linkedSuccessors
  <2>1. e \notin linkedSuccessors
    BY <1>p DEF linkedSuccessors
  <2>2. \A q \in Publications : q # p /\ linker[q].at # "idle" => linker[q].edge # e
    <3>1. ASSUME NEW q \in Publications, q # p, linker[q].at # "idle"
          PROVE  linker[q].edge # e
      <4>1. q \in Goroutines /\ linker[q].list = "successors" /\ linker[p].list = "successors"
        BY <1>0, <3>1 DEF LinkInv, Goroutines
      <4> QED BY <1>p, <1>0, <3>1, <4>1, LinkersApart
    <3> QED BY <3>1
  <2>3. \A q \in Publications : linker'[q].at # "idle" <=> q # p /\ linker[q].at # "idle"
    BY <1>6, Initially DEF Goroutines
  <2>4. \A q \in Publications : q # p => linker'[q].edge = linker[q].edge
    BY <1>6 DEF Goroutines
  <2>5. \A x \in EdgeSlot :
          (\A q \in Publications : linker'[q].at # "idle" => linker'[q].edge # x)
            <=> x = e \/ \A q \in Publications : linker[q].at # "idle" => linker[q].edge # x
    BY <1>p, <2>2, <2>3, <2>4
  <2> QED BY <1>1, <1>2, <2>1, <2>5 DEF linkedSuccessors
<1>13. SuccessorsInv'
  <2>1. PICK own \in [EdgeSlot -> Handles] : SuccessorsOwned(own) /\ FedOwned(own)
    BY <1>0 DEF SuccessorsInv
  <2>2. PICK own1 \in [EdgeSlot -> Handles] : own1 = [own EXCEPT ![e] = h]
    BY <1>1
  <2>3. own1[e] = h /\ \A x \in EdgeSlot : x # e => own1[x] = own[x]
    BY <1>1, <2>2
  <2>4. Chained(edge'.successors, linkedSuccessors', own1, successorHeads')
    <3>1. PICK E, next : E = edge.successors /\ next = edge.successors[e].next
      OBVIOUS
    <3>2. Chained(E, linkedSuccessors, own, successorHeads) /\ linkedSuccessors \subseteq EdgeSlot
      BY <2>1, <3>1 DEF SuccessorsOwned, linkedSuccessors
    <3>3. next = None \/ (next \in EdgeSlot /\ <<next, h>> \in successorHeads)
      <4>1. next \in EdgeSlot \cup {None}
        BY <1>0, <1>1, <3>1 DEF Types, Edges
      <4>2. <<next, h>> \in successorHeads
        BY <1>1, <1>2, <1>3, <3>1 DEF successorHeads
      <4> QED BY <4>1, <4>2
    <3>4. ASSUME NEW x \in EdgeSlot, NEW k \in Handles, <<x, k>> \in successorHeads'
          PROVE  \/ x = e /\ k = h
                 \/ <<x, k>> \in successorHeads /\ ~(x = next /\ k = h)
      <4>1. ASSUME NEW t \in Slot, <<x, k>> = <<jobs'[t].successors.head, handle(t)'>>
            PROVE  \/ x = e /\ k = h
                   \/ <<x, k>> \in successorHeads /\ k # h
        <5>1. CASE t = s
          BY <1>3, <1>4, <1>5, <4>1, <5>1
        <5>2. CASE t # s
          <6>1. x = jobs[t].successors.head /\ k = handle(t)
            BY <1>4, <1>5, <4>1, <5>2
          <6>2. k # h
            BY <1>p, <5>2, <6>1 DEF handle
          <6> QED BY <6>1, <6>2 DEF successorHeads
        <5> QED BY <5>1, <5>2
      <4>2. ASSUME NEW w \in Workers, <<x, k>> = <<worker'[w].successors, worker'[w].job>>
            PROVE  <<x, k>> \in successorHeads /\ k # h
        <5>1. x = worker[w].successors /\ k = worker[w].job
          BY <4>2
        <5>2. worker[w].at \notin {"idle", "body"}
          BY <1>0, <5>1, Initially DEF RunInv
        <5>3. log[k].done
          BY <1>0, <5>1, <5>2 DEF RunInv
        <5> QED BY <1>3, <5>1, <5>3 DEF successorHeads
      <4> QED BY <3>4, <4>1, <4>2 DEF successorHeads
    <3>5. Chained(E, linkedSuccessors \cup {e}, own1, successorHeads')
      BY <1>1, <1>12, <2>2, <3>1, <3>2, <3>3, <3>4, ChainPushed
    <3> QED BY <1>12, <3>1, <3>5
  <2>5. pub[p].job \in DOMAIN log /\ handle(pub[p].job.slot) = pub[p].job /\ pub[p].job.slot \in Slot
    <3>1. pub[p].job \in DOMAIN log /\ ~log[pub[p].job].submitted
      BY <1>0, <1>2 DEF PubInv
    <3>2. ~log[pub[p].job].done
      BY <1>0, <3>1 DEF WaitInv
    <3> QED BY <1>0, <3>1, <3>2, Unfinished
  <2>6. ASSUME NEW x \in linkedSuccessors'
        PROVE  Waits(own1, x)'
    <3>1. CASE x = e
      <4>1. handle(edge.successors[e].successor)' = pub[p].job
        BY <1>2, <1>5, <2>5
      <4> QED BY <1>2, <2>3, <2>5, <3>1, <4>1 DEF Waits
    <3>2. CASE x # e
      <4>1. x \in linkedSuccessors /\ x \in EdgeSlot
        BY <1>12, <3>2 DEF linkedSuccessors
      <4>2. Waits(own, x)
        BY <2>1, <4>1 DEF SuccessorsOwned
      <4>3. edge.successors[x].successor \in Slot
        BY <1>0, <4>1 DEF WaitInv, linkedSuccessors
      <4> QED BY <1>0, <1>5, <2>3, <3>2, <4>1, <4>2, <4>3, WaitsKept
    <3> QED BY <3>1, <3>2
  <2>7. ASSUME NEW k, NEW d
        PROVE  /\ Pending(own, k, d) => Pending(own1, k, d)'
               /\ Feeding(own, k, d) => Feeding(own1, k, d)'
    <3>1. ASSUME NEW q \in Publications, pub[q].job = k, linker[q].at # "idle", linker[q].to = d
          PROVE  \/ /\ linker'[q].at # "idle" /\ linker'[q].to = d
                    /\ edge'.successors[linker'[q].edge].feeds = edge.successors[linker[q].edge].feeds
                 \/ \E x \in linkedSuccessors' :
                      /\ own1[x] = d /\ edge'.successors[x].successor = k.slot
                      /\ edge'.successors[x].feeds = edge.successors[linker[q].edge].feeds
      <4>1. CASE q = p
        BY <1>p, <1>2, <1>12, <2>3, <3>1, <4>1
      <4>2. CASE q # p
        BY <1>6, <3>1, <4>2 DEF Goroutines
      <4> QED BY <4>1, <4>2
    <3>2. \A x \in linkedSuccessors : x \in linkedSuccessors' /\ own1[x] = own[x]
      BY <1>12, <2>3 DEF linkedSuccessors
    <3> QED BY <3>1, <3>2, PendingKept
  <2>8. ASSUME NEW k \in DOMAIN log
        PROVE  FedInBatch(own1, k)'
    <3>1. PICK f : f = log[k].from
      OBVIOUS
    <3>2. k.slot \in Slot /\ jobs'[k.slot].arg = jobs[k.slot].arg
      BY <1>0, <1>4 DEF SlotsInv
    <3>3. log[k].from = ZeroHandle \/ log[k].from \in DOMAIN log
      BY <2>1 DEF FedOwned, SuccessorsOwned
    <3>4. FedInBatch(own, k)
      BY <2>1 DEF FedOwned
    <3>5. Feeding(own, k, f) => Feeding(own1, k, f)'
      BY <2>7
    <3> QED BY <1>5, <3>1, <3>2, <3>3, <3>4, <3>5, BatchKept
  <2>9. ASSUME NEW w \in Workers, worker'[w].at = "lower"
        PROVE  LET x == edge'.successors[worker'[w].successors] IN
               x.feeds => jobs'[x.successor].arg = worker'[w].result
    <3>1. PICK x : x = edge.successors[worker[w].successors]
      OBVIOUS
    <3>2. x.successor \in Slot
      <4>1. worker[w].successors # None
        BY <1>0, <2>9 DEF RunInv
      <4> QED BY <1>0, <2>1, <3>1, <4>1, LowerLinked
    <3>3. x.feeds => jobs[x.successor].arg = worker[w].result
      BY <2>1, <2>9, <3>1 DEF FedOwned
    <3> QED BY <1>4, <3>1, <3>2, <3>3
  <2>10. \A t \in Slot : jobs'[t].arg = jobs[t].arg
    BY <1>4
  <2>11. \A t \in Slot : handle(t)' = handle(t)
    BY <1>5
  <2> QED BY <1>5, <2>1, <2>4, <2>6, <2>7, <2>8, <2>9, <2>10, <2>11, SuccessorsMoved
<1>14. SuccessorsReached /\ SignalsReached /\ FlowInv
  BY DEF IInv
<1>15. SuccessorsReached'
  <2>1. PICK E, N, F, F1, next : /\ E = edge.successors /\ N = linkedSuccessors /\ F = successorFirsts
                                 /\ F1 = successorFirsts' /\ next = E[e].next
    OBVIOUS
  <2>2. Reached(E, N, F) /\ N \subseteq EdgeSlot /\ e \notin N
    BY <1>12, <1>14, <2>1 DEF SuccessorsReached, linkedSuccessors
  <2>3. next = jobs[s].successors.head
    BY <1>2, <1>3, <2>1
  <2>4. e \in F1
    BY <1>1, <1>4, <2>1 DEF successorFirsts
  <2>5. ASSUME NEW f \in EdgeSlot, f \in F PROVE f \in F1 \/ f = next
    <3>1. ASSUME NEW t \in Slot, f = jobs[t].successors.head PROVE f \in F1 \/ f = next
      <4>1. CASE t = s
        BY <2>3, <3>1, <4>1
      <4>2. CASE t # s
        BY <1>4, <2>1, <3>1, <4>2 DEF successorFirsts
      <4> QED BY <4>1, <4>2
    <3>2. ASSUME NEW w \in Workers, f = worker[w].successors PROVE f \in F1
      BY <2>1, <3>2 DEF successorFirsts
    <3> QED BY <2>1, <2>5, <3>1, <3>2 DEF successorFirsts
  <2>6. Reached(E, N \cup {e}, F1)
    BY <2>1, <2>2, <2>4, <2>5, ReachPushed
  <2> QED BY <1>12, <2>1, <2>6 DEF SuccessorsReached
<1>16. SignalsReached'
  <2>1. linkedSignals' = linkedSignals
    BY <1>9 DEF linkedSignals
  <2>2. \A t \in Slot : jobs'[t].signals.head = jobs[t].signals.head
    BY <1>4
  <2>3. /\ \A t \in Slot : jobs[t].signals.head \in signalFirsts'
        /\ \A w \in Workers : worker[w].signals \in signalFirsts'
    BY <2>2, FirstsStay
  <2> QED BY <1>14, <2>1, <2>3, SignalsReachKept
<1>17. FlowInv'
  <2>1. linkedSignals' = linkedSignals
    BY <1>9 DEF linkedSignals
  <2>2. \A t \in Slot : handle(t) \notin DOMAIN log =>
          /\ jobs'[t].successors.head = jobs[t].successors.head
          /\ jobs'[t].signals.head = jobs[t].signals.head
    BY <1>1, <1>3, <1>4
  <2> QED BY <1>5, <1>9, <1>14, <2>1, <2>2, FlowKept
<1> QED BY <1>7, <1>8, <1>10, <1>11, <1>13, <1>15, <1>16, <1>17 DEF IInv

\* A notifier's edge is linked to the job its Signal is armed for.
LEMMA SignalPushed ==
  ASSUME IInv, NEW n \in Notifiers, NEW me, me = linker[n], me.at = "swap",
         jobs[me.to.slot].signals = me.old,
         jobs' = [jobs EXCEPT ![me.to.slot].signals = packList(me.to.gen, me.edge)],
         linker' = [linker EXCEPT ![n] = notLinking],
         UNCHANGED <<edge, free, pub, worker, notifier, arrived, sent, log>>
  PROVE  IInv'
<1>p. PICK h, e, s : h = me.to /\ e = me.edge /\ s = h.slot
  OBVIOUS
<1>0. /\ Types /\ SlotsInv /\ RunInv /\ WaitInv /\ PubInv /\ LinkInv /\ SignalsInv /\ SuccessorsInv
      /\ linker \in [Goroutines -> Linkers] /\ n \in Goroutines /\ n \notin Publications
      /\ jobs \in [Slot -> Jobs] /\ log \in [DOMAIN log -> Entries] /\ DOMAIN log \subseteq Handles
  BY Apart DEF IInv, Types, Goroutines
<1>1. /\ h \in DOMAIN log /\ h \in Handles /\ e \in EdgeSlot /\ s \in Slot
      /\ me.old.gen = h.gen /\ me.old.head # closedList
  <2>1. h \in DOMAIN log /\ e \in EdgeSlot /\ me.old.gen = h.gen /\ me.old.head # closedList
    BY <1>p, <1>0 DEF LinkInv
  <2> QED BY <1>p, <1>0, <2>1 DEF SlotsInv
<1>2. /\ e \notin ToSet(free.signals) /\ edge.signals[e].next = me.old.head
      /\ edge.signals[e].signal = {n} /\ notifier[n].job = h /\ notifier[n].called
  <2>1. PICK x : x = edge.signals[e]
    OBVIOUS
  <2>2. /\ e \notin ToSet(free.signals) /\ x.next = me.old.head
        /\ x.signal = {n} /\ notifier[n].job = h /\ notifier[n].called
    BY <1>p, <1>0, <2>1 DEF LinkInv
  <2> QED BY <2>1, <2>2
<1>3. handle(s) = h /\ jobs[s].signals = me.old
  <2>1. jobs[s].signals = me.old /\ jobs[s].successors.gen = me.old.gen
    BY <1>p, <1>0, <1>1 DEF SlotsInv
  <2>2. handle(s) = h
    BY <1>p, <1>1, <2>1 DEF handle, Handles
  <2> QED BY <2>1, <2>2
<1>4. /\ jobs' \in [Slot -> Jobs] /\ \A t \in Slot : t # s => jobs'[t] = jobs[t]
      /\ jobs'[s].signals.gen = h.gen /\ jobs'[s].signals.head = e
      /\ jobs'[s].successors = jobs[s].successors
      /\ jobs'[s].waiting = jobs[s].waiting /\ jobs'[s].arg = jobs[s].arg
  <2>1. PICK w : w = packList(h.gen, e)
    OBVIOUS
  <2>2. w \in Words /\ w.gen = h.gen /\ w.head = e
    BY <1>1, <2>1 DEF packList, Words, Handles
  <2>3. PICK J, J1 : J = jobs /\ J1 = jobs'
    OBVIOUS
  <2>4. J \in [Slot -> Jobs] /\ J1 = [J EXCEPT ![s].signals = w]
    BY <1>p, <1>0, <2>1, <2>3
  <2>5. /\ J1 \in [Slot -> Jobs] /\ \A t \in Slot : t # s => J1[t] = J[t]
        /\ J1[s].signals = w /\ J1[s].successors = J[s].successors
        /\ J1[s].waiting = J[s].waiting /\ J1[s].arg = J[s].arg
    BY <1>1, <2>2, <2>4, WordStored
  <2> QED BY <2>2, <2>3, <2>5
<1>5. sameLists /\ sameHandles /\ logGrows /\ \A t \in Slot : handle(t)' = handle(t)
  <2>1. \A t \in Slot : jobs'[t].successors = jobs[t].successors
    BY <1>4
  <2>2. \A t \in Slot : jobs'[t].signals.gen = jobs[t].signals.gen
    BY <1>1, <1>3, <1>4, ZenonT(40)
  <2>3. \A t \in Slot : jobs'[t].signals.head = closedList <=> jobs[t].signals.head = closedList
    BY <1>1, <1>3, <1>4, Initially, ZenonT(40)
  <2> QED BY <2>1, <2>2, <2>3 DEF sameLists, sameHandles, logGrows, handle
<1>6. \A g \in Goroutines : linker'[g] = IF g = n THEN notLinking ELSE linker[g]
  BY <1>0
<1>7. Types'
  <2>1. linker' \in [Goroutines -> Linkers]
    BY <1>0, Initially
  <2> QED BY <1>0, <1>4, <2>1 DEF Types
<1>8. SlotsInv' /\ RunInv' /\ WaitInv' /\ PubInv'
  <2>1. SlotsInv'
    BY <1>0, <1>5, SlotsKept
  <2>2. RunInv'
    BY <1>0, <1>5, RunKept DEF sameLists
  <2>3. WaitInv'
    <3>1. \A t \in Slot : jobs'[t].waiting = jobs[t].waiting
      BY <1>4
    <3>2. IsInjective(free'.signals) /\ \A k \in DOMAIN log : log[k].done => log[k].started
      BY <1>0 DEF WaitInv
    <3> QED BY <1>0, <1>5, <3>1, <3>2, WaitKept
  <2>4. PubInv'
    BY <1>0, <1>5, PubKept
  <2> QED BY <2>1, <2>2, <2>3, <2>4
<1>9. \A p \in Publications : linker'[p] = linker[p]
  BY <1>0, <1>6 DEF Goroutines
<1>10. LinkInv'
  <2>1. \A g \in Goroutines : linker'[g] = linker[g] \/ linker'[g] = notLinking
    BY <1>6
  <2>2. ASSUME NEW q \in Publications, linker'[q].at # "idle"
        PROVE  pub[q].job \in DOMAIN log /\ linker[q].edge \notin ToSet(free.successors)
    <3>1. linker[q].at # "idle"
      BY <1>9, <2>2
    <3>2. pub[q].at = "addSuccessor" /\ linker[q].edge \notin ToSet(free.successors)
      BY <1>0, <3>1, PublisherLinks
    <3> QED BY <1>0, <3>2 DEF PubInv
  <2>3. ASSUME NEW m \in Notifiers, linker'[m].at # "idle"
        PROVE  linker[m].edge \notin ToSet(free.signals)
    <3>1. linker[m].at # "idle"
      BY <1>6, <2>3, Initially DEF Goroutines
    <3> QED BY <1>0, <3>1 DEF LinkInv
  <2> QED BY <1>0, <1>5, <2>1, <2>2, <2>3, LinkKept
<1>11. SuccessorsInv'
  <2>1. linkedSuccessors' = linkedSuccessors
    BY <1>9 DEF linkedSuccessors
  <2>2. \A x \in EdgeSlot, k \in Handles : <<x, k>> \in successorHeads' => <<x, k>> \in successorHeads
    <3>1. \A t \in Slot : <<jobs'[t].successors.head, handle(t)'>> \in successorHeads
      <4>1. \A t \in Slot : <<jobs[t].successors.head, handle(t)>> \in successorHeads
        BY DEF successorHeads
      <4>2. \A t \in Slot : jobs'[t].successors = jobs[t].successors /\ handle(t)' = handle(t)
        BY <1>4, <1>5
      <4> QED BY <4>1, <4>2
    <3>2. \A w \in Workers : <<worker'[w].successors, worker'[w].job>> \in successorHeads
      BY DEF successorHeads
    <3> QED BY <3>1, <3>2, SuccessorHeadsKept
  <2>3. \A t \in Slot : jobs'[t].arg = jobs[t].arg
    BY <1>4
  <2> QED BY <1>0, <1>5, <1>9, <2>1, <2>2, <2>3, SuccessorsKept
<1>12. linkedSignals' = linkedSignals \cup {e} /\ e \notin linkedSignals
  <2>1. e \notin linkedSignals
    BY <1>p DEF linkedSignals
  <2>2. \A q \in Notifiers : q # n /\ linker[q].at # "idle" => linker[q].edge # e
    <3>1. ASSUME NEW q \in Notifiers, q # n, linker[q].at # "idle"
          PROVE  linker[q].edge # e
      <4>1. q \in Goroutines /\ q \notin Publications
        BY Apart DEF Goroutines
      <4>2. linker[q].list = "signals" /\ linker[n].list = "signals"
        BY <1>0, <3>1, <4>1 DEF LinkInv
      <4> QED BY <1>p, <1>0, <3>1, <4>1, <4>2, LinkersApart
    <3> QED BY <3>1
  <2>3. \A q \in Notifiers : linker'[q].at # "idle" <=> q # n /\ linker[q].at # "idle"
    BY <1>6, Initially DEF Goroutines
  <2>4. \A q \in Notifiers : q # n => linker'[q].edge = linker[q].edge
    BY <1>6 DEF Goroutines
  <2>5. \A x \in EdgeSlot :
          (\A q \in Notifiers : linker'[q].at # "idle" => linker'[q].edge # x)
            <=> x = e \/ \A q \in Notifiers : linker[q].at # "idle" => linker[q].edge # x
    BY <1>p, <2>2, <2>3, <2>4
  <2> QED BY <1>1, <1>2, <2>1, <2>5 DEF linkedSignals
<1>13. SignalsInv'
  <2>1. PICK own \in [EdgeSlot -> Handles] : SignalsOwned(own)
    BY <1>0 DEF SignalsInv
  <2>2. PICK own1 \in [EdgeSlot -> Handles] : own1 = [own EXCEPT ![e] = h]
    BY <1>1
  <2>3. own1[e] = h /\ \A x \in EdgeSlot : x # e => own1[x] = own[x]
    BY <1>1, <2>2
  <2>4. Chained(edge'.signals, linkedSignals', own1, signalHeads')
    <3>1. PICK E, next : E = edge.signals /\ next = edge.signals[e].next
      OBVIOUS
    <3>2. Chained(E, linkedSignals, own, signalHeads) /\ linkedSignals \subseteq EdgeSlot
      BY <2>1, <3>1 DEF SignalsOwned, linkedSignals
    <3>3. next = None \/ (next \in EdgeSlot /\ <<next, h>> \in signalHeads)
      <4>1. next \in EdgeSlot \cup {None}
        BY <1>0, <1>1, <3>1 DEF Types, Edges
      <4>2. <<next, h>> \in signalHeads
        BY <1>1, <1>2, <1>3, <3>1 DEF signalHeads
      <4> QED BY <4>1, <4>2
    <3>4. ASSUME NEW x \in EdgeSlot, NEW k \in Handles, <<x, k>> \in signalHeads'
          PROVE  \/ x = e /\ k = h
                 \/ <<x, k>> \in signalHeads /\ ~(x = next /\ k = h)
      <4>1. ASSUME NEW t \in Slot, <<x, k>> = <<jobs'[t].signals.head, handle(t)'>>
            PROVE  \/ x = e /\ k = h
                   \/ <<x, k>> \in signalHeads /\ k # h
        <5>1. CASE t = s
          BY <1>3, <1>4, <1>5, <4>1, <5>1
        <5>2. CASE t # s
          <6>1. x = jobs[t].signals.head /\ k = handle(t)
            BY <1>4, <1>5, <4>1, <5>2
          <6>2. k # h
            BY <1>p, <5>2, <6>1 DEF handle
          <6> QED BY <6>1, <6>2 DEF signalHeads
        <5> QED BY <5>1, <5>2
      <4>2. ASSUME NEW w \in Workers, <<x, k>> = <<worker'[w].signals, worker'[w].job>>
            PROVE  <<x, k>> \in signalHeads /\ k # h
        <5>1. x = worker[w].signals /\ k = worker[w].job
          BY <4>2
        <5>2. worker[w].at \notin {"idle", "body", "closeSignals"}
          BY <1>0, <5>1, Initially DEF RunInv
        <5>3. worker[w].at \in {"walk", "lower"}
          BY <1>0, <5>2 DEF Types, WorkerStates
        <5>4. jobs[k.slot].signals.head = closedList
          BY <1>0, <5>1, <5>3 DEF RunInv
        <5> QED BY <1>p, <1>1, <1>3, <5>1, <5>4 DEF signalHeads
      <4> QED BY <3>4, <4>1, <4>2 DEF signalHeads
    <3>5. Chained(E, linkedSignals \cup {e}, own1, signalHeads')
      BY <1>1, <1>12, <2>2, <3>1, <3>2, <3>3, <3>4, ChainPushed
    <3> QED BY <1>12, <3>1, <3>5
  <2>5. \A x \in linkedSignals' : \A m \in edge'.signals[x].signal :
          notifier'[m].called /\ notifier'[m].job = own1[x]
    <3>1. SUFFICES ASSUME NEW x \in linkedSignals', NEW m \in edge.signals[x].signal
                   PROVE  notifier[m].called /\ notifier[m].job = own1[x]
      OBVIOUS
    <3>2. CASE x = e
      <4>1. m = n
        BY <1>2, <3>1, <3>2
      <4> QED BY <1>2, <2>3, <3>2, <4>1
    <3>3. CASE x # e
      <4>1. x \in linkedSignals /\ x \in EdgeSlot
        BY <1>12, <3>3 DEF linkedSignals
      <4> QED BY <2>1, <2>3, <3>3, <4>1 DEF SignalsOwned
    <3> QED BY <3>2, <3>3
  <2>6. SignalsOwned(own1)'
    BY <2>4, <2>5 DEF SignalsOwned
  <2>7. SignalNotEarly'
    BY <1>0 DEF SignalsInv, SignalNotEarly
  <2> QED BY <2>6, <2>7 DEF SignalsInv
<1>14. SuccessorsReached /\ SignalsReached /\ FlowInv
  BY DEF IInv
<1>15. SuccessorsReached'
  <2>1. linkedSuccessors' = linkedSuccessors
    BY <1>9 DEF linkedSuccessors
  <2>2. \A t \in Slot : jobs'[t].successors.head = jobs[t].successors.head
    BY <1>4
  <2>3. /\ \A t \in Slot : jobs[t].successors.head \in successorFirsts'
        /\ \A w \in Workers : worker[w].successors \in successorFirsts'
    BY <2>2, FirstsStay
  <2> QED BY <1>14, <2>1, <2>3, SuccessorsReachKept
<1>16. SignalsReached'
  <2>1. PICK E, N, F, F1, next : /\ E = edge.signals /\ N = linkedSignals /\ F = signalFirsts
                                 /\ F1 = signalFirsts' /\ next = E[e].next
    OBVIOUS
  <2>2. Reached(E, N, F) /\ N \subseteq EdgeSlot /\ e \notin N
    BY <1>12, <1>14, <2>1 DEF SignalsReached, linkedSignals
  <2>3. next = jobs[s].signals.head
    BY <1>2, <1>3, <2>1
  <2>4. e \in F1
    BY <1>1, <1>4, <2>1 DEF signalFirsts
  <2>5. ASSUME NEW f \in EdgeSlot, f \in F PROVE f \in F1 \/ f = next
    <3>1. ASSUME NEW t \in Slot, f = jobs[t].signals.head PROVE f \in F1 \/ f = next
      <4>1. CASE t = s
        BY <2>3, <3>1, <4>1
      <4>2. CASE t # s
        BY <1>4, <2>1, <3>1, <4>2 DEF signalFirsts
      <4> QED BY <4>1, <4>2
    <3>2. ASSUME NEW w \in Workers, f = worker[w].signals PROVE f \in F1
      BY <2>1, <3>2 DEF signalFirsts
    <3> QED BY <2>1, <2>5, <3>1, <3>2 DEF signalFirsts
  <2>6. Reached(E, N \cup {e}, F1)
    BY <2>1, <2>2, <2>4, <2>5, ReachPushed
  <2> QED BY <1>12, <2>1, <2>6 DEF SignalsReached
<1>17. FlowInv'
  <2>0. StartedInv /\ HeldInv /\ ArmedInv /\ UsedInv /\ OrderInv
    BY <1>14 DEF FlowInv
  <2>1. StartedInv' /\ HeldInv' /\ OrderInv'
    BY <1>5, <2>0, StartedKept, HeldKept, OrderKept
  <2>2. UsedInv'
    <3>1. \A t \in Slot : handle(t) \notin DOMAIN log =>
            /\ jobs'[t].successors.head = jobs[t].successors.head
            /\ jobs'[t].signals.head = jobs[t].signals.head
      BY <1>1, <1>3, <1>4
    <3> QED BY <1>5, <2>0, <3>1, UsedKept
  <2>3. ASSUME NEW m \in Notifiers, notifier'[m].called, m \notin sent', linker'[m].at = "idle"
        PROVE  \E f \in linkedSignals' : edge'.signals[f].signal = {m}
    <3>1. CASE m = n
      BY <1>2, <1>12, <3>1
    <3>2. CASE m # n
      <4>1. notifier[m].called /\ m \notin sent /\ linker[m].at = "idle"
        BY <1>6, <2>3, <3>2 DEF Goroutines
      <4>2. PICK f \in linkedSignals : edge.signals[f].signal = {m}
        BY <2>0, <4>1 DEF ArmedInv
      <4> QED BY <1>12, <4>2
    <3> QED BY <3>1, <3>2
  <2>4. ArmedInv'
    BY <2>3 DEF ArmedInv
  <2> QED BY <2>1, <2>2, <2>4 DEF FlowInv
<1> QED BY <1>7, <1>8, <1>10, <1>11, <1>13, <1>15, <1>16, <1>17 DEF IInv

\* The word is swapped: the edge is linked, or the link starts over.
LEMMA SwapWordKeeps ==
  ASSUME IInv, NEW g \in Goroutines, SwapWord(g)
  PROVE  IInv'
<1>p. PICK me, word : me = linker[g] /\ word = jobs[me.to.slot][me.list]
  OBVIOUS
<1>0. /\ LinkInv /\ linker \in [Goroutines -> Linkers] /\ me \in Linkers /\ me.at = "swap"
      /\ UNCHANGED <<edge, free, pub, worker, notifier, arrived, sent, log>>
  BY <1>p DEF IInv, Types, SwapWord
<1>1. me.list = IF g \in Publications THEN "successors" ELSE "signals"
  BY <1>p, <1>0 DEF LinkInv
<1>2. CASE word = me.old
  <2>1. /\ jobs' = [jobs EXCEPT ![me.to.slot][me.list] = packList(me.to.gen, me.edge)]
        /\ linker' = [linker EXCEPT ![g] = notLinking]
    BY <1>p, <1>2 DEF SwapWord
  <2>2. CASE g \in Publications
    <3>1. me.list = "successors"
      BY <1>1, <2>2
    <3>2. /\ jobs[me.to.slot].successors = me.old
          /\ jobs' = [jobs EXCEPT ![me.to.slot].successors = packList(me.to.gen, me.edge)]
      BY <1>p, <1>2, <2>1, <3>1
    <3>3. UNCHANGED <<edge, free, pub, worker, notifier, arrived, sent, log>>
      BY <1>0
    <3>4. me = linker[g] /\ me.at = "swap" /\ linker' = [linker EXCEPT ![g] = notLinking]
      BY <1>p, <1>0, <2>1
    <3> QED BY <2>2, <3>2, <3>3, <3>4, SuccessorPushed
  <2>3. CASE g \in Notifiers
    <3>1. me.list = "signals"
      BY <1>1, <2>3, Apart
    <3>2. /\ jobs[me.to.slot].signals = me.old
          /\ jobs' = [jobs EXCEPT ![me.to.slot].signals = packList(me.to.gen, me.edge)]
      BY <1>p, <1>2, <2>1, <3>1
    <3>3. UNCHANGED <<edge, free, pub, worker, notifier, arrived, sent, log>>
      BY <1>0
    <3>4. me = linker[g] /\ me.at = "swap" /\ linker' = [linker EXCEPT ![g] = notLinking]
      BY <1>p, <1>0, <2>1
    <3> QED BY <2>3, <3>2, <3>3, <3>4, SignalPushed
  <2> QED BY <2>2, <2>3, Apart
<1>3. CASE word # me.old
  <2>1. linker' = [linker EXCEPT ![g].at = "load", ![g].old = noWord] /\ jobs' = jobs
    BY <1>p, <1>3 DEF SwapWord
  <2>2. PICK k : k = [me EXCEPT !.at = "load", !.old = noWord]
    OBVIOUS
  <2>3. /\ k \in Linkers /\ k.at = "load" /\ k.list = me.list /\ k.to = me.to /\ k.edge = me.edge
    BY <1>0, <2>2, Initially DEF Linkers
  <2>4. linker' = [linker EXCEPT ![g] = k]
    BY <1>p, <1>0, <2>1, <2>2
  <2>5. /\ linker[g].at # "idle"
        /\ k.list = linker[g].list /\ k.to = linker[g].to /\ k.edge = linker[g].edge
    BY <1>p, <1>0, <2>3
  <2>6. \/ k.at = "load" /\ edge' = edge
        \/ k.at = "refused" /\ log[k.to].done /\ edge' = edge
        \/ /\ k.at = "swap" /\ k.old.gen = k.to.gen /\ k.old.head \in EdgeSlot \cup {None}
           /\ edge' = [edge EXCEPT ![k.list][k.edge].next = k.old.head]
    BY <1>0, <2>3
  <2>7. UNCHANGED <<jobs, free, pub, worker, notifier, arrived, sent, log>>
    BY <1>0, <2>1
  <2> QED BY <2>3, <2>4, <2>5, <2>6, <2>7, LinkerMoves
<1> QED BY <1>2, <1>3

\* A count or an arg is stored.
LEMMA CountStored ==
  ASSUME NEW J \in [Slot -> Jobs], NEW s \in Slot, NEW v \in Int, NEW a \in Handles, NEW J1
  PROVE  /\ J1 = [J EXCEPT ![s].waiting = v] =>
              /\ J1 \in [Slot -> Jobs] /\ \A t \in Slot : t # s => J1[t] = J[t]
              /\ J1[s].successors = J[s].successors /\ J1[s].signals = J[s].signals
              /\ J1[s].waiting = v /\ J1[s].arg = J[s].arg
         /\ J1 = [J EXCEPT ![s].arg = a] =>
              /\ J1 \in [Slot -> Jobs] /\ \A t \in Slot : t # s => J1[t] = J[t]
              /\ J1[s].signals = J[s].signals /\ J1[s].successors = J[s].successors
              /\ J1[s].waiting = J[s].waiting /\ J1[s].arg = a
<1>1. PICK x, y, z : x = J[s] /\ y = [x EXCEPT !.waiting = v] /\ z = [x EXCEPT !.arg = a]
  OBVIOUS
<1>2. /\ y \in Jobs /\ y.successors = x.successors /\ y.signals = x.signals /\ y.waiting = v /\ y.arg = x.arg
      /\ z \in Jobs /\ z.signals = x.signals /\ z.successors = x.successors /\ z.waiting = x.waiting /\ z.arg = a
  BY <1>1 DEF Jobs
<1>3. ASSUME J1 = [J EXCEPT ![s].waiting = v]
      PROVE  J1 = [J EXCEPT ![s] = y]
  BY <1>1, <1>3
<1>4. ASSUME J1 = [J EXCEPT ![s].arg = a]
      PROVE  J1 = [J EXCEPT ![s] = z]
  BY <1>1, <1>4
<1>5. ASSUME NEW u \in Jobs, J1 = [J EXCEPT ![s] = u]
      PROVE  J1 \in [Slot -> Jobs] /\ J1[s] = u /\ \A t \in Slot : t # s => J1[t] = J[t]
  BY <1>5
<1> QED BY <1>1, <1>2, <1>3, <1>4, <1>5

\* A pool is changed.
LEMMA PoolStored ==
  ASSUME NEW F \in [jobs : Seq(Slot), successors : Seq(EdgeSlot), signals : Seq(EdgeSlot)], NEW F1
  PROVE  /\ \A q \in Seq(Slot) : F1 = [F EXCEPT !.jobs = q] =>
              /\ F1 \in [jobs : Seq(Slot), successors : Seq(EdgeSlot), signals : Seq(EdgeSlot)]
              /\ F1.jobs = q /\ F1.successors = F.successors /\ F1.signals = F.signals
         /\ \A q \in Seq(EdgeSlot) : F1 = [F EXCEPT !.successors = q] =>
              /\ F1 \in [jobs : Seq(Slot), successors : Seq(EdgeSlot), signals : Seq(EdgeSlot)]
              /\ F1.jobs = F.jobs /\ F1.successors = q /\ F1.signals = F.signals
         /\ \A q \in Seq(EdgeSlot) : F1 = [F EXCEPT !.signals = q] =>
              /\ F1 \in [jobs : Seq(Slot), successors : Seq(EdgeSlot), signals : Seq(EdgeSlot)]
              /\ F1.jobs = F.jobs /\ F1.successors = F.successors /\ F1.signals = q
<1>1. ASSUME NEW q \in Seq(Slot), F1 = [F EXCEPT !.jobs = q]
      PROVE  /\ F1 \in [jobs : Seq(Slot), successors : Seq(EdgeSlot), signals : Seq(EdgeSlot)]
             /\ F1.jobs = q /\ F1.successors = F.successors /\ F1.signals = F.signals
  BY <1>1
<1>2. ASSUME NEW q \in Seq(EdgeSlot), F1 = [F EXCEPT !.successors = q]
      PROVE  /\ F1 \in [jobs : Seq(Slot), successors : Seq(EdgeSlot), signals : Seq(EdgeSlot)]
             /\ F1.jobs = F.jobs /\ F1.successors = q /\ F1.signals = F.signals
  BY <1>2
<1>3. ASSUME NEW q \in Seq(EdgeSlot), F1 = [F EXCEPT !.signals = q]
      PROVE  /\ F1 \in [jobs : Seq(Slot), successors : Seq(EdgeSlot), signals : Seq(EdgeSlot)]
             /\ F1.jobs = F.jobs /\ F1.successors = F.successors /\ F1.signals = q
  BY <1>3
<1> QED BY <1>1, <1>2, <1>3

\* The edges taken for a job are finitely many.
LEMMA WaitsFinite ==
  ASSUME NEW s
  PROVE  IsFiniteSet(waitsFor(s)) /\ Cardinality(waitsFor(s)) \in Nat
<1>1. IsFiniteSet(EdgeSlot)
  BY FS_Interval, JobGraphAssumption DEF EdgeSlot
<1>2. IsFiniteSet(waitsFor(s))
  BY <1>1, FS_Subset DEF waitsFor
<1> QED BY <1>2, FS_CardinalityType

\* A job that is not submitted is the one of its slot, and has its hold.
LEMMA Unsubmitted ==
  ASSUME Types, SlotsInv, WaitInv, NEW h \in DOMAIN log, ~log[h].submitted
  PROVE  /\ h \in Handles /\ h.slot \in Slot /\ handle(h.slot) = h
         /\ ~log[h].started /\ ~log[h].done /\ held(h.slot) /\ h.slot \notin arrived
         /\ jobs[h.slot].waiting = Cardinality(waitsFor(h.slot)) + 1
<1>1. ~log[h].started /\ ~log[h].done
  BY DEF WaitInv
<1>2. h \in Handles /\ h.slot \in Slot /\ handle(h.slot) = h
  BY <1>1, Unfinished
<1>3. held(h.slot)
  BY <1>2 DEF held
<1>4. jobs[h.slot].waiting = Cardinality(waitsFor(h.slot)) + 1
  BY <1>2, <1>3 DEF WaitInv
<1>5. h.slot \notin arrived
  <2>1. Cardinality(waitsFor(h.slot)) \in Nat
    BY WaitsFinite
  <2>2. jobs[h.slot].waiting # 0
    BY <1>4, <2>1
  <2> QED BY <1>2, <2>2 DEF WaitInv
<1> QED BY <1>1, <1>2, <1>3, <1>4, <1>5

\* The job a publication is setting up: not submitted, so not finished.
LEMMA PubJob ==
  ASSUME Types, SlotsInv, WaitInv, PubInv, NEW p \in Publications, pub[p].at = "addSuccessor"
  PROVE  LET h == pub[p].job IN
         /\ h \in DOMAIN log /\ h \in Handles /\ h.slot \in Slot /\ handle(h.slot) = h
         /\ log[h].batch = p /\ ~log[h].submitted /\ ~log[h].started /\ ~log[h].done
         /\ held(h.slot) /\ h.slot \notin arrived
<1>1. PICK h : h = pub[p].job
  OBVIOUS
<1>2. h \in DOMAIN log /\ log[h].batch = p /\ ~log[h].submitted
  BY <1>1 DEF PubInv
<1> QED BY <1>1, <1>2, Unsubmitted

-----------------------------------------------------------------------------
(* Publications *)

\* What acquireJob is to link to deps: an edge for each.
linksTo(deps) == [i \in 1..Len(deps) |-> [to |-> deps[i], feeds |-> FALSE]]

\* linksTo has one plain link for each handle of deps, and no other.
LEMMA LinksOf ==
  ASSUME NEW n \in Nat, NEW H, H \subseteq Handles, NEW deps \in [1..n -> H],
         NEW q, q = linksTo(deps)
  PROVE  /\ q \in Seq(Links) /\ ToSet(deps) \subseteq H
         /\ \A l \in ToSet(q) : l.to \in ToSet(deps) /\ ~l.feeds
         /\ \A d \in ToSet(deps) : \E l \in ToSet(q) : l.to = d
<1>1. deps \in Seq(H) /\ DOMAIN deps = 1..n
  OBVIOUS
<1>2. Len(deps) = n
  <2>1. PICK m \in Nat : m = Len(deps) /\ 1..m = 1..n
    BY <1>1, LenProperties
  <2> QED BY <2>1
<1>3. \A i \in 1..n : deps[i] \in H /\ [to |-> deps[i], feeds |-> FALSE] \in Links
  BY DEF Links
<1>4. /\ q \in Seq(Links) /\ DOMAIN q = 1..n
      /\ \A i \in 1..n : q[i].to = deps[i] /\ q[i].feeds = FALSE
  BY <1>2, <1>3 DEF linksTo
<1>5. ToSet(deps) = {deps[i] : i \in 1..n} /\ ToSet(q) = {q[i] : i \in 1..n}
  BY <1>1, <1>4 DEF ToSet
<1>6. ToSet(deps) \subseteq H
  BY <1>3, <1>5
<1>7. ASSUME NEW l \in ToSet(q) PROVE l.to \in ToSet(deps) /\ ~l.feeds
  <2>1. PICK i \in 1..n : l = q[i]
    BY <1>5
  <2> QED BY <1>4, <1>5, <2>1
<1>8. ASSUME NEW d \in ToSet(deps) PROVE \E l \in ToSet(q) : l.to = d
  <2>1. PICK i \in 1..n : d = deps[i]
    BY <1>5
  <2>2. q[i] \in ToSet(q) /\ q[i].to = d
    BY <1>4, <1>5, <2>1
  <2> QED BY <2>2
<1> QED BY <1>4, <1>6, <1>7, <1>8

\* A job is set up in a slot taken from the pool.
LEMMA acquireJobKeeps ==
  ASSUME IInv, NEW p \in Publications, NEW from \in handles \cup {ZeroHandle}, NEW n \in Nat,
         NEW deps \in [1..n -> handles \ {from}], acquireJob(p, deps, from)
  PROVE  IInv'
<1>p. PICK s, h, q, T, x, y :
        /\ s = Last(free.jobs) /\ h = handle(s)
        /\ q = [i \in 1..Len(deps) |-> [to |-> deps[i], feeds |-> FALSE]]
        /\ T = IF from = ZeroHandle THEN q ELSE Append(q, [to |-> from, feeds |-> TRUE])
        /\ x = [successors |-> packList(h.gen, None), signals |-> packList(h.gen, None),
                waiting |-> 1, arg |-> ZeroValue]
        /\ y = [batch |-> p, deps |-> ToSet(deps) \cup {from}, from |-> from, submitted |-> FALSE,
                started |-> FALSE, arg |-> ZeroValue, done |-> FALSE, result |-> ZeroValue]
  OBVIOUS
<1>0. /\ Types /\ SlotsInv /\ RunInv /\ WaitInv /\ PubInv /\ LinkInv /\ SignalsInv /\ SuccessorsInv
      /\ jobs \in [Slot -> Jobs] /\ pub \in [Publications -> Pubs] /\ pub[p] \in Pubs
      /\ free \in [jobs : Seq(Slot), successors : Seq(EdgeSlot), signals : Seq(EdgeSlot)]
      /\ log \in [DOMAIN log -> Entries] /\ DOMAIN log \subseteq Handles
  BY DEF IInv, Types
<1>1. /\ pub[p].at = "schedule" /\ free.jobs # <<>>
      /\ free' = [free EXCEPT !.jobs = Front(free.jobs)]
      /\ jobs' = [jobs EXCEPT ![s] = x]
      /\ pub' = [pub EXCEPT ![p].at = "addSuccessor", ![p].job = h, ![p].todo = T]
      /\ log' = [j \in DOMAIN log \cup {h} |-> IF j # h THEN log[j] ELSE y]
      /\ UNCHANGED <<edge, linker, worker, notifier, arrived, sent>>
  BY <1>p DEF acquireJob
<1>2. handles \subseteq DOMAIN log /\ from \in Handles /\ (from = ZeroHandle \/ from \in DOMAIN log)
  BY <1>0, Initially DEF handles
<1>3. /\ T \in Seq(Links) /\ ToSet(deps) \subseteq DOMAIN log
      /\ \A l \in ToSet(T) : (l.to \in ToSet(deps) /\ ~l.feeds) \/ (l.to = from /\ from # ZeroHandle)
      /\ \A d \in ToSet(deps) : \E l \in ToSet(T) : l.to = d
      /\ from # ZeroHandle => \E l \in ToSet(T) : l.to = from /\ l.feeds
  <2>1. PICK H : H = handles \ {from}
    OBVIOUS
  <2>2. H \subseteq Handles /\ H \subseteq DOMAIN log /\ deps \in [1..n -> H]
    BY <1>0, <1>2, <2>1
  <2>3. /\ q \in Seq(Links) /\ ToSet(deps) \subseteq H
        /\ \A l \in ToSet(q) : l.to \in ToSet(deps) /\ ~l.feeds
        /\ \A d \in ToSet(deps) : \E l \in ToSet(q) : l.to = d
    <3>1. q = linksTo(deps)
      BY <1>p DEF linksTo
    <3>2. H \subseteq Handles
      BY <2>2
    <3>3. deps \in [1..n -> H]
      BY <2>2
    <3>4. n \in Nat
      OBVIOUS
    <3>5. q \in Seq(Links) /\ ToSet(deps) \subseteq H
      BY ONLY <3>1, <3>2, <3>3, <3>4, LinksOf
    <3>6. \A l \in ToSet(q) : l.to \in ToSet(deps) /\ ~l.feeds
      BY ONLY <3>1, <3>2, <3>3, <3>4, LinksOf
    <3>7. \A d \in ToSet(deps) : \E l \in ToSet(q) : l.to = d
      BY ONLY <3>1, <3>2, <3>3, <3>4, LinksOf
    <3> QED BY <3>5, <3>6, <3>7
  <2>4. PICK z : z = [to |-> from, feeds |-> TRUE]
    OBVIOUS
  <2>5. z \in Links /\ z.to = from /\ z.feeds
    BY <1>2, <2>4 DEF Links
  <2>6. (from = ZeroHandle => T = q) /\ (from # ZeroHandle => T = Append(q, z))
    BY <1>p, <2>4
  <2>7. PICK D : D = ToSet(deps)
    OBVIOUS
  <2>8. /\ T \in Seq(Links)
        /\ \A l \in ToSet(T) : (l.to \in D /\ ~l.feeds) \/ (l.to = from /\ from # ZeroHandle)
        /\ \A d \in D : \E l \in ToSet(T) : l.to = d
        /\ from # ZeroHandle => \E l \in ToSet(T) : l.to = from /\ l.feeds
    <3>1. CASE from = ZeroHandle
      BY <2>3, <2>6, <2>7, <3>1
    <3>2. CASE from # ZeroHandle
      <4>1. Append(q, z) \in Seq(Links) /\ ToSet(Append(q, z)) = ToSet(q) \cup {z}
        BY <2>3, <2>5, PutBack
      <4>2. T \in Seq(Links) /\ ToSet(T) = ToSet(q) \cup {z}
        BY <2>6, <3>2, <4>1
      <4> QED BY <2>3, <2>5, <2>7, <3>2, <4>2
    <3> QED BY <3>1, <3>2
  <2> QED BY <2>2, <2>3, <2>7, <2>8
<1>4. /\ s \in Slot /\ s \in ToSet(free.jobs)
      /\ free' \in [jobs : Seq(Slot), successors : Seq(EdgeSlot), signals : Seq(EdgeSlot)]
      /\ free'.successors = free.successors /\ free'.signals = free.signals
      /\ IsInjective(free'.jobs) /\ ToSet(free'.jobs) = ToSet(free.jobs) \ {s}
  <2>1. PICK u, u1 : u = free.jobs /\ u1 = Front(u)
    OBVIOUS
  <2>2. u \in Seq(Slot) /\ u # <<>> /\ IsInjective(u) /\ s = Last(u)
    BY <1>p, <1>0, <1>1, <2>1 DEF SlotsInv
  <2>3. /\ u1 \in Seq(Slot) /\ s \in Slot /\ s \in ToSet(u)
        /\ IsInjective(u1) /\ ToSet(u1) = ToSet(u) \ {s}
    BY <2>1, <2>2, Taken
  <2>4. free' = [free EXCEPT !.jobs = u1]
    BY <1>1, <2>1
  <2>5. /\ free' \in [jobs : Seq(Slot), successors : Seq(EdgeSlot), signals : Seq(EdgeSlot)]
        /\ free'.jobs = u1 /\ free'.signals = free.signals /\ free'.successors = free.successors
    BY <1>0, <2>3, <2>4, PoolStored
  <2> QED BY <2>1, <2>3, <2>5
<1>5. /\ h \in Handles /\ h.slot = s /\ h.gen = jobs[s].successors.gen /\ h.gen \in Nat
      /\ h \notin DOMAIN log /\ h # ZeroHandle
  <2>1. h.slot = s /\ h.gen = jobs[s].successors.gen
    BY <1>p DEF handle
  <2>2. h.gen \in Nat
    BY <1>0, <1>4, <2>1 DEF Jobs, Words
  <2>3. h \in Handles
    BY <1>p, <1>4, <2>1, <2>2 DEF handle, Handles
  <2>4. h \notin DOMAIN log
    BY <1>p, <1>0, <1>4 DEF SlotsInv
  <2> QED BY <1>4, <2>1, <2>2, <2>3, <2>4, Initially
<1>6. /\ x \in Jobs /\ x.successors.gen = h.gen /\ x.signals.gen = h.gen
      /\ x.successors.head = None /\ x.signals.head = None /\ x.waiting = 1 /\ x.arg = ZeroValue
  <2>1. PICK c : c = packList(h.gen, None)
    OBVIOUS
  <2>2. c \in Words /\ c.gen = h.gen /\ c.head = None
    BY <1>5, <2>1 DEF packList, Words
  <2>3. x = [successors |-> c, signals |-> c, waiting |-> 1, arg |-> ZeroValue]
    BY <1>p, <2>1
  <2> QED BY <2>2, <2>3, Initially DEF Jobs, ZeroValue
<1>7. /\ jobs' \in [Slot -> Jobs] /\ jobs'[s] = x /\ \A t \in Slot : t # s => jobs'[t] = jobs[t]
  BY <1>0, <1>1, <1>4, <1>6
<1>8. /\ y \in Entries /\ y.batch = p /\ y.deps = ToSet(deps) \cup {from} /\ y.from = from
      /\ ~y.submitted /\ ~y.started /\ ~y.done
  <2>1. ToSet(deps) \cup {from} \subseteq Handles
    BY <1>0, <1>2, <1>3
  <2> QED BY <1>p, <1>2, <2>1, Initially DEF Entries, ZeroValue
<1>9. /\ DOMAIN log' = DOMAIN log \cup {h} /\ log' \in [DOMAIN log' -> Entries] /\ DOMAIN log' \subseteq Handles
      /\ log'[h] = y /\ \A j \in DOMAIN log : log'[j] = log[j]
  BY <1>0, <1>1, <1>5, <1>8
<1>10. logGrows
  BY <1>9 DEF logGrows
<1>11. /\ pub' \in [Publications -> Pubs]
       /\ \A r \in Publications : r # p => pub'[r] = pub[r]
       /\ pub'[p].at = "addSuccessor" /\ pub'[p].job = h /\ pub'[p].batch = pub[p].batch
       /\ pub'[p].todo = T
  <2>1. PICK c, z : c = pub[p] /\ z = [c EXCEPT !.at = "addSuccessor", !.job = h, !.todo = T]
    OBVIOUS
  <2>2. z \in Pubs /\ z.at = "addSuccessor" /\ z.job = h /\ z.batch = c.batch /\ z.todo = T
    BY <1>0, <1>3, <1>5, <2>1 DEF Pubs
  <2>3. pub' = [pub EXCEPT ![p] = z]
    BY <1>1, <2>1
  <2> QED BY <1>0, <2>1, <2>2, <2>3
<1>12. Types'
  BY <1>0, <1>1, <1>4, <1>7, <1>9, <1>11 DEF Types
<1>13. /\ \A t \in Slot : handle(t)' = handle(t) /\ (handle(t) = h => t = s)
       /\ sameHandles /\ handle(s)' = h
  <2>1. \A t \in Slot : jobs'[t].successors.gen = jobs[t].successors.gen
    BY <1>5, <1>6, <1>7
  <2>2. \A t \in Slot : handle(t)' = handle(t)
    BY <2>1 DEF handle
  <2>3. \A t \in Slot : handle(t) = h => t = s
    BY <1>5 DEF handle
  <2> QED BY <1>p, <1>4, <2>1, <2>2, <2>3 DEF sameHandles
<1>14. SlotsInv'
  <2>1. \A t \in Slot : jobs'[t].signals.gen = jobs'[t].successors.gen
    BY <1>0, <1>6, <1>7 DEF SlotsInv
  <2>2. ASSUME NEW j \in DOMAIN log'
        PROVE  /\ j.slot \in Slot /\ j.gen <= jobs'[j.slot].successors.gen
               /\ j.gen # jobs'[j.slot].successors.gen => log'[j].done
    <3>1. CASE j = h
      BY <1>4, <1>5, <1>6, <1>7, <3>1
    <3>2. CASE j # h
      <4>1. j \in DOMAIN log /\ log'[j] = log[j]
        BY <1>9, <3>2
      <4> QED BY <1>0, <1>13, <4>1 DEF SlotsInv, sameHandles
    <3> QED BY <3>1, <3>2
  <2>3. ASSUME NEW t \in ToSet(free'.jobs), handle(t)' \in DOMAIN log' PROVE FALSE
    <3>1. t \in ToSet(free.jobs) /\ t # s /\ handle(t) \notin DOMAIN log
      BY <1>0, <1>4, <2>3 DEF SlotsInv
    <3>2. t \in Slot
      <4>1. handle(t)'.slot \in Slot
        BY <2>2, <2>3
      <4> QED BY <4>1 DEF handle
    <3> QED BY <1>9, <1>13, <2>3, <3>1, <3>2
  <2>4. ASSUME NEW t \in Slot, handle(t)' \in DOMAIN log'
        PROVE  /\ log'[handle(t)'].done <=> jobs'[t].successors.head = closedList
               /\ jobs'[t].signals.head = closedList => log'[handle(t)'].done
    <3>1. CASE t = s
      BY <1>6, <1>7, <1>8, <1>9, <1>13, <3>1, Initially
    <3>2. CASE t # s
      <4>1. handle(t)' = handle(t) /\ handle(t) \in DOMAIN log /\ log'[handle(t)] = log[handle(t)] /\ jobs'[t] = jobs[t]
        BY <1>7, <1>9, <1>13, <2>4, <3>2
      <4> QED BY <1>0, <4>1 DEF SlotsInv
    <3> QED BY <3>1, <3>2
  <2> QED BY <1>4, <2>1, <2>2, <2>3, <2>4 DEF SlotsInv
<1>15. RunInv'
  <2>1. \A t \in Slot : handle(t) \in DOMAIN log =>
           /\ jobs'[t].successors.gen = jobs[t].successors.gen
           /\ jobs'[t].signals.head = closedList <=> jobs[t].signals.head = closedList
    BY <1>p, <1>5, <1>7
  <2>2. \A j \in DOMAIN log : log'[j].done = log[j].done
    BY <1>9
  <2> QED BY <1>0, <1>1, <1>10, <2>1, <2>2, RunKept
<1>16. WaitInv'
  <2>1. ASSUME NEW t \in Slot
        PROVE  /\ jobs'[t].waiting = Cardinality(waitsFor(t)') + (IF held(t)' THEN 1 ELSE 0)
               /\ handle(t)' \notin DOMAIN log' => jobs'[t].waiting = 0 /\ t \notin arrived'
               /\ handle(t)' \in DOMAIN log' =>
                    /\ jobs'[t].waiting = 0 <=> t \in arrived' \/ log'[handle(t)'].started
                    /\ ~(t \in arrived' /\ log'[handle(t)'].started)
    <3>1. waitsFor(t)' = waitsFor(t) /\ handle(t)' = handle(t) /\ arrived' = arrived
      BY <1>1, <1>4, <1>13 DEF waitsFor
    <3>2. CASE t # s
      <4>1. /\ handle(t) \in DOMAIN log' <=> handle(t) \in DOMAIN log
            /\ handle(t) \in DOMAIN log => log'[handle(t)] = log[handle(t)]
        BY <1>9, <1>13, <3>2
      <4>2. held(t)' <=> held(t)
        BY <3>1, <4>1 DEF held
      <4>3. jobs'[t].waiting = jobs[t].waiting
        BY <1>7, <3>2
      <4> QED BY <1>0, <3>1, <4>1, <4>2, <4>3 DEF WaitInv
    <3>3. CASE t = s
      <4>1. handle(s) \notin DOMAIN log /\ ~held(s)
        BY <1>p, <1>5 DEF held
      <4>2. jobs[s].waiting = 0 /\ s \notin arrived /\ jobs[s].waiting = Cardinality(waitsFor(s)) + 0
        BY <1>0, <1>4, <4>1 DEF WaitInv
      <4>3. Cardinality(waitsFor(s)) \in Nat
        BY WaitsFinite
      <4>4. Cardinality(waitsFor(s)') = 0
        BY <3>1, <3>3, <4>2, <4>3
      <4>5. held(s)' /\ handle(s)' \in DOMAIN log' /\ ~log'[handle(s)'].started
        BY <1>8, <1>9, <1>13 DEF held
      <4>6. jobs'[s].waiting = 1
        BY <1>6, <1>7
      <4> QED BY <3>1, <3>3, <4>2, <4>4, <4>5, <4>6
    <3> QED BY <3>2, <3>3
  <2>2. \A j \in DOMAIN log' : (log'[j].done => log'[j].started) /\ (log'[j].started => log'[j].submitted)
    BY <1>0, <1>8, <1>9 DEF WaitInv
  <2>3. IsInjective(free'.signals) /\ IsInjective(free'.successors)
    BY <1>0, <1>4 DEF WaitInv
  <2>4. \A e \in EdgeSlot \ ToSet(free'.successors) : edge'.successors[e].successor \in Slot
    BY <1>0, <1>1, <1>4 DEF WaitInv
  <2> QED BY <2>1, <2>2, <2>3, <2>4 DEF WaitInv
<1>17. PubInv'
  <2>1. ASSUME NEW r \in Publications
        PROVE  LET me == pub'[r] IN
    /\ \A j \in ToSet(me.batch) : j \in DOMAIN log' /\ log'[j].batch = r /\ ~log'[j].submitted
    /\ IsInjective(me.batch)
    /\ me.at = "addSuccessor" =>
         /\ me.job \in DOMAIN log' /\ log'[me.job].batch = r /\ ~log'[me.job].submitted
         /\ me.job \notin ToSet(me.batch)
         /\ \A m \in ToSet(me.todo) :
              /\ m.to \in DOMAIN log' /\ m.to \in log'[me.job].deps
              /\ m.feeds => m.to = log'[me.job].from
    /\ me.at # "addSuccessor" => me.job = ZeroHandle
    /\ me.at \in {"schedule", "addSuccessor"} =>
         \A j \in DOMAIN log' : log'[j].batch = r => ~log'[j].submitted
    <3>1. PICK a, b, c, d : a = pub[r].at /\ b = pub[r].batch /\ c = pub[r].job /\ d = ToSet(pub[r].todo)
      OBVIOUS
    <3>2. /\ \A j \in ToSet(b) : j \in DOMAIN log /\ log[j].batch = r /\ ~log[j].submitted
          /\ IsInjective(b)
          /\ a = "addSuccessor" =>
               /\ c \in DOMAIN log /\ log[c].batch = r /\ ~log[c].submitted
               /\ c \notin ToSet(b)
          /\ a # "addSuccessor" => c = ZeroHandle
          /\ a \in {"schedule", "addSuccessor"} =>
               \A j \in DOMAIN log : log[j].batch = r => ~log[j].submitted
      BY <1>0, <3>1 DEF PubInv
    <3>3. a = "addSuccessor" =>
               \A m \in d : /\ m.to \in DOMAIN log /\ m.to \in log[c].deps
                            /\ m.feeds => m.to = log[c].from
      <4>1. ASSUME a = "addSuccessor"
            PROVE  \A m \in d : m.to \in DOMAIN log /\ m.to \in log[c].deps /\ (m.feeds => m.to = log[c].from)
        <5>1. pub[r].at = "addSuccessor" /\ c = pub[r].job /\ d = ToSet(pub[r].todo)
          BY <3>1, <4>1
        <5> QED BY <1>0, <5>1, PublisherOwes
      <4> QED BY <4>1
    <3>4. /\ \A j \in ToSet(b) : j \in DOMAIN log' /\ log'[j].batch = r /\ ~log'[j].submitted
          /\ a \in {"schedule", "addSuccessor"} =>
               \A j \in DOMAIN log' : log'[j].batch = r => ~log'[j].submitted
      BY <1>8, <1>9, <3>2
    <3>5. CASE r = p
      <4>1. a = "schedule" /\ b = pub'[p].batch
        BY <1>1, <1>11, <3>1, <3>5
      <4>2. h \in DOMAIN log' /\ log'[h].batch = p /\ ~log'[h].submitted /\ h \notin ToSet(b)
        BY <1>5, <1>8, <1>9, <3>2
      <4>3. \A m \in ToSet(T) : /\ m.to \in DOMAIN log' /\ m.to \in log'[h].deps
                                /\ m.feeds => m.to = log'[h].from
        BY <1>2, <1>3, <1>8, <1>9
      <4> QED BY <1>11, <3>2, <3>4, <3>5, <4>1, <4>2, <4>3
    <3>6. CASE r # p
      <4>1. pub'[r] = pub[r]
        BY <1>11, <3>6
      <4>2. a = "addSuccessor" =>
              /\ c \in DOMAIN log' /\ log'[c].batch = r /\ ~log'[c].submitted
              /\ \A m \in d : /\ m.to \in DOMAIN log' /\ m.to \in log'[c].deps
                              /\ m.feeds => m.to = log'[c].from
        BY <1>9, <3>2, <3>3
      <4> QED BY <3>1, <3>2, <3>4, <4>1, <4>2
    <3> QED BY <3>5, <3>6
  <2> QED BY <2>1 DEF PubInv
<1>18. LinkInv'
  <2>1. ASSUME NEW r \in Publications, linker'[r].at # "idle"
        PROVE  /\ pub'[r].at = pub[r].at /\ pub'[r].job = pub[r].job /\ pub[r].job \in DOMAIN log
               /\ linker[r].edge \notin ToSet(free'.successors)
    <3>1. pub[r].at = "addSuccessor" /\ pub[r].job \in DOMAIN log /\ linker[r].edge \notin ToSet(free.successors)
      BY <1>0, <1>1, <2>1 DEF LinkInv, PubInv
    <3> QED BY <1>1, <1>4, <1>11, <3>1
  <2>2. ASSUME NEW m \in Notifiers, linker'[m].at # "idle"
        PROVE  linker[m].edge \notin ToSet(free'.signals)
    BY <1>0, <1>1, <1>4, <2>2 DEF LinkInv
  <2> QED BY <1>0, <1>1, <1>10, <2>1, <2>2, LinkKept
<1>19. SignalsInv'
  <2>1. \A t \in Slot : jobs'[t].signals.head \in EdgeSlot =>
          jobs'[t].signals.head = jobs[t].signals.head /\ handle(t)' = handle(t)
    BY <1>6, <1>7, <1>13, Initially
  <2> QED BY <1>0, <1>1, <1>4, <1>10, <2>1, SignalsSame
<1>20. SuccessorsInv'
  <2>1. PICK own \in [EdgeSlot -> Handles] : SuccessorsOwned(own) /\ FedOwned(own)
    BY <1>0 DEF SuccessorsInv
  <2>2. linkedSuccessors' = linkedSuccessors
    BY <1>1, <1>4 DEF linkedSuccessors
  <2>3. Chained(edge'.successors, linkedSuccessors', own, successorHeads')
    <3>1. \A t \in Slot : jobs'[t].successors.head \in EdgeSlot =>
            <<jobs'[t].successors.head, handle(t)'>> \in successorHeads
      BY <1>6, <1>7, <1>13, Initially DEF successorHeads
    <3>2. \A v \in Workers : <<worker'[v].successors, worker'[v].job>> \in successorHeads
      BY <1>1 DEF successorHeads
    <3>3. \A e \in EdgeSlot, j \in Handles : <<e, j>> \in successorHeads' => <<e, j>> \in successorHeads
      BY <3>1, <3>2, SuccessorHeadsKept
    <3>4. Chained(edge.successors, linkedSuccessors, own, successorHeads)
      BY <2>1 DEF SuccessorsOwned
    <3> QED BY <1>1, <2>2, <3>3, <3>4, ChainKept
  <2>4. ASSUME NEW e \in linkedSuccessors'
        PROVE  Waits(own, e)'
    <3>1. Waits(own, e) /\ edge.successors[e].successor \in Slot
      BY <1>0, <2>1, <2>2 DEF SuccessorsOwned, WaitInv, linkedSuccessors
    <3> QED BY <1>0, <1>1, <1>10, <1>13, <3>1, WaitsKept
  <2>5. ASSUME NEW j \in DOMAIN log, NEW d
        PROVE  /\ Pending(own, j, d) => Pending(own, j, d)'
               /\ Feeding(own, j, d) => Feeding(own, j, d)'
    <3>1. ASSUME NEW r \in Publications, pub[r].job = j
          PROVE  pub'[r] = pub[r]
      <4>1. pub[p].job = ZeroHandle
        BY <1>0, <1>1 DEF PubInv
      <4>2. j.slot \in Slot
        BY <1>0 DEF SlotsInv
      <4> QED BY <1>11, <3>1, <4>1, <4>2, Initially
    <3> QED BY <1>1, <2>2, <3>1, PendingKept
  <2>6. \A d \in ToSet(deps) : Pending(own, h, d)'
    BY <1>3, <1>11 DEF Pending
  <2>7. from # ZeroHandle => Pending(own, h, from)' /\ Feeding(own, h, from)'
    <3>1. ASSUME from # ZeroHandle PROVE Pending(own, h, from)'
      BY <1>3, <1>11, <3>1 DEF Pending
    <3>2. ASSUME from # ZeroHandle PROVE Feeding(own, h, from)'
      BY <1>3, <1>11, <3>2 DEF Feeding
    <3> QED BY <3>1, <3>2
  <2>8. ASSUME NEW j \in DOMAIN log', NEW d \in log'[j].deps
        PROVE  d = ZeroHandle \/ (d \in DOMAIN log' /\ (log'[d].done \/ (~log'[j].started /\ Pending(own, j, d)')))
    <3>1. CASE j = h
      <4>1. d \in ToSet(deps) \cup {from} /\ ~log'[h].started
        BY <1>8, <1>9, <3>1
      <4>2. d = ZeroHandle \/ (d \in DOMAIN log' /\ Pending(own, h, d)')
        BY <1>2, <1>3, <1>9, <2>6, <2>7, <4>1
      <4> QED BY <3>1, <4>1, <4>2
    <3>2. CASE j # h
      <4>1. j \in DOMAIN log /\ log'[j] = log[j]
        BY <1>9, <3>2
      <4>2. d = ZeroHandle \/ (d \in DOMAIN log /\ (log[d].done \/ (~log[j].started /\ Pending(own, j, d))))
        BY <2>1, <4>1 DEF SuccessorsOwned
      <4> QED BY <1>9, <2>5, <4>1, <4>2
    <3> QED BY <3>1, <3>2
  <2>9. SuccessorsOwned(own)'
    BY <2>3, <2>4, <2>8 DEF SuccessorsOwned
  <2>10. \A j \in DOMAIN log : /\ log[j].from \in log[j].deps
                               /\ log[j].from = ZeroHandle \/ log[j].from \in DOMAIN log
    BY <2>1 DEF FedOwned, SuccessorsOwned
  <2>11. \A j \in DOMAIN log' : log'[j].from \in log'[j].deps
    BY <1>8, <1>9, <2>10
  <2>12. ASSUME NEW j \in DOMAIN log', log'[j].started PROVE Fed(j, log[j].arg)'
    <3>1. j \in DOMAIN log /\ log'[j] = log[j]
      BY <1>8, <1>9, <2>12
    <3>2. PICK a : a = log[j].arg
      OBVIOUS
    <3>3. Fed(j, log[j].arg)
      BY <2>1, <2>12, <3>1 DEF FedOwned
    <3>4. Fed(j, a)
      BY <3>2, <3>3 DEF Fed
    <3>5. Fed(j, a)'
      BY <1>10, <2>10, <3>1, <3>4, FedKept
    <3> QED BY <3>1, <3>2, <3>5 DEF Fed
  <2>13. ASSUME NEW t \in Slot, handle(t)' \in DOMAIN log' PROVE Fed(handle(t), jobs[t].arg)'
    <3>1. CASE t = s
      BY <1>6, <1>7, <3>1 DEF Fed
    <3>2. CASE t # s
      <4>1. PICK j, a : j = handle(t) /\ a = jobs[t].arg
        OBVIOUS
      <4>2. j \in DOMAIN log /\ handle(t)' = j /\ jobs'[t].arg = a
        BY <1>7, <1>9, <1>13, <2>13, <3>2, <4>1
      <4>3. Fed(handle(t), jobs[t].arg)
        BY <2>1, <4>1, <4>2 DEF FedOwned
      <4>4. Fed(j, a)
        BY <4>1, <4>3 DEF Fed
      <4>5. Fed(j, a)'
        BY <1>10, <2>10, <4>2, <4>4, FedKept
      <4> QED BY <4>2, <4>5 DEF Fed
    <3> QED BY <3>1, <3>2
  <2>14. ASSUME NEW j \in DOMAIN log' PROVE FedInBatch(own, j)'
    <3>1. CASE j = h
      <4>1. log'[j].from = from /\ ~log'[j].started
        BY <1>8, <1>9, <3>1
      <4>2. from # ZeroHandle => Feeding(own, j, log[j].from)'
        BY <2>7, <3>1, <4>1 DEF Feeding
      <4> QED BY <4>1, <4>2 DEF FedInBatch
    <3>2. CASE j # h
      <4>1. j \in DOMAIN log /\ log'[j] = log[j]
        BY <1>9, <3>2
      <4>2. PICK k : k = log[j].from
        OBVIOUS
      <4>3. FedInBatch(own, j) /\ (k = ZeroHandle \/ k \in DOMAIN log)
        BY <2>1, <2>10, <4>1, <4>2 DEF FedOwned
      <4>4. log[j].started \/ jobs'[j.slot].arg = jobs[j.slot].arg
        <5>1. CASE j.slot = s /\ ~log[j].started
          <6>1. ~log[j].done
            BY <1>0, <4>1, <5>1 DEF WaitInv
          <6>2. j = handle(s)
            BY <1>0, <4>1, <5>1, <6>1, Unfinished
          <6> QED BY <1>p, <3>2, <6>2
        <5>2. CASE j.slot # s
          <6>1. j.slot \in Slot
            BY <1>0, <4>1 DEF SlotsInv
          <6> QED BY <1>7, <5>2, <6>1
        <5> QED BY <5>1, <5>2
      <4>5. log'[j].started = log[j].started /\ (Feeding(own, j, k) => Feeding(own, j, k)')
        BY <2>5, <4>1
      <4> QED BY <1>10, <4>1, <4>2, <4>3, <4>4, <4>5, BatchKept
    <3> QED BY <3>1, <3>2
  <2>15. ASSUME NEW v \in Workers, worker'[v].at = "lower"
         PROVE  LET e == edge'.successors[worker'[v].successors] IN
                e.feeds => jobs'[e.successor].arg = worker'[v].result
    <3>1. \A e \in linkedSuccessors : LET t == edge.successors[e].successor IN t \in Slot /\ t # s
      <4>1. \A e \in linkedSuccessors : edge.successors[e].successor \in Slot
        BY <1>0 DEF WaitInv, linkedSuccessors
      <4>2. \A e \in linkedSuccessors : handle(edge.successors[e].successor) \in DOMAIN log
        BY <2>1 DEF SuccessorsOwned, Waits
      <4>3. \A e \in linkedSuccessors : edge.successors[e].successor # s
        BY <1>p, <1>5, <4>2
      <4> QED BY <4>1, <4>3
    <3>2. \A e \in linkedSuccessors :
            /\ edge'.successors[e] = edge.successors[e]
            /\ LET t == edge.successors[e].successor IN jobs'[t].arg = jobs[t].arg
      BY <1>1, <1>7, <3>1
    <3>3. worker[v].at = "lower" /\ worker'[v].result = worker[v].result /\ worker'[v].successors = worker[v].successors
      BY <1>1, <2>15
    <3> QED BY <1>0, <2>1, <3>2, <3>3, LowerKept
  <2>16. FedOwned(own)'
    BY <2>11, <2>12, <2>13, <2>14, <2>15 DEF FedOwned
  <2> QED BY <2>1, <2>9, <2>16 DEF SuccessorsInv
<1>21. SuccessorsReached /\ SignalsReached /\ StartedInv /\ HeldInv /\ ArmedInv /\ UsedInv /\ OrderInv
  BY DEF IInv, FlowInv
<1>22. SuccessorsReached' /\ SignalsReached'
  <2>1. linkedSuccessors' = linkedSuccessors /\ linkedSignals' = linkedSignals
    BY <1>1, <1>4 DEF linkedSuccessors, linkedSignals
  <2>2. jobs[s].successors.head \notin EdgeSlot /\ jobs[s].signals.head \notin EdgeSlot
    BY <1>p, <1>4, <1>5, <1>21 DEF UsedInv
  <2>3. \A t \in Slot :
          /\ jobs[t].successors.head \in EdgeSlot => jobs'[t].successors.head = jobs[t].successors.head
          /\ jobs[t].signals.head \in EdgeSlot => jobs'[t].signals.head = jobs[t].signals.head
    BY <1>7, <2>2
  <2> QED BY <1>1, <1>21, <2>1, <2>3, ReachStays
<1>23. FlowInv'
  <2>1. StartedInv'
    <3>1. \A t \in Slot : handle(t)' \in DOMAIN log' /\ log'[handle(t)'].started =>
            handle(t)' = handle(t) /\ handle(t) \in DOMAIN log /\ log[handle(t)].started
      BY <1>8, <1>9, <1>13
    <3> QED BY <1>1, <1>21, <3>1, StartedKept
  <2>2. HeldInv'
    <3>1. ASSUME NEW k \in DOMAIN log', ~log'[k].submitted
          PROVE  \E r \in Publications : \/ k \in ToSet(pub'[r].batch)
                                         \/ pub'[r].at = "addSuccessor" /\ pub'[r].job = k
      <4>1. CASE k = h
        BY <1>11, <4>1
      <4>2. CASE k # h
        <5>1. k \in DOMAIN log /\ ~log[k].submitted
          BY <1>9, <3>1, <4>2
        <5>2. PICK r \in Publications : \/ k \in ToSet(pub[r].batch)
                                        \/ pub[r].at = "addSuccessor" /\ pub[r].job = k
          BY <1>21, <5>1 DEF HeldInv
        <5>3. CASE r = p
          BY <1>1, <1>11, <5>2, <5>3
        <5>4. CASE r # p
          BY <1>11, <5>2, <5>4
        <5> QED BY <5>3, <5>4
      <4> QED BY <4>1, <4>2
    <3> QED BY <3>1 DEF HeldInv
  <2>3. ArmedInv'
    <3>1. linkedSignals' = linkedSignals
      BY <1>1, <1>4 DEF linkedSignals
    <3> QED BY <1>1, <1>21, <3>1, ArmedKept
  <2>4. UsedInv'
    <3>1. \A t \in Slot : t \notin ToSet(free'.jobs) => handle(t)' \in DOMAIN log'
      BY <1>4, <1>9, <1>13, <1>21 DEF UsedInv
    <3>2. \A t \in Slot : handle(t)' \notin DOMAIN log' =>
            jobs'[t].successors.head \notin EdgeSlot /\ jobs'[t].signals.head \notin EdgeSlot
      BY <1>7, <1>9, <1>13, <1>21 DEF UsedInv
    <3>3. \A w \in Workers : worker'[w].at = "idle" => worker'[w].job = ZeroHandle
      BY <1>1, <1>21 DEF UsedInv
    <3> QED BY <3>1, <3>2, <3>3 DEF UsedInv
  <2>5. OrderInv'
    <3>1. h \notin y.deps
      BY <1>2, <1>3, <1>5, <1>8
    <3>2. \A k \in DOMAIN log : h \notin log[k].deps
      <4>1. PICK own : SuccessorsOwned(own)
        BY <1>0 DEF SuccessorsInv
      <4>2. \A k \in DOMAIN log : \A d \in log[k].deps : d = ZeroHandle \/ d \in DOMAIN log
        BY <4>1 DEF SuccessorsOwned
      <4> QED BY <1>5, <4>2
    <3>3. ASSUME NEW S \in SUBSET DOMAIN log', S # {}
          PROVE  \E k \in S : log'[k].deps \cap S = {}
      <4>1. CASE S = {h}
        BY <1>9, <3>1, <4>1
      <4>2. CASE S # {h}
        <5>1. S \ {h} \in SUBSET DOMAIN log /\ S \ {h} # {}
          BY <1>9, <3>3, <4>2
        <5>2. PICK k \in S \ {h} : log[k].deps \cap (S \ {h}) = {}
          BY <1>21, <5>1 DEF OrderInv
        <5>3. log'[k].deps = log[k].deps /\ h \notin log[k].deps
          BY <1>9, <3>2, <5>1, <5>2
        <5> QED BY <5>2, <5>3
      <4> QED BY <4>1, <4>2
    <3> QED BY <3>3 DEF OrderInv
  <2> QED BY <2>1, <2>2, <2>3, <2>4, <2>5 DEF FlowInv
<1> QED BY <1>12, <1>14, <1>15, <1>16, <1>17, <1>18, <1>19, <1>20, <1>22, <1>23 DEF IInv

\* The count is raised and an edge taken for it: what was to be linked is
\* being linked.
LEMMA RaiseWaitingKeeps ==
  ASSUME IInv, NEW p \in Publications, RaiseWaiting(p)
  PROVE  IInv'
<1>p. PICK h, s, l, e, x, k :
        /\ h = pub[p].job /\ s = h.slot /\ l = Head(pub[p].todo) /\ e = Last(free.successors)
        /\ x = [noEdge EXCEPT !.successor = s, !.feeds = l.feeds]
        /\ k = [at |-> "load", list |-> "successors", to |-> l.to, edge |-> e, old |-> noWord]
  OBVIOUS
<1>0. /\ Types /\ SlotsInv /\ RunInv /\ WaitInv /\ PubInv /\ LinkInv /\ SignalsInv /\ SuccessorsInv
      /\ jobs \in [Slot -> Jobs] /\ pub \in [Publications -> Pubs] /\ pub[p] \in Pubs
      /\ free \in [jobs : Seq(Slot), successors : Seq(EdgeSlot), signals : Seq(EdgeSlot)]
      /\ edge \in [successors : [EdgeSlot -> Edges], signals : [EdgeSlot -> Edges]]
      /\ linker \in [Goroutines -> Linkers] /\ p \in Goroutines /\ p \notin Notifiers
  BY Apart DEF IInv, Types, Goroutines
<1>1. /\ pub[p].at = "addSuccessor" /\ pub[p].todo # <<>> /\ linker[p].at = "idle"
      /\ free.successors # <<>>
      /\ free' = [free EXCEPT !.successors = Front(free.successors)]
      /\ edge' = [edge EXCEPT !.successors[e] = x]
      /\ linker' = [linker EXCEPT ![p] = k]
      /\ jobs' = [jobs EXCEPT ![s].waiting = jobs[s].waiting + 1]
      /\ pub' = [pub EXCEPT ![p].todo = Tail(pub[p].todo)]
      /\ UNCHANGED <<worker, notifier, arrived, sent, log>>
  BY <1>p DEF RaiseWaiting, beginLink
<1>2. /\ h \in DOMAIN log /\ h \in Handles /\ s \in Slot /\ handle(s) = h /\ held(s)
      /\ log[h].batch = p /\ ~log[h].submitted /\ ~log[h].started /\ ~log[h].done /\ s \notin arrived
  BY <1>p, <1>0, <1>1, PubJob
<1>3. /\ Tail(pub[p].todo) \in Seq(Links) /\ l \in Links /\ l \in ToSet(pub[p].todo)
      /\ ToSet(pub[p].todo) = ToSet(Tail(pub[p].todo)) \cup {l}
  <2>1. PICK q : q = pub[p].todo
    OBVIOUS
  <2>2. q \in Seq(Links) /\ q # <<>> /\ l = Head(q)
    BY <1>p, <1>0, <1>1, <2>1 DEF Pubs
  <2>3. Tail(q) \in Seq(Links) /\ Head(q) \in Links /\ Head(q) \in ToSet(q) /\ ToSet(q) = ToSet(Tail(q)) \cup {Head(q)}
    BY <2>2, Shortened
  <2> QED BY <2>1, <2>2, <2>3
<1>4. l.to \in DOMAIN log /\ l.to \in log[h].deps /\ (l.feeds => l.to = log[h].from)
  <2>1. PICK T : T = ToSet(pub[p].todo)
    OBVIOUS
  <2>2. \A m \in T : m.to \in DOMAIN log /\ m.to \in log[h].deps /\ (m.feeds => m.to = log[h].from)
    BY <1>p, <1>0, <1>1, <2>1 DEF PubInv
  <2> QED BY <1>3, <2>1, <2>2
<1>5. /\ e \in EdgeSlot /\ e \in ToSet(free.successors)
      /\ free' \in [jobs : Seq(Slot), successors : Seq(EdgeSlot), signals : Seq(EdgeSlot)]
      /\ free'.jobs = free.jobs /\ free'.signals = free.signals
      /\ IsInjective(free'.successors) /\ ToSet(free'.successors) = ToSet(free.successors) \ {e}
  <2>1. PICK q, q1 : q = free.successors /\ q1 = Front(q)
    OBVIOUS
  <2>2. q \in Seq(EdgeSlot) /\ q # <<>> /\ IsInjective(q) /\ e = Last(q)
    BY <1>p, <1>0, <1>1, <2>1 DEF WaitInv
  <2>3. /\ q1 \in Seq(EdgeSlot) /\ e \in EdgeSlot /\ e \in ToSet(q)
        /\ IsInjective(q1) /\ ToSet(q1) = ToSet(q) \ {e}
    BY <2>1, <2>2, Taken
  <2>4. free' = [free EXCEPT !.successors = q1]
    BY <1>1, <2>1
  <2>5. /\ free' \in [jobs : Seq(Slot), successors : Seq(EdgeSlot), signals : Seq(EdgeSlot)]
        /\ free'.jobs = free.jobs /\ free'.successors = q1 /\ free'.signals = free.signals
    BY <1>0, <2>3, <2>4, PoolStored
  <2> QED BY <2>1, <2>3, <2>5
<1>6. x \in Edges /\ x.successor = s /\ x.feeds = l.feeds
  BY <1>p, <1>2, <1>3, Initially DEF Edges, Links, noEdge
<1>7. /\ edge' \in [successors : [EdgeSlot -> Edges], signals : [EdgeSlot -> Edges]]
      /\ edge'.successors[e] = x /\ edge'.signals = edge.signals
      /\ \A f \in EdgeSlot : f # e => edge'.successors[f] = edge.successors[f]
  BY <1>0, <1>1, <1>5, <1>6, EdgeFilled, ZenonT(40)
<1>8. /\ k \in Linkers /\ k.at = "load" /\ k.list = "successors" /\ k.to = l.to /\ k.edge = e
  BY <1>p, <1>3, <1>5, Initially DEF Linkers, Links
<1>9. /\ linker' \in [Goroutines -> Linkers]
      /\ \A g \in Goroutines : linker'[g] = IF g = p THEN k ELSE linker[g]
  BY <1>0, <1>1, <1>8
<1>10. /\ jobs' \in [Slot -> Jobs] /\ \A t \in Slot : t # s => jobs'[t] = jobs[t]
       /\ jobs'[s].successors = jobs[s].successors /\ jobs'[s].signals = jobs[s].signals
       /\ jobs'[s].waiting = jobs[s].waiting + 1 /\ jobs'[s].arg = jobs[s].arg
  <2>1. PICK v, J, J1 : v = jobs[s].waiting + 1 /\ J = jobs /\ J1 = jobs'
    OBVIOUS
  <2>2. v \in Int /\ ZeroHandle \in Handles
    BY <1>0, <1>2, <2>1, Initially DEF Jobs
  <2>3. J \in [Slot -> Jobs] /\ J1 = [J EXCEPT ![s].waiting = v]
    BY <1>0, <1>1, <2>1
  <2>4. /\ J1 \in [Slot -> Jobs] /\ \A t \in Slot : t # s => J1[t] = J[t]
        /\ J1[s].successors = J[s].successors /\ J1[s].signals = J[s].signals
        /\ J1[s].waiting = v /\ J1[s].arg = J[s].arg
    BY <1>2, <2>2, <2>3, CountStored
  <2> QED BY <2>1, <2>4
<1>11. /\ pub' \in [Publications -> Pubs]
       /\ \A q \in Publications : q # p => pub'[q] = pub[q]
       /\ pub'[p].at = pub[p].at /\ pub'[p].job = pub[p].job /\ pub'[p].batch = pub[p].batch
       /\ pub'[p].todo = Tail(pub[p].todo)
  <2>1. PICK y, z : y = pub[p] /\ z = [y EXCEPT !.todo = Tail(y.todo)]
    OBVIOUS
  <2>2. z \in Pubs /\ z.at = y.at /\ z.job = y.job /\ z.batch = y.batch /\ z.todo = Tail(y.todo)
    BY <1>0, <1>3, <2>1 DEF Pubs
  <2>3. pub' = [pub EXCEPT ![p] = z]
    BY <1>1, <2>1
  <2> QED BY <1>0, <2>1, <2>2, <2>3
<1>12. Types'
  BY <1>0, <1>1, <1>5, <1>7, <1>9, <1>10, <1>11 DEF Types
<1>13. /\ \A t \in Slot : /\ jobs'[t].successors = jobs[t].successors /\ jobs'[t].signals = jobs[t].signals
                          /\ jobs'[t].arg = jobs[t].arg /\ handle(t)' = handle(t)
       /\ sameLists /\ sameHandles /\ logGrows
  <2>1. \A t \in Slot : /\ jobs'[t].successors = jobs[t].successors /\ jobs'[t].signals = jobs[t].signals
                        /\ jobs'[t].arg = jobs[t].arg
    BY <1>10
  <2> QED BY <1>1, <2>1 DEF sameLists, sameHandles, logGrows, handle
<1>14. SlotsInv' /\ RunInv'
  <2>1. SlotsInv'
    BY <1>0, <1>1, <1>5, <1>13, SlotsKept
  <2>2. RunInv'
    BY <1>0, <1>1, <1>13, RunKept
  <2> QED BY <2>1, <2>2
<1>15. WaitInv'
  <2>1. \A t \in Slot : held(t)' <=> held(t)
    BY <1>1, <1>13 DEF held
  <2>2. waitsFor(s)' = waitsFor(s) \cup {e} /\ e \notin waitsFor(s)
    BY <1>5, <1>6, <1>7 DEF waitsFor
  <2>3. \A t \in Slot : t # s => waitsFor(t)' = waitsFor(t)
    BY <1>5, <1>6, <1>7 DEF waitsFor
  <2>4. Cardinality(waitsFor(s)') = Cardinality(waitsFor(s)) + 1 /\ Cardinality(waitsFor(s)) \in Nat
    BY <2>2, WaitsFinite, FS_AddElement
  <2>5. ASSUME NEW t \in Slot
        PROVE  /\ jobs'[t].waiting = Cardinality(waitsFor(t)') + (IF held(t)' THEN 1 ELSE 0)
               /\ handle(t)' \notin DOMAIN log' => jobs'[t].waiting = 0 /\ t \notin arrived'
               /\ handle(t)' \in DOMAIN log' =>
                    /\ jobs'[t].waiting = 0 <=> t \in arrived' \/ log'[handle(t)'].started
                    /\ ~(t \in arrived' /\ log'[handle(t)'].started)
    <3>1. CASE t = s
      <4>1. jobs[s].waiting = Cardinality(waitsFor(s)) + 1
        BY <1>0, <1>2 DEF WaitInv
      <4>2. jobs'[s].waiting = Cardinality(waitsFor(s)') + 1 /\ jobs'[s].waiting # 0
        BY <1>10, <2>4, <4>1
      <4> QED BY <1>1, <1>2, <1>13, <2>1, <3>1, <4>2
    <3>2. CASE t # s
      <4>1. jobs'[t].waiting = jobs[t].waiting
        BY <1>10, <3>2
      <4> QED BY <1>0, <1>1, <1>13, <2>1, <2>3, <3>2, <4>1 DEF WaitInv
    <3> QED BY <3>1, <3>2
  <2>6. \A f \in EdgeSlot \ ToSet(free'.successors) : edge'.successors[f].successor \in Slot
    BY <1>0, <1>2, <1>5, <1>6, <1>7 DEF WaitInv
  <2>7. IsInjective(free'.successors) /\ IsInjective(free'.signals)
    BY <1>0, <1>5 DEF WaitInv
  <2>8. \A j \in DOMAIN log' : /\ log'[j].done => log'[j].started
                               /\ log'[j].started => log'[j].submitted
    BY <1>0, <1>1 DEF WaitInv
  <2> QED BY <2>5, <2>6, <2>7, <2>8 DEF WaitInv
<1>16. PubInv'
  <2>1. ASSUME NEW q \in Publications
        PROVE  LET me == pub'[q] IN
    /\ \A j \in ToSet(me.batch) : j \in DOMAIN log' /\ log'[j].batch = q /\ ~log'[j].submitted
    /\ IsInjective(me.batch)
    /\ me.at = "addSuccessor" =>
         /\ me.job \in DOMAIN log' /\ log'[me.job].batch = q /\ ~log'[me.job].submitted
         /\ me.job \notin ToSet(me.batch)
         /\ \A m \in ToSet(me.todo) :
              /\ m.to \in DOMAIN log' /\ m.to \in log'[me.job].deps
              /\ m.feeds => m.to = log'[me.job].from
    /\ me.at # "addSuccessor" => me.job = ZeroHandle
    /\ me.at \in {"schedule", "addSuccessor"} =>
         \A j \in DOMAIN log' : log'[j].batch = q => ~log'[j].submitted
    <3>1. /\ pub'[q].at = pub[q].at /\ pub'[q].job = pub[q].job /\ pub'[q].batch = pub[q].batch
          /\ ToSet(pub'[q].todo) \subseteq ToSet(pub[q].todo)
      BY <1>3, <1>11
    <3>2. PICK a, b, c, d : a = pub[q].at /\ b = pub[q].batch /\ c = pub[q].job /\ d = ToSet(pub[q].todo)
      OBVIOUS
    <3>3. /\ \A j \in ToSet(b) : j \in DOMAIN log /\ log[j].batch = q /\ ~log[j].submitted
          /\ IsInjective(b)
          /\ a = "addSuccessor" =>
               /\ c \in DOMAIN log /\ log[c].batch = q /\ ~log[c].submitted
               /\ c \notin ToSet(b)
          /\ a # "addSuccessor" => c = ZeroHandle
          /\ a \in {"schedule", "addSuccessor"} =>
               \A j \in DOMAIN log : log[j].batch = q => ~log[j].submitted
      BY <1>0, <3>2 DEF PubInv
    <3>4. a = "addSuccessor" =>
               \A m \in d : /\ m.to \in DOMAIN log /\ m.to \in log[c].deps
                            /\ m.feeds => m.to = log[c].from
      <4>1. ASSUME a = "addSuccessor"
            PROVE  \A m \in d : m.to \in DOMAIN log /\ m.to \in log[c].deps /\ (m.feeds => m.to = log[c].from)
        <5>1. pub[q].at = "addSuccessor" /\ c = pub[q].job /\ d = ToSet(pub[q].todo)
          BY <3>2, <4>1
        <5> QED BY <1>0, <5>1, PublisherOwes
      <4> QED BY <4>1
    <3> QED BY <1>1, <3>1, <3>2, <3>3, <3>4
  <2> QED BY <2>1 DEF PubInv
<1>17. ASSUME NEW g \in Goroutines, linker[g].at # "idle"
       PROVE  /\ linker'[g] = linker[g]
              /\ g \in Publications => /\ linker[g].edge \in EdgeSlot /\ linker[g].edge # e
                                       /\ linker[g].edge \notin ToSet(free'.successors)
                                       /\ edge'.successors[linker[g].edge] = edge.successors[linker[g].edge]
  <2>1. linker'[g] = linker[g]
    BY <1>1, <1>9, <1>17
  <2>2. ASSUME g \in Publications
        PROVE  linker[g].edge \in EdgeSlot /\ linker[g].edge \notin ToSet(free.successors)
    BY <1>0, <1>17, <2>2 DEF LinkInv
  <2> QED BY <1>5, <1>7, <2>1, <2>2
<1>18. LinkInv'
  <2>1. ASSUME NEW g \in Goroutines
        PROVE  LET me == linker'[g] IN
               /\ me.at = "idle" => me.list = "none"
               /\ me.at # "idle" =>
                    /\ me.list = IF g \in Publications THEN "successors" ELSE "signals"
                    /\ me.to \in DOMAIN log' /\ me.edge \in EdgeSlot
               /\ me.at = "refused" => log'[me.to].done
               /\ me.at = "swap" => me.old.gen = me.to.gen /\ me.old.head # closedList
    <3>1. CASE g = p
      BY <1>1, <1>4, <1>5, <1>8, <1>9, <3>1
    <3>2. CASE g # p
      BY <1>0, <1>1, <1>9, <3>2 DEF LinkInv
    <3> QED BY <3>1, <3>2
  <2>2. ASSUME NEW q \in Publications
        PROVE  LET me == linker'[q] f == edge'.successors[me.edge] IN
               me.at # "idle" =>
                 /\ me.edge \notin ToSet(free'.successors)
                 /\ pub'[q].at = "addSuccessor" /\ f.successor = pub'[q].job.slot
                 /\ me.to \in log'[pub'[q].job].deps /\ (f.feeds => me.to = log'[pub'[q].job].from)
                 /\ me.at = "swap" => f.next = me.old.head
    <3>0. q \in Goroutines
      BY DEF Goroutines
    <3>1. CASE q = p
      <4>1. linker'[q] = k /\ pub'[q].at = "addSuccessor" /\ pub'[q].job = h /\ log' = log
        BY <1>p, <1>1, <1>9, <1>11, <3>0, <3>1
      <4>2. k.at = "load" /\ k.edge = e /\ e \notin ToSet(free'.successors)
        BY <1>5, <1>8
      <4>3. LET f == edge'.successors[e] IN f.successor = h.slot /\ (f.feeds => l.to = log[h].from)
        BY <1>p, <1>4, <1>6, <1>7
      <4> QED BY <1>4, <1>8, <4>1, <4>2, <4>3
    <3>2. CASE q # p
      <4>1. linker'[q] = linker[q] /\ pub'[q] = pub[q]
        BY <1>9, <1>11, <3>0, <3>2
      <4> QED BY <1>0, <1>1, <1>17, <3>0, <4>1 DEF LinkInv
    <3> QED BY <3>1, <3>2
  <2>3. ASSUME NEW n \in Notifiers
        PROVE  LET me == linker'[n] f == edge'.signals[me.edge] IN
               /\ ~notifier'[n].called => me.at = "idle" /\ n \notin sent' /\ notifier'[n].job = ZeroHandle
               /\ notifier'[n].job = ZeroHandle \/ notifier'[n].job \in DOMAIN log'
               /\ me.at # "idle" =>
                    /\ me.edge \notin ToSet(free'.signals)
                    /\ f.signal = {n} /\ me.to = notifier'[n].job
                    /\ me.at = "swap" => f.next = me.old.head
    <3>1. linker'[n] = linker[n]
      BY <1>0, <1>9 DEF Goroutines
    <3>2. /\ ~notifier[n].called => linker[n].at = "idle" /\ n \notin sent /\ notifier[n].job = ZeroHandle
          /\ notifier[n].job = ZeroHandle \/ notifier[n].job \in DOMAIN log
      BY <1>0 DEF LinkInv
    <3>3. PICK f : f = edge.signals[linker[n].edge]
      OBVIOUS
    <3>4. linker[n].at # "idle" =>
            /\ linker[n].edge \notin ToSet(free.signals) /\ f.signal = {n} /\ linker[n].to = notifier[n].job
            /\ linker[n].at = "swap" => f.next = linker[n].old.head
      BY <1>0, <3>3 DEF LinkInv
    <3> QED BY <1>1, <1>5, <1>7, <3>1, <3>2, <3>3, <3>4
  <2>4. \A g, j \in Goroutines :
          linker'[g].at # "idle" /\ linker'[g].list = linker'[j].list /\ linker'[g].edge = linker'[j].edge
            => g = j
    <3>1. ASSUME NEW g \in Goroutines, g # p
          PROVE  linker'[g].list = "successors" => linker'[g].edge # e
      <4>1. linker[g].list = "successors" => g \in Publications /\ linker[g].at # "idle"
        BY <1>0 DEF LinkInv
      <4> QED BY <1>9, <1>17, <3>1, <4>1
    <3>2. ASSUME NEW g \in Goroutines, NEW j \in Goroutines, linker'[g].at # "idle",
                 linker'[g].list = linker'[j].list, linker'[g].edge = linker'[j].edge
          PROVE  g = j
      <4>1. CASE g = p
        BY <1>8, <1>9, <3>1, <3>2, <4>1
      <4>2. CASE g # p /\ j = p
        BY <1>8, <1>9, <3>1, <3>2, <4>2
      <4>3. CASE g # p /\ j # p
        BY <1>0, <1>9, <3>2, <4>3 DEF LinkInv
      <4> QED BY <4>1, <4>2, <4>3
    <3> QED BY <3>2
  <2> QED BY <2>1, <2>2, <2>3, <2>4 DEF LinkInv
<1>19. SignalsInv'
  <2>1. \A n \in Notifiers : linker'[n] = linker[n]
    BY <1>0, <1>9 DEF Goroutines
  <2> QED BY <1>0, <1>1, <1>5, <1>7, <1>13, <2>1, SignalsSame
<1>20. linkedSuccessors' = linkedSuccessors /\ e \notin linkedSuccessors
  <2>1. e \notin linkedSuccessors
    BY <1>5 DEF linkedSuccessors
  <2>2. \A q \in Publications : q # p => linker'[q] = linker[q]
    BY <1>9 DEF Goroutines
  <2>3. \A f \in EdgeSlot :
          (\A q \in Publications : linker'[q].at # "idle" => linker'[q].edge # f)
            <=> f # e /\ \A q \in Publications : linker[q].at # "idle" => linker[q].edge # f
    <3>1. linker'[p] = k
      BY <1>0, <1>9
    <3> QED BY <1>1, <1>8, <2>2, <3>1
  <2> QED BY <1>5, <2>1, <2>3 DEF linkedSuccessors
<1>21. SuccessorsInv'
  <2>1. PICK own \in [EdgeSlot -> Handles] : SuccessorsOwned(own) /\ FedOwned(own)
    BY <1>0 DEF SuccessorsInv
  <2>2. \A f \in linkedSuccessors : f \in EdgeSlot /\ edge'.successors[f] = edge.successors[f]
    BY <1>7, <1>20 DEF linkedSuccessors
  <2>3. Chained(edge'.successors, linkedSuccessors', own, successorHeads')
    <3>1. \A y \in EdgeSlot, j \in Handles : <<y, j>> \in successorHeads' => <<y, j>> \in successorHeads
      <4>1. \A t \in Slot : <<jobs'[t].successors.head, handle(t)'>> \in successorHeads
        BY <1>13 DEF successorHeads
      <4>2. \A w \in Workers : <<worker'[w].successors, worker'[w].job>> \in successorHeads
        BY <1>1 DEF successorHeads
      <4> QED BY <4>1, <4>2, SuccessorHeadsKept
    <3>2. Chained(edge.successors, linkedSuccessors, own, successorHeads)
      BY <2>1 DEF SuccessorsOwned
    <3> QED BY <1>20, <2>2, <3>1, <3>2, ChainKept
  <2>4. ASSUME NEW f \in linkedSuccessors'
        PROVE  Waits(own, f)'
    <3>1. f \in linkedSuccessors /\ Waits(own, f) /\ edge.successors[f].successor \in Slot
      BY <1>0, <1>20, <2>1 DEF SuccessorsOwned, WaitInv, linkedSuccessors
    <3> QED BY <1>0, <1>13, <2>2, <3>1, WaitsKept
  <2>5. ASSUME NEW j, NEW d
        PROVE  /\ Pending(own, j, d) => Pending(own, j, d)'
               /\ Feeding(own, j, d) => Feeding(own, j, d)'
    <3>1. ASSUME NEW q \in Publications
          PROVE  /\ pub'[q].job = pub[q].job
                 /\ \A m \in ToSet(pub[q].todo) :
                      \/ m \in ToSet(pub'[q].todo)
                      \/ /\ linker'[q].at # "idle" /\ linker'[q].to = m.to
                         /\ edge'.successors[linker'[q].edge].feeds = m.feeds
                 /\ linker[q].at # "idle" =>
                      /\ linker'[q].at # "idle" /\ linker'[q].to = linker[q].to
                      /\ edge'.successors[linker'[q].edge].feeds = edge.successors[linker[q].edge].feeds
      <4>0. q \in Goroutines
        BY DEF Goroutines
      <4>1. CASE q = p
        BY <1>1, <1>3, <1>6, <1>7, <1>8, <1>9, <1>11, <4>0, <4>1
      <4>2. CASE q # p
        BY <1>11, <1>17, <4>0, <4>2
      <4> QED BY <4>1, <4>2
    <3> QED BY <1>20, <2>2, <3>1, PendingKept
  <2>6. ASSUME NEW j \in DOMAIN log
        PROVE  FedInBatch(own, j)'
    <3>1. PICK f : f = log[j].from
      OBVIOUS
    <3>2. j.slot \in Slot /\ jobs'[j.slot].arg = jobs[j.slot].arg
      BY <1>0, <1>13 DEF SlotsInv
    <3>3. log[j].from = ZeroHandle \/ log[j].from \in DOMAIN log
      BY <2>1 DEF FedOwned, SuccessorsOwned
    <3>4. FedInBatch(own, j)
      BY <2>1 DEF FedOwned
    <3>5. Feeding(own, j, f) => Feeding(own, j, f)'
      BY <2>5
    <3> QED BY <1>1, <1>13, <3>1, <3>2, <3>3, <3>4, <3>5, BatchKept
  <2>7. ASSUME NEW w \in Workers, worker'[w].at = "lower"
        PROVE  LET f == edge'.successors[worker'[w].successors] IN
               f.feeds => jobs'[f.successor].arg = worker'[w].result
    <3>1. PICK y, f : y = worker[w].successors /\ f = edge.successors[y]
      OBVIOUS
    <3>2. y \in linkedSuccessors /\ f.successor \in Slot
      <4>1. worker[w].successors # None
        BY <1>0, <1>1, <2>7 DEF RunInv
      <4> QED BY <1>0, <2>1, <3>1, <4>1, LowerLinked
    <3>3. f.feeds => jobs[f.successor].arg = worker[w].result
      BY <1>1, <2>1, <2>7, <3>1 DEF FedOwned
    <3> QED BY <1>1, <1>13, <2>2, <3>1, <3>2, <3>3
  <2>8. \A t \in Slot : jobs'[t].arg = jobs[t].arg /\ handle(t)' = handle(t)
    BY <1>13
  <2>9. DOMAIN log' = DOMAIN log /\ \A j \in DOMAIN log : log'[j].started = log[j].started
    BY <1>1
  <2> QED BY <1>13, <2>1, <2>3, <2>4, <2>5, <2>6, <2>7, <2>8, <2>9, SuccessorsMoved
<1>22. SuccessorsReached /\ SignalsReached /\ FlowInv
  BY DEF IInv
<1>23. SuccessorsReached' /\ SignalsReached' /\ linkedSignals' = linkedSignals
  <2>1. linkedSignals' = linkedSignals
    <3>1. \A n \in Notifiers : linker'[n] = linker[n]
      BY <1>0, <1>9 DEF Goroutines
    <3> QED BY <1>5, <3>1 DEF linkedSignals
  <2>2. \A f \in linkedSuccessors : edge'.successors[f].next = edge.successors[f].next
    BY <1>7, <1>20 DEF linkedSuccessors
  <2> QED BY <1>1, <1>7, <1>13, <1>20, <1>22, <2>1, <2>2, ReachStays
<1>24. FlowInv'
  <2>1. \A q \in Publications : /\ pub'[q].batch = pub[q].batch /\ pub'[q].at = pub[q].at
                                /\ pub'[q].job = pub[q].job
    BY <1>11
  <2>2. \A n \in Notifiers : linker'[n] = linker[n]
    BY <1>0, <1>9 DEF Goroutines
  <2> QED BY <1>1, <1>5, <1>7, <1>13, <1>22, <1>23, <2>1, <2>2, FlowKept
<1> QED BY <1>12, <1>14, <1>15, <1>16, <1>18, <1>19, <1>21, <1>23, <1>24 DEF IInv

\* A refused link is over: the count is lowered again and the edge put back.
LEMMA RefuseSuccessorKeeps ==
  ASSUME IInv, NEW p \in Publications, RefuseSuccessor(p)
  PROVE  IInv'
<1>p. PICK h, s, e, to : h = pub[p].job /\ s = h.slot /\ e = linker[p].edge /\ to = linker[p].to
  OBVIOUS
<1>0. /\ Types /\ SlotsInv /\ RunInv /\ WaitInv /\ PubInv /\ LinkInv /\ SignalsInv /\ SuccessorsInv
      /\ jobs \in [Slot -> Jobs]
      /\ free \in [jobs : Seq(Slot), successors : Seq(EdgeSlot), signals : Seq(EdgeSlot)]
      /\ linker \in [Goroutines -> Linkers] /\ p \in Goroutines /\ p \notin Notifiers
  BY Apart DEF IInv, Types, Goroutines
<1>1. linker[p].at = "refused" /\ linker[p].list = "successors"
  BY <1>0 DEF RefuseSuccessor, endRefused, LinkInv
<1>2. /\ free' = [free EXCEPT !.successors = Append(free.successors, e)]
      /\ linker' = [linker EXCEPT ![p] = notLinking]
      /\ jobs' = [jobs EXCEPT ![s].waiting = jobs[s].waiting - 1]
      /\ UNCHANGED <<edge, pub, worker, notifier, arrived, sent, log>>
  BY <1>p, <1>1 DEF RefuseSuccessor, endRefused, Release
<1>3. /\ e \in EdgeSlot /\ e \notin ToSet(free.successors) /\ edge.successors[e].successor = s
      /\ pub[p].at = "addSuccessor" /\ log[to].done
  BY <1>p, <1>0, <1>1 DEF LinkInv
<1>4. /\ h \in DOMAIN log /\ h \in Handles /\ s \in Slot /\ handle(s) = h /\ held(s)
      /\ log[h].batch = p /\ ~log[h].submitted /\ ~log[h].started /\ ~log[h].done /\ s \notin arrived
  BY <1>p, <1>0, <1>3, PubJob
<1>5. /\ free' \in [jobs : Seq(Slot), successors : Seq(EdgeSlot), signals : Seq(EdgeSlot)]
      /\ free'.jobs = free.jobs /\ free'.signals = free.signals
      /\ IsInjective(free'.successors) /\ ToSet(free'.successors) = ToSet(free.successors) \cup {e}
  <2>1. PICK q, q1 : q = free.successors /\ q1 = Append(q, e)
    OBVIOUS
  <2>2. q \in Seq(EdgeSlot) /\ IsInjective(q) /\ e \notin ToSet(q)
    BY <1>0, <1>3, <2>1 DEF WaitInv
  <2>3. q1 \in Seq(EdgeSlot) /\ IsInjective(q1) /\ ToSet(q1) = ToSet(q) \cup {e}
    BY <1>3, <2>1, <2>2, PutBack
  <2>4. free' = [free EXCEPT !.successors = q1]
    BY <1>2, <2>1
  <2>5. /\ free' \in [jobs : Seq(Slot), successors : Seq(EdgeSlot), signals : Seq(EdgeSlot)]
        /\ free'.jobs = free.jobs /\ free'.successors = q1 /\ free'.signals = free.signals
    BY <1>0, <2>3, <2>4, PoolStored
  <2> QED BY <2>1, <2>3, <2>5
<1>6. /\ linker' \in [Goroutines -> Linkers]
      /\ \A g \in Goroutines : linker'[g] = IF g = p THEN notLinking ELSE linker[g]
  BY <1>0, <1>2, Initially
<1>7. /\ jobs' \in [Slot -> Jobs] /\ \A t \in Slot : t # s => jobs'[t] = jobs[t]
      /\ jobs'[s].successors = jobs[s].successors /\ jobs'[s].signals = jobs[s].signals
      /\ jobs'[s].waiting = jobs[s].waiting - 1 /\ jobs'[s].arg = jobs[s].arg
  <2>1. PICK v, J, J1 : v = jobs[s].waiting - 1 /\ J = jobs /\ J1 = jobs'
    OBVIOUS
  <2>2. v \in Int /\ ZeroHandle \in Handles
    BY <1>0, <1>4, <2>1, Initially DEF Jobs
  <2>3. J \in [Slot -> Jobs] /\ J1 = [J EXCEPT ![s].waiting = v]
    BY <1>0, <1>2, <2>1
  <2>4. /\ J1 \in [Slot -> Jobs] /\ \A t \in Slot : t # s => J1[t] = J[t]
        /\ J1[s].successors = J[s].successors /\ J1[s].signals = J[s].signals
        /\ J1[s].waiting = v /\ J1[s].arg = J[s].arg
    BY <1>4, <2>2, <2>3, CountStored
  <2> QED BY <2>1, <2>4
<1>8. Types'
  BY <1>0, <1>2, <1>5, <1>6, <1>7 DEF Types
<1>9. /\ \A t \in Slot : /\ jobs'[t].successors = jobs[t].successors /\ jobs'[t].signals = jobs[t].signals
                         /\ jobs'[t].arg = jobs[t].arg /\ handle(t)' = handle(t)
      /\ sameLists /\ sameHandles /\ logGrows
  <2>1. \A t \in Slot : /\ jobs'[t].successors = jobs[t].successors /\ jobs'[t].signals = jobs[t].signals
                        /\ jobs'[t].arg = jobs[t].arg
    BY <1>7
  <2> QED BY <1>2, <2>1 DEF sameLists, sameHandles, logGrows, handle
<1>10. SlotsInv' /\ RunInv' /\ PubInv'
  <2>1. SlotsInv'
    BY <1>0, <1>2, <1>5, <1>9, SlotsKept
  <2>2. RunInv'
    BY <1>0, <1>2, <1>9, RunKept
  <2>3. PubInv'
    BY <1>0, <1>2, <1>9, PubKept
  <2> QED BY <2>1, <2>2, <2>3
<1>11. WaitInv'
  <2>1. \A t \in Slot : held(t)' <=> held(t)
    BY <1>2, <1>9 DEF held
  <2>2. waitsFor(s)' = waitsFor(s) \ {e} /\ e \in waitsFor(s)
    BY <1>2, <1>3, <1>5 DEF waitsFor
  <2>3. \A t \in Slot : t # s => waitsFor(t)' = waitsFor(t)
    BY <1>2, <1>3, <1>5 DEF waitsFor
  <2>4. /\ Cardinality(waitsFor(s)') = Cardinality(waitsFor(s)) - 1
        /\ Cardinality(waitsFor(s)) \in Nat /\ Cardinality(waitsFor(s)') \in Nat
    <3>1. IsFiniteSet(waitsFor(s)) /\ Cardinality(waitsFor(s)) \in Nat
      BY WaitsFinite
    <3>2. Cardinality(waitsFor(s) \ {e}) = Cardinality(waitsFor(s)) - 1 /\ IsFiniteSet(waitsFor(s) \ {e})
      BY <2>2, <3>1, FS_RemoveElement
    <3>3. Cardinality(waitsFor(s) \ {e}) \in Nat
      BY <3>2, FS_CardinalityType
    <3> QED BY <2>2, <3>1, <3>2, <3>3
  <2>5. ASSUME NEW t \in Slot
        PROVE  /\ jobs'[t].waiting = Cardinality(waitsFor(t)') + (IF held(t)' THEN 1 ELSE 0)
               /\ handle(t)' \notin DOMAIN log' => jobs'[t].waiting = 0 /\ t \notin arrived'
               /\ handle(t)' \in DOMAIN log' =>
                    /\ jobs'[t].waiting = 0 <=> t \in arrived' \/ log'[handle(t)'].started
                    /\ ~(t \in arrived' /\ log'[handle(t)'].started)
    <3>1. CASE t = s
      <4>1. jobs[s].waiting = Cardinality(waitsFor(s)) + 1
        BY <1>0, <1>4 DEF WaitInv
      <4>2. jobs'[s].waiting = Cardinality(waitsFor(s)') + 1 /\ jobs'[s].waiting # 0
        BY <1>7, <2>4, <4>1
      <4> QED BY <1>2, <1>4, <1>9, <2>1, <3>1, <4>2
    <3>2. CASE t # s
      <4>1. jobs'[t].waiting = jobs[t].waiting
        BY <1>7, <3>2
      <4> QED BY <1>0, <1>2, <1>9, <2>1, <2>3, <3>2, <4>1 DEF WaitInv
    <3> QED BY <3>1, <3>2
  <2>6. \A f \in EdgeSlot \ ToSet(free'.successors) : edge'.successors[f].successor \in Slot
    BY <1>0, <1>2, <1>5 DEF WaitInv
  <2>7. IsInjective(free'.successors) /\ IsInjective(free'.signals)
    BY <1>0, <1>5 DEF WaitInv
  <2>8. \A j \in DOMAIN log' : /\ log'[j].done => log'[j].started
                               /\ log'[j].started => log'[j].submitted
    BY <1>0, <1>2 DEF WaitInv
  <2> QED BY <2>5, <2>6, <2>7, <2>8 DEF WaitInv
<1>12. ASSUME NEW q \in Publications, q # p, linker[q].at # "idle"
       PROVE  /\ linker'[q] = linker[q] /\ linker[q].edge # e
              /\ pub[q].job \in DOMAIN log /\ linker[q].edge \notin ToSet(free'.successors)
  <2>1. q \in Goroutines /\ linker[q].list = "successors"
    BY <1>0, <1>12 DEF LinkInv, Goroutines
  <2>2. linker[q].edge # e
    BY <1>p, <1>0, <1>1, <1>12, <2>1 DEF LinkInv
  <2>3. linker[q].edge \notin ToSet(free.successors) /\ pub[q].at = "addSuccessor"
    BY <1>0, <1>12 DEF LinkInv
  <2>4. pub[q].job \in DOMAIN log
    BY <1>0, <2>3, PubJob
  <2> QED BY <1>5, <1>6, <1>12, <2>1, <2>2, <2>3, <2>4
<1>13. \A n \in Notifiers : linker'[n] = linker[n]
  BY <1>0, <1>6 DEF Goroutines
<1>14. LinkInv'
  <2>1. \A g \in Goroutines : linker'[g] = linker[g] \/ linker'[g] = notLinking
    BY <1>6
  <2>2. ASSUME NEW q \in Publications, linker'[q].at # "idle"
        PROVE  pub[q].job \in DOMAIN log /\ linker[q].edge \notin ToSet(free'.successors)
    <3>1. q # p /\ linker[q].at # "idle"
      BY <1>6, <2>2, Initially DEF Goroutines
    <3> QED BY <1>12, <3>1
  <2>3. ASSUME NEW n \in Notifiers, linker'[n].at # "idle"
        PROVE  linker[n].edge \notin ToSet(free'.signals)
    BY <1>0, <1>5, <1>13, <2>3 DEF LinkInv
  <2> QED BY <1>0, <1>2, <1>9, <2>1, <2>2, <2>3, LinkKept
<1>15. SignalsInv'
  BY <1>0, <1>2, <1>5, <1>9, <1>13, SignalsSame
<1>16. linkedSuccessors' = linkedSuccessors
  <2>1. \A q \in Publications : q # p => linker'[q] = linker[q]
    BY <1>6 DEF Goroutines
  <2>2. linker'[p].at = "idle"
    BY <1>0, <1>6, Initially
  <2>3. \A f \in EdgeSlot : f # e =>
          ((\A q \in Publications : linker'[q].at # "idle" => linker'[q].edge # f)
            <=> \A q \in Publications : linker[q].at # "idle" => linker[q].edge # f)
    BY <1>p, <2>1, <2>2
  <2>4. e \notin linkedSuccessors
    BY <1>p, <1>1 DEF linkedSuccessors
  <2> QED BY <1>5, <2>3, <2>4 DEF linkedSuccessors
<1>17. SuccessorsInv'
  <2>1. \A q \in Publications : linker[q].at # "idle" =>
          linker'[q] = linker[q] \/ log[linker[q].to].done
    BY <1>p, <1>3, <1>12
  <2> QED BY <1>0, <1>2, <1>9, <1>16, <2>1, SuccessorsStay
<1>18. SuccessorsReached /\ SignalsReached /\ FlowInv
  BY DEF IInv
<1>19. SuccessorsReached' /\ SignalsReached' /\ linkedSignals' = linkedSignals
  <2>1. linkedSignals' = linkedSignals
    BY <1>5, <1>13 DEF linkedSignals
  <2> QED BY <1>2, <1>9, <1>16, <1>18, <2>1, ReachStays
<1>20. FlowInv'
  BY <1>2, <1>5, <1>9, <1>13, <1>18, <1>19, FlowKept
<1> QED BY <1>8, <1>10, <1>11, <1>14, <1>15, <1>17, <1>19, <1>20 DEF IInv

\* The job is linked to all it depends on, and joins the batch.
LEMMA addKeeps ==
  ASSUME IInv, NEW p \in Publications, add(p)
  PROVE  IInv'
<1>p. PICK h, b : h = pub[p].job /\ b = pub[p].batch
  OBVIOUS
<1>0. /\ Types /\ SlotsInv /\ RunInv /\ WaitInv /\ PubInv /\ LinkInv /\ SignalsInv /\ SuccessorsInv
      /\ pub \in [Publications -> Pubs] /\ pub[p] \in Pubs
  BY DEF IInv, Types
<1>1. /\ pub[p].at = "addSuccessor" /\ pub[p].todo = <<>> /\ linker[p].at = "idle"
      /\ pub' = [pub EXCEPT ![p].at = "schedule", ![p].job = ZeroHandle, ![p].batch = Append(b, h)]
      /\ UNCHANGED <<jobs, edge, free, linker, worker, notifier, arrived, sent, log>>
  BY <1>p DEF add, graph
<1>2. /\ h \in DOMAIN log /\ h \in Handles /\ log[h].batch = p /\ ~log[h].submitted
  BY <1>p, <1>0, <1>1, PubJob
<1>3. b \in Seq(Handles) /\ IsInjective(b) /\ h \notin ToSet(b)
  BY <1>p, <1>0, <1>1 DEF PubInv, Pubs
<1>4. Append(b, h) \in Seq(Handles) /\ IsInjective(Append(b, h)) /\ ToSet(Append(b, h)) = ToSet(b) \cup {h}
  BY <1>2, <1>3, PutBack
<1>5. /\ pub' \in [Publications -> Pubs]
      /\ \A q \in Publications : q # p => pub'[q] = pub[q]
      /\ pub'[p].at = "schedule" /\ pub'[p].job = ZeroHandle /\ pub'[p].batch = Append(b, h)
      /\ pub'[p].todo = pub[p].todo
  <2>1. PICK y, z : y = pub[p] /\ z = [y EXCEPT !.at = "schedule", !.job = ZeroHandle, !.batch = Append(b, h)]
    OBVIOUS
  <2>2. z \in Pubs /\ z.at = "schedule" /\ z.job = ZeroHandle /\ z.batch = Append(b, h) /\ z.todo = y.todo
    BY <1>0, <1>4, <2>1, Initially DEF Pubs
  <2>3. pub' = [pub EXCEPT ![p] = z]
    BY <1>1, <2>1
  <2> QED BY <1>0, <2>1, <2>2, <2>3
<1>6. Types'
  BY <1>0, <1>1, <1>5 DEF Types
<1>7. sameLists /\ sameHandles /\ logGrows /\ \A t \in Slot : handle(t)' = handle(t)
  BY <1>1 DEF sameLists, sameHandles, logGrows, handle
<1>8. SlotsInv' /\ RunInv' /\ WaitInv'
  <2>1. SlotsInv'
    BY <1>0, <1>1, <1>7, SlotsKept
  <2>2. RunInv'
    BY <1>0, <1>1, <1>7, RunKept
  <2>3. WaitInv'
    <3>1. IsInjective(free.signals) /\ \A k \in DOMAIN log : log[k].done => log[k].started
      BY <1>0 DEF WaitInv
    <3> QED BY <1>0, <1>1, <1>7, <3>1, WaitKept
  <2> QED BY <2>1, <2>2, <2>3
<1>9. PubInv'
  <2>1. /\ \A j \in ToSet(pub'[p].batch) : j \in DOMAIN log' /\ log'[j].batch = p /\ ~log'[j].submitted
        /\ \A j \in DOMAIN log' : log'[j].batch = p => ~log'[j].submitted
    <3>1. \A j \in ToSet(b) : j \in DOMAIN log /\ log[j].batch = p /\ ~log[j].submitted
      BY <1>p, <1>0 DEF PubInv
    <3>2. \A j \in DOMAIN log : log[j].batch = p => ~log[j].submitted
      BY <1>0, <1>1 DEF PubInv
    <3> QED BY <1>1, <1>2, <1>4, <1>5, <3>1, <3>2
  <2>2. ASSUME NEW q \in Publications
        PROVE  LET me == pub'[q] IN
    /\ \A j \in ToSet(me.batch) : j \in DOMAIN log' /\ log'[j].batch = q /\ ~log'[j].submitted
    /\ IsInjective(me.batch)
    /\ me.at = "addSuccessor" =>
         /\ me.job \in DOMAIN log' /\ log'[me.job].batch = q /\ ~log'[me.job].submitted
         /\ me.job \notin ToSet(me.batch)
         /\ \A m \in ToSet(me.todo) :
              /\ m.to \in DOMAIN log' /\ m.to \in log'[me.job].deps
              /\ m.feeds => m.to = log'[me.job].from
    /\ me.at # "addSuccessor" => me.job = ZeroHandle
    /\ me.at \in {"schedule", "addSuccessor"} =>
         \A j \in DOMAIN log' : log'[j].batch = q => ~log'[j].submitted
    <3>1. CASE q # p
      <4>1. pub'[q] = pub[q] /\ log' = log
        BY <1>1, <1>5, <3>1
      <4> QED BY <1>0, <4>1 DEF PubInv
    <3>2. CASE q = p
      BY <1>4, <1>5, <2>1, <3>2
    <3> QED BY <3>1, <3>2
  <2> QED BY <2>2 DEF PubInv
<1>10. LinkInv'
  <2>1. ASSUME NEW q \in Publications, linker'[q].at # "idle"
        PROVE  /\ pub'[q] = pub[q] /\ pub[q].job \in DOMAIN log
               /\ linker[q].edge \notin ToSet(free.successors)
    <3>1. linker[q].at # "idle" /\ q # p
      BY <1>1, <2>1
    <3>2. pub[q].at = "addSuccessor" /\ linker[q].edge \notin ToSet(free.successors)
      BY <1>0, <3>1 DEF LinkInv
    <3> QED BY <1>0, <1>5, <3>1, <3>2, PubJob
  <2>2. ASSUME NEW n \in Notifiers, linker'[n].at # "idle"
        PROVE  linker[n].edge \notin ToSet(free.signals)
    BY <1>0, <1>1, <2>2 DEF LinkInv
  <2> QED BY <1>0, <1>1, <1>7, <2>1, <2>2, LinkKept
<1>11. SignalsInv'
  BY <1>0, <1>1, <1>7, SignalsSame
<1>12. SuccessorsInv'
  <2>1. linkedSuccessors' = linkedSuccessors
    BY <1>1 DEF linkedSuccessors
  <2>2. ToSet(pub[p].todo) = {}
    BY <1>1 DEF ToSet
  <2>3. \A q \in Publications : ToSet(pub[q].todo) # {} \/ linker[q].at # "idle" => pub'[q] = pub[q]
    BY <1>1, <1>5, <2>2
  <2> QED BY <1>0, <1>1, <1>7, <2>1, <2>3, SuccessorsStay
<1>13. SuccessorsReached /\ SignalsReached /\ StartedInv /\ HeldInv /\ ArmedInv /\ UsedInv /\ OrderInv
  BY DEF IInv, FlowInv
<1>14. SuccessorsReached' /\ SignalsReached' /\ linkedSignals' = linkedSignals
  <2>1. linkedSuccessors' = linkedSuccessors /\ linkedSignals' = linkedSignals
    BY <1>1 DEF linkedSuccessors, linkedSignals
  <2> QED BY <1>1, <1>13, <2>1, ReachStays
<1>15. FlowInv'
  <2>1. StartedInv' /\ ArmedInv' /\ UsedInv' /\ OrderInv'
    BY <1>1, <1>7, <1>13, <1>14, StartedKept, ArmedKept, UsedKept, OrderKept
  <2>2. ASSUME NEW k \in DOMAIN log', ~log'[k].submitted
        PROVE  \E r \in Publications : \/ k \in ToSet(pub'[r].batch)
                                       \/ pub'[r].at = "addSuccessor" /\ pub'[r].job = k
    <3>1. PICK r \in Publications : \/ k \in ToSet(pub[r].batch)
                                    \/ pub[r].at = "addSuccessor" /\ pub[r].job = k
      BY <1>1, <1>13, <2>2 DEF HeldInv
    <3>2. CASE r = p
      BY <1>p, <1>4, <1>5, <3>1, <3>2
    <3>3. CASE r # p
      BY <1>5, <3>1, <3>3
    <3> QED BY <3>2, <3>3
  <2>3. HeldInv'
    BY <2>2 DEF HeldInv
  <2> QED BY <2>1, <2>3 DEF FlowInv
<1> QED BY <1>6, <1>8, <1>9, <1>10, <1>11, <1>12, <1>14, <1>15 DEF IInv

\* What the log says of one job is changed.
LEMMA EntryStored ==
  ASSUME Types, NEW h \in DOMAIN log, NEW y \in Entries, log' = [log EXCEPT ![h] = y]
  PROVE  /\ log' \in [DOMAIN log' -> Entries] /\ DOMAIN log' = DOMAIN log
         /\ log'[h] = y /\ \A j \in DOMAIN log : j # h => log'[j] = log[j]
<1>1. log \in [DOMAIN log -> Entries]
  BY DEF Types
<1> QED BY <1>1

\* The hold of the batch's next job is released.
LEMMA submitKeeps ==
  ASSUME IInv, NEW p \in Publications, submit(p)
  PROVE  IInv'
<1>p. PICK b, h, s : b = pub[p].batch /\ h = Head(b) /\ s = h.slot
  OBVIOUS
<1>0. /\ Types /\ SlotsInv /\ RunInv /\ WaitInv /\ PubInv /\ LinkInv /\ SignalsInv /\ SuccessorsInv
      /\ jobs \in [Slot -> Jobs] /\ pub \in [Publications -> Pubs] /\ pub[p] \in Pubs
      /\ log \in [DOMAIN log -> Entries] /\ arrived \subseteq Slot
  BY DEF IInv, Types
<1>1. /\ pub[p].at \in {"schedule", "submit"} /\ b # <<>>
      /\ jobs' = [jobs EXCEPT ![s].waiting = jobs[s].waiting - 1]
      /\ arrived' = IF jobs[s].waiting = 1 THEN arrived \cup {s} ELSE arrived
      /\ log' = [log EXCEPT ![h].submitted = TRUE]
      /\ UNCHANGED <<edge, free, linker, worker, notifier, sent>>
  BY <1>p DEF submit, lowerWaiting
<1>2. /\ Tail(b) \in Seq(Handles) /\ h \in ToSet(b) /\ ToSet(b) = ToSet(Tail(b)) \cup {h}
      /\ IsInjective(Tail(b)) /\ h \notin ToSet(Tail(b))
  <2>1. b \in Seq(Handles) /\ IsInjective(b)
    BY <1>p, <1>0 DEF PubInv, Pubs
  <2> QED BY <1>p, <1>1, <2>1, Shortened
<1>3. h \in DOMAIN log /\ log[h].batch = p /\ ~log[h].submitted
  BY <1>p, <1>0, <1>2 DEF PubInv
<1>4. /\ h \in Handles /\ s \in Slot /\ handle(s) = h
      /\ ~log[h].started /\ ~log[h].done /\ held(s) /\ s \notin arrived
      /\ jobs[s].waiting = Cardinality(waitsFor(s)) + 1
  BY <1>p, <1>0, <1>3, Unsubmitted
<1>5. /\ pub' \in [Publications -> Pubs]
      /\ \A q \in Publications : q # p => pub'[q] = pub[q]
      /\ pub'[p].at \in {"done", "submit"} /\ pub'[p].job = pub[p].job /\ pub'[p].batch = Tail(b)
      /\ pub'[p].todo = pub[p].todo
  <2>1. PICK a, y, z : /\ a = (IF Len(b) = 1 THEN "done" ELSE "submit")
                       /\ y = pub[p] /\ z = [y EXCEPT !.at = a, !.batch = Tail(b)]
    OBVIOUS
  <2>2. a \in {"done", "submit"}
    BY <2>1
  <2>3. z \in Pubs /\ z.at = a /\ z.job = y.job /\ z.batch = Tail(b) /\ z.todo = y.todo
    BY <1>0, <1>2, <2>1, <2>2 DEF Pubs
  <2>4. pub' = [pub EXCEPT ![p].at = a, ![p].batch = Tail(b)]
    BY <1>p, <2>1 DEF submit
  <2>5. pub' = [pub EXCEPT ![p] = z]
    BY <2>1, <2>4
  <2> QED BY <1>0, <2>1, <2>2, <2>3, <2>5
<1>6. /\ log' \in [DOMAIN log' -> Entries] /\ DOMAIN log' = DOMAIN log
      /\ \A j \in DOMAIN log : j # h => log'[j] = log[j]
      /\ \A j \in DOMAIN log :
           /\ log'[j].batch = log[j].batch /\ log'[j].deps = log[j].deps /\ log'[j].from = log[j].from
           /\ log'[j].started = log[j].started /\ log'[j].arg = log[j].arg
           /\ log'[j].done = log[j].done /\ log'[j].result = log[j].result
      /\ log'[h].submitted
  <2>1. PICK x, y : x = log[h] /\ y = [x EXCEPT !.submitted = TRUE]
    OBVIOUS
  <2>2. /\ y \in Entries /\ y.submitted
        /\ y.batch = x.batch /\ y.deps = x.deps /\ y.from = x.from
        /\ y.started = x.started /\ y.arg = x.arg /\ y.done = x.done /\ y.result = x.result
    BY <1>0, <1>3, <2>1 DEF Entries
  <2>3. log' = [log EXCEPT ![h] = y]
    BY <1>1, <2>1
  <2>4. /\ log' \in [DOMAIN log' -> Entries] /\ DOMAIN log' = DOMAIN log
        /\ log'[h] = y /\ \A j \in DOMAIN log : j # h => log'[j] = log[j]
    BY <1>0, <1>3, <2>2, <2>3, EntryStored
  <2> QED BY <1>3, <2>1, <2>2, <2>4
<1>7. /\ jobs' \in [Slot -> Jobs] /\ \A t \in Slot : t # s => jobs'[t] = jobs[t]
      /\ jobs'[s].successors = jobs[s].successors /\ jobs'[s].signals = jobs[s].signals
      /\ jobs'[s].waiting = jobs[s].waiting - 1 /\ jobs'[s].arg = jobs[s].arg
  <2>1. PICK v, J, J1 : v = jobs[s].waiting - 1 /\ J = jobs /\ J1 = jobs'
    OBVIOUS
  <2>2. v \in Int /\ ZeroHandle \in Handles
    BY <1>0, <1>4, <2>1, Initially DEF Jobs
  <2>3. J \in [Slot -> Jobs] /\ J1 = [J EXCEPT ![s].waiting = v]
    BY <1>0, <1>1, <2>1
  <2>4. /\ J1 \in [Slot -> Jobs] /\ \A t \in Slot : t # s => J1[t] = J[t]
        /\ J1[s].successors = J[s].successors /\ J1[s].signals = J[s].signals
        /\ J1[s].waiting = v /\ J1[s].arg = J[s].arg
    BY <1>4, <2>2, <2>3, CountStored
  <2> QED BY <2>1, <2>4
<1>8. Types'
  <2>1. arrived' \subseteq Slot
    BY <1>0, <1>1, <1>4
  <2>2. DOMAIN log' \subseteq Handles
    BY <1>0, <1>6 DEF Types
  <2> QED BY <1>0, <1>1, <1>5, <1>6, <1>7, <2>1, <2>2 DEF Types
<1>9. /\ \A t \in Slot : /\ jobs'[t].successors = jobs[t].successors /\ jobs'[t].signals = jobs[t].signals
                         /\ jobs'[t].arg = jobs[t].arg /\ handle(t)' = handle(t)
      /\ sameLists /\ sameHandles /\ logGrows
  <2>1. \A t \in Slot : /\ jobs'[t].successors = jobs[t].successors /\ jobs'[t].signals = jobs[t].signals
                        /\ jobs'[t].arg = jobs[t].arg
    BY <1>7
  <2>2. logGrows
    <3>1. \A j \in DOMAIN log : log[j].submitted => log'[j].submitted
      BY <1>6
    <3> QED BY <1>6, <3>1 DEF logGrows
  <2> QED BY <2>1, <2>2 DEF sameLists, sameHandles, handle
<1>10. SlotsInv' /\ RunInv'
  <2>1. SlotsInv'
    BY <1>0, <1>1, <1>6, <1>9, SlotsKept
  <2>2. RunInv'
    BY <1>0, <1>1, <1>6, <1>9, RunKept
  <2> QED BY <2>1, <2>2
<1>11. WaitInv'
  <2>1. \A t \in Slot : waitsFor(t)' = waitsFor(t)
    BY <1>1 DEF waitsFor
  <2>2. ~held(s)'
    BY <1>4, <1>6, <1>9 DEF held
  <2>3. Cardinality(waitsFor(s)) \in Nat
    BY WaitsFinite
  <2>4. ASSUME NEW t \in Slot
        PROVE  /\ jobs'[t].waiting = Cardinality(waitsFor(t)') + (IF held(t)' THEN 1 ELSE 0)
               /\ handle(t)' \notin DOMAIN log' => jobs'[t].waiting = 0 /\ t \notin arrived'
               /\ handle(t)' \in DOMAIN log' =>
                    /\ jobs'[t].waiting = 0 <=> t \in arrived' \/ log'[handle(t)'].started
                    /\ ~(t \in arrived' /\ log'[handle(t)'].started)
    <3>1. CASE t = s
      <4>1. jobs'[s].waiting = Cardinality(waitsFor(s))
        BY <1>4, <1>7, <2>3
      <4>2. jobs'[s].waiting = 0 <=> s \in arrived'
        BY <1>1, <1>4, <2>3, <4>1
      <4>3. handle(s)' = h /\ h \in DOMAIN log' /\ ~log'[h].started
        BY <1>3, <1>4, <1>6, <1>9
      <4> QED BY <2>1, <2>2, <2>3, <3>1, <4>1, <4>2, <4>3
    <3>2. CASE t # s
      <4>1. jobs'[t].waiting = jobs[t].waiting /\ (t \in arrived' <=> t \in arrived)
        BY <1>1, <1>7, <3>2
      <4>2. handle(t)' = handle(t) /\ handle(t) # h
        BY <1>p, <1>9, <3>2 DEF handle
      <4>3. held(t)' <=> held(t)
        BY <1>6, <4>2 DEF held
      <4> QED BY <1>0, <1>6, <2>1, <4>1, <4>2, <4>3 DEF WaitInv
    <3> QED BY <3>1, <3>2
  <2>5. \A j \in DOMAIN log' : /\ log'[j].done => log'[j].started
                               /\ log'[j].started => log'[j].submitted
    BY <1>0, <1>6 DEF WaitInv
  <2>6. /\ IsInjective(free'.successors) /\ IsInjective(free'.signals)
        /\ \A f \in EdgeSlot \ ToSet(free'.successors) : edge'.successors[f].successor \in Slot
    BY <1>0, <1>1 DEF WaitInv
  <2> QED BY <2>4, <2>5, <2>6 DEF WaitInv
<1>12. PubInv'
  <2>1. ASSUME NEW q \in Publications, q # p
        PROVE  LET me == pub'[q] IN
    /\ \A j \in ToSet(me.batch) : j \in DOMAIN log' /\ log'[j].batch = q /\ ~log'[j].submitted
    /\ IsInjective(me.batch)
    /\ me.at = "addSuccessor" =>
         /\ me.job \in DOMAIN log' /\ log'[me.job].batch = q /\ ~log'[me.job].submitted
         /\ me.job \notin ToSet(me.batch)
         /\ \A m \in ToSet(me.todo) :
              /\ m.to \in DOMAIN log' /\ m.to \in log'[me.job].deps
              /\ m.feeds => m.to = log'[me.job].from
    /\ me.at # "addSuccessor" => me.job = ZeroHandle
    /\ me.at \in {"schedule", "addSuccessor"} =>
         \A j \in DOMAIN log' : log'[j].batch = q => ~log'[j].submitted
    <3>1. pub'[q] = pub[q]
      BY <1>5, <2>1
    <3>2. PICK a, c, j0, T : /\ a = pub[q].at /\ c = pub[q].batch /\ j0 = pub[q].job
                             /\ T = ToSet(pub[q].todo)
      OBVIOUS
    <3>3. /\ \A j \in ToSet(c) : j \in DOMAIN log' /\ log'[j].batch = q /\ ~log'[j].submitted
          /\ IsInjective(c)
      BY <1>0, <1>3, <1>6, <2>1, <3>2 DEF PubInv
    <3>4. a = "addSuccessor" =>
            /\ j0 \in DOMAIN log' /\ log'[j0].batch = q /\ ~log'[j0].submitted /\ j0 \notin ToSet(c)
      <4>1. a = "addSuccessor" =>
              /\ j0 \in DOMAIN log /\ log[j0].batch = q /\ ~log[j0].submitted /\ j0 \notin ToSet(c)
        BY <1>0, <3>2 DEF PubInv
      <4> QED BY <1>3, <1>6, <2>1, <4>1
    <3>5. a = "addSuccessor" =>
            \A m \in T : m.to \in DOMAIN log' /\ m.to \in log'[j0].deps /\ (m.feeds => m.to = log'[j0].from)
      <4>1. a = "addSuccessor" =>
              \A m \in T : m.to \in DOMAIN log /\ m.to \in log[j0].deps /\ (m.feeds => m.to = log[j0].from)
        <5>1. ASSUME a = "addSuccessor"
              PROVE  \A m \in T : m.to \in DOMAIN log /\ m.to \in log[j0].deps /\ (m.feeds => m.to = log[j0].from)
          <6>1. pub[q].at = "addSuccessor" /\ j0 = pub[q].job /\ T = ToSet(pub[q].todo)
            BY <3>2, <5>1
          <6> QED BY <1>0, <6>1, PublisherOwes
        <5> QED BY <5>1
      <4>2. a = "addSuccessor" => j0 \in DOMAIN log
        BY <1>0, <3>2 DEF PubInv
      <4> QED BY <1>6, <4>1, <4>2
    <3>6. /\ a # "addSuccessor" => j0 = ZeroHandle
          /\ a \in {"schedule", "addSuccessor"} =>
               \A j \in DOMAIN log' : log'[j].batch = q => ~log'[j].submitted
      BY <1>0, <1>3, <1>6, <2>1, <3>2 DEF PubInv
    <3> QED BY <3>1, <3>2, <3>3, <3>4, <3>5, <3>6
  <2>2. /\ \A j \in ToSet(pub'[p].batch) : j \in DOMAIN log' /\ log'[j].batch = p /\ ~log'[j].submitted
        /\ IsInjective(pub'[p].batch) /\ pub'[p].job = ZeroHandle
    <3>1. \A j \in ToSet(b) : j \in DOMAIN log /\ log[j].batch = p /\ ~log[j].submitted
      BY <1>p, <1>0 DEF PubInv
    <3>2. pub[p].job = ZeroHandle
      BY <1>0, <1>1 DEF PubInv
    <3> QED BY <1>2, <1>5, <1>6, <3>1, <3>2
  <2>3. pub'[p].at \notin {"schedule", "addSuccessor"}
    BY <1>5
  <2>4. \A q \in Publications : q = p \/ q # p
    OBVIOUS
  <2> QED BY <2>1, <2>2, <2>3, <2>4 DEF PubInv
<1>13. LinkInv'
  <2>1. ASSUME NEW q \in Publications, linker'[q].at # "idle"
        PROVE  /\ pub'[q] = pub[q] /\ pub[q].job \in DOMAIN log
               /\ linker[q].edge \notin ToSet(free.successors)
    <3>1. pub[q].at = "addSuccessor" /\ linker[q].edge \notin ToSet(free.successors)
      BY <1>0, <1>1, <2>1 DEF LinkInv
    <3>2. q # p
      BY <1>1, <3>1
    <3> QED BY <1>0, <1>5, <3>1, <3>2, PubJob
  <2>2. ASSUME NEW n \in Notifiers, linker'[n].at # "idle"
        PROVE  linker[n].edge \notin ToSet(free.signals)
    BY <1>0, <1>1, <2>2 DEF LinkInv
  <2> QED BY <1>0, <1>1, <1>9, <2>1, <2>2, LinkKept
<1>14. SignalsInv'
  BY <1>0, <1>1, <1>9, SignalsSame
<1>15. SuccessorsInv'
  <2>1. \A q \in Publications : pub'[q].job = pub[q].job /\ pub'[q].todo = pub[q].todo
    BY <1>5
  <2> QED BY <1>0, <1>1, <1>6, <1>9, <2>1, SuccessorsSame
<1>16. SuccessorsReached /\ SignalsReached /\ StartedInv /\ HeldInv /\ ArmedInv /\ UsedInv /\ OrderInv
  BY DEF IInv, FlowInv
<1>17. SuccessorsReached' /\ SignalsReached' /\ linkedSignals' = linkedSignals
  <2>1. linkedSuccessors' = linkedSuccessors /\ linkedSignals' = linkedSignals
    BY <1>1 DEF linkedSuccessors, linkedSignals
  <2> QED BY <1>1, <1>9, <1>16, <2>1, ReachStays
<1>18. FlowInv'
  <2>1. StartedInv' /\ ArmedInv' /\ UsedInv' /\ OrderInv'
    BY <1>1, <1>6, <1>9, <1>16, <1>17, StartedKept, ArmedKept, UsedKept, OrderKept
  <2>2. ASSUME NEW k \in DOMAIN log', ~log'[k].submitted
        PROVE  \E r \in Publications : \/ k \in ToSet(pub'[r].batch)
                                       \/ pub'[r].at = "addSuccessor" /\ pub'[r].job = k
    <3>1. k \in DOMAIN log /\ k # h /\ ~log[k].submitted
      BY <1>6, <2>2
    <3>2. PICK r \in Publications : \/ k \in ToSet(pub[r].batch)
                                    \/ pub[r].at = "addSuccessor" /\ pub[r].job = k
      BY <1>16, <3>1 DEF HeldInv
    <3>3. CASE r = p
      BY <1>p, <1>1, <1>2, <1>5, <3>1, <3>2, <3>3
    <3>4. CASE r # p
      BY <1>5, <3>2, <3>4
    <3> QED BY <3>3, <3>4
  <2>3. HeldInv'
    BY <2>2 DEF HeldInv
  <2> QED BY <2>1, <2>3 DEF FlowInv
<1> QED BY <1>8, <1>10, <1>11, <1>12, <1>13, <1>14, <1>15, <1>17, <1>18 DEF IInv

-----------------------------------------------------------------------------
(* Workers *)

\* A job whose count is zero has been submitted, and nothing is left that it
\* waits for.
LEMMA NothingPending ==
  ASSUME SlotsInv, WaitInv, PubInv, NEW own, NEW s \in Slot, handle(s) \in DOMAIN log,
         jobs[s].waiting = 0
  PROVE  /\ log[handle(s)].submitted /\ waitsFor(s) = {}
         /\ \A f \in linkedSuccessors : edge.successors[f].successor # s
         /\ \A d : ~Pending(own, handle(s), d) /\ ~Feeding(own, handle(s), d)
<1>1. PICK h : h = handle(s)
  OBVIOUS
<1>2. IsFiniteSet(waitsFor(s)) /\ Cardinality(waitsFor(s)) \in Nat
  BY WaitsFinite
<1>3. ~held(s) /\ Cardinality(waitsFor(s)) = 0
  BY <1>2 DEF WaitInv
<1>4. log[h].submitted
  BY <1>1, <1>3 DEF held
<1>5. waitsFor(s) = {}
  BY <1>2, <1>3, FS_EmptySet
<1>6. \A f \in linkedSuccessors : edge.successors[f].successor # s
  BY <1>5 DEF waitsFor, linkedSuccessors
<1>7. \A p \in Publications : pub[p].job # h
  <2>1. ASSUME NEW p \in Publications, pub[p].job = h PROVE FALSE
    <3>1. pub[p].at # "addSuccessor"
      BY <1>4, <2>1 DEF PubInv
    <3>2. h = ZeroHandle
      BY <2>1, <3>1 DEF PubInv
    <3>3. h.slot = s
      BY <1>1 DEF handle
    <3> QED BY <3>2, <3>3, Initially
  <2> QED BY <2>1
<1>8. h.slot = s
  BY <1>1 DEF handle
<1>9. \A d : ~Pending(own, h, d) /\ ~Feeding(own, h, d)
  BY <1>6, <1>7, <1>8 DEF Pending, Feeding
<1> QED BY <1>1, <1>4, <1>5, <1>6, <1>9

\* A worker's progress is changed.
LEMMA WorkerStored ==
  ASSUME Types, NEW w \in Workers, NEW y \in WorkerStates, worker' = [worker EXCEPT ![w] = y]
  PROVE  /\ worker' \in [Workers -> WorkerStates] /\ worker'[w] = y
         /\ \A v \in Workers : v # w => worker'[v] = worker[v]
<1>1. worker \in [Workers -> WorkerStates]
  BY DEF Types
<1> QED BY <1>1

\* RunInv after a step of worker w: the other workers' jobs stay as they are.
LEMMA RunMoved ==
  ASSUME RunInv, NEW w \in Workers, \A v \in Workers : v # w => worker'[v] = worker[v],
         \A v \in Workers, j \in DOMAIN log : v # w /\ worker[v].at # "idle" /\ j = worker[v].job =>
           /\ j \in DOMAIN log' /\ handle(j.slot)' = j /\ log'[j].started
           /\ log'[j].done = log[j].done /\ log'[j].result = log[j].result
           /\ jobs'[j.slot].signals.head = closedList <=> jobs[j.slot].signals.head = closedList,
         NEW me, me = worker'[w],
         NEW h, h = me.job,
         me.at = "idle" => me.successors = None /\ me.signals = None,
         me.at # "idle" =>
           /\ h \in DOMAIN log' /\ h = handle(h.slot)'
           /\ log'[h].started /\ (log'[h].done <=> me.at # "body")
           /\ \A v \in Workers : v # w /\ worker[v].at # "idle" => worker[v].job # h,
         me.at \in {"body", "closeSignals"} =>
           me.signals = None /\ jobs'[h.slot].signals.head # closedList,
         me.at = "body" => me.successors = None,
         me.at \notin {"idle", "body"} => me.result = log'[h].result,
         me.at \in {"walk", "lower"} => jobs'[h.slot].signals.head = closedList,
         me.at = "lower" => me.successors # None /\ me.signals = None
  PROVE  RunInv'
<1>1. ASSUME NEW v \in Workers, NEW x, x = worker'[v], NEW j, j = x.job
      PROVE  /\ x.at = "idle" => x.successors = None /\ x.signals = None
             /\ x.at # "idle" =>
                  /\ j \in DOMAIN log' /\ j = handle(j.slot)'
                  /\ log'[j].started /\ (log'[j].done <=> x.at # "body")
             /\ x.at \in {"body", "closeSignals"} =>
                  x.signals = None /\ jobs'[j.slot].signals.head # closedList
             /\ x.at = "body" => x.successors = None
             /\ x.at \notin {"idle", "body"} => x.result = log'[j].result
             /\ x.at \in {"walk", "lower"} => jobs'[j.slot].signals.head = closedList
             /\ x.at = "lower" => x.successors # None /\ x.signals = None
  <2>1. CASE v = w
    BY <1>1, <2>1
  <2>2. CASE v # w
    <3>1. x = worker[v]
      BY <1>1, <2>2
    <3>2. CASE x.at = "idle"
      BY <3>1, <3>2 DEF RunInv
    <3>3. CASE x.at # "idle"
      <4>1. /\ j \in DOMAIN log' /\ handle(j.slot)' = j /\ log'[j].started
            /\ log'[j].done = log[j].done /\ log'[j].result = log[j].result
            /\ jobs'[j.slot].signals.head = closedList <=> jobs[j.slot].signals.head = closedList
        <5>1. j \in DOMAIN log
          BY <1>1, <3>1, <3>3 DEF RunInv
        <5> QED BY <1>1, <2>2, <3>1, <3>3, <5>1
      <4>2. /\ log[j].done <=> x.at # "body"
            /\ x.at \in {"body", "closeSignals"} =>
                 x.signals = None /\ jobs[j.slot].signals.head # closedList
            /\ x.at = "body" => x.successors = None
            /\ x.at \notin {"idle", "body"} => x.result = log[j].result
            /\ x.at \in {"walk", "lower"} => jobs[j.slot].signals.head = closedList
            /\ x.at = "lower" => x.successors # None /\ x.signals = None
        BY <1>1, <3>1, <3>3 DEF RunInv
      <4> QED BY <3>3, <4>1, <4>2
    <3> QED BY <3>2, <3>3
  <2> QED BY <2>1, <2>2
<1>2. ASSUME NEW u \in Workers, NEW v \in Workers, worker'[u].at # "idle", worker'[v].at # "idle",
             worker'[u].job = worker'[v].job
      PROVE  u = v
  <2>1. CASE u = w \/ v = w
    BY <1>2, <2>1
  <2>2. CASE u # w /\ v # w
    BY <1>2, <2>2 DEF RunInv
  <2> QED BY <2>1, <2>2
<1> QED BY <1>1, <1>2 DEF RunInv

\* Two workers' jobs have slots of their own.
LEMMA RunApart ==
  ASSUME SlotsInv, RunInv, NEW v \in Workers, NEW w \in Workers, v # w,
         worker[v].at # "idle", worker[w].at # "idle"
  PROVE  /\ worker[v].job \in DOMAIN log /\ worker[v].job.slot \in Slot
         /\ worker[v].job = handle(worker[v].job.slot) /\ log[worker[v].job].started
         /\ worker[v].job.slot # worker[w].job.slot
<1>1. PICK i, j : i = worker[v].job /\ j = worker[w].job
  OBVIOUS
<1>2. i \in DOMAIN log /\ i = handle(i.slot) /\ j = handle(j.slot) /\ i # j /\ log[i].started
  BY <1>1 DEF RunInv
<1>3. i.slot \in Slot
  BY <1>2 DEF SlotsInv
<1> QED BY <1>1, <1>2, <1>3

\* A job that has arrived starts, with the arg it was fed.
LEMMA runJobKeeps ==
  ASSUME IInv, NEW w \in Workers, NEW s \in Slot, runJob(w, s)
  PROVE  IInv'
<1>p. PICK h, a : h = handle(s) /\ a = jobs[s].arg
  OBVIOUS
<1>0. /\ Types /\ SlotsInv /\ RunInv /\ WaitInv /\ PubInv /\ LinkInv /\ SignalsInv /\ SuccessorsInv
      /\ jobs \in [Slot -> Jobs] /\ log \in [DOMAIN log -> Entries] /\ arrived \subseteq Slot
      /\ worker \in [Workers -> WorkerStates] /\ worker[w] \in WorkerStates
  BY DEF IInv, Types
<1>1. /\ worker[w].at = "idle" /\ s \in arrived /\ arrived' = arrived \ {s}
      /\ log' = [log EXCEPT ![h].started = TRUE, ![h].arg = a]
      /\ jobs' = [jobs EXCEPT ![s].arg = ZeroValue]
      /\ worker' = [worker EXCEPT ![w].at = "body", ![w].job = h]
      /\ UNCHANGED <<edge, free, linker, pub, notifier, sent>>
  BY <1>p DEF runJob
<1>2. /\ h \in DOMAIN log /\ jobs[s].waiting = 0 /\ ~log[h].started /\ ~log[h].done
      /\ h.slot = s /\ h \in Handles /\ a \in Handles
  <2>1. h \in DOMAIN log
    BY <1>p, <1>0, <1>1 DEF WaitInv
  <2>2. jobs[s].waiting = 0 /\ ~log[h].started
    BY <1>p, <1>0, <1>1, <2>1 DEF WaitInv
  <2>3. ~log[h].done
    BY <1>0, <2>1, <2>2 DEF WaitInv
  <2>4. h.slot = s /\ h \in Handles /\ a \in Handles
    BY <1>p, <1>0, <2>1 DEF handle, Types, Jobs
  <2> QED BY <2>1, <2>2, <2>3, <2>4
<1>3. log[h].submitted /\ jobs[s].signals.head # closedList
  BY <1>p, <1>0, <1>2, NothingPending DEF SlotsInv
<1>4. /\ log' \in [DOMAIN log' -> Entries] /\ DOMAIN log' = DOMAIN log
      /\ \A j \in DOMAIN log : j # h => log'[j] = log[j]
      /\ log'[h].started /\ log'[h].arg = a
      /\ \A j \in DOMAIN log :
           /\ log'[j].batch = log[j].batch /\ log'[j].deps = log[j].deps /\ log'[j].from = log[j].from
           /\ log'[j].submitted = log[j].submitted
           /\ log'[j].done = log[j].done /\ log'[j].result = log[j].result
  <2>1. PICK x, y : x = log[h] /\ y = [x EXCEPT !.started = TRUE, !.arg = a]
    OBVIOUS
  <2>2. /\ y \in Entries /\ y.started /\ y.arg = a
        /\ y.batch = x.batch /\ y.deps = x.deps /\ y.from = x.from
        /\ y.submitted = x.submitted /\ y.done = x.done /\ y.result = x.result
    BY <1>0, <1>2, <2>1 DEF Entries
  <2>3. log' = [log EXCEPT ![h] = y]
    BY <1>1, <2>1
  <2>4. /\ log' \in [DOMAIN log' -> Entries] /\ DOMAIN log' = DOMAIN log
        /\ log'[h] = y /\ \A j \in DOMAIN log : j # h => log'[j] = log[j]
    BY <1>0, <1>2, <2>2, <2>3, EntryStored
  <2> QED BY <1>2, <2>1, <2>2, <2>4
<1>5. /\ jobs' \in [Slot -> Jobs] /\ \A t \in Slot : t # s => jobs'[t] = jobs[t]
      /\ jobs'[s].successors = jobs[s].successors /\ jobs'[s].signals = jobs[s].signals
      /\ jobs'[s].waiting = jobs[s].waiting /\ jobs'[s].arg = ZeroValue
  <2>1. PICK J, J1 : J = jobs /\ J1 = jobs'
    OBVIOUS
  <2>2. ZeroValue \in Handles /\ 0 \in Int
    BY Initially DEF ZeroValue
  <2>3. J \in [Slot -> Jobs] /\ J1 = [J EXCEPT ![s].arg = ZeroValue]
    BY <1>0, <1>1, <2>1
  <2>4. /\ J1 \in [Slot -> Jobs] /\ \A t \in Slot : t # s => J1[t] = J[t]
        /\ J1[s].signals = J[s].signals /\ J1[s].successors = J[s].successors
        /\ J1[s].waiting = J[s].waiting /\ J1[s].arg = ZeroValue
    BY <2>2, <2>3, CountStored
  <2> QED BY <2>1, <2>4
<1>6. /\ worker' \in [Workers -> WorkerStates] /\ \A v \in Workers : v # w => worker'[v] = worker[v]
      /\ worker'[w].at = "body" /\ worker'[w].job = h
      /\ worker'[w].successors = None /\ worker'[w].signals = None
  <2>1. PICK x, y : x = worker[w] /\ y = [x EXCEPT !.at = "body", !.job = h]
    OBVIOUS
  <2>2. y \in WorkerStates /\ y.at = "body" /\ y.job = h /\ y.successors = x.successors /\ y.signals = x.signals
    BY <1>0, <1>2, <2>1 DEF WorkerStates
  <2>3. x.successors = None /\ x.signals = None
    BY <1>0, <1>1, <2>1 DEF RunInv
  <2>4. worker' = [worker EXCEPT ![w] = y]
    BY <1>1, <2>1
  <2>5. /\ worker' \in [Workers -> WorkerStates] /\ worker'[w] = y
        /\ \A v \in Workers : v # w => worker'[v] = worker[v]
    BY <1>0, <2>2, <2>4, WorkerStored
  <2> QED BY <2>2, <2>3, <2>5
<1>7. Types'
  <2>1. DOMAIN log' \subseteq Handles /\ arrived' \subseteq Slot
    BY <1>0, <1>1, <1>4 DEF Types
  <2> QED BY <1>0, <1>1, <1>4, <1>5, <1>6, <2>1 DEF Types
<1>8. /\ \A t \in Slot : /\ jobs'[t].successors = jobs[t].successors /\ jobs'[t].signals = jobs[t].signals
                         /\ jobs'[t].waiting = jobs[t].waiting /\ handle(t)' = handle(t)
      /\ sameLists /\ sameHandles /\ logGrows
  <2>1. \A t \in Slot : /\ jobs'[t].successors = jobs[t].successors /\ jobs'[t].signals = jobs[t].signals
                        /\ jobs'[t].waiting = jobs[t].waiting
    BY <1>5
  <2>2. logGrows
    <3>1. \A j \in DOMAIN log : log[j].started => log'[j].started /\ log'[j].arg = log[j].arg
      BY <1>2, <1>4
    <3> QED BY <1>4, <3>1 DEF logGrows
  <2> QED BY <2>1, <2>2 DEF sameLists, sameHandles, handle
<1>9. SlotsInv' /\ PubInv'
  <2>1. SlotsInv'
    BY <1>0, <1>1, <1>4, <1>8, SlotsKept
  <2>2. PubInv'
    BY <1>0, <1>1, <1>4, <1>8, PubKept
  <2> QED BY <2>1, <2>2
<1>10. RunInv'
  <2>1. ASSUME NEW v \in Workers, NEW j \in DOMAIN log, v # w, worker[v].at # "idle", j = worker[v].job
        PROVE  /\ j \in DOMAIN log' /\ handle(j.slot)' = j /\ log'[j].started
               /\ log'[j].done = log[j].done /\ log'[j].result = log[j].result
               /\ jobs'[j.slot].signals.head = closedList <=> jobs[j.slot].signals.head = closedList
               /\ j # h
    <3>1. j = handle(j.slot) /\ log[j].started
      BY <1>0, <2>1 DEF RunInv
    <3>2. j.slot \in Slot
      BY <1>0 DEF SlotsInv
    <3>3. j # h /\ log'[j] = log[j]
      BY <1>2, <1>4, <3>1
    <3>4. handle(j.slot)' = j /\ jobs'[j.slot].signals = jobs[j.slot].signals
      BY <1>8, <3>1, <3>2
    <3> QED BY <1>4, <3>1, <3>3, <3>4
  <2>2. PICK me : me = worker'[w]
    OBVIOUS
  <2>3. /\ me.at = "body" /\ h = me.job /\ me.successors = None /\ me.signals = None
        /\ h \in DOMAIN log' /\ h = handle(h.slot)' /\ log'[h].started /\ ~log'[h].done
        /\ jobs'[h.slot].signals.head # closedList
    <3>1. h = handle(h.slot)' /\ jobs'[h.slot].signals.head # closedList
      BY <1>p, <1>2, <1>3, <1>8
    <3> QED BY <1>2, <1>4, <1>6, <2>2, <3>1
  <2>4. \A v \in Workers : v # w /\ worker[v].at # "idle" => worker[v].job # h
    BY <1>0, <2>1 DEF RunInv
  <2> QED BY <1>0, <1>6, <2>1, <2>2, <2>3, <2>4, RunMoved
<1>11. WaitInv'
  <2>1. \A t \in Slot : waitsFor(t)' = waitsFor(t)
    BY <1>1 DEF waitsFor
  <2>2. \A t \in Slot : held(t)' <=> held(t)
    BY <1>4, <1>8 DEF held
  <2>3. ASSUME NEW t \in Slot
        PROVE  /\ jobs'[t].waiting = Cardinality(waitsFor(t)') + (IF held(t)' THEN 1 ELSE 0)
               /\ handle(t)' \notin DOMAIN log' => jobs'[t].waiting = 0 /\ t \notin arrived'
               /\ handle(t)' \in DOMAIN log' =>
                    /\ jobs'[t].waiting = 0 <=> t \in arrived' \/ log'[handle(t)'].started
                    /\ ~(t \in arrived' /\ log'[handle(t)'].started)
    <3>0. jobs'[t].waiting = Cardinality(waitsFor(t)') + (IF held(t)' THEN 1 ELSE 0)
      BY <1>0, <1>8, <2>1, <2>2 DEF WaitInv
    <3>1. CASE t = s
      <4>1. handle(t)' = h /\ jobs'[t].waiting = 0 /\ t \notin arrived'
        BY <1>p, <1>1, <1>2, <1>8, <3>1
      <4> QED BY <1>4, <3>0, <4>1
    <3>2. CASE t # s
      <4>1. handle(t)' = handle(t) /\ handle(t) # h
        BY <1>2, <1>8, <3>2 DEF handle
      <4>2. t \in arrived' <=> t \in arrived
        BY <1>1, <3>2
      <4> QED BY <1>0, <1>4, <1>8, <3>0, <4>1, <4>2 DEF WaitInv
    <3> QED BY <3>1, <3>2
  <2>4. \A j \in DOMAIN log' : /\ log'[j].done => log'[j].started
                               /\ log'[j].started => log'[j].submitted
    BY <1>0, <1>2, <1>3, <1>4 DEF WaitInv
  <2>5. /\ IsInjective(free'.successors) /\ IsInjective(free'.signals)
        /\ \A f \in EdgeSlot \ ToSet(free'.successors) : edge'.successors[f].successor \in Slot
    BY <1>0, <1>1 DEF WaitInv
  <2> QED BY <2>3, <2>4, <2>5 DEF WaitInv
<1>12. LinkInv'
  <2>1. ASSUME NEW q \in Publications, linker'[q].at # "idle"
        PROVE  pub[q].job \in DOMAIN log /\ linker[q].edge \notin ToSet(free.successors)
    BY <1>0, <1>1, <2>1 DEF LinkInv, PubInv
  <2>2. ASSUME NEW n \in Notifiers, linker'[n].at # "idle"
        PROVE  linker[n].edge \notin ToSet(free.signals)
    BY <1>0, <1>1, <2>2 DEF LinkInv
  <2> QED BY <1>0, <1>1, <1>8, <2>1, <2>2, LinkKept
<1>13. SignalsInv'
  <2>1. \A v \in Workers : worker'[v].signals \in EdgeSlot => v # w
    BY <1>6, Initially
  <2> QED BY <1>0, <1>1, <1>6, <1>8, <2>1, SignalsSame
<1>14. SuccessorsInv'
  <2>1. PICK own \in [EdgeSlot -> Handles] : SuccessorsOwned(own) /\ FedOwned(own)
    BY <1>0 DEF SuccessorsInv
  <2>2. linkedSuccessors' = linkedSuccessors
    BY <1>1 DEF linkedSuccessors
  <2>3. Chained(edge'.successors, linkedSuccessors', own, successorHeads')
    <3>1. \A y \in EdgeSlot, j \in Handles : <<y, j>> \in successorHeads' => <<y, j>> \in successorHeads
      <4>1. \A t \in Slot : <<jobs'[t].successors.head, handle(t)'>> \in successorHeads
        BY <1>8 DEF successorHeads
      <4>2. \A v \in Workers : worker'[v].successors \in EdgeSlot =>
              <<worker'[v].successors, worker'[v].job>> \in successorHeads
        BY <1>6, Initially DEF successorHeads
      <4> QED BY <4>1, <4>2, SuccessorHeadsKept
    <3>2. Chained(edge.successors, linkedSuccessors, own, successorHeads)
      BY <2>1 DEF SuccessorsOwned
    <3> QED BY <1>1, <2>2, <3>1, <3>2, ChainKept
  <2>4. \A f \in linkedSuccessors : edge.successors[f].successor \in Slot
    BY <1>0 DEF WaitInv, linkedSuccessors
  <2>5. ASSUME NEW f \in linkedSuccessors'
        PROVE  Waits(own, f)'
    <3>1. f \in linkedSuccessors /\ Waits(own, f)
      BY <2>1, <2>2 DEF SuccessorsOwned
    <3> QED BY <1>0, <1>1, <1>8, <2>4, <3>1, WaitsKept
  <2>6. ASSUME NEW j, NEW d
        PROVE  /\ Pending(own, j, d) => Pending(own, j, d)'
               /\ Feeding(own, j, d) => Feeding(own, j, d)'
    BY <1>1, <2>2, PendingKept
  <2>7. /\ \A d : ~Pending(own, h, d) /\ ~Feeding(own, h, d)
        /\ \A f \in linkedSuccessors : edge.successors[f].successor # s
    BY <1>p, <1>0, <1>2, NothingPending
  <2>8. ASSUME NEW j \in DOMAIN log, NEW d \in DOMAIN log, ~log[j].started, Pending(own, j, d)
        PROVE  ~log'[j].started /\ Pending(own, j, d)'
    BY <1>4, <2>6, <2>7, <2>8
  <2>9. ASSUME NEW j \in DOMAIN log
        PROVE  FedInBatch(own, j)'
    <3>1. PICK f : f = log[j].from
      OBVIOUS
    <3>2. log[j].from = ZeroHandle \/ log[j].from \in DOMAIN log
      BY <2>1 DEF FedOwned, SuccessorsOwned
    <3>3. FedInBatch(own, j)
      BY <2>1 DEF FedOwned
    <3>4. CASE j = h
      <4>1. ASSUME f # ZeroHandle, log[f].batch = log[h].batch
            PROVE  log[f].done /\ a = log[f].result
        BY <1>p, <1>2, <2>7, <3>1, <3>3, <3>4, <4>1 DEF FedInBatch
      <4>2. log'[h].from = f /\ log'[h].batch = log[h].batch
        BY <1>2, <1>4, <3>1, <3>4
      <4>3. ASSUME f # ZeroHandle, log'[f].batch = log'[h].batch
            PROVE  log'[f].done /\ a = log'[f].result
        BY <1>4, <3>1, <3>2, <4>1, <4>2, <4>3
      <4> QED BY <1>4, <3>4, <4>2, <4>3 DEF FedInBatch
    <3>5. CASE j # h
      <4>1. log[j].started \/ jobs'[j.slot].arg = jobs[j.slot].arg
        <5>1. CASE j.slot = s
          <6>1. j.gen # jobs[s].successors.gen
            BY <1>p, <1>0, <3>5, <5>1 DEF handle, Types, Handles
          <6>2. log[j].done
            BY <1>0, <5>1, <6>1 DEF SlotsInv
          <6> QED BY <1>0, <6>2 DEF WaitInv
        <5>2. CASE j.slot # s
          <6>1. j.slot \in Slot
            BY <1>0 DEF SlotsInv
          <6> QED BY <1>5, <5>2, <6>1
        <5> QED BY <5>1, <5>2
      <4>2. log'[j].started = log[j].started
        BY <1>4, <3>5
      <4>3. Feeding(own, j, f) => Feeding(own, j, f)'
        BY <2>6
      <4> QED BY <1>8, <3>1, <3>2, <3>3, <4>1, <4>2, <4>3, BatchKept
    <3> QED BY <3>4, <3>5
  <2>10. ASSUME NEW v \in Workers, worker'[v].at = "lower"
         PROVE  LET f == edge'.successors[worker'[v].successors] IN
                f.feeds => jobs'[f.successor].arg = worker'[v].result
    <3>1. worker'[v] = worker[v]
      BY <1>6, <2>10
    <3>2. \A f \in linkedSuccessors :
            LET t == edge.successors[f].successor IN jobs'[t].arg = jobs[t].arg
      BY <1>5, <2>4, <2>7
    <3> QED BY <1>0, <1>1, <2>1, <2>10, <3>1, <3>2, LowerKept
  <2>11. \A t \in Slot : handle(t)' = handle(t) /\ (jobs'[t].arg = jobs[t].arg \/ jobs'[t].arg = ZeroValue)
    BY <1>5, <1>8
  <2>12. \A j \in DOMAIN log : log'[j].started =>
           \/ log[j].started
           \/ j.slot \in Slot /\ j = handle(j.slot) /\ log'[j].arg = jobs[j.slot].arg
    BY <1>p, <1>2, <1>4
  <2>13. DOMAIN log' = DOMAIN log
    BY <1>4
  <2> QED BY <1>8, <2>1, <2>3, <2>5, <2>8, <2>9, <2>10, <2>11, <2>12, <2>13, SuccessorsMoved
<1>15. SuccessorsReached /\ SignalsReached /\ StartedInv /\ HeldInv /\ ArmedInv /\ UsedInv /\ OrderInv
  BY DEF IInv, FlowInv
<1>16. SuccessorsReached' /\ SignalsReached' /\ linkedSignals' = linkedSignals
  <2>1. linkedSuccessors' = linkedSuccessors /\ linkedSignals' = linkedSignals
    BY <1>1 DEF linkedSuccessors, linkedSignals
  <2>2. worker[w].successors = None /\ worker[w].signals = None
    BY <1>0, <1>1 DEF RunInv
  <2>3. \A v \in Workers : worker'[v].successors = worker[v].successors /\ worker'[v].signals = worker[v].signals
    BY <1>6, <2>2
  <2> QED BY <1>1, <1>8, <1>15, <2>1, <2>3, ReachStays
<1>17. FlowInv'
  <2>1. HeldInv' /\ ArmedInv' /\ OrderInv'
    BY <1>1, <1>4, <1>15, <1>16, HeldKept, ArmedKept, OrderKept
  <2>2. UsedInv'
    <3>1. \A v \in Workers : worker'[v].at = "idle" => worker[v].at = "idle" /\ worker'[v].job = worker[v].job
      BY <1>6
    <3> QED BY <1>1, <1>4, <1>8, <1>15, <3>1, UsedKept
  <2>3. ASSUME NEW t \in Slot, handle(t)' \in DOMAIN log', log'[handle(t)'].started
        PROVE  \E v \in Workers : worker'[v].at # "idle" /\ worker'[v].job = handle(t)'
    <3>1. CASE handle(t) = h
      BY <1>6, <1>8, <3>1
    <3>2. CASE handle(t) # h
      <4>1. handle(t)' = handle(t) /\ handle(t) \in DOMAIN log /\ log[handle(t)].started
        BY <1>4, <1>8, <2>3, <3>2
      <4>2. PICK v \in Workers : worker[v].at # "idle" /\ worker[v].job = handle(t)
        BY <1>15, <4>1 DEF StartedInv
      <4> QED BY <1>1, <1>6, <4>1, <4>2
    <3> QED BY <3>1, <3>2
  <2>4. StartedInv'
    BY <2>3 DEF StartedInv
  <2> QED BY <2>1, <2>2, <2>4 DEF FlowInv
<1> QED BY <1>7, <1>9, <1>10, <1>11, <1>12, <1>13, <1>14, <1>16, <1>17 DEF IInv

\* The other workers' jobs stay as they are while a step touches the slot of
\* worker w only, and logs at most that its job is done.
LEMMA OthersKept ==
  ASSUME SlotsInv, RunInv, NEW w \in Workers, worker[w].at # "idle", NEW h, h = worker[w].job,
         \A t \in Slot : t # h.slot => jobs'[t].signals = jobs[t].signals /\ handle(t)' = handle(t),
         DOMAIN log' = DOMAIN log, \A j \in DOMAIN log : j # h => log'[j] = log[j],
         NEW v \in Workers, NEW j \in DOMAIN log, v # w, worker[v].at # "idle", j = worker[v].job
  PROVE  /\ j \in DOMAIN log' /\ handle(j.slot)' = j /\ log'[j].started
         /\ log'[j].done = log[j].done /\ log'[j].result = log[j].result
         /\ jobs'[j.slot].signals.head = closedList <=> jobs[j.slot].signals.head = closedList
         /\ j # h
<1>1. j.slot \in Slot /\ j = handle(j.slot) /\ log[j].started /\ j.slot # h.slot
  BY RunApart
<1>2. j # h /\ log'[j] = log[j] /\ jobs'[j.slot].signals = jobs[j.slot].signals /\ handle(j.slot)' = j
  BY <1>1
<1> QED BY <1>1, <1>2

\* The job a worker runs is the one of its slot.
LEMMA WorkerJob ==
  ASSUME Types, SlotsInv, RunInv, NEW w \in Workers, worker[w].at # "idle"
  PROVE  LET h == worker[w].job IN
         /\ h \in DOMAIN log /\ h \in Handles /\ h.slot \in Slot /\ handle(h.slot) = h
         /\ log[h].started /\ (log[h].done <=> worker[w].at # "body")
         /\ h.gen = jobs[h.slot].successors.gen /\ h.gen = jobs[h.slot].signals.gen
         /\ jobs[h.slot].successors.head = closedList <=> log[h].done
<1>1. PICK h : h = worker[w].job
  OBVIOUS
<1>2. /\ h \in DOMAIN log /\ h = handle(h.slot) /\ log[h].started
      /\ (log[h].done <=> worker[w].at # "body")
  BY <1>1 DEF RunInv
<1>3. h \in Handles /\ h.slot \in Slot
  BY <1>2 DEF SlotsInv, Types
<1>4. h.gen = jobs[h.slot].successors.gen
  BY <1>2 DEF handle
<1>5. h.gen = jobs[h.slot].signals.gen /\ (jobs[h.slot].successors.head = closedList <=> log[h].done)
  BY <1>2, <1>3, <1>4 DEF SlotsInv
<1> QED BY <1>1, <1>2, <1>3, <1>4, <1>5

\* The body has returned or panicked, and the successor list is closed: its
\* edges are the worker's.
LEMMA runRecoveringKeeps ==
  ASSUME IInv, NEW w \in Workers, runRecovering(w)
  PROVE  IInv'
<1>p. PICK h, s, r, x : /\ h = worker[w].job /\ s = h.slot /\ x = jobs[s].successors.head
                        /\ r = IF log[h].batch \in Panicking THEN ZeroValue ELSE h
  OBVIOUS
<1>0. /\ Types /\ SlotsInv /\ RunInv /\ WaitInv /\ PubInv /\ LinkInv /\ SignalsInv /\ SuccessorsInv
      /\ jobs \in [Slot -> Jobs] /\ log \in [DOMAIN log -> Entries]
      /\ worker \in [Workers -> WorkerStates] /\ worker[w] \in WorkerStates
  BY DEF IInv, Types
<1>1. /\ worker[w].at = "body"
      /\ log' = [log EXCEPT ![h].done = TRUE, ![h].result = r]
      /\ jobs' = [jobs EXCEPT ![s].successors = packList(h.gen, closedList)]
      /\ worker' = [worker EXCEPT ![w].at = "closeSignals", ![w].result = r, ![w].successors = x]
      /\ UNCHANGED <<edge, free, linker, pub, notifier, arrived, sent>>
  BY <1>p DEF runRecovering
<1>2. /\ h \in DOMAIN log /\ h \in Handles /\ s \in Slot /\ handle(s) = h
      /\ log[h].started /\ ~log[h].done
      /\ h.gen = jobs[s].successors.gen /\ h.gen = jobs[s].signals.gen /\ x # closedList
  BY <1>p, <1>0, <1>1, WorkerJob
<1>3. x \in EdgeSlot \cup {None} /\ r \in Handles
  <2>1. x \in EdgeSlot \cup {None}
    BY <1>p, <1>0, <1>2 DEF Jobs, Words
  <2>2. r \in Handles
    BY <1>p, <1>2, Initially DEF ZeroValue
  <2> QED BY <2>1, <2>2
<1>4. /\ log' \in [DOMAIN log' -> Entries] /\ DOMAIN log' = DOMAIN log
      /\ \A j \in DOMAIN log : j # h => log'[j] = log[j]
      /\ log'[h].done /\ log'[h].result = r
      /\ \A j \in DOMAIN log :
           /\ log'[j].batch = log[j].batch /\ log'[j].deps = log[j].deps /\ log'[j].from = log[j].from
           /\ log'[j].submitted = log[j].submitted
           /\ log'[j].started = log[j].started /\ log'[j].arg = log[j].arg
  <2>1. PICK e, y : e = log[h] /\ y = [e EXCEPT !.done = TRUE, !.result = r]
    OBVIOUS
  <2>2. /\ y \in Entries /\ y.done /\ y.result = r
        /\ y.batch = e.batch /\ y.deps = e.deps /\ y.from = e.from
        /\ y.submitted = e.submitted /\ y.started = e.started /\ y.arg = e.arg
    BY <1>0, <1>2, <1>3, <2>1 DEF Entries
  <2>3. log' = [log EXCEPT ![h] = y]
    BY <1>1, <2>1
  <2>4. /\ log' \in [DOMAIN log' -> Entries] /\ DOMAIN log' = DOMAIN log
        /\ log'[h] = y /\ \A j \in DOMAIN log : j # h => log'[j] = log[j]
    BY <1>0, <1>2, <2>2, <2>3, EntryStored
  <2> QED BY <1>2, <2>1, <2>2, <2>4, ZenonT(40)
<1>5. /\ jobs' \in [Slot -> Jobs] /\ \A t \in Slot : t # s => jobs'[t] = jobs[t]
      /\ jobs'[s].successors.gen = h.gen /\ jobs'[s].successors.head = closedList
      /\ jobs'[s].signals = jobs[s].signals
      /\ jobs'[s].waiting = jobs[s].waiting /\ jobs'[s].arg = jobs[s].arg
  <2>1. PICK u : u = packList(h.gen, closedList)
    OBVIOUS
  <2>2. u \in Words /\ u.gen = h.gen /\ u.head = closedList
    BY <1>2, <2>1 DEF packList, Words, Handles
  <2>3. PICK J, J1 : J = jobs /\ J1 = jobs'
    OBVIOUS
  <2>4. J \in [Slot -> Jobs] /\ J1 = [J EXCEPT ![s].successors = u]
    BY <1>0, <1>1, <2>1, <2>3
  <2>5. /\ J1 \in [Slot -> Jobs] /\ \A t \in Slot : t # s => J1[t] = J[t]
        /\ J1[s].successors = u /\ J1[s].signals = J[s].signals
        /\ J1[s].waiting = J[s].waiting /\ J1[s].arg = J[s].arg
    BY <1>2, <2>2, <2>4, WordStored
  <2> QED BY <2>2, <2>3, <2>5
<1>6. /\ worker' \in [Workers -> WorkerStates] /\ \A v \in Workers : v # w => worker'[v] = worker[v]
      /\ worker'[w].at = "closeSignals" /\ worker'[w].job = h /\ worker'[w].result = r
      /\ worker'[w].successors = x /\ worker'[w].signals = worker[w].signals
  <2>1. PICK c, y : c = worker[w] /\ y = [c EXCEPT !.at = "closeSignals", !.result = r, !.successors = x]
    OBVIOUS
  <2>2. y \in WorkerStates /\ y.at = "closeSignals" /\ y.job = c.job /\ y.result = r /\ y.successors = x /\ y.signals = c.signals
    BY <1>0, <1>3, <2>1 DEF WorkerStates
  <2>3. worker' = [worker EXCEPT ![w] = y]
    BY <1>1, <2>1
  <2>4. /\ worker' \in [Workers -> WorkerStates] /\ worker'[w] = y
        /\ \A v \in Workers : v # w => worker'[v] = worker[v]
    BY <1>0, <2>2, <2>3, WorkerStored
  <2> QED BY <1>p, <2>1, <2>2, <2>4
<1>7. Types'
  <2>1. DOMAIN log' \subseteq Handles
    BY <1>0, <1>4 DEF Types
  <2> QED BY <1>0, <1>1, <1>4, <1>5, <1>6, <2>1 DEF Types
<1>8. /\ \A t \in Slot : /\ jobs'[t].signals = jobs[t].signals /\ jobs'[t].arg = jobs[t].arg
                         /\ jobs'[t].waiting = jobs[t].waiting /\ handle(t)' = handle(t)
      /\ sameHandles /\ logGrows
  <2>1. \A t \in Slot : /\ jobs'[t].signals = jobs[t].signals /\ jobs'[t].arg = jobs[t].arg
                        /\ jobs'[t].waiting = jobs[t].waiting
                        /\ jobs'[t].successors.gen = jobs[t].successors.gen
    BY <1>2, <1>5
  <2>2. logGrows
    <3>1. \A j \in DOMAIN log : log[j].done => log'[j].done /\ log'[j].result = log[j].result
      BY <1>2, <1>4
    <3> QED BY <1>4, <3>1 DEF logGrows
  <2> QED BY <2>1, <2>2 DEF sameHandles, handle
<1>9. SlotsInv'
  <2>1. \A t \in Slot : jobs'[t].signals.gen = jobs'[t].successors.gen
    BY <1>0, <1>8 DEF SlotsInv, sameHandles
  <2>2. \A j \in DOMAIN log' :
          /\ j.slot \in Slot /\ j.gen <= jobs'[j.slot].successors.gen
          /\ j.gen # jobs'[j.slot].successors.gen => log'[j].done
    BY <1>0, <1>4, <1>8 DEF SlotsInv, sameHandles
  <2>3. IsInjective(free'.jobs) /\ \A t \in ToSet(free'.jobs) : handle(t)' \notin DOMAIN log'
    <3>1. ASSUME NEW t \in ToSet(free.jobs), handle(t)' \in DOMAIN log PROVE FALSE
      <4>1. t \in Slot
        <5>1. handle(t)'.slot \in Slot
          BY <1>0, <3>1 DEF SlotsInv
        <5> QED BY <5>1 DEF handle
      <4> QED BY <1>0, <1>8, <3>1, <4>1 DEF SlotsInv
    <3> QED BY <1>0, <1>1, <1>4, <3>1 DEF SlotsInv
  <2>4. ASSUME NEW t \in Slot, handle(t)' \in DOMAIN log'
        PROVE  /\ log'[handle(t)'].done <=> jobs'[t].successors.head = closedList
               /\ jobs'[t].signals.head = closedList => log'[handle(t)'].done
    <3>1. CASE t = s
      BY <1>2, <1>4, <1>5, <1>8, <3>1
    <3>2. CASE t # s
      <4>1. handle(t)' = handle(t) /\ handle(t) # h /\ jobs'[t] = jobs[t]
        BY <1>p, <1>5, <1>8, <3>2 DEF handle
      <4> QED BY <1>0, <1>4, <2>4, <4>1 DEF SlotsInv
    <3> QED BY <3>1, <3>2
  <2> QED BY <2>1, <2>2, <2>3, <2>4 DEF SlotsInv
<1>10. RunInv'
  <2>1. ASSUME NEW v \in Workers, NEW j \in DOMAIN log, v # w, worker[v].at # "idle", j = worker[v].job
        PROVE  /\ j \in DOMAIN log' /\ handle(j.slot)' = j /\ log'[j].started
               /\ log'[j].done = log[j].done /\ log'[j].result = log[j].result
               /\ jobs'[j.slot].signals.head = closedList <=> jobs[j.slot].signals.head = closedList
               /\ j # h
    <3>1. worker[w].at # "idle" /\ h = worker[w].job
      BY <1>p, <1>1
    <3>2. \A t \in Slot : t # h.slot => jobs'[t].signals = jobs[t].signals /\ handle(t)' = handle(t)
      BY <1>8
    <3>3. DOMAIN log' = DOMAIN log /\ \A i \in DOMAIN log : i # h => log'[i] = log[i]
      BY <1>4
    <3> QED BY <1>0, <2>1, <3>1, <3>2, <3>3, OthersKept
  <2>2. PICK me : me = worker'[w]
    OBVIOUS
  <2>3. /\ me.at = "closeSignals" /\ h = me.job /\ me.signals = None /\ me.result = log'[h].result
        /\ h \in DOMAIN log' /\ h = handle(h.slot)' /\ log'[h].started /\ log'[h].done
        /\ jobs'[h.slot].signals.head # closedList
    <3>1. worker[w].signals = None /\ jobs[s].signals.head # closedList
      BY <1>p, <1>0, <1>1 DEF RunInv
    <3> QED BY <1>p, <1>2, <1>4, <1>6, <1>8, <2>2, <3>1
  <2>4. \A v \in Workers : v # w /\ worker[v].at # "idle" => worker[v].job # h
    BY <1>0, <2>1 DEF RunInv
  <2> QED BY <1>0, <1>6, <2>1, <2>2, <2>3, <2>4, RunMoved
<1>11. WaitInv' /\ PubInv'
  <2>1. WaitInv'
    <3>1. IsInjective(free'.signals) /\ \A j \in DOMAIN log : log'[j].done => log'[j].started
      BY <1>0, <1>1, <1>2, <1>4 DEF WaitInv
    <3> QED BY <1>0, <1>1, <1>4, <1>8, <3>1, WaitKept
  <2>2. PubInv'
    BY <1>0, <1>1, <1>4, <1>8, PubKept
  <2> QED BY <2>1, <2>2
<1>12. LinkInv'
  <2>1. ASSUME NEW q \in Publications, linker'[q].at # "idle"
        PROVE  pub[q].job \in DOMAIN log /\ linker[q].edge \notin ToSet(free.successors)
    BY <1>0, <1>1, <2>1 DEF LinkInv, PubInv
  <2>2. ASSUME NEW n \in Notifiers, linker'[n].at # "idle"
        PROVE  linker[n].edge \notin ToSet(free.signals)
    BY <1>0, <1>1, <2>2 DEF LinkInv
  <2> QED BY <1>0, <1>1, <1>8, <2>1, <2>2, LinkKept
<1>13. SignalsInv'
  <2>1. \A v \in Workers : worker'[v].signals = worker[v].signals /\ worker'[v].job = worker[v].job
    BY <1>p, <1>6
  <2> QED BY <1>0, <1>1, <1>8, <2>1, SignalsSame
<1>14. SuccessorsInv'
  <2>1. linkedSuccessors' = linkedSuccessors
    BY <1>1 DEF linkedSuccessors
  <2>2. \A y \in EdgeSlot, j \in Handles : <<y, j>> \in successorHeads' => <<y, j>> \in successorHeads
    <3>1. \A t \in Slot : jobs'[t].successors.head \in EdgeSlot =>
            <<jobs'[t].successors.head, handle(t)'>> \in successorHeads
      BY <1>5, <1>8, Initially DEF successorHeads
    <3>2. \A v \in Workers : worker'[v].successors \in EdgeSlot =>
            <<worker'[v].successors, worker'[v].job>> \in successorHeads
      <4>1. <<x, h>> \in successorHeads
        BY <1>p, <1>2 DEF successorHeads
      <4>2. \A v \in Workers : v # w => <<worker'[v].successors, worker'[v].job>> \in successorHeads
        BY <1>6 DEF successorHeads
      <4> QED BY <1>6, <4>1, <4>2
    <3> QED BY <3>1, <3>2, SuccessorHeadsKept
  <2>3. \A v \in Workers : worker'[v].at = "lower" => worker'[v] = worker[v]
    BY <1>6
  <2> QED BY <1>0, <1>1, <1>4, <1>8, <2>1, <2>2, <2>3, SuccessorsKept
<1>15. SuccessorsReached /\ SignalsReached /\ FlowInv
  BY DEF IInv
<1>16. linkedSuccessors' = linkedSuccessors /\ linkedSignals' = linkedSignals
  BY <1>1 DEF linkedSuccessors, linkedSignals
<1>17. SuccessorsReached'
  <2>1. ASSUME NEW t \in Slot PROVE jobs[t].successors.head \in successorFirsts'
    <3>1. CASE t = s
      BY <1>p, <1>6, <3>1 DEF successorFirsts
    <3>2. CASE t # s
      BY <1>5, <3>2 DEF successorFirsts
    <3> QED BY <3>1, <3>2
  <2>2. ASSUME NEW v \in Workers, worker[v].successors \in EdgeSlot PROVE worker[v].successors \in successorFirsts'
    <3>1. v # w
      BY <1>0, <1>1, <2>2, Initially DEF RunInv
    <3> QED BY <1>6, <3>1 DEF successorFirsts
  <2> QED BY <1>1, <1>15, <1>16, <2>1, <2>2, SuccessorsReachKept
<1>18. SignalsReached'
  <2>1. \A t \in Slot : jobs[t].signals.head \in signalFirsts'
    BY <1>8 DEF signalFirsts
  <2>2. \A v \in Workers : worker'[v].signals = worker[v].signals
    BY <1>6
  <2>3. \A v \in Workers : worker[v].signals \in signalFirsts'
    BY <2>2 DEF signalFirsts
  <2> QED BY <1>1, <1>15, <1>16, <2>1, <2>3, SignalsReachKept
<1>19. FlowInv'
  <2>1. \A v \in Workers : /\ worker'[v].at = "idle" <=> worker[v].at = "idle"
                           /\ worker'[v].job = worker[v].job
    BY <1>p, <1>1, <1>6
  <2>2. \A t \in Slot : handle(t) \notin DOMAIN log =>
          /\ jobs'[t].successors.head = jobs[t].successors.head
          /\ jobs'[t].signals.head = jobs[t].signals.head
    BY <1>2, <1>5
  <2> QED BY <1>1, <1>4, <1>8, <1>15, <1>16, <2>1, <2>2, FlowKept
<1> QED BY <1>7, <1>9, <1>10, <1>11, <1>12, <1>13, <1>14, <1>17, <1>18, <1>19 DEF IInv

\* The signal list is closed: its edges are the worker's.
LEMMA CloseSignalsKeeps ==
  ASSUME IInv, NEW w \in Workers, CloseSignals(w)
  PROVE  IInv'
<1>p. PICK h, s, x : h = worker[w].job /\ s = h.slot /\ x = jobs[s].signals.head
  OBVIOUS
<1>0. /\ Types /\ SlotsInv /\ RunInv /\ WaitInv /\ PubInv /\ LinkInv /\ SignalsInv /\ SuccessorsInv
      /\ jobs \in [Slot -> Jobs] /\ worker \in [Workers -> WorkerStates] /\ worker[w] \in WorkerStates
  BY DEF IInv, Types
<1>1. /\ worker[w].at = "closeSignals"
      /\ jobs' = [jobs EXCEPT ![s].signals = packList(h.gen, closedList)]
      /\ worker' = [worker EXCEPT ![w].at = "walk", ![w].signals = x]
      /\ UNCHANGED <<edge, free, linker, pub, notifier, arrived, sent, log>>
  BY <1>p DEF CloseSignals
<1>2. /\ h \in DOMAIN log /\ h \in Handles /\ s \in Slot /\ handle(s) = h
      /\ log[h].started /\ log[h].done
      /\ h.gen = jobs[s].successors.gen /\ h.gen = jobs[s].signals.gen
  BY <1>p, <1>0, <1>1, WorkerJob
<1>3. x \in EdgeSlot \cup {None}
  <2>1. x # closedList
    BY <1>p, <1>0, <1>1 DEF RunInv
  <2> QED BY <1>p, <1>0, <1>2, <2>1 DEF Jobs, Words
<1>4. /\ jobs' \in [Slot -> Jobs] /\ \A t \in Slot : t # s => jobs'[t] = jobs[t]
      /\ jobs'[s].signals.gen = h.gen /\ jobs'[s].signals.head = closedList
      /\ jobs'[s].successors = jobs[s].successors
      /\ jobs'[s].waiting = jobs[s].waiting /\ jobs'[s].arg = jobs[s].arg
  <2>1. PICK u : u = packList(h.gen, closedList)
    OBVIOUS
  <2>2. u \in Words /\ u.gen = h.gen /\ u.head = closedList
    BY <1>2, <2>1 DEF packList, Words, Handles
  <2>3. PICK J, J1 : J = jobs /\ J1 = jobs'
    OBVIOUS
  <2>4. J \in [Slot -> Jobs] /\ J1 = [J EXCEPT ![s].signals = u]
    BY <1>0, <1>1, <2>1, <2>3
  <2>5. /\ J1 \in [Slot -> Jobs] /\ \A t \in Slot : t # s => J1[t] = J[t]
        /\ J1[s].signals = u /\ J1[s].successors = J[s].successors
        /\ J1[s].waiting = J[s].waiting /\ J1[s].arg = J[s].arg
    BY <1>2, <2>2, <2>4, WordStored
  <2> QED BY <2>2, <2>3, <2>5
<1>5. /\ worker' \in [Workers -> WorkerStates] /\ \A v \in Workers : v # w => worker'[v] = worker[v]
      /\ worker'[w].at = "walk" /\ worker'[w].job = h /\ worker'[w].result = worker[w].result
      /\ worker'[w].successors = worker[w].successors /\ worker'[w].signals = x
  <2>1. PICK c, y : c = worker[w] /\ y = [c EXCEPT !.at = "walk", !.signals = x]
    OBVIOUS
  <2>2. y \in WorkerStates /\ y.at = "walk" /\ y.job = c.job /\ y.result = c.result /\ y.successors = c.successors /\ y.signals = x
    BY <1>0, <1>3, <2>1 DEF WorkerStates
  <2>3. worker' = [worker EXCEPT ![w] = y]
    BY <1>1, <2>1
  <2>4. /\ worker' \in [Workers -> WorkerStates] /\ worker'[w] = y
        /\ \A v \in Workers : v # w => worker'[v] = worker[v]
    BY <1>0, <2>2, <2>3, WorkerStored
  <2> QED BY <1>p, <2>1, <2>2, <2>4
<1>6. Types'
  BY <1>0, <1>1, <1>4, <1>5 DEF Types
<1>7. /\ \A t \in Slot : /\ jobs'[t].successors = jobs[t].successors /\ jobs'[t].arg = jobs[t].arg
                         /\ jobs'[t].waiting = jobs[t].waiting /\ handle(t)' = handle(t)
                         /\ jobs'[t].signals.gen = jobs[t].signals.gen
      /\ sameHandles /\ logGrows
  <2>1. \A t \in Slot : /\ jobs'[t].successors = jobs[t].successors /\ jobs'[t].arg = jobs[t].arg
                        /\ jobs'[t].waiting = jobs[t].waiting
                        /\ jobs'[t].signals.gen = jobs[t].signals.gen
    BY <1>2, <1>4
  <2> QED BY <1>1, <2>1 DEF sameHandles, handle, logGrows
<1>8. SlotsInv'
  <2>1. \A t \in Slot : jobs'[t].signals.gen = jobs'[t].successors.gen
    BY <1>0, <1>7 DEF SlotsInv
  <2>2. \A j \in DOMAIN log' :
          /\ j.slot \in Slot /\ j.gen <= jobs'[j.slot].successors.gen
          /\ j.gen # jobs'[j.slot].successors.gen => log'[j].done
    BY <1>0, <1>1, <1>7 DEF SlotsInv
  <2>3. IsInjective(free'.jobs) /\ \A t \in ToSet(free'.jobs) : handle(t)' \notin DOMAIN log'
    <3>1. ASSUME NEW t \in ToSet(free.jobs), handle(t)' \in DOMAIN log PROVE FALSE
      <4>1. t \in Slot
        <5>1. handle(t)'.slot \in Slot
          BY <1>0, <3>1 DEF SlotsInv
        <5> QED BY <5>1 DEF handle
      <4> QED BY <1>0, <1>7, <3>1, <4>1 DEF SlotsInv
    <3> QED BY <1>0, <1>1, <3>1 DEF SlotsInv
  <2>4. ASSUME NEW t \in Slot, handle(t)' \in DOMAIN log'
        PROVE  /\ log'[handle(t)'].done <=> jobs'[t].successors.head = closedList
               /\ jobs'[t].signals.head = closedList => log'[handle(t)'].done
    <3>1. log'[handle(t)'].done <=> jobs'[t].successors.head = closedList
      BY <1>0, <1>1, <1>7, <2>4 DEF SlotsInv
    <3>2. CASE t = s
      BY <1>1, <1>2, <1>7, <3>1, <3>2
    <3>3. CASE t # s
      BY <1>0, <1>1, <1>4, <1>7, <2>4, <3>1, <3>3 DEF SlotsInv
    <3> QED BY <3>2, <3>3
  <2> QED BY <2>1, <2>2, <2>3, <2>4 DEF SlotsInv
<1>9. RunInv'
  <2>1. ASSUME NEW v \in Workers, NEW j \in DOMAIN log, v # w, worker[v].at # "idle", j = worker[v].job
        PROVE  /\ j \in DOMAIN log' /\ handle(j.slot)' = j /\ log'[j].started
               /\ log'[j].done = log[j].done /\ log'[j].result = log[j].result
               /\ jobs'[j.slot].signals.head = closedList <=> jobs[j.slot].signals.head = closedList
               /\ j # h
    <3>1. worker[w].at # "idle" /\ h = worker[w].job
      BY <1>p, <1>1
    <3>2. \A t \in Slot : t # h.slot => jobs'[t].signals = jobs[t].signals /\ handle(t)' = handle(t)
      BY <1>p, <1>4, <1>7
    <3>3. DOMAIN log' = DOMAIN log /\ \A i \in DOMAIN log : i # h => log'[i] = log[i]
      BY <1>1
    <3> QED BY <1>0, <2>1, <3>1, <3>2, <3>3, OthersKept
  <2>2. PICK me : me = worker'[w]
    OBVIOUS
  <2>3. /\ me.at = "walk" /\ h = me.job /\ me.result = log'[h].result
        /\ h \in DOMAIN log' /\ h = handle(h.slot)' /\ log'[h].started /\ log'[h].done
        /\ jobs'[h.slot].signals.head = closedList
    <3>1. worker[w].result = log[h].result
      BY <1>p, <1>0, <1>1 DEF RunInv
    <3> QED BY <1>p, <1>1, <1>2, <1>4, <1>5, <1>7, <2>2, <3>1
  <2>4. \A v \in Workers : v # w /\ worker[v].at # "idle" => worker[v].job # h
    BY <1>0, <2>1 DEF RunInv
  <2> QED BY <1>0, <1>5, <2>1, <2>2, <2>3, <2>4, RunMoved
<1>10. WaitInv' /\ PubInv'
  <2>1. WaitInv'
    <3>1. IsInjective(free'.signals) /\ \A j \in DOMAIN log : log'[j].done => log'[j].started
      BY <1>0, <1>1 DEF WaitInv
    <3> QED BY <1>0, <1>1, <1>7, <3>1, WaitKept
  <2>2. PubInv'
    BY <1>0, <1>1, <1>7, PubKept
  <2> QED BY <2>1, <2>2
<1>11. LinkInv'
  <2>1. ASSUME NEW q \in Publications, linker'[q].at # "idle"
        PROVE  pub[q].job \in DOMAIN log /\ linker[q].edge \notin ToSet(free.successors)
    BY <1>0, <1>1, <2>1 DEF LinkInv, PubInv
  <2>2. ASSUME NEW n \in Notifiers, linker'[n].at # "idle"
        PROVE  linker[n].edge \notin ToSet(free.signals)
    BY <1>0, <1>1, <2>2 DEF LinkInv
  <2> QED BY <1>0, <1>1, <1>7, <2>1, <2>2, LinkKept
<1>12. SignalsInv'
  <2>1. linkedSignals' = linkedSignals
    BY <1>1 DEF linkedSignals
  <2>2. \A y \in EdgeSlot, j \in Handles : <<y, j>> \in signalHeads' => <<y, j>> \in signalHeads
    <3>1. \A t \in Slot : jobs'[t].signals.head \in EdgeSlot =>
            <<jobs'[t].signals.head, handle(t)'>> \in signalHeads
      BY <1>4, <1>7, Initially DEF signalHeads
    <3>2. \A v \in Workers : worker'[v].signals \in EdgeSlot =>
            <<worker'[v].signals, worker'[v].job>> \in signalHeads
      <4>1. <<x, h>> \in signalHeads
        BY <1>p, <1>2 DEF signalHeads
      <4>2. \A v \in Workers : v # w => <<worker'[v].signals, worker'[v].job>> \in signalHeads
        BY <1>5 DEF signalHeads
      <4> QED BY <1>5, <4>1, <4>2
    <3> QED BY <3>1, <3>2, SignalHeadsKept
  <2>3. \A y \in linkedSignals : edge.signals[y].signal \subseteq Notifiers
    BY <1>0 DEF Types, Edges, linkedSignals
  <2>4. sent \subseteq Notifiers
    BY <1>0 DEF Types
  <2> QED BY <1>0, <1>1, <1>7, <2>1, <2>2, <2>3, <2>4, SignalsKept
<1>13. SuccessorsInv'
  <2>1. \A v \in Workers : /\ worker'[v].successors = worker[v].successors
                           /\ worker'[v].job = worker[v].job /\ worker'[v].result = worker[v].result
                           /\ worker'[v].at = "lower" => worker[v].at = "lower"
    BY <1>p, <1>5
  <2> QED BY <1>0, <1>1, <1>7, <2>1, SuccessorsSame
<1>14. SuccessorsReached /\ SignalsReached /\ FlowInv
  BY DEF IInv
<1>15. linkedSuccessors' = linkedSuccessors /\ linkedSignals' = linkedSignals
  BY <1>1 DEF linkedSuccessors, linkedSignals
<1>16. SignalsReached'
  <2>1. ASSUME NEW t \in Slot PROVE jobs[t].signals.head \in signalFirsts'
    <3>1. CASE t = s
      BY <1>p, <1>5, <3>1 DEF signalFirsts
    <3>2. CASE t # s
      BY <1>4, <3>2 DEF signalFirsts
    <3> QED BY <3>1, <3>2
  <2>2. ASSUME NEW v \in Workers, worker[v].signals \in EdgeSlot PROVE worker[v].signals \in signalFirsts'
    <3>1. v # w
      BY <1>0, <1>1, <2>2, Initially DEF RunInv
    <3> QED BY <1>5, <3>1 DEF signalFirsts
  <2> QED BY <1>1, <1>14, <1>15, <2>1, <2>2, SignalsReachKept
<1>17. SuccessorsReached'
  <2>1. \A t \in Slot : jobs[t].successors.head \in successorFirsts'
    BY <1>7 DEF successorFirsts
  <2>2. \A v \in Workers : worker'[v].successors = worker[v].successors
    BY <1>5
  <2>3. \A v \in Workers : worker[v].successors \in successorFirsts'
    BY <2>2 DEF successorFirsts
  <2> QED BY <1>1, <1>14, <1>15, <2>1, <2>3, SuccessorsReachKept
<1>18. FlowInv'
  <2>1. \A v \in Workers : /\ worker'[v].at = "idle" <=> worker[v].at = "idle"
                           /\ worker'[v].job = worker[v].job
    BY <1>p, <1>1, <1>5
  <2>2. \A t \in Slot : handle(t) \notin DOMAIN log =>
          /\ jobs'[t].successors.head = jobs[t].successors.head
          /\ jobs'[t].signals.head = jobs[t].signals.head
    BY <1>2, <1>4
  <2> QED BY <1>1, <1>7, <1>14, <1>15, <2>1, <2>2, FlowKept
<1> QED BY <1>6, <1>8, <1>9, <1>10, <1>11, <1>12, <1>13, <1>16, <1>17, <1>18 DEF IInv

\* The Signal at the head of the worker's list is sent, its edge put back.
LEMMA SendSignalKeeps ==
  ASSUME IInv, NEW w \in Workers, SendSignal(w)
  PROVE  IInv'
<1>p. PICK h, e, x, y : /\ h = worker[w].job /\ e = worker[w].signals /\ x = edge.signals[e]
                        /\ y = [x EXCEPT !.signal = {}]
  OBVIOUS
<1>0. /\ Types /\ SlotsInv /\ RunInv /\ WaitInv /\ PubInv /\ LinkInv /\ SignalsInv /\ SuccessorsInv
      /\ jobs \in [Slot -> Jobs] /\ worker \in [Workers -> WorkerStates] /\ worker[w] \in WorkerStates
      /\ free \in [jobs : Seq(Slot), successors : Seq(EdgeSlot), signals : Seq(EdgeSlot)]
      /\ edge \in [successors : [EdgeSlot -> Edges], signals : [EdgeSlot -> Edges]]
      /\ sent \subseteq Notifiers
  BY DEF IInv, Types
<1>1. /\ worker[w].at = "walk" /\ e # None
      /\ sent' = sent \cup x.signal
      /\ edge' = [edge EXCEPT !.signals[e].signal = {}]
      /\ free' = [free EXCEPT !.signals = Append(free.signals, e)]
      /\ worker' = [worker EXCEPT ![w].signals = x.next]
      /\ UNCHANGED <<jobs, linker, pub, notifier, arrived, log>>
  BY <1>p DEF SendSignal, Release
<1>2. /\ h \in DOMAIN log /\ h \in Handles /\ h.slot \in Slot /\ handle(h.slot) = h
      /\ log[h].started /\ log[h].done
  BY <1>p, <1>0, <1>1, WorkerJob
<1>3. e \in EdgeSlot /\ x \in Edges /\ x.next \in EdgeSlot \cup {None} /\ x.signal \subseteq Notifiers
  <2>1. e \in EdgeSlot
    BY <1>p, <1>0, <1>1 DEF WorkerStates
  <2>2. x \in Edges
    BY <1>p, <1>0, <2>1
  <2> QED BY <2>1, <2>2 DEF Edges
<1>4. y \in Edges /\ y.next = x.next /\ y.signal = {}
  BY <1>p, <1>3 DEF Edges
<1>5. /\ edge' \in [successors : [EdgeSlot -> Edges], signals : [EdgeSlot -> Edges]]
      /\ edge'.signals[e] = y /\ edge'.successors = edge.successors
      /\ \A f \in EdgeSlot : f # e => edge'.signals[f] = edge.signals[f]
  <2>1. edge' = [edge EXCEPT !.signals[e] = y]
    BY <1>p, <1>1
  <2> QED BY <1>0, <1>3, <1>4, <2>1, EdgeFilled
<1>6. PICK own \in [EdgeSlot -> Handles] : SignalsOwned(own)
  BY <1>0 DEF SignalsInv
<1>7. <<e, h>> \in signalHeads /\ e \in linkedSignals /\ own[e] = h /\ e \notin ToSet(free.signals)
  <2>1. <<e, h>> \in signalHeads
    BY <1>p DEF signalHeads
  <2>2. e \in linkedSignals /\ own[e] = h
    BY <1>2, <1>3, <1>6, <2>1 DEF SignalsOwned, Chained
  <2> QED BY <2>1, <2>2 DEF linkedSignals
<1>8. \A n \in x.signal : notifier[n].called /\ notifier[n].job = h
  BY <1>p, <1>6, <1>7 DEF SignalsOwned
<1>9. /\ free' \in [jobs : Seq(Slot), successors : Seq(EdgeSlot), signals : Seq(EdgeSlot)]
      /\ free'.jobs = free.jobs /\ free'.successors = free.successors
      /\ IsInjective(free'.signals) /\ ToSet(free'.signals) = ToSet(free.signals) \cup {e}
  <2>1. PICK q, q1 : q = free.signals /\ q1 = Append(q, e)
    OBVIOUS
  <2>2. q \in Seq(EdgeSlot) /\ IsInjective(q) /\ e \notin ToSet(q)
    BY <1>0, <1>7, <2>1 DEF WaitInv
  <2>3. q1 \in Seq(EdgeSlot) /\ IsInjective(q1) /\ ToSet(q1) = ToSet(q) \cup {e}
    BY <1>3, <2>1, <2>2, PutBack
  <2>4. free' = [free EXCEPT !.signals = q1]
    BY <1>1, <2>1
  <2>5. /\ free' \in [jobs : Seq(Slot), successors : Seq(EdgeSlot), signals : Seq(EdgeSlot)]
        /\ free'.jobs = free.jobs /\ free'.signals = q1 /\ free'.successors = free.successors
    BY <1>0, <2>3, <2>4, PoolStored
  <2> QED BY <2>1, <2>3, <2>5
<1>10. /\ worker' \in [Workers -> WorkerStates] /\ \A v \in Workers : v # w => worker'[v] = worker[v]
       /\ worker'[w].at = "walk" /\ worker'[w].job = h /\ worker'[w].result = worker[w].result
       /\ worker'[w].successors = worker[w].successors /\ worker'[w].signals = x.next
  <2>1. PICK c, z : c = worker[w] /\ z = [c EXCEPT !.signals = x.next]
    OBVIOUS
  <2>2. z \in WorkerStates /\ z.at = c.at /\ z.job = c.job /\ z.result = c.result /\ z.successors = c.successors /\ z.signals = x.next
    BY <1>0, <1>3, <2>1 DEF WorkerStates
  <2>3. worker' = [worker EXCEPT ![w] = z]
    BY <1>1, <2>1
  <2>4. /\ worker' \in [Workers -> WorkerStates] /\ worker'[w] = z
        /\ \A v \in Workers : v # w => worker'[v] = worker[v]
    BY <1>0, <2>2, <2>3, WorkerStored
  <2> QED BY <1>p, <1>1, <2>1, <2>2, <2>4
<1>11. Types'
  <2>1. sent' \subseteq Notifiers
    BY <1>0, <1>1, <1>3
  <2> QED BY <1>0, <1>1, <1>5, <1>9, <1>10, <2>1 DEF Types
<1>12. sameLists /\ sameHandles /\ logGrows /\ \A t \in Slot : handle(t)' = handle(t)
  BY <1>1 DEF sameLists, sameHandles, logGrows, handle
<1>13. SlotsInv' /\ WaitInv' /\ PubInv'
  <2>1. SlotsInv'
    BY <1>0, <1>1, <1>9, <1>12, SlotsKept
  <2>2. WaitInv'
    <3>1. \A j \in DOMAIN log : log'[j].done => log'[j].started
      BY <1>0, <1>1 DEF WaitInv
    <3> QED BY <1>0, <1>1, <1>5, <1>9, <1>12, <3>1, WaitKept
  <2>3. PubInv'
    BY <1>0, <1>1, <1>12, PubKept
  <2> QED BY <2>1, <2>2, <2>3
<1>14. RunInv'
  <2>1. ASSUME NEW v \in Workers, NEW j \in DOMAIN log, v # w, worker[v].at # "idle", j = worker[v].job
        PROVE  /\ j \in DOMAIN log' /\ handle(j.slot)' = j /\ log'[j].started
               /\ log'[j].done = log[j].done /\ log'[j].result = log[j].result
               /\ jobs'[j.slot].signals.head = closedList <=> jobs[j.slot].signals.head = closedList
               /\ j # h
    <3>1. worker[w].at # "idle" /\ h = worker[w].job
      BY <1>p, <1>1
    <3>2. \A t \in Slot : t # h.slot => jobs'[t].signals = jobs[t].signals /\ handle(t)' = handle(t)
      BY <1>1, <1>12
    <3>3. DOMAIN log' = DOMAIN log /\ \A i \in DOMAIN log : i # h => log'[i] = log[i]
      BY <1>1
    <3> QED BY <1>0, <2>1, <3>1, <3>2, <3>3, OthersKept
  <2>2. PICK me : me = worker'[w]
    OBVIOUS
  <2>3. /\ me.at = "walk" /\ h = me.job /\ me.result = log'[h].result
        /\ h \in DOMAIN log' /\ h = handle(h.slot)' /\ log'[h].started /\ log'[h].done
        /\ jobs'[h.slot].signals.head = closedList
    <3>1. worker[w].result = log[h].result /\ jobs[h.slot].signals.head = closedList
      BY <1>p, <1>0, <1>1 DEF RunInv
    <3> QED BY <1>1, <1>2, <1>10, <1>12, <2>2, <3>1
  <2>4. \A v \in Workers : v # w /\ worker[v].at # "idle" => worker[v].job # h
    BY <1>0, <2>1 DEF RunInv
  <2>5. RunInv /\ \A v \in Workers : v # w => worker'[v] = worker[v]
    BY <1>0, <1>10
  <2> QED BY <2>1, <2>2, <2>3, <2>4, <2>5, RunMoved
<1>15. LinkInv'
  <2>1. ASSUME NEW q \in Publications, linker'[q].at # "idle"
        PROVE  pub[q].job \in DOMAIN log /\ linker[q].edge \notin ToSet(free.successors)
    BY <1>0, <1>1, <2>1 DEF LinkInv, PubInv
  <2>2. ASSUME NEW n \in Notifiers, linker'[n].at # "idle"
        PROVE  /\ linker[n].edge \notin ToSet(free'.signals)
               /\ edge'.signals[linker[n].edge] = edge.signals[linker[n].edge]
    <3>1. linker[n].edge \notin ToSet(free.signals)
      BY <1>0, <1>1, <2>2 DEF LinkInv
    <3>2. n \in Goroutines
      BY DEF Goroutines
    <3>3. linker[n].edge \in EdgeSlot
      BY <1>0, <1>1, <2>2, <3>2 DEF LinkInv
    <3>4. linker[n].edge # e
      BY <1>1, <1>7, <2>2 DEF linkedSignals
    <3> QED BY <1>5, <1>9, <3>1, <3>3, <3>4
  <2>3. \A n \in Notifiers : n \in sent' => n \in sent \/ notifier[n].called
    BY <1>1, <1>8
  <2> QED BY <1>0, <1>1, <1>5, <1>9, <1>12, <2>1, <2>2, <2>3, LinkKept
<1>16. SignalsInv'
  <2>1. linkedSignals' = linkedSignals \ {e}
    BY <1>1, <1>9 DEF linkedSignals
  <2>2. Chained(edge'.signals, linkedSignals', own, signalHeads')
    <3>1. PICK E : E = edge.signals
      OBVIOUS
    <3>2. Chained(E, linkedSignals, own, signalHeads)
      BY <1>6, <3>1 DEF SignalsOwned
    <3>3. ASSUME NEW z \in EdgeSlot, NEW k \in Handles, <<z, k>> \in signalHeads'
          PROVE  \/ z = x.next /\ k = h
                 \/ <<z, k>> \in signalHeads /\ ~(z = e /\ k = h)
      <4>1. ASSUME NEW t \in Slot, <<z, k>> = <<jobs'[t].signals.head, handle(t)'>>
            PROVE  <<z, k>> \in signalHeads /\ k # h
        <5>1. z = jobs[t].signals.head /\ k = handle(t)
          BY <1>1, <1>12, <4>1
        <5>2. k # h
          <6>1. jobs[h.slot].signals.head = closedList
            BY <1>p, <1>0, <1>1 DEF RunInv
          <6>2. k.slot = t
            BY <5>1 DEF handle
          <6> QED BY <5>1, <6>1, <6>2, Initially
        <5> QED BY <5>1, <5>2 DEF signalHeads
      <4>2. ASSUME NEW v \in Workers, <<z, k>> = <<worker'[v].signals, worker'[v].job>>
            PROVE  \/ z = x.next /\ k = h
                   \/ <<z, k>> \in signalHeads /\ k # h
        <5>1. CASE v = w
          BY <1>10, <4>2, <5>1
        <5>2. CASE v # w
          <6>1. z = worker[v].signals /\ k = worker[v].job
            BY <1>10, <4>2, <5>2
          <6>2. worker[v].at # "idle"
            BY <1>0, <6>1, Initially DEF RunInv
          <6>3. k # h
            BY <1>p, <1>0, <1>1, <5>2, <6>1, <6>2 DEF RunInv
          <6> QED BY <6>1, <6>3 DEF signalHeads
        <5> QED BY <5>1, <5>2
      <4> QED BY <3>3, <4>1, <4>2 DEF signalHeads
    <3>4. Chained(E, linkedSignals \ {e}, own, signalHeads')
      <4>1. x.next = E[e].next
        BY <1>p, <3>1
      <4>2. \A z \in EdgeSlot, k \in Handles : <<z, k>> \in signalHeads' =>
              \/ z = E[e].next /\ k = h
              \/ <<z, k>> \in signalHeads /\ ~(z = e /\ k = h)
        BY <3>3, <4>1
      <4>3. PICK N, hd, hd1 : N = linkedSignals /\ hd = signalHeads /\ hd1 = signalHeads'
        OBVIOUS
      <4>4. Chained(E, N, own, hd)
        BY <3>2, <4>3
      <4>5. <<e, h>> \in hd
        BY <1>7, <4>3
      <4>6. \A z \in EdgeSlot, k \in Handles : <<z, k>> \in hd1 =>
              \/ z = E[e].next /\ k = h
              \/ <<z, k>> \in hd /\ ~(z = e /\ k = h)
        BY <4>2, <4>3
      <4>7. e \in EdgeSlot /\ h \in Handles
        BY <1>2, <1>3
      <4>8. Chained(E, N \ {e}, own, hd1)
        BY <4>4, <4>5, <4>6, <4>7, ChainPopped
      <4> QED BY <4>3, <4>8
    <3>5. \A f \in linkedSignals \ {e} : edge'.signals[f].next = E[f].next
      BY <1>5, <3>1 DEF linkedSignals
    <3>6. Chained(edge'.signals, linkedSignals \ {e}, own, signalHeads')
      BY <3>4, <3>5, ChainKept
    <3> QED BY <2>1, <3>6
  <2>3. \A f \in linkedSignals' : \A n \in edge'.signals[f].signal :
          notifier'[n].called /\ notifier'[n].job = own[f]
    <3>1. \A f \in linkedSignals' : f \in linkedSignals /\ edge'.signals[f] = edge.signals[f]
      BY <1>5, <2>1 DEF linkedSignals
    <3> QED BY <1>1, <1>6, <3>1 DEF SignalsOwned
  <2>4. SignalsOwned(own)'
    BY <2>2, <2>3 DEF SignalsOwned
  <2>5. SignalNotEarly'
    BY <1>0, <1>1, <1>2, <1>8 DEF SignalsInv, SignalNotEarly
  <2> QED BY <2>4, <2>5 DEF SignalsInv
<1>17. SuccessorsInv'
  <2>1. \A v \in Workers : /\ worker'[v].successors = worker[v].successors
                           /\ worker'[v].job = worker[v].job /\ worker'[v].result = worker[v].result
                           /\ worker'[v].at = "lower" => worker[v].at = "lower"
    BY <1>p, <1>10
  <2> QED BY <1>0, <1>1, <1>5, <1>9, <1>12, <2>1, SuccessorsSame
<1>18. SuccessorsReached /\ SignalsReached /\ StartedInv /\ HeldInv /\ ArmedInv /\ UsedInv /\ OrderInv
  BY DEF IInv, FlowInv
<1>19. linkedSuccessors' = linkedSuccessors /\ linkedSignals' = linkedSignals \ {e}
  BY <1>1, <1>9 DEF linkedSuccessors, linkedSignals
<1>20. SuccessorsReached'
  <2>1. \A t \in Slot : jobs[t].successors.head \in successorFirsts'
    BY <1>1 DEF successorFirsts
  <2>2. \A v \in Workers : worker'[v].successors = worker[v].successors
    BY <1>10
  <2>3. \A v \in Workers : worker[v].successors \in successorFirsts'
    BY <2>2 DEF successorFirsts
  <2> QED BY <1>5, <1>18, <1>19, <2>1, <2>3, SuccessorsReachKept
<1>21. SignalsReached'
  <2>1. PICK E, E1, N, F, F1 : /\ E = edge.signals /\ E1 = edge'.signals /\ N = linkedSignals
                               /\ F = signalFirsts /\ F1 = signalFirsts'
    OBVIOUS
  <2>2. Reached(E, N, F) /\ N \subseteq EdgeSlot
    BY <1>18, <2>1 DEF SignalsReached, linkedSignals
  <2>3. ASSUME NEW f \in EdgeSlot, f \in F, f # e PROVE f \in F1
    <3>1. ASSUME NEW t \in Slot, f = jobs[t].signals.head PROVE f \in F1
      BY <1>1, <2>1, <3>1 DEF signalFirsts
    <3>2. ASSUME NEW v \in Workers, f = worker[v].signals PROVE f \in F1
      <4>1. worker'[v].signals = f
        BY <1>p, <1>10, <2>3, <3>2
      <4> QED BY <2>1, <4>1 DEF signalFirsts
    <3> QED BY <2>1, <2>3, <3>1, <3>2 DEF signalFirsts
  <2>4. E[e].next \in F1
    <3>1. E[e].next = worker'[w].signals
      BY <1>p, <1>10, <2>1
    <3> QED BY <2>1, <3>1 DEF signalFirsts
  <2>5. Reached(E, N \ {e}, F1)
    BY <2>2, <2>3, <2>4, ReachPopped
  <2>6. \A f \in N \ {e} : E1[f].next = E[f].next
    BY <1>5, <2>1, <2>2
  <2>7. Reached(E1, N \ {e}, F1)
    BY <2>2, <2>5, <2>6, ReachKept
  <2> QED BY <1>19, <2>1, <2>7 DEF SignalsReached
<1>22. FlowInv'
  <2>1. \A v \in Workers : /\ worker'[v].at = "idle" <=> worker[v].at = "idle"
                           /\ worker'[v].job = worker[v].job
    BY <1>p, <1>1, <1>10
  <2>2. StartedInv' /\ HeldInv' /\ UsedInv' /\ OrderInv'
    BY <1>1, <1>9, <1>12, <1>18, <2>1, StartedKept, HeldKept, UsedKept, OrderKept
  <2>3. ASSUME NEW m \in Notifiers, notifier'[m].called, m \notin sent', linker'[m].at = "idle"
        PROVE  \E f \in linkedSignals' : edge'.signals[f].signal = {m}
    <3>1. PICK f \in linkedSignals : edge.signals[f].signal = {m}
      BY <1>1, <1>18, <2>3 DEF ArmedInv
    <3>2. f # e
      BY <1>p, <1>1, <2>3, <3>1
    <3>3. f \in EdgeSlot
      BY <3>1 DEF linkedSignals
    <3> QED BY <1>5, <1>19, <3>1, <3>2, <3>3
  <2>4. ArmedInv'
    BY <2>3 DEF ArmedInv
  <2> QED BY <2>2, <2>4 DEF FlowInv
<1> QED BY <1>11, <1>13, <1>14, <1>15, <1>16, <1>17, <1>20, <1>21, <1>22 DEF IInv

\* The successor at the head of the worker's list is fed.
LEMMA FeedSuccessorKeeps ==
  ASSUME IInv, NEW w \in Workers, FeedSuccessor(w)
  PROVE  IInv'
<1>p. PICK h, x, f, t, a : /\ h = worker[w].job /\ x = worker[w].successors /\ f = edge.successors[x]
                           /\ t = f.successor
                           /\ a = IF f.feeds THEN worker[w].result ELSE jobs[t].arg
  OBVIOUS
<1>0. /\ Types /\ SlotsInv /\ RunInv /\ WaitInv /\ PubInv /\ LinkInv /\ SignalsInv /\ SuccessorsInv
      /\ jobs \in [Slot -> Jobs] /\ worker \in [Workers -> WorkerStates] /\ worker[w] \in WorkerStates
  BY DEF IInv, Types
<1>1. /\ worker[w].at = "walk" /\ worker[w].signals = None /\ x # None
      /\ jobs' = [jobs EXCEPT ![t].arg = a]
      /\ worker' = [worker EXCEPT ![w].at = "lower"]
      /\ UNCHANGED <<edge, free, linker, pub, notifier, arrived, sent, log>>
  BY <1>p DEF FeedSuccessor, receiveArg
<1>2. /\ h \in DOMAIN log /\ h \in Handles /\ h.slot \in Slot /\ handle(h.slot) = h
      /\ log[h].started /\ log[h].done /\ worker[w].result = log[h].result
      /\ jobs[h.slot].signals.head = closedList
  <2>1. worker[w].result = log[h].result /\ jobs[h.slot].signals.head = closedList
    BY <1>p, <1>0, <1>1 DEF RunInv
  <2> QED BY <1>p, <1>0, <1>1, <2>1, WorkerJob
<1>3. PICK own \in [EdgeSlot -> Handles] : SuccessorsOwned(own) /\ FedOwned(own)
  BY <1>0 DEF SuccessorsInv
<1>4. /\ x \in EdgeSlot /\ x \in linkedSuccessors /\ own[x] = h /\ t \in Slot
      /\ handle(t) \in DOMAIN log /\ (f.feeds => log[handle(t)].from = h)
  <2>1. /\ x \in EdgeSlot /\ x \in linkedSuccessors /\ own[x] = h /\ t \in Slot
        /\ handle(t) \in DOMAIN log
    BY <1>p, <1>0, <1>1, <1>3, LowerLinked
  <2>2. Waits(own, x)
    BY <1>3, <2>1 DEF SuccessorsOwned
  <2> QED BY <1>p, <2>1, <2>2 DEF Waits
<1>5. /\ jobs' \in [Slot -> Jobs] /\ \A s \in Slot : s # t => jobs'[s] = jobs[s]
      /\ jobs'[t].successors = jobs[t].successors /\ jobs'[t].signals = jobs[t].signals
      /\ jobs'[t].waiting = jobs[t].waiting /\ jobs'[t].arg = a
  <2>1. PICK J, J1 : J = jobs /\ J1 = jobs'
    OBVIOUS
  <2>2. worker[w].result \in Handles /\ jobs[t].arg \in Handles
    BY <1>0, <1>4 DEF WorkerStates, Jobs
  <2>3. a \in Handles
    BY <1>p, <2>2
  <2>4. J \in [Slot -> Jobs] /\ J1 = [J EXCEPT ![t].arg = a] /\ 0 \in Int
    BY <1>0, <1>1, <2>1
  <2>5. /\ J1 \in [Slot -> Jobs] /\ \A s \in Slot : s # t => J1[s] = J[s]
        /\ J1[t].signals = J[t].signals /\ J1[t].successors = J[t].successors
        /\ J1[t].waiting = J[t].waiting /\ J1[t].arg = a
    BY <1>4, <2>3, <2>4, CountStored, SMTT(30)
  <2> QED BY <2>1, <2>5
<1>6. /\ worker' \in [Workers -> WorkerStates] /\ \A v \in Workers : v # w => worker'[v] = worker[v]
      /\ worker'[w].at = "lower" /\ worker'[w].job = h /\ worker'[w].result = worker[w].result
      /\ worker'[w].successors = x /\ worker'[w].signals = None
  <2>1. PICK c, z : c = worker[w] /\ z = [c EXCEPT !.at = "lower"]
    OBVIOUS
  <2>2. z \in WorkerStates /\ z.at = "lower" /\ z.job = c.job /\ z.result = c.result /\ z.successors = c.successors /\ z.signals = c.signals
    BY <1>0, <2>1 DEF WorkerStates
  <2>3. worker' = [worker EXCEPT ![w] = z]
    BY <1>1, <2>1
  <2>4. /\ worker' \in [Workers -> WorkerStates] /\ worker'[w] = z
        /\ \A v \in Workers : v # w => worker'[v] = worker[v]
    BY <1>0, <2>2, <2>3, WorkerStored
  <2> QED BY <1>p, <1>1, <2>1, <2>2, <2>4
<1>7. Types'
  BY <1>0, <1>1, <1>5, <1>6 DEF Types
<1>8. /\ \A s \in Slot : /\ jobs'[s].successors = jobs[s].successors /\ jobs'[s].signals = jobs[s].signals
                         /\ jobs'[s].waiting = jobs[s].waiting /\ handle(s)' = handle(s)
      /\ sameLists /\ sameHandles /\ logGrows
  <2>1. \A s \in Slot : /\ jobs'[s].successors = jobs[s].successors /\ jobs'[s].signals = jobs[s].signals
                        /\ jobs'[s].waiting = jobs[s].waiting
    BY <1>4, <1>5
  <2> QED BY <1>1, <2>1 DEF sameLists, sameHandles, handle, logGrows
<1>9. SlotsInv' /\ WaitInv' /\ PubInv'
  <2>1. SlotsInv'
    BY <1>0, <1>1, <1>8, SlotsKept
  <2>2. WaitInv'
    <3>1. IsInjective(free'.signals) /\ \A j \in DOMAIN log : log'[j].done => log'[j].started
      BY <1>0, <1>1 DEF WaitInv
    <3> QED BY <1>0, <1>1, <1>8, <3>1, WaitKept
  <2>3. PubInv'
    BY <1>0, <1>1, <1>8, PubKept
  <2> QED BY <2>1, <2>2, <2>3
<1>10. RunInv'
  <2>1. ASSUME NEW v \in Workers, NEW j \in DOMAIN log, v # w, worker[v].at # "idle", j = worker[v].job
        PROVE  /\ j \in DOMAIN log' /\ handle(j.slot)' = j /\ log'[j].started
               /\ log'[j].done = log[j].done /\ log'[j].result = log[j].result
               /\ jobs'[j.slot].signals.head = closedList <=> jobs[j.slot].signals.head = closedList
               /\ j # h
    <3>1. worker[w].at # "idle" /\ h = worker[w].job
      BY <1>p, <1>1
    <3>2. \A s \in Slot : s # h.slot => jobs'[s].signals = jobs[s].signals /\ handle(s)' = handle(s)
      BY <1>8
    <3>3. DOMAIN log' = DOMAIN log /\ \A i \in DOMAIN log : i # h => log'[i] = log[i]
      BY <1>1
    <3> QED BY <1>0, <2>1, <3>1, <3>2, <3>3, OthersKept
  <2>2. PICK me : me = worker'[w]
    OBVIOUS
  <2>3. /\ me.at = "lower" /\ h = me.job /\ me.result = log'[h].result
        /\ h \in DOMAIN log' /\ h = handle(h.slot)' /\ log'[h].started /\ log'[h].done
        /\ jobs'[h.slot].signals.head = closedList /\ me.successors # None /\ me.signals = None
    BY <1>1, <1>2, <1>6, <1>8, <2>2
  <2>4. \A v \in Workers : v # w /\ worker[v].at # "idle" => worker[v].job # h
    BY <1>0, <2>1 DEF RunInv
  <2>5. RunInv /\ \A v \in Workers : v # w => worker'[v] = worker[v]
    BY <1>0, <1>6
  <2> QED BY <2>1, <2>2, <2>3, <2>4, <2>5, RunMoved
<1>11. LinkInv'
  <2>1. ASSUME NEW q \in Publications, linker'[q].at # "idle"
        PROVE  pub[q].job \in DOMAIN log /\ linker[q].edge \notin ToSet(free.successors)
    BY <1>0, <1>1, <2>1 DEF LinkInv, PubInv
  <2>2. ASSUME NEW n \in Notifiers, linker'[n].at # "idle"
        PROVE  linker[n].edge \notin ToSet(free.signals)
    BY <1>0, <1>1, <2>2 DEF LinkInv
  <2> QED BY <1>0, <1>1, <1>8, <2>1, <2>2, LinkKept
<1>12. SignalsInv'
  <2>1. \A v \in Workers : worker'[v].signals \in EdgeSlot =>
          worker'[v].signals = worker[v].signals /\ worker'[v].job = worker[v].job
    BY <1>6, Initially
  <2> QED BY <1>0, <1>1, <1>8, <2>1, SignalsSame
<1>13. SuccessorsInv'
  <2>1. linkedSuccessors' = linkedSuccessors
    BY <1>1 DEF linkedSuccessors
  <2>2. Chained(edge'.successors, linkedSuccessors', own, successorHeads')
    <3>1. \A s \in Slot : <<jobs'[s].successors.head, handle(s)'>> \in successorHeads
      BY <1>8 DEF successorHeads
    <3>2. \A v \in Workers : <<worker'[v].successors, worker'[v].job>> \in successorHeads
      BY <1>p, <1>6 DEF successorHeads
    <3>3. \A y \in EdgeSlot, j \in Handles : <<y, j>> \in successorHeads' => <<y, j>> \in successorHeads
      BY <3>1, <3>2, SuccessorHeadsKept
    <3>4. Chained(edge.successors, linkedSuccessors, own, successorHeads)
      BY <1>3 DEF SuccessorsOwned
    <3> QED BY <1>1, <2>1, <3>3, <3>4, ChainKept
  <2>3. ASSUME NEW e \in linkedSuccessors'
        PROVE  Waits(own, e)'
    <3>1. Waits(own, e) /\ edge.successors[e].successor \in Slot
      BY <1>0, <1>3, <2>1 DEF SuccessorsOwned, WaitInv, linkedSuccessors
    <3> QED BY <1>0, <1>1, <1>8, <3>1, WaitsKept
  <2>4. ASSUME NEW j, NEW d
        PROVE  /\ Pending(own, j, d) => Pending(own, j, d)'
               /\ Feeding(own, j, d) => Feeding(own, j, d)'
    BY <1>1, <2>1, PendingKept
  <2>5. Fed(handle(t), a)'
    <3>1. h # ZeroHandle
      BY <1>2, Initially
    <3>2. PICK k : k = handle(t)
      OBVIOUS
    <3>3. CASE f.feeds
      <4>1. log'[k].from = h /\ a = log'[h].result /\ log'[h].done
        BY <1>p, <1>1, <1>2, <1>4, <3>2, <3>3
      <4>2. Fed(k, a)'
        BY <3>1, <4>1 DEF Fed
      <4>3. handle(t)' = k
        BY <1>4, <1>8, <3>2
      <4> QED BY <4>2, <4>3 DEF Fed
    <3>4. CASE ~f.feeds
      <4>1. Fed(handle(t), jobs[t].arg)
        BY <1>3, <1>4 DEF FedOwned
      <4>2. Fed(k, a)
        BY <1>p, <3>2, <3>4, <4>1 DEF Fed
      <4>3. k \in DOMAIN log /\ (log[k].from = ZeroHandle \/ log[k].from \in DOMAIN log)
        BY <1>3, <1>4, <3>2 DEF FedOwned, SuccessorsOwned
      <4>4. Fed(k, a)'
        BY <1>8, <4>2, <4>3, FedKept
      <4>5. handle(t)' = k
        BY <1>4, <1>8, <3>2
      <4> QED BY <4>4, <4>5 DEF Fed
    <3> QED BY <3>3, <3>4
  <2>6. \A s \in Slot : handle(s)' \in DOMAIN log' =>
           \/ jobs'[s].arg = jobs[s].arg
           \/ jobs'[s].arg = ZeroValue
           \/ Fed(handle(s), jobs[s].arg)'
    <3>1. Fed(handle(t), jobs[t].arg)'
      BY <1>5, <2>5 DEF Fed
    <3> QED BY <1>5, <3>1
  <2>7. ASSUME NEW j \in DOMAIN log
        PROVE  FedInBatch(own, j)'
    <3>1. PICK k : k = log[j].from
      OBVIOUS
    <3>2. j.slot \in Slot /\ (k = ZeroHandle \/ k \in DOMAIN log) /\ FedInBatch(own, j)
      BY <1>0, <1>3, <3>1 DEF FedOwned, SuccessorsOwned, SlotsInv
    <3>3. CASE log[j].started \/ j.slot # t \/ ~f.feeds
      <4>1. log[j].started \/ jobs'[j.slot].arg = jobs[j.slot].arg
        BY <1>p, <1>5, <3>2, <3>3
      <4>2. log'[j].started = log[j].started /\ (Feeding(own, j, k) => Feeding(own, j, k)')
        BY <1>1, <2>4
      <4> QED BY <1>8, <3>1, <3>2, <4>1, <4>2, BatchKept
    <3>4. CASE ~log[j].started /\ j.slot = t /\ f.feeds
      <4>1. ~log[j].done
        BY <1>0, <3>4 DEF WaitInv
      <4>2. j = handle(t)
        BY <1>0, <3>4, <4>1, Unfinished
      <4>3. log'[j].from = h /\ log'[h].done /\ ~log'[j].started /\ jobs'[j.slot].arg = log'[h].result
        BY <1>p, <1>1, <1>2, <1>4, <1>5, <3>4, <4>2
      <4> QED BY <4>3 DEF FedInBatch
    <3> QED BY <3>3, <3>4
  <2>8. ASSUME NEW v \in Workers, worker'[v].at = "lower"
        PROVE  LET e == edge'.successors[worker'[v].successors] IN
               e.feeds => jobs'[e.successor].arg = worker'[v].result
    <3>1. CASE v = w
      BY <1>p, <1>1, <1>5, <1>6, <3>1
    <3>2. CASE v # w
      <4>1. PICK z, g, u : z = worker[v].successors /\ g = edge.successors[z] /\ u = g.successor
        OBVIOUS
      <4>2. worker'[v] = worker[v] /\ worker[v].at = "lower" /\ z # None
        BY <1>0, <1>6, <2>8, <3>2, <4>1 DEF RunInv
      <4>3. z \in linkedSuccessors /\ own[z] = worker[v].job /\ u \in Slot
        BY <1>0, <1>3, <4>1, <4>2, LowerLinked
      <4>4. g.feeds => jobs[u].arg = worker[v].result
        BY <1>3, <4>1, <4>2 DEF FedOwned
      <4>5. g.feeds => own[z] = log[handle(u)].from
        BY <1>3, <4>1, <4>3 DEF SuccessorsOwned, Waits
      <4>6. worker[v].job # h
        BY <1>p, <1>0, <1>1, <3>2, <4>2 DEF RunInv
      <4>7. g.feeds => jobs'[u].arg = jobs[u].arg
        <5>1. CASE u # t
          BY <1>5, <4>3, <5>1
        <5>2. CASE u = t /\ ~f.feeds
          BY <1>p, <1>5, <5>2
        <5>3. CASE u = t /\ f.feeds
          <6>1. log[handle(u)].from = h
            BY <1>4, <5>3
          <6> QED BY <4>3, <4>5, <4>6, <6>1
        <5> QED BY <5>1, <5>2, <5>3
      <4> QED BY <1>1, <4>1, <4>2, <4>4, <4>7
    <3> QED BY <3>1, <3>2
  <2>9. \A i, d \in DOMAIN log : d \in log[i].deps /\ ~log[d].done /\ ~log[i].started /\ Pending(own, i, d) =>
          log'[d].done \/ (~log'[i].started /\ Pending(own, i, d)')
    BY <1>1, <2>4
  <2>10. DOMAIN log' = DOMAIN log /\ \A i \in DOMAIN log : log'[i].started => log[i].started
    BY <1>1
  <2>11. \A s \in Slot : handle(s)' \in DOMAIN log' => handle(s)' = handle(s)
    BY <1>8
  <2> QED BY <1>3, <1>8, <2>2, <2>3, <2>6, <2>7, <2>8, <2>9, <2>10, <2>11, SuccessorsMoved
<1>14. SuccessorsReached /\ SignalsReached /\ FlowInv
  BY DEF IInv
<1>15. linkedSuccessors' = linkedSuccessors /\ linkedSignals' = linkedSignals
  BY <1>1 DEF linkedSuccessors, linkedSignals
<1>16. SuccessorsReached' /\ SignalsReached'
  <2>1. \A v \in Workers : worker'[v].successors = worker[v].successors /\ worker'[v].signals = worker[v].signals
    BY <1>p, <1>1, <1>6
  <2> QED BY <1>1, <1>8, <1>14, <1>15, <2>1, ReachStays
<1>17. FlowInv'
  <2>1. \A v \in Workers : /\ worker'[v].at = "idle" <=> worker[v].at = "idle"
                           /\ worker'[v].job = worker[v].job
    BY <1>p, <1>1, <1>6
  <2> QED BY <1>1, <1>8, <1>14, <1>15, <2>1, FlowKept
<1> QED BY <1>7, <1>9, <1>10, <1>11, <1>12, <1>13, <1>16, <1>17 DEF IInv

\* The successor that was fed waits for one job less, and the edge is put back.
LEMMA LowerSuccessorKeeps ==
  ASSUME IInv, NEW w \in Workers, LowerSuccessor(w)
  PROVE  IInv'
<1>p. PICK h, x, f, t : /\ h = worker[w].job /\ x = worker[w].successors /\ f = edge.successors[x]
                        /\ t = f.successor
  OBVIOUS
<1>0. /\ Types /\ SlotsInv /\ RunInv /\ WaitInv /\ PubInv /\ LinkInv /\ SignalsInv /\ SuccessorsInv
      /\ jobs \in [Slot -> Jobs] /\ worker \in [Workers -> WorkerStates] /\ worker[w] \in WorkerStates
      /\ free \in [jobs : Seq(Slot), successors : Seq(EdgeSlot), signals : Seq(EdgeSlot)]
      /\ edge \in [successors : [EdgeSlot -> Edges], signals : [EdgeSlot -> Edges]]
      /\ arrived \subseteq Slot
  BY DEF IInv, Types
<1>1. /\ worker[w].at = "lower"
      /\ jobs' = [jobs EXCEPT ![t].waiting = jobs[t].waiting - 1]
      /\ arrived' = IF jobs[t].waiting = 1 THEN arrived \cup {t} ELSE arrived
      /\ free' = [free EXCEPT !.successors = Append(free.successors, x)]
      /\ worker' = [worker EXCEPT ![w].at = "walk", ![w].successors = f.next]
      /\ UNCHANGED <<edge, linker, pub, notifier, sent, log>>
  BY <1>p DEF LowerSuccessor, lowerWaiting, Release
<1>2. /\ h \in DOMAIN log /\ h \in Handles /\ h.slot \in Slot /\ handle(h.slot) = h
      /\ log[h].started /\ log[h].done /\ worker[w].result = log[h].result
      /\ jobs[h.slot].signals.head = closedList /\ jobs[h.slot].successors.head = closedList
      /\ x # None /\ worker[w].signals = None
  <2>1. /\ worker[w].result = log[h].result /\ jobs[h.slot].signals.head = closedList
        /\ x # None /\ worker[w].signals = None
    BY <1>p, <1>0, <1>1 DEF RunInv
  <2> QED BY <1>p, <1>0, <1>1, <2>1, WorkerJob
<1>3. PICK own \in [EdgeSlot -> Handles] : SuccessorsOwned(own) /\ FedOwned(own)
  BY <1>0 DEF SuccessorsInv
<1>4. /\ x \in EdgeSlot /\ x \in linkedSuccessors /\ x \notin ToSet(free.successors) /\ own[x] = h
      /\ t \in Slot /\ handle(t) \in DOMAIN log /\ f.next \in EdgeSlot \cup {None}
  <2>1. /\ x \in EdgeSlot /\ x \in linkedSuccessors /\ own[x] = h /\ t \in Slot
        /\ handle(t) \in DOMAIN log
    BY <1>p, <1>0, <1>2, <1>3, LowerLinked
  <2>2. x \notin ToSet(free.successors)
    BY <2>1 DEF linkedSuccessors
  <2>3. f \in Edges
    BY <1>p, <1>0, <2>1
  <2> QED BY <2>1, <2>2, <2>3 DEF Edges
<1>5. /\ jobs' \in [Slot -> Jobs] /\ \A s \in Slot : s # t => jobs'[s] = jobs[s]
      /\ jobs'[t].successors = jobs[t].successors /\ jobs'[t].signals = jobs[t].signals
      /\ jobs'[t].waiting = jobs[t].waiting - 1 /\ jobs'[t].arg = jobs[t].arg
  <2>1. PICK J, J1, c : J = jobs /\ J1 = jobs' /\ c = jobs[t].waiting - 1
    OBVIOUS
  <2>2. jobs[t].waiting \in Int
    BY <1>0, <1>4 DEF Jobs
  <2>3. c \in Int
    BY <2>1, <2>2
  <2>4. J \in [Slot -> Jobs] /\ J1 = [J EXCEPT ![t].waiting = c] /\ ZeroHandle \in Handles
    BY <1>0, <1>1, <2>1, Initially
  <2>5. /\ J1 \in [Slot -> Jobs] /\ \A s \in Slot : s # t => J1[s] = J[s]
        /\ J1[t].signals = J[t].signals /\ J1[t].successors = J[t].successors
        /\ J1[t].waiting = c /\ J1[t].arg = J[t].arg
    BY <1>4, <2>3, <2>4, CountStored
  <2> QED BY <2>1, <2>5
<1>6. /\ worker' \in [Workers -> WorkerStates] /\ \A v \in Workers : v # w => worker'[v] = worker[v]
      /\ worker'[w].at = "walk" /\ worker'[w].job = h /\ worker'[w].result = worker[w].result
      /\ worker'[w].successors = f.next /\ worker'[w].signals = None
  <2>1. PICK c, z : c = worker[w] /\ z = [c EXCEPT !.at = "walk", !.successors = f.next]
    OBVIOUS
  <2>2. z \in WorkerStates /\ z.at = "walk" /\ z.job = c.job /\ z.result = c.result /\ z.successors = f.next /\ z.signals = c.signals
    BY <1>0, <1>4, <2>1 DEF WorkerStates
  <2>3. worker' = [worker EXCEPT ![w] = z]
    BY <1>1, <2>1
  <2>4. /\ worker' \in [Workers -> WorkerStates] /\ worker'[w] = z
        /\ \A v \in Workers : v # w => worker'[v] = worker[v]
    BY <1>0, <2>2, <2>3, WorkerStored
  <2> QED BY <1>p, <1>2, <2>1, <2>2, <2>4
<1>7. /\ free' \in [jobs : Seq(Slot), successors : Seq(EdgeSlot), signals : Seq(EdgeSlot)]
      /\ free'.jobs = free.jobs /\ free'.signals = free.signals
      /\ IsInjective(free'.successors) /\ ToSet(free'.successors) = ToSet(free.successors) \cup {x}
  <2>1. PICK q, q1 : q = free.successors /\ q1 = Append(q, x)
    OBVIOUS
  <2>2. q \in Seq(EdgeSlot) /\ IsInjective(q) /\ x \notin ToSet(q)
    BY <1>0, <1>4, <2>1 DEF WaitInv
  <2>3. q1 \in Seq(EdgeSlot) /\ IsInjective(q1) /\ ToSet(q1) = ToSet(q) \cup {x}
    BY <1>4, <2>1, <2>2, PutBack
  <2>4. free' = [free EXCEPT !.successors = q1]
    BY <1>1, <2>1
  <2>5. /\ free' \in [jobs : Seq(Slot), successors : Seq(EdgeSlot), signals : Seq(EdgeSlot)]
        /\ free'.jobs = free.jobs /\ free'.successors = q1 /\ free'.signals = free.signals
    BY <1>0, <2>3, <2>4, PoolStored
  <2> QED BY <2>1, <2>3, <2>5
<1>8. Types'
  <2>1. arrived' \subseteq Slot
    BY <1>0, <1>1, <1>4
  <2> QED BY <1>0, <1>1, <1>5, <1>6, <1>7, <2>1 DEF Types
<1>9. /\ \A s \in Slot : /\ jobs'[s].successors = jobs[s].successors /\ jobs'[s].signals = jobs[s].signals
                         /\ jobs'[s].arg = jobs[s].arg /\ handle(s)' = handle(s)
      /\ sameLists /\ sameHandles /\ logGrows
  <2>1. \A s \in Slot : /\ jobs'[s].successors = jobs[s].successors /\ jobs'[s].signals = jobs[s].signals
                        /\ jobs'[s].arg = jobs[s].arg
    BY <1>4, <1>5
  <2> QED BY <1>1, <2>1 DEF sameLists, sameHandles, handle, logGrows
<1>10. SlotsInv' /\ PubInv'
  <2>1. SlotsInv'
    BY <1>0, <1>1, <1>7, <1>9, SlotsKept
  <2>2. PubInv'
    BY <1>0, <1>1, <1>9, PubKept
  <2> QED BY <2>1, <2>2
<1>11. WaitInv'
  <2>1. \A s \in Slot : held(s)' = held(s)
    BY <1>1, <1>9 DEF held
  <2>2. \A s \in Slot : s # t => waitsFor(s)' = waitsFor(s)
    BY <1>p, <1>1, <1>7 DEF waitsFor
  <2>3. waitsFor(t)' = waitsFor(t) \ {x} /\ x \in waitsFor(t)
    BY <1>p, <1>1, <1>4, <1>7 DEF waitsFor
  <2>4. PICK m \in Nat : Cardinality(waitsFor(t)) = m /\ m > 0 /\ Cardinality(waitsFor(t)') = m - 1
    <3>1. PICK W, W1 : W = waitsFor(t) /\ W1 = waitsFor(t)'
      OBVIOUS
    <3>2. IsFiniteSet(W) /\ Cardinality(W) \in Nat
      BY <3>1, WaitsFinite
    <3>3. Cardinality(W \ {x}) = Cardinality(W) - 1 /\ IsFiniteSet(W \ {x})
      BY <2>3, <3>1, <3>2, FS_RemoveElement
    <3>4. Cardinality(W \ {x}) \in Nat
      BY <3>3, FS_CardinalityType
    <3> QED BY <2>3, <3>1, <3>2, <3>3, <3>4
  <2>5. /\ jobs[t].waiting = m + (IF held(t) THEN 1 ELSE 0)
        /\ t \notin arrived /\ ~log[handle(t)].started
    <3>1. jobs[t].waiting = m + (IF held(t) THEN 1 ELSE 0)
      BY <1>0, <1>4, <2>4 DEF WaitInv
    <3>2. jobs[t].waiting # 0
      BY <2>4, <3>1
    <3> QED BY <1>0, <1>4, <3>1, <3>2 DEF WaitInv
  <2>6. ASSUME NEW s \in Slot
        PROVE  /\ jobs'[s].waiting = Cardinality(waitsFor(s)') + (IF held(s)' THEN 1 ELSE 0)
               /\ handle(s)' \notin DOMAIN log' => jobs'[s].waiting = 0 /\ s \notin arrived'
               /\ handle(s)' \in DOMAIN log' =>
                    /\ jobs'[s].waiting = 0 <=> s \in arrived' \/ log'[handle(s)'].started
                    /\ ~(s \in arrived' /\ log'[handle(s)'].started)
    <3>1. CASE s # t
      <4>1. /\ jobs'[s].waiting = jobs[s].waiting /\ (s \in arrived' <=> s \in arrived)
            /\ handle(s)' = handle(s) /\ log' = log
        BY <1>1, <1>5, <1>9, <3>1
      <4> QED BY <1>0, <2>1, <2>2, <3>1, <4>1 DEF WaitInv
    <3>2. CASE s = t
      <4>1. handle(t)' = handle(t) /\ log' = log /\ handle(t) \in DOMAIN log
        BY <1>1, <1>4, <1>9
      <4>2. jobs'[t].waiting = (m - 1) + (IF held(t)' THEN 1 ELSE 0)
        BY <1>4, <1>5, <2>1, <2>4, <2>5
      <4>3. jobs'[t].waiting = 0 <=> t \in arrived'
        BY <1>1, <1>5, <2>4, <2>5
      <4> QED BY <2>4, <2>5, <3>2, <4>1, <4>2, <4>3
    <3> QED BY <3>1, <3>2
  <2>7. \A j \in DOMAIN log' : (log'[j].done => log'[j].started) /\ (log'[j].started => log'[j].submitted)
    BY <1>0, <1>1 DEF WaitInv
  <2>8. IsInjective(free'.signals)
    BY <1>0, <1>7 DEF WaitInv
  <2>9. \A e \in EdgeSlot \ ToSet(free'.successors) : edge'.successors[e].successor \in Slot
    BY <1>0, <1>1, <1>7 DEF WaitInv
  <2> QED BY <1>7, <2>6, <2>7, <2>8, <2>9 DEF WaitInv
<1>12. RunInv'
  <2>1. ASSUME NEW v \in Workers, NEW j \in DOMAIN log, v # w, worker[v].at # "idle", j = worker[v].job
        PROVE  /\ j \in DOMAIN log' /\ handle(j.slot)' = j /\ log'[j].started
               /\ log'[j].done = log[j].done /\ log'[j].result = log[j].result
               /\ jobs'[j.slot].signals.head = closedList <=> jobs[j.slot].signals.head = closedList
               /\ j # h
    <3>1. worker[w].at # "idle" /\ h = worker[w].job
      BY <1>p, <1>1
    <3>2. \A s \in Slot : s # h.slot => jobs'[s].signals = jobs[s].signals /\ handle(s)' = handle(s)
      BY <1>9
    <3>3. DOMAIN log' = DOMAIN log /\ \A i \in DOMAIN log : i # h => log'[i] = log[i]
      BY <1>1
    <3> QED BY <1>0, <2>1, <3>1, <3>2, <3>3, OthersKept
  <2>2. PICK me : me = worker'[w]
    OBVIOUS
  <2>3. /\ me.at = "walk" /\ h = me.job /\ me.result = log'[h].result
        /\ h \in DOMAIN log' /\ h = handle(h.slot)' /\ log'[h].started /\ log'[h].done
        /\ jobs'[h.slot].signals.head = closedList
    BY <1>1, <1>2, <1>6, <1>9, <2>2
  <2>4. \A v \in Workers : v # w /\ worker[v].at # "idle" => worker[v].job # h
    BY <1>0, <2>1 DEF RunInv
  <2>5. RunInv /\ \A v \in Workers : v # w => worker'[v] = worker[v]
    BY <1>0, <1>6
  <2> QED BY <2>1, <2>2, <2>3, <2>4, <2>5, RunMoved
<1>13. LinkInv'
  <2>1. ASSUME NEW q \in Publications, linker'[q].at # "idle"
        PROVE  pub[q].job \in DOMAIN log /\ linker[q].edge \notin ToSet(free'.successors)
    <3>1. pub[q].job \in DOMAIN log /\ linker[q].edge \notin ToSet(free.successors)
      BY <1>0, <1>1, <2>1 DEF LinkInv, PubInv
    <3>2. linker[q].edge # x
      BY <1>1, <1>4, <2>1 DEF linkedSuccessors
    <3> QED BY <1>7, <3>1, <3>2
  <2>2. ASSUME NEW n \in Notifiers, linker'[n].at # "idle"
        PROVE  linker[n].edge \notin ToSet(free'.signals)
    BY <1>0, <1>1, <1>7, <2>2 DEF LinkInv
  <2> QED BY <1>0, <1>1, <1>9, <2>1, <2>2, LinkKept
<1>14. SignalsInv'
  <2>1. \A v \in Workers : worker'[v].signals \in EdgeSlot =>
          worker'[v].signals = worker[v].signals /\ worker'[v].job = worker[v].job
    BY <1>6, Initially
  <2> QED BY <1>0, <1>1, <1>7, <1>9, <2>1, SignalsSame
<1>15. SuccessorsInv'
  <2>1. linkedSuccessors' = linkedSuccessors \ {x}
    BY <1>1, <1>7 DEF linkedSuccessors
  <2>2. Chained(edge'.successors, linkedSuccessors', own, successorHeads')
    <3>1. PICK E, N, hd, hd1 : /\ E = edge.successors /\ N = linkedSuccessors
                               /\ hd = successorHeads /\ hd1 = successorHeads'
      OBVIOUS
    <3>2. Chained(E, N, own, hd)
      BY <1>3, <3>1 DEF SuccessorsOwned
    <3>3. ASSUME NEW z \in EdgeSlot, NEW k \in Handles, <<z, k>> \in hd1
          PROVE  \/ z = E[x].next /\ k = h
                 \/ <<z, k>> \in hd /\ ~(z = x /\ k = h)
      <4>1. ASSUME NEW s \in Slot, <<z, k>> = <<jobs'[s].successors.head, handle(s)'>>
            PROVE  <<z, k>> \in hd /\ k # h
        <5>1. z = jobs[s].successors.head /\ k = handle(s)
          BY <1>9, <4>1
        <5>2. k # h
          <6>1. k.slot = s
            BY <5>1 DEF handle
          <6> QED BY <1>2, <5>1, <6>1, Initially
        <5> QED BY <3>1, <5>1, <5>2 DEF successorHeads
      <4>2. ASSUME NEW v \in Workers, <<z, k>> = <<worker'[v].successors, worker'[v].job>>
            PROVE  \/ z = E[x].next /\ k = h
                   \/ <<z, k>> \in hd /\ k # h
        <5>1. CASE v = w
          BY <1>p, <1>6, <3>1, <4>2, <5>1
        <5>2. CASE v # w
          <6>1. z = worker[v].successors /\ k = worker[v].job
            BY <1>6, <4>2, <5>2
          <6>2. worker[v].at # "idle"
            BY <1>0, <6>1, Initially DEF RunInv
          <6>3. k # h
            BY <1>p, <1>0, <1>1, <5>2, <6>1, <6>2 DEF RunInv
          <6> QED BY <3>1, <6>1, <6>3 DEF successorHeads
        <5> QED BY <5>1, <5>2
      <4> QED BY <3>1, <3>3, <4>1, <4>2 DEF successorHeads
    <3>4. <<x, h>> \in hd
      BY <1>p, <3>1 DEF successorHeads
    <3>5. x \in EdgeSlot /\ h \in Handles
      BY <1>2, <1>4
    <3>6. Chained(E, N \ {x}, own, hd1)
      BY <3>2, <3>3, <3>4, <3>5, ChainPopped
    <3> QED BY <1>1, <2>1, <3>1, <3>6
  <2>3. ASSUME NEW e \in linkedSuccessors'
        PROVE  Waits(own, e)'
    <3>1. Waits(own, e) /\ edge.successors[e].successor \in Slot
      BY <1>0, <1>3, <2>1 DEF SuccessorsOwned, WaitInv, linkedSuccessors
    <3> QED BY <1>0, <1>1, <1>9, <3>1, WaitsKept
  <2>4. ASSUME NEW j, NEW d, d # h
        PROVE  /\ Pending(own, j, d) => Pending(own, j, d)'
               /\ Feeding(own, j, d) => Feeding(own, j, d)'
    <3>1. \A e \in linkedSuccessors : own[e] = d => e \in linkedSuccessors'
      BY <1>4, <2>1, <2>4
    <3> QED BY <1>1, <3>1, PendingKept
  <2>5. ASSUME NEW j \in DOMAIN log
        PROVE  FedInBatch(own, j)'
    <3>1. PICK k, a : k = log[j].from /\ a = IF log[j].started THEN log[j].arg ELSE jobs[j.slot].arg
      OBVIOUS
    <3>2. j.slot \in Slot /\ (k = ZeroHandle \/ k \in DOMAIN log) /\ FedInBatch(own, j)
      BY <1>0, <1>3, <3>1 DEF FedOwned, SuccessorsOwned, SlotsInv
    <3>3. log' = log /\ jobs'[j.slot].arg = jobs[j.slot].arg
      BY <1>1, <1>9, <3>2
    <3>4. CASE Feeding(own, j, k) => Feeding(own, j, k)'
      <4>1. log'[j].started = log[j].started
        BY <3>3
      <4> QED BY <1>9, <3>1, <3>2, <3>3, <3>4, <4>1, BatchKept
    <3>5. CASE ~log[j].started /\ Feeding(own, j, k) /\ ~Feeding(own, j, k)'
      <4>1. ASSUME NEW q \in Publications, pub[q].job = j
            PROVE  /\ ~\E l \in ToSet(pub[q].todo) : l.to = k /\ l.feeds
                   /\ ~(linker[q].at # "idle" /\ linker[q].to = k /\ edge.successors[linker[q].edge].feeds)
        BY <1>1, <3>5, <4>1 DEF Feeding
      <4>2. PICK e \in linkedSuccessors : /\ own[e] = k /\ edge.successors[e].successor = j.slot
                                          /\ edge.successors[e].feeds
        BY <3>5, <4>1 DEF Feeding
      <4>3. e = x
        BY <1>1, <2>1, <3>5, <4>2 DEF Feeding
      <4>4. k = h /\ j.slot = t /\ f.feeds
        BY <1>p, <1>4, <4>2, <4>3
      <4>5. jobs[t].arg = worker[w].result
        BY <1>p, <1>1, <1>3, <4>4 DEF FedOwned
      <4>6. log[k].done /\ a = log[k].result
        BY <1>2, <3>1, <3>5, <4>4, <4>5
      <4>7. log'[j].from = k /\ log'[k].done /\ (IF log'[j].started THEN log'[j].arg ELSE jobs'[j.slot].arg) = log'[k].result
        BY <3>1, <3>3, <4>6
      <4> QED BY <4>7 DEF FedInBatch
    <3>6. CASE log[j].started
      <4>1. k # ZeroHandle /\ log[k].batch = log[j].batch => log[k].done /\ a = log[k].result
        BY <3>1, <3>2, <3>6 DEF FedInBatch
      <4>2. a = log'[j].arg /\ log'[j].started /\ k = log'[j].from
        BY <3>1, <3>3, <3>6
      <4> QED BY <3>3, <4>1, <4>2 DEF FedInBatch
    <3> QED BY <3>4, <3>5, <3>6
  <2>6. ASSUME NEW v \in Workers, worker'[v].at = "lower"
        PROVE  LET e == edge'.successors[worker'[v].successors] IN
               e.feeds => jobs'[e.successor].arg = worker'[v].result
    <3>1. v # w /\ worker'[v] = worker[v]
      BY <1>6, <2>6
    <3>2. \A e \in linkedSuccessors : edge.successors[e].successor \in Slot
      BY <1>0 DEF WaitInv, linkedSuccessors
    <3>3. \A e \in linkedSuccessors :
            /\ edge'.successors[e] = edge.successors[e]
            /\ LET s == edge.successors[e].successor IN jobs'[s].arg = jobs[s].arg
      BY <1>1, <1>9, <3>2
    <3>4. worker[v].at = "lower" /\ worker'[v].result = worker[v].result /\ worker'[v].successors = worker[v].successors
      BY <2>6, <3>1
    <3> QED BY <1>0, <1>3, <3>3, <3>4, LowerKept
  <2>7. \A i, d \in DOMAIN log : d \in log[i].deps /\ ~log[d].done /\ ~log[i].started /\ Pending(own, i, d) =>
          log'[d].done \/ (~log'[i].started /\ Pending(own, i, d)')
    BY <1>1, <1>2, <2>4
  <2>8. DOMAIN log' = DOMAIN log /\ \A i \in DOMAIN log : log'[i].started => log[i].started
    BY <1>1
  <2>9. \A s \in Slot : handle(s)' \in DOMAIN log' => handle(s)' = handle(s)
    BY <1>9
  <2>10. \A s \in Slot : jobs'[s].arg = jobs[s].arg
    BY <1>9
  <2> QED BY <1>3, <1>9, <2>2, <2>3, <2>5, <2>6, <2>7, <2>8, <2>9, <2>10, SuccessorsMoved
<1>16. SuccessorsReached /\ SignalsReached /\ FlowInv
  BY DEF IInv
<1>17. linkedSuccessors' = linkedSuccessors \ {x} /\ linkedSignals' = linkedSignals
  BY <1>1, <1>7 DEF linkedSuccessors, linkedSignals
<1>18. SignalsReached'
  <2>1. \A s \in Slot : jobs[s].signals.head \in signalFirsts'
    BY <1>9 DEF signalFirsts
  <2>2. \A v \in Workers : worker'[v].signals = worker[v].signals
    BY <1>2, <1>6
  <2>3. \A v \in Workers : worker[v].signals \in signalFirsts'
    BY <2>2 DEF signalFirsts
  <2> QED BY <1>1, <1>16, <1>17, <2>1, <2>3, SignalsReachKept
<1>19. SuccessorsReached'
  <2>1. PICK E, N, F, F1 : /\ E = edge.successors /\ N = linkedSuccessors
                           /\ F = successorFirsts /\ F1 = successorFirsts'
    OBVIOUS
  <2>2. Reached(E, N, F) /\ N \subseteq EdgeSlot
    BY <1>16, <2>1 DEF SuccessorsReached, linkedSuccessors
  <2>3. ASSUME NEW e \in EdgeSlot, e \in F, e # x PROVE e \in F1
    <3>1. ASSUME NEW s \in Slot, e = jobs[s].successors.head PROVE e \in F1
      BY <1>9, <2>1, <3>1 DEF successorFirsts
    <3>2. ASSUME NEW v \in Workers, e = worker[v].successors PROVE e \in F1
      <4>1. worker'[v].successors = e
        BY <1>p, <1>6, <2>3, <3>2
      <4> QED BY <2>1, <4>1 DEF successorFirsts
    <3> QED BY <2>1, <2>3, <3>1, <3>2 DEF successorFirsts
  <2>4. E[x].next \in F1
    <3>1. E[x].next = worker'[w].successors
      BY <1>p, <1>6, <2>1
    <3> QED BY <2>1, <3>1 DEF successorFirsts
  <2>5. Reached(E, N \ {x}, F1)
    BY <2>2, <2>3, <2>4, ReachPopped
  <2> QED BY <1>1, <1>17, <2>1, <2>5 DEF SuccessorsReached
<1>20. FlowInv'
  <2>1. \A v \in Workers : /\ worker'[v].at = "idle" <=> worker[v].at = "idle"
                           /\ worker'[v].job = worker[v].job
    BY <1>p, <1>1, <1>6
  <2> QED BY <1>1, <1>7, <1>9, <1>16, <1>17, <2>1, FlowKept
<1> QED BY <1>8, <1>10, <1>11, <1>12, <1>13, <1>14, <1>15, <1>18, <1>19, <1>20 DEF IInv

\* The slot is given back under a generation no handle names yet.
LEMMA ReleaseJobKeeps ==
  ASSUME IInv, NEW w \in Workers, ReleaseJob(w)
  PROVE  IInv'
<1>p. PICK h, s, c : h = worker[w].job /\ s = h.slot /\ c = packList(h.gen + 1, closedList)
  OBVIOUS
<1>0. /\ Types /\ SlotsInv /\ RunInv /\ WaitInv /\ PubInv /\ LinkInv /\ SignalsInv /\ SuccessorsInv
      /\ jobs \in [Slot -> Jobs] /\ worker \in [Workers -> WorkerStates] /\ worker[w] \in WorkerStates
      /\ free \in [jobs : Seq(Slot), successors : Seq(EdgeSlot), signals : Seq(EdgeSlot)]
  BY DEF IInv, Types
<1>1. /\ worker[w].at = "walk" /\ worker[w].signals = None /\ worker[w].successors = None
      /\ jobs' = [jobs EXCEPT ![s].successors = c, ![s].signals = c]
      /\ free' = [free EXCEPT !.jobs = Append(free.jobs, s)]
      /\ worker' = [worker EXCEPT ![w].at = "idle", ![w].job = ZeroHandle, ![w].result = ZeroValue]
      /\ UNCHANGED <<edge, linker, pub, notifier, arrived, sent, log>>
  BY <1>p DEF ReleaseJob, Release, nextGeneration
<1>2. /\ h \in DOMAIN log /\ h \in Handles /\ s \in Slot /\ handle(s) = h
      /\ log[h].started /\ log[h].done /\ h.gen = jobs[s].successors.gen /\ h.gen \in Nat
  <2>1. /\ h \in DOMAIN log /\ h \in Handles /\ s \in Slot /\ handle(s) = h
        /\ log[h].started /\ log[h].done /\ h.gen = jobs[s].successors.gen
    BY <1>p, <1>0, <1>1, WorkerJob
  <2> QED BY <2>1 DEF Handles
<1>3. /\ c \in Words /\ c.gen = h.gen + 1 /\ c.head = closedList
  BY <1>p, <1>2 DEF packList, Words
<1>4. /\ jobs' \in [Slot -> Jobs] /\ \A t \in Slot : t # s => jobs'[t] = jobs[t]
      /\ jobs'[s].successors = c /\ jobs'[s].signals = c
      /\ jobs'[s].waiting = jobs[s].waiting /\ jobs'[s].arg = jobs[s].arg
  <2>1. PICK x, y : x = jobs[s] /\ y = [x EXCEPT !.successors = c, !.signals = c]
    OBVIOUS
  <2>2. x \in Jobs
    BY <1>0, <1>2, <2>1
  <2>3. /\ y \in Jobs /\ y.successors = c /\ y.signals = c /\ y.waiting = x.waiting /\ y.arg = x.arg
    BY <1>3, <2>1, <2>2 DEF Jobs
  <2>4. jobs' = [jobs EXCEPT ![s] = y]
    BY <1>1, <2>1
  <2> QED BY <1>0, <1>2, <2>1, <2>3, <2>4
<1>5. /\ worker' \in [Workers -> WorkerStates] /\ \A v \in Workers : v # w => worker'[v] = worker[v]
      /\ worker'[w].at = "idle" /\ worker'[w].successors = None /\ worker'[w].signals = None
      /\ worker'[w].job = ZeroHandle
  <2>1. PICK x, z : x = worker[w] /\ z = [x EXCEPT !.at = "idle", !.job = ZeroHandle, !.result = ZeroValue]
    OBVIOUS
  <2>2. z \in WorkerStates /\ z.at = "idle" /\ z.job = ZeroHandle /\ z.successors = x.successors /\ z.signals = x.signals
    BY <1>0, <2>1, Initially DEF WorkerStates, ZeroValue
  <2>3. worker' = [worker EXCEPT ![w] = z]
    BY <1>1, <2>1
  <2>4. /\ worker' \in [Workers -> WorkerStates] /\ worker'[w] = z
        /\ \A v \in Workers : v # w => worker'[v] = worker[v]
    BY <1>0, <2>2, <2>3, WorkerStored
  <2> QED BY <1>1, <2>1, <2>2, <2>4
<1>6. /\ free' \in [jobs : Seq(Slot), successors : Seq(EdgeSlot), signals : Seq(EdgeSlot)]
      /\ free'.successors = free.successors /\ free'.signals = free.signals
      /\ IsInjective(free'.jobs) /\ ToSet(free'.jobs) = ToSet(free.jobs) \cup {s}
  <2>1. PICK q, q1 : q = free.jobs /\ q1 = Append(q, s)
    OBVIOUS
  <2>2. q \in Seq(Slot) /\ IsInjective(q) /\ s \notin ToSet(q)
    BY <1>0, <1>2, <2>1 DEF SlotsInv
  <2>3. q1 \in Seq(Slot) /\ IsInjective(q1) /\ ToSet(q1) = ToSet(q) \cup {s}
    BY <1>2, <2>1, <2>2, PutBack
  <2>4. free' = [free EXCEPT !.jobs = q1]
    BY <1>1, <2>1
  <2>5. /\ free' \in [jobs : Seq(Slot), successors : Seq(EdgeSlot), signals : Seq(EdgeSlot)]
        /\ free'.jobs = q1 /\ free'.successors = free.successors /\ free'.signals = free.signals
    BY <1>0, <2>3, <2>4, PoolStored
  <2> QED BY <2>1, <2>3, <2>5
<1>7. Types'
  BY <1>0, <1>1, <1>4, <1>5, <1>6 DEF Types
<1>8. /\ \A t \in Slot : t # s => handle(t)' = handle(t)
      /\ handle(s)' \notin DOMAIN log /\ logGrows
  <2>1. \A t \in Slot : t # s => handle(t)' = handle(t)
    BY <1>4 DEF handle
  <2>2. ASSUME handle(s)' \in DOMAIN log PROVE FALSE
    <3>1. PICK k : k = handle(s)'
      OBVIOUS
    <3>2. k.slot = s /\ k.gen = h.gen + 1
      BY <1>3, <1>4, <3>1 DEF handle
    <3>3. k.gen <= h.gen
      BY <1>0, <1>2, <2>2, <3>1, <3>2 DEF SlotsInv
    <3> QED BY <1>2, <3>2, <3>3
  <2>3. logGrows
    BY <1>1 DEF logGrows
  <2> QED BY <2>1, <2>2, <2>3
<1>9. SlotsInv'
  <2>1. \A t \in Slot : jobs'[t].signals.gen = jobs'[t].successors.gen
    BY <1>0, <1>4 DEF SlotsInv
  <2>2. ASSUME NEW j \in DOMAIN log'
        PROVE  /\ j.slot \in Slot /\ j.gen <= jobs'[j.slot].successors.gen
               /\ j.gen # jobs'[j.slot].successors.gen => log'[j].done
    <3>1. /\ j.slot \in Slot /\ j.gen <= jobs[j.slot].successors.gen /\ j.gen \in Nat
          /\ j.gen # jobs[j.slot].successors.gen => log[j].done
      BY <1>0, <1>1 DEF SlotsInv, Types, Handles
    <3>2. CASE j.slot # s
      BY <1>1, <1>4, <3>1, <3>2
    <3>3. CASE j.slot = s
      <4>1. jobs'[j.slot].successors.gen = h.gen + 1 /\ j.gen <= h.gen
        BY <1>2, <1>3, <1>4, <3>1, <3>3
      <4>2. log[j].done
        <5>1. CASE j.gen = h.gen
          <6>1. j \in Handles
            BY <1>0, <1>1 DEF Types
          <6>2. j.slot = h.slot /\ h \in Handles
            BY <1>p, <1>2, <3>3
          <6>3. j = h
            BY <5>1, <6>1, <6>2 DEF Handles
          <6> QED BY <1>2, <6>3
        <5>2. CASE j.gen # h.gen
          BY <1>2, <3>1, <3>3, <5>2
        <5> QED BY <5>1, <5>2
      <4> QED BY <1>1, <1>2, <3>1, <4>1, <4>2
    <3> QED BY <3>2, <3>3
  <2>3. ASSUME NEW t \in ToSet(free'.jobs), handle(t)' \in DOMAIN log' PROVE FALSE
    <3>1. t \in ToSet(free.jobs) /\ t # s
      BY <1>1, <1>6, <1>8, <2>3
    <3>2. t \in Slot
      <4>1. handle(t)'.slot \in Slot
        BY <1>0, <1>1, <2>3 DEF SlotsInv
      <4> QED BY <4>1 DEF handle
    <3> QED BY <1>0, <1>1, <1>8, <2>3, <3>1, <3>2 DEF SlotsInv
  <2>4. ASSUME NEW t \in Slot, handle(t)' \in DOMAIN log'
        PROVE  /\ log'[handle(t)'].done <=> jobs'[t].successors.head = closedList
               /\ jobs'[t].signals.head = closedList => log'[handle(t)'].done
    <3>1. t # s
      BY <1>1, <1>8, <2>4
    <3> QED BY <1>0, <1>1, <1>4, <1>8, <2>4, <3>1 DEF SlotsInv
  <2> QED BY <1>6, <2>1, <2>2, <2>3, <2>4 DEF SlotsInv
<1>10. RunInv'
  <2>1. ASSUME NEW v \in Workers, NEW j \in DOMAIN log, v # w, worker[v].at # "idle", j = worker[v].job
        PROVE  /\ j \in DOMAIN log' /\ handle(j.slot)' = j /\ log'[j].started
               /\ log'[j].done = log[j].done /\ log'[j].result = log[j].result
               /\ jobs'[j.slot].signals.head = closedList <=> jobs[j.slot].signals.head = closedList
    <3>1. worker[w].at # "idle" /\ h = worker[w].job
      BY <1>p, <1>1
    <3>2. \A t \in Slot : t # h.slot => jobs'[t].signals = jobs[t].signals /\ handle(t)' = handle(t)
      BY <1>p, <1>4, <1>8
    <3>3. DOMAIN log' = DOMAIN log /\ \A i \in DOMAIN log : i # h => log'[i] = log[i]
      BY <1>1
    <3> QED BY <1>0, <2>1, <3>1, <3>2, <3>3, OthersKept
  <2>2. PICK me, k : me = worker'[w] /\ k = me.job
    OBVIOUS
  <2>3. me.at = "idle" /\ me.successors = None /\ me.signals = None
    BY <1>5, <2>2
  <2>4. RunInv /\ \A v \in Workers : v # w => worker'[v] = worker[v]
    BY <1>0, <1>5
  <2> QED BY <2>1, <2>2, <2>3, <2>4, RunMoved
<1>11. jobs[s].waiting = 0 /\ s \notin arrived /\ ~held(s) /\ waitsFor(s) = {}
  <2>1. jobs[s].waiting = 0 /\ s \notin arrived
    BY <1>0, <1>2 DEF WaitInv
  <2>2. log[h].submitted
    BY <1>0, <1>2 DEF WaitInv
  <2>3. waitsFor(s) = {}
    <3>1. PICK own : TRUE
      OBVIOUS
    <3> QED BY <1>0, <1>2, <2>1, NothingPending
  <2> QED BY <1>2, <2>1, <2>2, <2>3 DEF held
<1>12. WaitInv'
  <2>1. ASSUME NEW t \in Slot
        PROVE  /\ jobs'[t].waiting = Cardinality(waitsFor(t)') + (IF held(t)' THEN 1 ELSE 0)
               /\ handle(t)' \notin DOMAIN log' => jobs'[t].waiting = 0 /\ t \notin arrived'
               /\ handle(t)' \in DOMAIN log' =>
                    /\ jobs'[t].waiting = 0 <=> t \in arrived' \/ log'[handle(t)'].started
                    /\ ~(t \in arrived' /\ log'[handle(t)'].started)
    <3>1. waitsFor(t)' = waitsFor(t) /\ log' = log /\ arrived' = arrived
      BY <1>1, <1>6 DEF waitsFor
    <3>2. CASE t # s
      <4>1. jobs'[t].waiting = jobs[t].waiting /\ handle(t)' = handle(t) /\ held(t)' = held(t)
        BY <1>4, <1>8, <3>1, <3>2 DEF held
      <4> QED BY <1>0, <3>1, <4>1 DEF WaitInv
    <3>3. CASE t = s
      <4>1. ~held(s)' /\ handle(s)' \notin DOMAIN log'
        BY <1>8, <3>1 DEF held
      <4>2. Cardinality(waitsFor(s)') = 0
        BY <1>11, <3>1, <3>3, FS_EmptySet
      <4> QED BY <1>4, <1>11, <3>1, <3>3, <4>1, <4>2
    <3> QED BY <3>2, <3>3
  <2>2. \A j \in DOMAIN log' : (log'[j].done => log'[j].started) /\ (log'[j].started => log'[j].submitted)
    BY <1>0, <1>1 DEF WaitInv
  <2>3. IsInjective(free'.signals) /\ IsInjective(free'.successors)
    BY <1>0, <1>6 DEF WaitInv
  <2>4. \A e \in EdgeSlot \ ToSet(free'.successors) : edge'.successors[e].successor \in Slot
    BY <1>0, <1>1, <1>6 DEF WaitInv
  <2> QED BY <2>1, <2>2, <2>3, <2>4 DEF WaitInv
<1>13. PubInv'
  BY <1>0, <1>1, <1>8, PubKept
<1>14. LinkInv'
  <2>1. ASSUME NEW q \in Publications, linker'[q].at # "idle"
        PROVE  pub[q].job \in DOMAIN log /\ linker[q].edge \notin ToSet(free'.successors)
    BY <1>0, <1>1, <1>6, <2>1 DEF LinkInv, PubInv
  <2>2. ASSUME NEW n \in Notifiers, linker'[n].at # "idle"
        PROVE  linker[n].edge \notin ToSet(free'.signals)
    BY <1>0, <1>1, <1>6, <2>2 DEF LinkInv
  <2> QED BY <1>0, <1>1, <1>8, <2>1, <2>2, LinkKept
<1>15. SignalsInv'
  <2>1. \A v \in Workers : worker'[v].signals \in EdgeSlot =>
          worker'[v].signals = worker[v].signals /\ worker'[v].job = worker[v].job
    BY <1>5, Initially
  <2>2. \A t \in Slot : jobs'[t].signals.head \in EdgeSlot =>
          jobs'[t].signals.head = jobs[t].signals.head /\ handle(t)' = handle(t)
    <3>1. jobs'[s].signals.head \notin EdgeSlot
      BY <1>3, <1>4, Initially
    <3> QED BY <1>4, <1>8, <3>1
  <2> QED BY <1>0, <1>1, <1>6, <1>8, <2>1, <2>2, SignalsSame
<1>16. SuccessorsInv'
  <2>1. PICK own \in [EdgeSlot -> Handles] : SuccessorsOwned(own) /\ FedOwned(own)
    BY <1>0 DEF SuccessorsInv
  <2>2. linkedSuccessors' = linkedSuccessors
    BY <1>1, <1>6 DEF linkedSuccessors
  <2>3. Chained(edge'.successors, linkedSuccessors', own, successorHeads')
    <3>1. \A t \in Slot : jobs'[t].successors.head \in EdgeSlot =>
            <<jobs'[t].successors.head, handle(t)'>> \in successorHeads
      <4>1. jobs'[s].successors.head \notin EdgeSlot
        BY <1>3, <1>4, Initially
      <4> QED BY <1>4, <1>8, <4>1 DEF successorHeads
    <3>2. \A v \in Workers : worker'[v].successors \in EdgeSlot =>
            <<worker'[v].successors, worker'[v].job>> \in successorHeads
      BY <1>5, Initially DEF successorHeads
    <3>3. \A y \in EdgeSlot, j \in Handles : <<y, j>> \in successorHeads' => <<y, j>> \in successorHeads
      BY <3>1, <3>2, SuccessorHeadsKept
    <3>4. Chained(edge.successors, linkedSuccessors, own, successorHeads)
      BY <2>1 DEF SuccessorsOwned
    <3> QED BY <1>1, <2>2, <3>3, <3>4, ChainKept
  <2>4. ASSUME NEW e \in linkedSuccessors'
        PROVE  Waits(own, e)'
    <3>1. Waits(own, e) /\ edge.successors[e].successor \in Slot
      BY <1>0, <2>1, <2>2 DEF SuccessorsOwned, WaitInv, linkedSuccessors
    <3>2. edge.successors[e].successor # s
      BY <1>11, <2>2 DEF waitsFor, linkedSuccessors
    <3> QED BY <1>0, <1>1, <1>8, <3>1, <3>2, WaitsKept
  <2>5. ASSUME NEW j, NEW d
        PROVE  /\ Pending(own, j, d) => Pending(own, j, d)'
               /\ Feeding(own, j, d) => Feeding(own, j, d)'
    BY <1>1, <2>2, PendingKept
  <2>6. ASSUME NEW j \in DOMAIN log
        PROVE  FedInBatch(own, j)'
    <3>1. PICK k : k = log[j].from
      OBVIOUS
    <3>2. j.slot \in Slot /\ (k = ZeroHandle \/ k \in DOMAIN log) /\ FedInBatch(own, j)
      BY <1>0, <2>1, <3>1 DEF FedOwned, SuccessorsOwned, SlotsInv
    <3>3. jobs'[j.slot].arg = jobs[j.slot].arg /\ log'[j].started = log[j].started
      BY <1>1, <1>4, <3>2
    <3>4. Feeding(own, j, k) => Feeding(own, j, k)'
      BY <2>5
    <3> QED BY <1>8, <3>1, <3>2, <3>3, <3>4, BatchKept
  <2>7. ASSUME NEW v \in Workers, worker'[v].at = "lower"
        PROVE  LET e == edge'.successors[worker'[v].successors] IN
               e.feeds => jobs'[e.successor].arg = worker'[v].result
    <3>1. v # w /\ worker'[v] = worker[v]
      BY <1>5, <2>7
    <3>2. \A e \in linkedSuccessors : edge.successors[e].successor \in Slot
      BY <1>0 DEF WaitInv, linkedSuccessors
    <3>3. \A e \in linkedSuccessors :
            /\ edge'.successors[e] = edge.successors[e]
            /\ LET t == edge.successors[e].successor IN jobs'[t].arg = jobs[t].arg
      BY <1>1, <1>4, <3>2
    <3>4. worker[v].at = "lower" /\ worker'[v].result = worker[v].result /\ worker'[v].successors = worker[v].successors
      BY <2>7, <3>1
    <3> QED BY <1>0, <2>1, <3>3, <3>4, LowerKept
  <2>8. \A i, d \in DOMAIN log : d \in log[i].deps /\ ~log[d].done /\ ~log[i].started /\ Pending(own, i, d) =>
          log'[d].done \/ (~log'[i].started /\ Pending(own, i, d)')
    BY <1>1, <2>5
  <2>9. DOMAIN log' = DOMAIN log /\ \A i \in DOMAIN log : log'[i].started => log[i].started
    BY <1>1
  <2>10. \A t \in Slot : handle(t)' \in DOMAIN log' => handle(t)' = handle(t)
    BY <1>1, <1>8
  <2>11. \A t \in Slot : jobs'[t].arg = jobs[t].arg
    BY <1>4
  <2> QED BY <1>8, <2>1, <2>3, <2>4, <2>6, <2>7, <2>8, <2>9, <2>10, <2>11, SuccessorsMoved
<1>17. SuccessorsReached /\ SignalsReached /\ StartedInv /\ HeldInv /\ ArmedInv /\ UsedInv /\ OrderInv
  BY DEF IInv, FlowInv
<1>18. linkedSuccessors' = linkedSuccessors /\ linkedSignals' = linkedSignals
  BY <1>1, <1>6 DEF linkedSuccessors, linkedSignals
<1>19. SuccessorsReached' /\ SignalsReached'
  <2>1. jobs[s].successors.head = closedList /\ jobs[s].signals.head = closedList
    BY <1>p, <1>0, <1>1, <1>2 DEF SlotsInv, RunInv
  <2>2. \A t \in Slot :
          /\ jobs[t].successors.head \in EdgeSlot => jobs'[t].successors.head = jobs[t].successors.head
          /\ jobs[t].signals.head \in EdgeSlot => jobs'[t].signals.head = jobs[t].signals.head
    BY <1>4, <2>1, Initially
  <2>3. \A v \in Workers : worker'[v].successors = worker[v].successors /\ worker'[v].signals = worker[v].signals
    BY <1>1, <1>5
  <2> QED BY <1>1, <1>17, <1>18, <2>2, <2>3, ReachStays
<1>20. FlowInv'
  <2>1. HeldInv' /\ ArmedInv' /\ OrderInv'
    BY <1>1, <1>17, <1>18, HeldKept, ArmedKept, OrderKept
  <2>2. UsedInv'
    <3>1. \A t \in Slot : t \notin ToSet(free'.jobs) => handle(t)' \in DOMAIN log'
      BY <1>1, <1>6, <1>8, <1>17 DEF UsedInv
    <3>2. \A t \in Slot : handle(t)' \notin DOMAIN log' =>
            jobs'[t].successors.head \notin EdgeSlot /\ jobs'[t].signals.head \notin EdgeSlot
      BY <1>1, <1>3, <1>4, <1>8, <1>17, Initially DEF UsedInv
    <3>3. \A v \in Workers : worker'[v].at = "idle" => worker'[v].job = ZeroHandle
      BY <1>5, <1>17 DEF UsedInv
    <3> QED BY <3>1, <3>2, <3>3 DEF UsedInv
  <2>3. ASSUME NEW t \in Slot, handle(t)' \in DOMAIN log', log'[handle(t)'].started
        PROVE  \E v \in Workers : worker'[v].at # "idle" /\ worker'[v].job = handle(t)'
    <3>1. t # s /\ handle(t)' = handle(t)
      BY <1>1, <1>8, <2>3
    <3>2. PICK v \in Workers : worker[v].at # "idle" /\ worker[v].job = handle(t)
      BY <1>1, <1>17, <2>3, <3>1 DEF StartedInv
    <3>3. v # w
      <4>1. handle(t).slot # h.slot
        BY <1>p, <3>1 DEF handle
      <4> QED BY <1>p, <3>2, <4>1
    <3> QED BY <1>5, <3>1, <3>2, <3>3
  <2>4. StartedInv'
    BY <2>3 DEF StartedInv
  <2> QED BY <2>1, <2>2, <2>4 DEF FlowInv
<1> QED BY <1>7, <1>9, <1>10, <1>12, <1>13, <1>14, <1>15, <1>16, <1>19, <1>20 DEF IInv

-----------------------------------------------------------------------------
(* Notifiers *)

\* The step of a notifier leaves alone what it does not link to.
LEMMA NotifierKeeps ==
  ASSUME IInv, NEW n \in Notifiers, UNCHANGED <<jobs, pub, worker, arrived, log>>,
         free'.jobs = free.jobs, free'.successors = free.successors, IsInjective(free'.signals),
         edge'.successors = edge.successors,
         \A g \in Goroutines : g # n => linker'[g] = linker[g]
  PROVE  SlotsInv' /\ RunInv' /\ WaitInv' /\ PubInv' /\ SuccessorsInv' /\ logGrows
<1>0. Types /\ SlotsInv /\ RunInv /\ WaitInv /\ PubInv /\ LinkInv /\ SuccessorsInv
  BY DEF IInv
<1>1. sameLists /\ sameHandles /\ logGrows
  BY DEF sameLists, sameHandles, logGrows
<1>2. SlotsInv'
  BY <1>0, <1>1, SlotsKept
<1>3. RunInv'
  BY <1>0, <1>1, RunKept
<1>4. WaitInv'
  <2>1. \A j \in DOMAIN log : log'[j].done => log'[j].started
    BY <1>0 DEF WaitInv
  <2> QED BY <1>0, <1>1, <2>1, WaitKept
<1>5. PubInv'
  BY <1>0, <1>1, PubKept
<1>6. SuccessorsInv'
  <2>1. \A p \in Publications : linker'[p] = linker[p]
    BY Apart DEF Goroutines
  <2> QED BY <1>0, <1>1, <2>1, SuccessorsSame
<1> QED BY <1>1, <1>2, <1>3, <1>4, <1>5, <1>6

\* SignalsInv, where a Signal may be sent whose job has finished or is none.
LEMMA SignalsSent ==
  ASSUME SignalsInv, jobs' = jobs, worker' = worker, log' = log, linkedSignals' = linkedSignals,
         \A e \in linkedSignals : edge'.signals[e] = edge.signals[e],
         \A n \in Notifiers : /\ notifier'[n].job = notifier[n].job
                              /\ notifier[n].called => notifier'[n].called,
         sent \subseteq Notifiers, \A e \in linkedSignals : edge.signals[e].signal \subseteq Notifiers,
         NEW m \in Notifiers, sent' = sent \cup {m},
         notifier[m].job = ZeroHandle \/ log[notifier[m].job].done
  PROVE  SignalsInv'
<1>1. PICK own \in [EdgeSlot -> Handles] : SignalsOwned(own)
  BY DEF SignalsInv
<1>2. Chained(edge'.signals, linkedSignals', own, signalHeads')
  <2>1. Chained(edge.signals, linkedSignals, own, signalHeads)
    BY <1>1 DEF SignalsOwned
  <2>2. signalHeads' = signalHeads
    BY DEF signalHeads, handle
  <2> QED BY <2>1, <2>2, ChainKept
<1>3. \A e \in linkedSignals' : \A n \in edge'.signals[e].signal :
        notifier'[n].called /\ notifier'[n].job = own[e]
  BY <1>1 DEF SignalsOwned
<1>4. SignalsOwned(own)'
  BY <1>2, <1>3 DEF SignalsOwned
<1>5. ASSUME NEW n \in sent'
      PROVE  notifier'[n].job = ZeroHandle \/ log'[notifier'[n].job].done
  BY <1>5 DEF SignalsInv, SignalNotEarly
<1> QED BY <1>4, <1>5 DEF SignalsInv, SignalNotEarly

\* A Signal armed for no job is sent at once.
LEMMA NotifyZeroKeeps ==
  ASSUME IInv, NEW n \in Notifiers, NotifyZero(n)
  PROVE  IInv'
<1>0. /\ Types /\ LinkInv /\ SignalsInv /\ PubInv /\ WaitInv
      /\ notifier \in [Notifiers -> [called : BOOLEAN, job : Handles]] /\ sent \subseteq Notifiers
  BY DEF IInv, Types
<1>1. /\ ~notifier[n].called /\ notifier' = [notifier EXCEPT ![n].called = TRUE]
      /\ sent' = sent \cup {n} /\ UNCHANGED <<jobs, edge, free, linker, pub, worker, arrived, log>>
  BY DEF NotifyZero, graph
<1>2. /\ notifier' \in [Notifiers -> [called : BOOLEAN, job : Handles]]
      /\ notifier'[n].called /\ \A m \in Notifiers : /\ notifier'[m].job = notifier[m].job
                                                     /\ notifier[m].called => notifier'[m].called
  BY <1>0, <1>1
<1>3. Types'
  <2>1. sent' \subseteq Notifiers
    BY <1>0, <1>1
  <2> QED BY <1>0, <1>1, <1>2, <2>1 DEF Types
<1>4. SlotsInv' /\ RunInv' /\ WaitInv' /\ PubInv' /\ SuccessorsInv' /\ logGrows
  <2>1. IsInjective(free'.signals)
    BY <1>0, <1>1 DEF WaitInv
  <2> QED BY <1>1, <2>1, NotifierKeeps
<1>5. LinkInv'
  <2>1. ASSUME NEW q \in Publications, linker'[q].at # "idle"
        PROVE  pub[q].job \in DOMAIN log /\ linker[q].edge \notin ToSet(free.successors)
    BY <1>0, <1>1, <2>1 DEF LinkInv, PubInv
  <2>2. ASSUME NEW m \in Notifiers, linker'[m].at # "idle"
        PROVE  linker[m].edge \notin ToSet(free.signals)
    BY <1>0, <1>1, <2>2 DEF LinkInv
  <2> QED BY <1>0, <1>1, <1>2, <1>4, <2>1, <2>2, LinkKept
<1>6. SignalsInv'
  <2>1. notifier[n].job = ZeroHandle
    BY <1>0, <1>1 DEF LinkInv
  <2>2. linkedSignals' = linkedSignals
    BY <1>1 DEF linkedSignals
  <2>3. \A e \in linkedSignals : edge.signals[e].signal \subseteq Notifiers
    BY <1>0 DEF Types, Edges, linkedSignals
  <2> QED BY <1>0, <1>1, <1>2, <2>1, <2>2, <2>3, SignalsSent
<1>7. SuccessorsReached /\ SignalsReached /\ FlowInv
  BY DEF IInv
<1>8. linkedSuccessors' = linkedSuccessors /\ linkedSignals' = linkedSignals
  BY <1>1 DEF linkedSuccessors, linkedSignals
<1>9. SuccessorsReached' /\ SignalsReached'
  BY <1>1, <1>7, <1>8, ReachStays
<1>10. FlowInv'
  <2>1. \A s \in Slot : handle(s)' = handle(s)
    BY <1>1 DEF handle
  <2>2. \A m \in Notifiers : notifier'[m].called /\ m \notin sent' => notifier[m].called /\ m \notin sent
    BY <1>0, <1>1
  <2> QED BY <1>1, <1>7, <1>8, <2>1, <2>2, FlowKept
<1> QED BY <1>3, <1>4, <1>5, <1>6, <1>9, <1>10 DEF IInv

\* A Signal is armed: an edge is taken for it.
LEMMA NotifyKeeps ==
  ASSUME IInv, NEW n \in Notifiers, NEW h \in handles, Notify(n, h)
  PROVE  IInv'
<1>p. PICK e, x, k : /\ e = Last(free.signals) /\ x = [noEdge EXCEPT !.signal = {n}]
                     /\ k = [at |-> "load", list |-> "signals", to |-> h, edge |-> e, old |-> noWord]
  OBVIOUS
<1>0. /\ Types /\ LinkInv /\ SignalsInv /\ PubInv /\ WaitInv
      /\ free \in [jobs : Seq(Slot), successors : Seq(EdgeSlot), signals : Seq(EdgeSlot)]
      /\ edge \in [successors : [EdgeSlot -> Edges], signals : [EdgeSlot -> Edges]]
      /\ linker \in [Goroutines -> Linkers] /\ n \in Goroutines /\ n \notin Publications
      /\ notifier \in [Notifiers -> [called : BOOLEAN, job : Handles]] /\ sent \subseteq Notifiers
  BY Apart DEF IInv, Types, Goroutines
<1>1. /\ ~notifier[n].called /\ notifier' = [notifier EXCEPT ![n] = [called |-> TRUE, job |-> h]]
      /\ linker[n].at = "idle" /\ free.signals # <<>>
      /\ free' = [free EXCEPT !.signals = Front(free.signals)]
      /\ edge' = [edge EXCEPT !.signals[e] = x]
      /\ linker' = [linker EXCEPT ![n] = k]
      /\ UNCHANGED <<jobs, pub, worker, arrived, sent, log>>
  BY <1>p DEF Notify, beginLink
<1>2. h \in DOMAIN log /\ h \in Handles
  BY <1>0 DEF handles, Types
<1>3. /\ notifier' \in [Notifiers -> [called : BOOLEAN, job : Handles]]
      /\ notifier'[n].called /\ notifier'[n].job = h
      /\ \A m \in Notifiers : m # n => notifier'[m] = notifier[m]
  BY <1>0, <1>1, <1>2
<1>4. /\ e \in EdgeSlot /\ e \in ToSet(free.signals)
      /\ free' \in [jobs : Seq(Slot), successors : Seq(EdgeSlot), signals : Seq(EdgeSlot)]
      /\ free'.jobs = free.jobs /\ free'.successors = free.successors
      /\ IsInjective(free'.signals) /\ ToSet(free'.signals) = ToSet(free.signals) \ {e}
  <2>1. PICK q, q1 : q = free.signals /\ q1 = Front(q)
    OBVIOUS
  <2>2. q \in Seq(EdgeSlot) /\ q # <<>> /\ IsInjective(q) /\ e = Last(q)
    BY <1>p, <1>0, <1>1, <2>1 DEF WaitInv
  <2>3. /\ q1 \in Seq(EdgeSlot) /\ e \in EdgeSlot /\ e \in ToSet(q)
        /\ IsInjective(q1) /\ ToSet(q1) = ToSet(q) \ {e}
    BY <2>1, <2>2, Taken
  <2>4. free' = [free EXCEPT !.signals = q1]
    BY <1>1, <2>1
  <2>5. /\ free' \in [jobs : Seq(Slot), successors : Seq(EdgeSlot), signals : Seq(EdgeSlot)]
        /\ free'.jobs = free.jobs /\ free'.signals = q1 /\ free'.successors = free.successors
    BY <1>0, <2>3, <2>4, PoolStored
  <2> QED BY <2>1, <2>3, <2>5
<1>5. x \in Edges /\ x.signal = {n}
  BY <1>p, Initially DEF Edges, noEdge
<1>6. /\ edge' \in [successors : [EdgeSlot -> Edges], signals : [EdgeSlot -> Edges]]
      /\ edge'.signals[e] = x /\ edge'.successors = edge.successors
      /\ \A f \in EdgeSlot : f # e => edge'.signals[f] = edge.signals[f]
  BY <1>0, <1>1, <1>4, <1>5, EdgeFilled
<1>7. /\ k \in Linkers /\ k.at = "load" /\ k.list = "signals" /\ k.to = h /\ k.edge = e
  BY <1>p, <1>2, <1>4, Initially DEF Linkers
<1>8. /\ linker' \in [Goroutines -> Linkers]
      /\ \A g \in Goroutines : linker'[g] = IF g = n THEN k ELSE linker[g]
  BY <1>0, <1>1, <1>7
<1>9. Types'
  BY <1>0, <1>1, <1>3, <1>4, <1>6, <1>8 DEF Types
<1>10. SlotsInv' /\ RunInv' /\ WaitInv' /\ PubInv' /\ SuccessorsInv' /\ logGrows
  BY <1>1, <1>4, <1>6, <1>8, NotifierKeeps
<1>11. ASSUME NEW m \in Notifiers, m # n, linker[m].at # "idle"
       PROVE  /\ linker[m].edge \in EdgeSlot /\ linker[m].edge # e
              /\ linker[m].edge \notin ToSet(free'.signals)
              /\ edge'.signals[linker[m].edge] = edge.signals[linker[m].edge]
  <2>1. m \in Goroutines
    BY DEF Goroutines
  <2>2. linker[m].edge \in EdgeSlot /\ linker[m].edge \notin ToSet(free.signals)
    BY <1>0, <1>11, <2>1 DEF LinkInv
  <2> QED BY <1>4, <1>6, <2>2
<1>12. LinkInv'
  <2>1. ASSUME NEW g \in Goroutines
        PROVE  LET me == linker'[g] IN
               /\ me.at = "idle" => me.list = "none"
               /\ me.at # "idle" =>
                    /\ me.list = IF g \in Publications THEN "successors" ELSE "signals"
                    /\ me.to \in DOMAIN log' /\ me.edge \in EdgeSlot
               /\ me.at = "refused" => log'[me.to].done
               /\ me.at = "swap" => me.old.gen = me.to.gen /\ me.old.head # closedList
    <3>1. CASE g = n
      BY <1>0, <1>1, <1>2, <1>4, <1>7, <1>8, <3>1
    <3>2. CASE g # n
      BY <1>0, <1>1, <1>8, <3>2 DEF LinkInv
    <3> QED BY <3>1, <3>2
  <2>2. ASSUME NEW q \in Publications
        PROVE  LET me == linker'[q] f == edge'.successors[me.edge] IN
               me.at # "idle" =>
                 /\ me.edge \notin ToSet(free'.successors)
                 /\ pub'[q].at = "addSuccessor" /\ f.successor = pub'[q].job.slot
                 /\ me.to \in log'[pub'[q].job].deps /\ (f.feeds => me.to = log'[pub'[q].job].from)
                 /\ me.at = "swap" => f.next = me.old.head
    <3>1. linker'[q] = linker[q]
      BY <1>0, <1>8 DEF Goroutines
    <3> QED BY <1>0, <1>1, <1>4, <1>6, <3>1 DEF LinkInv
  <2>3. ASSUME NEW m \in Notifiers
        PROVE  LET me == linker'[m] f == edge'.signals[me.edge] IN
               /\ ~notifier'[m].called => me.at = "idle" /\ m \notin sent' /\ notifier'[m].job = ZeroHandle
               /\ notifier'[m].job = ZeroHandle \/ notifier'[m].job \in DOMAIN log'
               /\ me.at # "idle" =>
                    /\ me.edge \notin ToSet(free'.signals)
                    /\ f.signal = {m} /\ me.to = notifier'[m].job
                    /\ me.at = "swap" => f.next = me.old.head
    <3>1. CASE m = n
      <4>1. linker'[n] = k
        BY <1>0, <1>8
      <4> QED BY <1>1, <1>2, <1>3, <1>4, <1>5, <1>6, <1>7, <3>1, <4>1
    <3>2. CASE m # n
      <4>1. linker'[m] = linker[m] /\ notifier'[m] = notifier[m]
        BY <1>3, <1>8, <3>2 DEF Goroutines
      <4>2. /\ ~notifier[m].called => linker[m].at = "idle" /\ m \notin sent /\ notifier[m].job = ZeroHandle
            /\ notifier[m].job = ZeroHandle \/ notifier[m].job \in DOMAIN log
        BY <1>0 DEF LinkInv
      <4>3. PICK f : f = edge.signals[linker[m].edge]
        OBVIOUS
      <4>4. linker[m].at # "idle" =>
              /\ f.signal = {m} /\ linker[m].to = notifier[m].job
              /\ linker[m].at = "swap" => f.next = linker[m].old.head
        BY <1>0, <4>3 DEF LinkInv
      <4> QED BY <1>1, <1>11, <3>2, <4>1, <4>2, <4>3, <4>4
    <3> QED BY <3>1, <3>2
  <2>4. ASSUME NEW g \in Goroutines, NEW j \in Goroutines, linker'[g].at # "idle",
               linker'[g].list = linker'[j].list, linker'[g].edge = linker'[j].edge
        PROVE  g = j
    <3>1. ASSUME NEW i \in Goroutines, i # n
          PROVE  linker'[i].list = "signals" => linker'[i].edge # e
      <4>1. linker[i].list = "signals" => i \in Notifiers /\ linker[i].at # "idle"
        BY <1>0, Apart DEF LinkInv
      <4> QED BY <1>8, <1>11, <3>1, <4>1
    <3>2. CASE g = n
      BY <1>7, <1>8, <2>4, <3>1, <3>2
    <3>3. CASE g # n /\ j = n
      BY <1>7, <1>8, <2>4, <3>1, <3>3
    <3>4. CASE g # n /\ j # n
      BY <1>0, <1>8, <2>4, <3>4 DEF LinkInv
    <3> QED BY <3>2, <3>3, <3>4
  <2> QED BY <2>1, <2>2, <2>3, <2>4 DEF LinkInv
<1>13. linkedSignals' = linkedSignals /\ e \notin linkedSignals
  <2>1. e \notin linkedSignals
    BY <1>4 DEF linkedSignals
  <2>2. \A m \in Notifiers : m # n => linker'[m] = linker[m]
    BY <1>8 DEF Goroutines
  <2>3. \A f \in EdgeSlot :
          (\A m \in Notifiers : linker'[m].at # "idle" => linker'[m].edge # f)
            <=> f # e /\ \A m \in Notifiers : linker[m].at # "idle" => linker[m].edge # f
    <3>1. linker'[n] = k
      BY <1>0, <1>8
    <3> QED BY <1>1, <1>7, <2>2, <3>1
  <2> QED BY <1>4, <2>1, <2>3 DEF linkedSignals
<1>14. SignalsInv'
  <2>1. \A y \in EdgeSlot, j \in Handles : <<y, j>> \in signalHeads' => <<y, j>> \in signalHeads
    BY <1>1 DEF signalHeads, handle
  <2>2. \A f \in linkedSignals : edge.signals[f].signal \subseteq Notifiers
    BY <1>0 DEF Types, Edges, linkedSignals
  <2>3. \A f \in linkedSignals : edge'.signals[f] = edge.signals[f]
    BY <1>6, <1>13 DEF linkedSignals
  <2>4. \A m \in Notifiers : notifier[m].called => notifier'[m] = notifier[m]
    BY <1>1, <1>3
  <2> QED BY <1>0, <1>1, <1>10, <1>13, <2>1, <2>2, <2>3, <2>4, SignalsKept
<1>15. SuccessorsReached /\ SignalsReached /\ FlowInv
  BY DEF IInv
<1>16. /\ linkedSuccessors' = linkedSuccessors
    /\ \A f \in linkedSignals : edge'.signals[f] = edge.signals[f]
  <2>1. \A p \in Publications : linker'[p] = linker[p]
    BY <1>0, <1>8 DEF Goroutines
  <2>2. linkedSuccessors' = linkedSuccessors
    BY <1>4, <2>1 DEF linkedSuccessors
  <2>3. \A f \in linkedSignals : f \in EdgeSlot /\ f # e
    BY <1>13 DEF linkedSignals
  <2> QED BY <1>6, <2>2, <2>3
<1>17. SuccessorsReached' /\ SignalsReached'
  BY <1>1, <1>6, <1>13, <1>15, <1>16, ReachStays
<1>18. FlowInv'
  <2>1. \A s \in Slot : handle(s)' = handle(s)
    BY <1>1 DEF handle
  <2>2. \A m \in Notifiers : notifier'[m].called /\ linker'[m].at = "idle" =>
          notifier[m].called /\ linker[m].at = "idle"
    BY <1>3, <1>7, <1>8 DEF Goroutines
  <2> QED BY <1>1, <1>4, <1>13, <1>15, <1>16, <2>1, <2>2, FlowKept
<1> QED BY <1>9, <1>10, <1>12, <1>14, <1>17, <1>18 DEF IInv

\* A Signal that is refused is sent at once, and its edge put back: the job it
\* was to be armed for has finished.
LEMMA RefuseSignalKeeps ==
  ASSUME IInv, NEW n \in Notifiers, RefuseSignal(n)
  PROVE  IInv'
<1>p. PICK e, x : e = linker[n].edge /\ x = [edge.signals[e] EXCEPT !.signal = {}]
  OBVIOUS
<1>0. /\ Types /\ LinkInv /\ SignalsInv /\ PubInv /\ WaitInv
      /\ free \in [jobs : Seq(Slot), successors : Seq(EdgeSlot), signals : Seq(EdgeSlot)]
      /\ edge \in [successors : [EdgeSlot -> Edges], signals : [EdgeSlot -> Edges]]
      /\ linker \in [Goroutines -> Linkers] /\ n \in Goroutines /\ n \notin Publications
      /\ sent \subseteq Notifiers
  BY Apart DEF IInv, Types, Goroutines
<1>1. linker[n].at = "refused"
  BY DEF RefuseSignal, endRefused
<1>2. /\ linker[n].list = "signals" /\ e \in EdgeSlot /\ e \notin ToSet(free.signals)
      /\ linker[n].to = notifier[n].job /\ log[notifier[n].job].done /\ notifier[n].called
  <2>1. linker[n].list = "signals" /\ e \in EdgeSlot /\ log[linker[n].to].done
    BY <1>p, <1>0, <1>1 DEF LinkInv
  <2>2. e \notin ToSet(free.signals) /\ linker[n].to = notifier[n].job /\ notifier[n].called
    BY <1>p, <1>0, <1>1 DEF LinkInv
  <2> QED BY <2>1, <2>2
<1>3. /\ free' = [free EXCEPT !.signals = Append(free.signals, e)]
      /\ linker' = [linker EXCEPT ![n] = notLinking]
      /\ edge' = [edge EXCEPT !.signals[e].signal = {}]
      /\ sent' = sent \cup {n}
      /\ UNCHANGED <<jobs, pub, worker, notifier, arrived, log>>
  <2>1. free' = [free EXCEPT ![linker[n].list] = Append(free[linker[n].list], e)]
    BY <1>p DEF RefuseSignal, endRefused, Release
  <2>2. free' = [free EXCEPT !.signals = Append(free.signals, e)]
    BY <1>2, <2>1
  <2> QED BY <1>p, <2>2 DEF RefuseSignal, endRefused
<1>4. x \in Edges
  <2>1. edge.signals[e] \in Edges
    BY <1>0, <1>2
  <2> QED BY <1>p, <2>1 DEF Edges
<1>5. /\ edge' \in [successors : [EdgeSlot -> Edges], signals : [EdgeSlot -> Edges]]
      /\ edge'.successors = edge.successors
      /\ \A f \in EdgeSlot : f # e => edge'.signals[f] = edge.signals[f]
  <2>1. edge' = [edge EXCEPT !.signals[e] = x]
    BY <1>p, <1>3
  <2> QED BY <1>0, <1>2, <1>4, <2>1, EdgeFilled
<1>6. /\ free' \in [jobs : Seq(Slot), successors : Seq(EdgeSlot), signals : Seq(EdgeSlot)]
      /\ free'.jobs = free.jobs /\ free'.successors = free.successors
      /\ IsInjective(free'.signals) /\ ToSet(free'.signals) = ToSet(free.signals) \cup {e}
  <2>1. PICK q, q1 : q = free.signals /\ q1 = Append(q, e)
    OBVIOUS
  <2>2. q \in Seq(EdgeSlot) /\ IsInjective(q) /\ e \notin ToSet(q)
    BY <1>0, <1>2, <2>1 DEF WaitInv
  <2>3. q1 \in Seq(EdgeSlot) /\ IsInjective(q1) /\ ToSet(q1) = ToSet(q) \cup {e}
    BY <1>2, <2>1, <2>2, PutBack
  <2>4. free' = [free EXCEPT !.signals = q1]
    BY <1>3, <2>1
  <2>5. /\ free' \in [jobs : Seq(Slot), successors : Seq(EdgeSlot), signals : Seq(EdgeSlot)]
        /\ free'.jobs = free.jobs /\ free'.signals = q1 /\ free'.successors = free.successors
    BY <1>0, <2>3, <2>4, PoolStored
  <2> QED BY <2>1, <2>3, <2>5
<1>7. /\ linker' \in [Goroutines -> Linkers]
      /\ \A g \in Goroutines : linker'[g] = IF g = n THEN notLinking ELSE linker[g]
  BY <1>0, <1>3, Initially
<1>8. Types'
  <2>1. sent' \subseteq Notifiers
    BY <1>0, <1>3
  <2> QED BY <1>0, <1>3, <1>5, <1>6, <1>7, <2>1 DEF Types
<1>9. SlotsInv' /\ RunInv' /\ WaitInv' /\ PubInv' /\ SuccessorsInv' /\ logGrows
  BY <1>3, <1>5, <1>6, <1>7, NotifierKeeps
<1>10. ASSUME NEW m \in Notifiers, m # n, linker[m].at # "idle"
       PROVE  linker[m].edge \in EdgeSlot /\ linker[m].edge # e /\ linker[m].edge \notin ToSet(free.signals)
  <2>1. m \in Goroutines /\ m \notin Publications
    BY Apart DEF Goroutines
  <2>2. /\ linker[m].edge \in EdgeSlot /\ linker[m].edge \notin ToSet(free.signals)
        /\ linker[m].list = "signals"
    BY <1>0, <1>10, <2>1 DEF LinkInv
  <2>3. linker[m].edge # e
    BY <1>p, <1>0, <1>2, <1>10, <2>1, <2>2 DEF LinkInv
  <2> QED BY <2>2, <2>3
<1>11. LinkInv'
  <2>1. ASSUME NEW q \in Publications, linker'[q].at # "idle"
        PROVE  /\ pub'[q].at = pub[q].at /\ pub'[q].job = pub[q].job /\ pub[q].job \in DOMAIN log
               /\ linker[q].edge \notin ToSet(free'.successors)
               /\ edge'.successors[linker[q].edge] = edge.successors[linker[q].edge]
    <3>1. linker'[q] = linker[q]
      BY <1>0, <1>7 DEF Goroutines
    <3>2. pub[q].job \in DOMAIN log /\ linker[q].edge \notin ToSet(free.successors)
      BY <1>0, <2>1, <3>1 DEF LinkInv, PubInv
    <3> QED BY <1>3, <1>5, <1>6, <3>2
  <2>2. ASSUME NEW m \in Notifiers, linker'[m].at # "idle"
        PROVE  /\ linker[m].edge \notin ToSet(free'.signals)
               /\ edge'.signals[linker[m].edge] = edge.signals[linker[m].edge]
    <3>1. m # n /\ linker'[m] = linker[m]
      BY <1>7, <2>2, Initially DEF Goroutines
    <3> QED BY <1>5, <1>6, <1>10, <2>2, <3>1
  <2>3. \A m \in Notifiers : m \in sent' => m \in sent \/ notifier'[m].called
    BY <1>2, <1>3
  <2>4. \A g \in Goroutines : linker'[g] = linker[g] \/ linker'[g] = notLinking
    BY <1>7
  <2> QED BY <1>0, <1>3, <1>9, <2>1, <2>2, <2>3, <2>4, LinkKept
<1>12. linkedSignals' = linkedSignals /\ e \notin linkedSignals
  <2>1. e \notin linkedSignals
    BY <1>p, <1>1 DEF linkedSignals
  <2>2. \A m \in Notifiers : m # n => linker'[m] = linker[m]
    BY <1>7 DEF Goroutines
  <2>3. linker'[n].at = "idle"
    BY <1>0, <1>7, Initially
  <2>4. \A f \in EdgeSlot : f # e =>
          ((\A m \in Notifiers : linker'[m].at # "idle" => linker'[m].edge # f)
            <=> \A m \in Notifiers : linker[m].at # "idle" => linker[m].edge # f)
    BY <1>p, <2>2, <2>3
  <2> QED BY <1>6, <2>1, <2>4 DEF linkedSignals
<1>13. \A f \in linkedSignals : edge'.signals[f] = edge.signals[f]
  BY <1>5, <1>12 DEF linkedSignals
<1>14. SignalsInv'
  <2>1. \A f \in linkedSignals : edge.signals[f].signal \subseteq Notifiers
    BY <1>0 DEF Types, Edges, linkedSignals
  <2> QED BY <1>0, <1>2, <1>3, <1>12, <1>13, <2>1, SignalsSent
<1>15. SuccessorsReached /\ SignalsReached /\ FlowInv
  BY DEF IInv
<1>16. linkedSuccessors' = linkedSuccessors
  <2>1. \A p \in Publications : linker'[p] = linker[p]
    BY <1>0, <1>7 DEF Goroutines
  <2> QED BY <1>6, <2>1 DEF linkedSuccessors
<1>17. SuccessorsReached' /\ SignalsReached'
  BY <1>3, <1>5, <1>12, <1>13, <1>15, <1>16, ReachStays
<1>18. FlowInv'
  <2>1. \A s \in Slot : handle(s)' = handle(s)
    BY <1>3 DEF handle
  <2>2. \A m \in Notifiers : m \notin sent' /\ linker'[m].at = "idle" =>
          m \notin sent /\ linker[m].at = "idle"
    BY <1>3, <1>7 DEF Goroutines
  <2> QED BY <1>3, <1>6, <1>12, <1>13, <1>15, <2>1, <2>2, FlowKept
<1> QED BY <1>8, <1>9, <1>11, <1>14, <1>17, <1>18 DEF IInv

-----------------------------------------------------------------------------
(* The invariant holds of every reachable state *)

\* A fresh chunk holds each slot once.
LEMMA Grown ==
  ASSUME NEW n \in Nat
  PROVE  grow(n) \in Seq(1..n) /\ IsInjective(grow(n)) /\ ToSet(grow(n)) = 1..n
<1>1. PICK q : q = grow(n)
  OBVIOUS
<1>2. DOMAIN q = 1..n /\ \A i \in 1..n : q[i] = n + 1 - i /\ n + 1 - i \in 1..n
  BY <1>1 DEF grow
<1>3. q \in Seq(1..n)
  BY <1>1, <1>2 DEF grow
<1>4. IsInjective(q)
  BY <1>2 DEF IsInjective
<1>5. ToSet(q) = 1..n
  <2>1. ToSet(q) = {q[i] : i \in 1..n}
    BY <1>2 DEF ToSet
  <2>2. \A j \in 1..n : n + 1 - j \in 1..n /\ q[n + 1 - j] = j
    BY <1>2
  <2> QED BY <1>2, <2>1, <2>2
<1> QED BY <1>1, <1>3, <1>4, <1>5

\* The graph begins with nothing scheduled and every pool full.
LEMMA Starts ==
  ASSUME Init
  PROVE  IInv
<1>p. PICK j0, p0, w0, n0, E0 :
        /\ j0 = [successors |-> noWord, signals |-> noWord, waiting |-> 0, arg |-> ZeroValue]
        /\ p0 = [at |-> "schedule", batch |-> <<>>, job |-> ZeroHandle, todo |-> <<>>]
        /\ w0 = [at |-> "idle", job |-> ZeroHandle, result |-> ZeroValue, successors |-> None, signals |-> None]
        /\ n0 = [called |-> FALSE, job |-> ZeroHandle]
        /\ E0 = [e \in EdgeSlot |-> noEdge]
  OBVIOUS
<1>1. /\ jobs = [s \in Slot |-> j0] /\ linker = [g \in Goroutines |-> notLinking]
      /\ edge = [successors |-> E0, signals |-> E0]
      /\ free = [jobs |-> grow(Slots), successors |-> grow(EdgeSlots), signals |-> grow(EdgeSlots)]
      /\ pub = [p \in Publications |-> p0] /\ worker = [w \in Workers |-> w0]
      /\ notifier = [n \in Notifiers |-> n0] /\ arrived = {} /\ sent = {} /\ log = <<>>
  BY <1>p DEF Init, Goroutines
<1>2. /\ j0 \in Jobs /\ j0.successors.gen = j0.signals.gen /\ j0.successors.head = None
      /\ j0.signals.head = None /\ j0.waiting = 0
  <2>1. noWord.gen = 0 /\ noWord.head = None
    BY DEF noWord, packList
  <2> QED BY <1>p, <2>1, Initially DEF Jobs, ZeroValue
<1>3. /\ p0 \in Pubs /\ p0.at = "schedule" /\ p0.job = ZeroHandle /\ p0.batch = <<>> /\ p0.todo = <<>>
  BY <1>p, Initially DEF Pubs
<1>4. /\ w0 \in WorkerStates /\ w0.at = "idle" /\ w0.successors = None /\ w0.signals = None
  BY <1>p, Initially DEF WorkerStates, ZeroValue
<1>5. n0 \in [called : BOOLEAN, job : Handles] /\ ~n0.called /\ n0.job = ZeroHandle
  BY <1>p, Initially
<1>6. E0 \in [EdgeSlot -> Edges]
  BY <1>p, Initially
<1>7. /\ edge \in [successors : [EdgeSlot -> Edges], signals : [EdgeSlot -> Edges]]
      /\ edge.successors = E0 /\ edge.signals = E0
  BY <1>1, <1>6
<1>8. /\ free \in [jobs : Seq(Slot), successors : Seq(EdgeSlot), signals : Seq(EdgeSlot)]
      /\ IsInjective(free.jobs) /\ IsInjective(free.successors) /\ IsInjective(free.signals)
      /\ ToSet(free.successors) = EdgeSlot /\ ToSet(free.signals) = EdgeSlot
  <2>1. PICK a, b : a = grow(Slots) /\ b = grow(EdgeSlots)
    OBVIOUS
  <2>2. a \in Seq(Slot) /\ b \in Seq(EdgeSlot) /\ IsInjective(a) /\ IsInjective(b) /\ ToSet(b) = EdgeSlot
    BY <2>1, Grown, JobGraphAssumption DEF Slot, EdgeSlot
  <2>3. free = [jobs |-> a, successors |-> b, signals |-> b]
    BY <1>1, <2>1
  <2> QED BY <2>2, <2>3
<1>9. DOMAIN log = {} /\ log \in [DOMAIN log -> Entries]
  BY <1>1
<1>10. /\ jobs \in [Slot -> Jobs] /\ linker \in [Goroutines -> Linkers] /\ pub \in [Publications -> Pubs]
       /\ worker \in [Workers -> WorkerStates]
       /\ notifier \in [Notifiers -> [called : BOOLEAN, job : Handles]]
       /\ \A s \in Slot : jobs[s] = j0
       /\ \A g \in Goroutines : linker[g] = notLinking
       /\ \A p \in Publications : pub[p] = p0
       /\ \A w \in Workers : worker[w] = w0
       /\ \A n \in Notifiers : notifier[n] = n0
  BY <1>1, <1>2, <1>3, <1>4, <1>5, Initially
<1>11. Types
  BY <1>1, <1>7, <1>8, <1>9, <1>10 DEF Types
<1>12. SlotsInv
  BY <1>2, <1>8, <1>9, <1>10 DEF SlotsInv
<1>13. RunInv
  BY <1>4, <1>10 DEF RunInv
<1>14. WaitInv
  <2>1. \A s \in Slot : waitsFor(s) = {} /\ ~held(s)
    BY <1>8, <1>9 DEF waitsFor, held
  <2>2. Cardinality({}) = 0
    BY FS_EmptySet
  <2>3. \A s \in Slot :
          /\ jobs[s].waiting = Cardinality(waitsFor(s)) + (IF held(s) THEN 1 ELSE 0)
          /\ handle(s) \notin DOMAIN log => jobs[s].waiting = 0 /\ s \notin arrived
          /\ handle(s) \notin DOMAIN log
    <3>1. ASSUME NEW s \in Slot
          PROVE  /\ jobs[s].waiting = Cardinality(waitsFor(s)) + (IF held(s) THEN 1 ELSE 0)
                 /\ jobs[s].waiting = 0
      <4>1. jobs[s].waiting = 0
        BY <1>2, <1>10
      <4>2. Cardinality(waitsFor(s)) = 0 /\ ~held(s)
        BY <2>1, <2>2
      <4> QED BY <4>1, <4>2
    <3> QED BY <1>1, <1>9, <3>1
  <2> QED BY <1>8, <1>9, <2>3 DEF WaitInv
<1>15. PubInv
  <2>1. ToSet(p0.batch) = {} /\ IsInjective(p0.batch)
    BY <1>3 DEF ToSet, IsInjective
  <2> QED BY <1>3, <1>9, <1>10, <2>1 DEF PubInv
<1>16. LinkInv
  BY <1>1, <1>5, <1>10, Initially DEF LinkInv, Goroutines
<1>17. PICK own : own = [e \in EdgeSlot |-> ZeroHandle]
  OBVIOUS
<1>18. own \in [EdgeSlot -> Handles]
  BY <1>17, Initially
<1>19. linkedSuccessors = {} /\ linkedSignals = {}
  BY <1>8 DEF linkedSuccessors, linkedSignals
<1>20. \A x \in EdgeSlot, h \in Handles : <<x, h>> \notin successorHeads /\ <<x, h>> \notin signalHeads
  <2>1. \A s \in Slot : jobs[s].successors.head = None /\ jobs[s].signals.head = None
    BY <1>2, <1>10
  <2>2. \A w \in Workers : worker[w].successors = None /\ worker[w].signals = None
    BY <1>4, <1>10
  <2>3. ASSUME NEW x \in EdgeSlot, NEW h \in Handles, <<x, h>> \in successorHeads PROVE FALSE
    BY <2>1, <2>2, <2>3, Initially DEF successorHeads
  <2>4. ASSUME NEW x \in EdgeSlot, NEW h \in Handles, <<x, h>> \in signalHeads PROVE FALSE
    BY <2>1, <2>2, <2>4, Initially DEF signalHeads
  <2> QED BY <2>3, <2>4
<1>21. SignalsInv
  <2>1. SignalsOwned(own)
    BY <1>18, <1>19, <1>20 DEF SignalsOwned, Chained
  <2>2. SignalNotEarly
    BY <1>1 DEF SignalNotEarly
  <2> QED BY <1>18, <2>1, <2>2 DEF SignalsInv
<1>22. SuccessorsInv
  <2>1. SuccessorsOwned(own)
    BY <1>9, <1>18, <1>19, <1>20 DEF SuccessorsOwned, Chained
  <2>2. FedOwned(own)
    BY <1>4, <1>9, <1>10 DEF FedOwned
  <2> QED BY <1>18, <2>1, <2>2 DEF SuccessorsInv
<1>23. SuccessorsReached /\ SignalsReached
  BY <1>19 DEF SuccessorsReached, SignalsReached, Reached
<1>24. FlowInv
  <2>1. ToSet(free.jobs) = Slot
    <3>1. ToSet(grow(Slots)) = Slot
      BY Grown, JobGraphAssumption DEF Slot
    <3> QED BY <1>1, <3>1
  <2>2. StartedInv /\ HeldInv /\ OrderInv
    BY <1>9 DEF StartedInv, HeldInv, OrderInv
  <2>3. ArmedInv
    BY <1>5, <1>10 DEF ArmedInv
  <2>4. UsedInv
    <3>1. w0.job = ZeroHandle
      BY <1>p
    <3> QED BY <1>2, <1>10, <2>1, <3>1, Initially DEF UsedInv
  <2> QED BY <2>2, <2>3, <2>4 DEF FlowInv
<1> QED BY <1>11, <1>12, <1>13, <1>14, <1>15, <1>16, <1>21, <1>22, <1>23, <1>24 DEF IInv

\* Nothing changes.
LEMMA Stutters ==
  ASSUME IInv, UNCHANGED vars
  PROVE  IInv'
<1>1. UNCHANGED <<jobs, edge, free, linker, pub, worker, notifier, arrived, sent, log>>
  BY DEF vars, graph
<1>0. Types /\ SlotsInv /\ RunInv /\ WaitInv /\ PubInv /\ SuccessorsInv
  BY DEF IInv
<1>k. sameLists /\ sameHandles /\ logGrows
  BY <1>1 DEF sameLists, sameHandles, logGrows
<1>2. Types' /\ SlotsInv' /\ RunInv' /\ WaitInv' /\ PubInv'
  <2>1. Types'
    BY <1>0, <1>1 DEF Types
  <2>2. SlotsInv'
    BY <1>0, <1>1, <1>k, SlotsKept
  <2>3. RunInv'
    BY <1>0, <1>1, <1>k, RunKept
  <2>4. WaitInv'
    <3>1. IsInjective(free'.signals) /\ \A h \in DOMAIN log : log'[h].done => log'[h].started
      BY <1>0, <1>1 DEF WaitInv
    <3> QED BY <1>0, <1>1, <1>k, <3>1, WaitKept
  <2>5. PubInv'
    BY <1>0, <1>1, <1>k, PubKept
  <2> QED BY <2>1, <2>2, <2>3, <2>4, <2>5
<1>3. LinkInv'
  BY <1>1 DEF IInv, LinkInv
<1>4. SignalsInv'
  BY <1>1 DEF IInv, SignalsInv, SignalsOwned, SignalNotEarly, Chained, linkedSignals, signalHeads, handle
<1>5. SuccessorsInv'
  BY <1>0, <1>1, <1>k, SuccessorsSame
<1>6. SuccessorsReached /\ SignalsReached /\ FlowInv
  BY DEF IInv
<1>7. linkedSuccessors' = linkedSuccessors /\ linkedSignals' = linkedSignals
  BY <1>1 DEF linkedSuccessors, linkedSignals
<1>8. SuccessorsReached' /\ SignalsReached'
  BY <1>1, <1>6, <1>7, ReachStays
<1>9. FlowInv'
  <2>1. \A s \in Slot : handle(s)' = handle(s)
    BY <1>1 DEF handle
  <2> QED BY <1>1, <1>6, <1>7, <2>1, FlowKept
<1> QED BY <1>2, <1>3, <1>4, <1>5, <1>8, <1>9 DEF IInv

\* Every step of every publication, worker and notifier keeps the invariant.
LEMMA Steps ==
  ASSUME IInv, [Next]_vars
  PROVE  IInv'
<1>1. ASSUME NEW p \in Publications, Schedule(p) PROVE IInv'
  <2>1. PICK from \in handles \cup {ZeroHandle}, n \in 0..MaxDeps :
          \E deps \in [1..n -> handles \ {from}] : acquireJob(p, deps, from)
    BY <1>1 DEF Schedule
  <2>2. PICK deps \in [1..n -> handles \ {from}] : acquireJob(p, deps, from)
    BY <2>1
  <2>3. n \in Nat
    BY JobGraphAssumption
  <2> QED BY <2>2, <2>3, acquireJobKeeps
<1>2. ASSUME NEW g \in Goroutines, link(g) PROVE IInv'
  BY <1>2, LoadWordKeeps, SwapWordKeeps DEF link
<1>3. ASSUME NEW p \in Publications, addSuccessor(p) PROVE IInv'
  <2>1. p \in Goroutines
    BY DEF Goroutines
  <2> QED BY <1>2, <1>3, <2>1, RaiseWaitingKeeps, RefuseSuccessorKeeps, addKeeps DEF addSuccessor
<1>4. ASSUME NEW p \in Publications, submit(p) PROVE IInv'
  BY <1>4, submitKeeps
<1>5. ASSUME NEW w \in Workers, NEW s \in Slot, runJob(w, s) PROVE IInv'
  BY <1>5, runJobKeeps
<1>6. ASSUME NEW w \in Workers, runRecovering(w) PROVE IInv'
  BY <1>6, runRecoveringKeeps
<1>7. ASSUME NEW w \in Workers, finishJob(w) PROVE IInv'
  BY <1>7, CloseSignalsKeeps, SendSignalKeeps, FeedSuccessorKeeps, LowerSuccessorKeeps, ReleaseJobKeeps
     DEF finishJob
<1>8. ASSUME NEW n \in Notifiers, NotifyZero(n) PROVE IInv'
  BY <1>8, NotifyZeroKeeps
<1>9. ASSUME NEW n \in Notifiers, armSignal(n) PROVE IInv'
  <2>1. n \in Goroutines
    BY DEF Goroutines
  <2> QED BY <1>2, <1>9, <2>1, RefuseSignalKeeps DEF armSignal
<1>10. ASSUME NEW n \in Notifiers, NEW h \in handles, Notify(n, h) PROVE IInv'
  BY <1>10, NotifyKeeps
<1>11. ASSUME UNCHANGED vars PROVE IInv'
  BY <1>11, Stutters
<1>12. AllOver => UNCHANGED vars
  BY DEF AllOver
<1> QED BY <1>1, <1>3, <1>4, <1>5, <1>6, <1>7, <1>8, <1>9, <1>10, <1>11, <1>12 DEF Next

\* The invariant holds of every reachable state.
THEOREM Invariance == Spec => []IInv
<1>1. Init => IInv
  BY Starts
<1>2. IInv /\ [Next]_vars => IInv'
  BY Steps
<1> QED BY <1>1, <1>2, PTL DEF Spec

\* A job starts after its batch is submitted and every job it depends on has
\* finished (Executor.Schedule).
THEOREM StartsLate == Spec => []StartsAfterDependencies
<1>1. IInv => StartsAfterDependencies
  <2>1. ASSUME IInv, NEW h \in DOMAIN log, log[h].started
        PROVE  log[h].submitted /\ \A d \in log[h].deps : d = ZeroHandle \/ log[d].done
    <3>1. log[h].submitted
      BY <2>1 DEF IInv, WaitInv
    <3>2. PICK own : SuccessorsOwned(own)
      BY <2>1 DEF IInv, SuccessorsInv
    <3>3. \A d \in log[h].deps : d = ZeroHandle \/ log[d].done
      BY <2>1, <3>2 DEF SuccessorsOwned
    <3> QED BY <3>1, <3>3
  <2> QED BY <2>1 DEF StartsAfterDependencies
<1> QED BY <1>1, Invariance, PTL

\* A job runs with the result of the job it was scheduled after or with the
\* zero arg; within a batch, always with the result (receiveArg, runJob).
THEOREM FedRight == Spec => []RunsWithFedResult
<1>1. IInv => RunsWithFedResult
  <2>1. ASSUME IInv, NEW h \in DOMAIN log, NEW from, from = log[h].from, log[h].started
        PROVE  /\ log[h].arg # ZeroValue => from # ZeroHandle /\ log[h].arg = log[from].result
               /\ from # ZeroHandle /\ log[from].batch = log[h].batch => log[h].arg = log[from].result
    <3>1. PICK own : FedOwned(own)
      BY <2>1 DEF IInv, SuccessorsInv
    <3>2. Fed(h, log[h].arg) /\ FedInBatch(own, h)
      BY <2>1, <3>1 DEF FedOwned
    <3> QED BY <2>1, <3>2 DEF Fed, FedInBatch
  <2> QED BY <2>1 DEF RunsWithFedResult
<1> QED BY <1>1, Invariance, PTL

\* A Signal is not sent before the job it was armed for has finished
\* (armSignal, finishJob).
THEOREM SignalsWait == Spec => []SignalNotEarly
<1>1. IInv => SignalNotEarly
  BY DEF IInv, SignalsInv
<1> QED BY <1>1, Invariance, PTL

\* The edges of the lists that begin at heads are the linked ones.
LEMMA ListsExact ==
  ASSUME NEW list, NEW heads, NEW N \in SUBSET EdgeSlot,
         \A e \in N : edge[list][e].next # None => edge[list][e].next \in N,
         \A e \in EdgeSlot : e \in heads => e \in N,
         Reached(edge[list], N, heads)
  PROVE  edgesOf(list, heads) = N
<1>1. PICK E : E = edge[list]
  OBVIOUS
<1>2. PICK C : C = {X \in SUBSET EdgeSlot :
                      /\ heads \cap EdgeSlot \subseteq X
                      /\ \A e \in X : E[e].next \in X \cup {None}}
  OBVIOUS
<1>3. edgesOf(list, heads) = {e \in EdgeSlot : \A X \in C : e \in X}
  BY <1>1, <1>2 DEF edgesOf
<1>4. N \in C
  BY <1>1, <1>2
<1>5. ASSUME NEW Y \in C, NEW e0 \in N, e0 \notin Y PROVE FALSE
  <2>1. N \ Y \in SUBSET N /\ N \ Y # {}
    BY <1>5
  <2>2. PICK e \in N \ Y : e \in heads \/ \E f \in N \ (N \ Y) : E[f].next = e
    BY <1>1, <2>1 DEF Reached
  <2>3. e # None /\ e \in EdgeSlot
    BY DEF EdgeSlot, None
  <2>4. e \notin heads
    BY <1>2, <1>5, <2>2, <2>3
  <2>5. PICK f \in N \ (N \ Y) : E[f].next = e
    BY <2>2, <2>4
  <2>6. e \in Y
    BY <1>2, <1>5, <2>3, <2>5
  <2> QED BY <2>2, <2>6
<1> QED BY <1>3, <1>4, <1>5

\* The edges being linked.
LEMMA LinkingExact ==
  ASSUME Types, LinkInv
  PROVE  /\ {linker[g].edge : g \in {x \in DOMAIN linker : linker[x].list = "successors"}}
              = {linker[p].edge : p \in {x \in Publications : linker[x].at # "idle"}}
         /\ {linker[g].edge : g \in {x \in DOMAIN linker : linker[x].list = "signals"}}
              = {linker[n].edge : n \in {x \in Notifiers : linker[x].at # "idle"}}
<1>1. DOMAIN linker = Goroutines
  BY DEF Types
<1>2. \A g \in Goroutines :
        /\ linker[g].at = "idle" => linker[g].list = "none"
        /\ linker[g].at # "idle" =>
             linker[g].list = IF g \in Publications THEN "successors" ELSE "signals"
  BY DEF LinkInv
<1>3. Publications \cap Notifiers = {}
  BY JobGraphAssumption
<1>4. \A g \in Goroutines : linker[g].list = "successors" <=> g \in Publications /\ linker[g].at # "idle"
  BY <1>2
<1>5. \A g \in Goroutines : linker[g].list = "signals" <=> g \in Notifiers /\ linker[g].at # "idle"
  BY <1>2, <1>3 DEF Goroutines
<1>6. {x \in DOMAIN linker : linker[x].list = "successors"}
        = {x \in Publications : linker[x].at # "idle"}
  BY <1>1, <1>4 DEF Goroutines
<1>7. {x \in DOMAIN linker : linker[x].list = "signals"}
        = {x \in Notifiers : linker[x].at # "idle"}
  BY <1>1, <1>5 DEF Goroutines
<1> QED BY <1>6, <1>7

\* Slots and edges are free, once, or in use: none leaks and none is handed
\* out twice (container.Pool as acquireJob, releaseJob and link use it).
THEOREM PoolsHold == Spec => []PoolsConserved
<1>1. IInv => PoolsConserved
  <2> SUFFICES ASSUME IInv PROVE PoolsConserved
    OBVIOUS
  <2>1. /\ Types /\ SlotsInv /\ RunInv /\ WaitInv /\ LinkInv /\ SignalsInv /\ SuccessorsInv
        /\ SuccessorsReached /\ SignalsReached /\ UsedInv
    BY DEF IInv, FlowInv
  <2>2. PICK N : N = linkedSuccessors
    OBVIOUS
  <2>3. PICK M : M = linkedSignals
    OBVIOUS
  <2>4. N \in SUBSET EdgeSlot /\ M \in SUBSET EdgeSlot
    BY <2>2, <2>3 DEF linkedSuccessors, linkedSignals
  <2>5. /\ \A e \in N : edge.successors[e].next # None => edge.successors[e].next \in N
        /\ \A e \in M : edge.signals[e].next # None => edge.signals[e].next \in M
        /\ \A e \in EdgeSlot : e \in successorFirsts => e \in N
        /\ \A e \in EdgeSlot : e \in signalFirsts => e \in M
    BY <2>1, <2>2, <2>3, OnLists
  <2>6. Reached(edge.successors, N, successorFirsts) /\ Reached(edge.signals, M, signalFirsts)
    BY <2>1, <2>2, <2>3 DEF SuccessorsReached, SignalsReached
  <2>7. edgesOf("successors", successorFirsts) = N
    <3>1. /\ \A e \in N : edge["successors"][e].next # None => edge["successors"][e].next \in N
          /\ \A e \in EdgeSlot : e \in successorFirsts => e \in N
          /\ Reached(edge["successors"], N, successorFirsts)
      BY <2>5, <2>6
    <3> QED BY ONLY <2>4, <3>1, ListsExact
  <2>8. edgesOf("signals", signalFirsts) = M
    <3>1. /\ \A e \in M : edge["signals"][e].next # None => edge["signals"][e].next \in M
          /\ \A e \in EdgeSlot : e \in signalFirsts => e \in M
          /\ Reached(edge["signals"], M, signalFirsts)
      BY <2>5, <2>6
    <3> QED BY ONLY <2>4, <3>1, ListsExact
  <2>9. PICK P : P = {linker[p].edge : p \in {x \in Publications : linker[x].at # "idle"}}
    OBVIOUS
  <2>10. PICK Q : Q = {linker[n].edge : n \in {x \in Notifiers : linker[x].at # "idle"}}
    OBVIOUS
  <2>11. \A x \in P : x \notin ToSet(free.successors)
    BY <2>1, <2>9, PublisherLinks
  <2>12. \A x \in Q : x \notin ToSet(free.signals)
    BY <2>1, <2>10, NotifierLinks
  <2>13. ToSet(free.successors) \subseteq EdgeSlot /\ ToSet(free.signals) \subseteq EdgeSlot
         /\ ToSet(free.jobs) \subseteq Slot
    <3>1. free.successors \in Seq(EdgeSlot) /\ free.signals \in Seq(EdgeSlot) /\ free.jobs \in Seq(Slot)
      BY <2>1 DEF Types
    <3>2. ASSUME NEW S, NEW q \in Seq(S) PROVE ToSet(q) \subseteq S
      BY ElementOfSeq, LenProperties DEF ToSet
    <3> QED BY <3>1, <3>2
  <2>14. ToSet(free.successors) = EdgeSlot \ (N \cup P)
    BY <2>2, <2>9, <2>11, <2>13 DEF linkedSuccessors
  <2>15. ToSet(free.signals) = EdgeSlot \ (M \cup Q)
    BY <2>3, <2>10, <2>12, <2>13 DEF linkedSignals
  <2>16. IsInjective(free.successors) /\ IsInjective(free.signals) /\ IsInjective(free.jobs)
    BY <2>1 DEF WaitInv, SlotsInv
  <2>17. \A w \in Workers : worker[w].job.slot \in Slot => handle(worker[w].job.slot) \in DOMAIN log
    <3>1. ASSUME NEW w \in Workers, worker[w].at = "idle" PROVE worker[w].job.slot \notin Slot
      BY <2>1, <3>1 DEF UsedInv, ZeroHandle, Slot, None
    <3>2. ASSUME NEW w \in Workers, worker[w].at # "idle"
          PROVE  handle(worker[w].job.slot) \in DOMAIN log
      BY <2>1, <3>2 DEF RunInv
    <3> QED BY <3>1, <3>2
  <2>18. \A s \in Slot : s \in ToSet(free.jobs) <=> handle(s) \notin DOMAIN log
    BY <2>1 DEF UsedInv, SlotsInv
  <2>19. ToSet(free.jobs) = Slot \ ({s \in Slot : handle(s) \in DOMAIN log}
                                      \cup {worker[w].job.slot : w \in Workers})
    BY <2>13, <2>17, <2>18
  <2>20. DOMAIN edge = {"successors", "signals"}
    BY <2>1 DEF Types
  <2>21. /\ {linker[g].edge : g \in {x \in DOMAIN linker : linker[x].list = "successors"}} = P
         /\ {linker[g].edge : g \in {x \in DOMAIN linker : linker[x].list = "signals"}} = Q
    BY <2>1, <2>9, <2>10, LinkingExact
  <2>22. /\ {jobs[s]["successors"].head : s \in Slot} \cup {worker[w]["successors"] : w \in Workers}
              = successorFirsts
         /\ {jobs[s]["signals"].head : s \in Slot} \cup {worker[w]["signals"] : w \in Workers}
              = signalFirsts
    BY DEF successorFirsts, signalFirsts
  <2>23. PICK heads : heads = [list \in {"successors", "signals"} |->
                                {jobs[s][list].head : s \in Slot} \cup {worker[w][list] : w \in Workers}]
    OBVIOUS
  <2>24. PICK linking : linking = [list \in {"successors", "signals"} |->
                                {linker[g].edge : g \in {x \in DOMAIN linker : linker[x].list = list}}]
    OBVIOUS
  <2>25. /\ edgesOf("successors", heads["successors"]) = N /\ edgesOf("signals", heads["signals"]) = M
         /\ linking["successors"] = P /\ linking["signals"] = Q
    BY <2>7, <2>8, <2>21, <2>22, <2>23, <2>24
  <2>26. \A list \in DOMAIN edge :
           /\ IsInjective(free[list])
           /\ ToSet(free[list]) = EdgeSlot \ (edgesOf(list, heads[list]) \cup linking[list])
    BY <2>14, <2>15, <2>16, <2>20, <2>25
  <2>27. \A list \in DOMAIN edge :
           /\ heads[list] = {jobs[s][list].head : s \in Slot} \cup {worker[w][list] : w \in Workers}
           /\ linking[list] = {linker[g].edge : g \in {x \in DOMAIN linker : linker[x].list = list}}
    BY <2>20, <2>23, <2>24
  <2> QED BY <2>16, <2>19, <2>26, <2>27 DEF PoolsConserved
<1> QED BY <1>1, Invariance, PTL

\* The list a linked edge is on has a first, of the same owner.
LEMMA FirstOf ==
  ASSUME NEW E, NEW N \in SUBSET EdgeSlot, NEW own, NEW heads, NEW firsts,
         Chained(E, N, own, heads), Reached(E, N, firsts), NEW e \in N
  PROVE  \E y \in N : y \in firsts /\ own[y] = own[e]
<1>1. PICK X : X = {f \in N : own[f] = own[e]}
  OBVIOUS
<1>2. X \in SUBSET N /\ X # {}
  BY <1>1
<1>3. PICK y \in X : y \in firsts \/ \E f \in N \ X : E[f].next = y
  BY <1>2 DEF Reached
<1>4. ASSUME NEW f \in N \ X, E[f].next = y PROVE FALSE
  <2>1. y # None
    BY <1>1 DEF EdgeSlot, None
  <2>2. own[y] = own[f]
    BY <1>4, <2>1 DEF Chained
  <2> QED BY <1>1, <2>2
<1> QED BY <1>1, <1>3, <1>4

\* While every worker is idle, a linked edge is on the list of a job that has
\* not finished, and is in the slot named.
LEMMA ListsOpen ==
  ASSUME IInv, \A w \in Workers : worker[w].at = "idle", NEW own
  PROVE  /\ SuccessorsOwned(own) => \A e \in linkedSuccessors : own[e] \in DOMAIN log /\ ~log[own[e]].done
         /\ SignalsOwned(own) => \A e \in linkedSignals : own[e] \in DOMAIN log /\ ~log[own[e]].started
<1>1. /\ Types /\ SlotsInv /\ RunInv /\ WaitInv /\ SuccessorsReached /\ SignalsReached
      /\ StartedInv /\ UsedInv
  BY DEF IInv, FlowInv
<1>2. \A w \in Workers : worker[w].successors = None /\ worker[w].signals = None
  BY <1>1 DEF RunInv
<1>3. \A s \in Slot : handle(s) \in Handles
  BY <1>1 DEF Types, Handles, handle, Jobs, Words
<1>4. ASSUME SuccessorsOwned(own), NEW e \in linkedSuccessors
      PROVE  own[e] \in DOMAIN log /\ ~log[own[e]].done
  <2>1. Chained(edge.successors, linkedSuccessors, own, successorHeads)
    BY <1>4 DEF SuccessorsOwned
  <2>2. linkedSuccessors \in SUBSET EdgeSlot
    BY DEF linkedSuccessors
  <2>3. Reached(edge.successors, linkedSuccessors, successorFirsts)
    BY <1>1 DEF SuccessorsReached
  <2>4. PICK y \in linkedSuccessors : y \in successorFirsts /\ own[y] = own[e]
    BY <2>1, <2>2, <2>3, FirstOf
  <2>5. y \in EdgeSlot /\ y # None /\ y # closedList
    BY <2>2 DEF EdgeSlot, None, closedList
  <2>6. PICK s \in Slot : y = jobs[s].successors.head
    BY <1>2, <2>4, <2>5 DEF successorFirsts
  <2>7. PICK h : h = handle(s)
    OBVIOUS
  <2>8. <<y, h>> \in successorHeads
    BY <2>6, <2>7 DEF successorHeads
  <2>9. own[y] = h
    BY <1>3, <2>1, <2>5, <2>7, <2>8 DEF Chained
  <2>10. h \in DOMAIN log
    BY <1>1, <2>5, <2>6, <2>7 DEF UsedInv
  <2>11. ~log[h].done
    BY <1>1, <2>5, <2>6, <2>7, <2>10 DEF SlotsInv
  <2> QED BY <2>4, <2>9, <2>10, <2>11
<1>5. ASSUME SignalsOwned(own), NEW e \in linkedSignals
      PROVE  own[e] \in DOMAIN log /\ ~log[own[e]].started
  <2>1. Chained(edge.signals, linkedSignals, own, signalHeads)
    BY <1>5 DEF SignalsOwned
  <2>2. linkedSignals \in SUBSET EdgeSlot
    BY DEF linkedSignals
  <2>3. Reached(edge.signals, linkedSignals, signalFirsts)
    BY <1>1 DEF SignalsReached
  <2>4. PICK y \in linkedSignals : y \in signalFirsts /\ own[y] = own[e]
    BY <2>1, <2>2, <2>3, FirstOf
  <2>5. y \in EdgeSlot /\ y # None
    BY <2>2 DEF EdgeSlot, None
  <2>6. PICK s \in Slot : y = jobs[s].signals.head
    BY <1>2, <2>4, <2>5 DEF signalFirsts
  <2>7. PICK h : h = handle(s)
    OBVIOUS
  <2>8. <<y, h>> \in signalHeads
    BY <2>6, <2>7 DEF signalHeads
  <2>9. own[y] = h
    BY <1>3, <2>1, <2>5, <2>7, <2>8 DEF Chained
  <2>10. h \in DOMAIN log
    BY <1>1, <2>5, <2>6, <2>7 DEF UsedInv
  <2>11. ~log[h].started
    BY <1>1, <2>7, <2>10 DEF StartedInv
  <2> QED BY <2>4, <2>9, <2>10, <2>11
<1> QED BY <1>4, <1>5

\* Once every batch is submitted and nobody is under way, every job has
\* finished: of the others, one would depend on none of them, yet wait.
LEMMA AllFinish ==
  ASSUME IInv, \A g \in DOMAIN linker : linker[g].at = "idle",
         \A p \in Publications : pub[p].at \in {"schedule", "done"} /\ pub[p].batch = <<>>,
         \A w \in Workers : worker[w].at = "idle", arrived = {}
  PROVE  \A h \in DOMAIN log : log[h].done
<1>1. /\ Types /\ SlotsInv /\ WaitInv /\ SuccessorsInv /\ StartedInv /\ HeldInv /\ OrderInv
  BY DEF IInv, FlowInv
<1> SUFFICES ASSUME NEW h0 \in DOMAIN log, ~log[h0].done PROVE FALSE
  OBVIOUS
<1>2. PICK S : S = {h \in DOMAIN log : ~log[h].done}
  OBVIOUS
<1>3. PICK h \in S : log[h].deps \cap S = {}
  BY <1>1, <1>2 DEF OrderInv
<1>4. h \in DOMAIN log /\ ~log[h].done
  BY <1>2, <1>3
<1>5. log[h].submitted
  <2>1. \A p \in Publications : ToSet(pub[p].batch) = {} /\ pub[p].at # "addSuccessor"
    BY DEF ToSet
  <2> QED BY <1>1, <1>4, <2>1 DEF HeldInv
<1>6. PICK s \in Slot : s = h.slot /\ h = handle(s)
  BY <1>1, <1>4, Unfinished
<1>7. ~log[h].started
  BY <1>1, <1>4, <1>6 DEF StartedInv
<1>8. waitsFor(s) # {}
  <2>1. ~held(s)
    BY <1>5, <1>6 DEF held
  <2>2. jobs[s].waiting = Cardinality(waitsFor(s)) + (IF held(s) THEN 1 ELSE 0)
    BY <1>1 DEF WaitInv
  <2>3. jobs[s].waiting # 0
    <3>1. jobs[s].waiting = 0 <=> s \in arrived \/ log[handle(s)].started
      BY <1>1, <1>4, <1>6 DEF WaitInv
    <3> QED BY <1>6, <1>7, <3>1
  <2>4. Cardinality({}) = 0
    BY FS_EmptySet
  <2>5. ASSUME waitsFor(s) = {} PROVE FALSE
    <3>1. Cardinality(waitsFor(s)) = 0
      BY ONLY <2>4, <2>5
    <3>2. jobs[s].waiting = 0 + 0
      BY ONLY <2>1, <2>2, <3>1
    <3> QED BY ONLY <2>3, <3>2
  <2> QED BY <2>5
<1>9. PICK e \in EdgeSlot : e \notin ToSet(free.successors) /\ edge.successors[e].successor = s
  BY <1>8 DEF waitsFor
<1>10. e \in linkedSuccessors
  <2>1. \A p \in Publications : linker[p].at = "idle"
    BY <1>1 DEF Types, Goroutines
  <2> QED BY <1>9, <2>1 DEF linkedSuccessors
<1>11. PICK own : SuccessorsOwned(own)
  BY <1>1 DEF SuccessorsInv
<1>12. own[e] \in log[h].deps
  BY <1>6, <1>9, <1>10, <1>11 DEF SuccessorsOwned, Waits
<1>13. own[e] \in S
  BY <1>2, <1>10, <1>11, ListsOpen
<1> QED BY <1>3, <1>12, <1>13

\* Once every batch is submitted and nobody is under way, every job has
\* finished and every armed Signal was sent (finishJob, armSignal, arrive).
THEOREM NobodyStranded == Spec => []NothingStranded
<1>1. IInv => NothingStranded
  <2> SUFFICES ASSUME IInv, \A g \in DOMAIN linker : linker[g].at = "idle",
                      \A p \in Publications :
                        pub[p].at \in {"schedule", "done"} /\ pub[p].batch = <<>>,
                      \A w \in Workers : worker[w].at = "idle", arrived = {}
               PROVE  /\ \A h \in DOMAIN log : log[h].done
                      /\ \A n \in Notifiers : notifier[n].called => n \in sent
    BY DEF NothingStranded
  <2>1. \A h \in DOMAIN log : log[h].done
    BY AllFinish
  <2>2. ASSUME NEW n \in Notifiers, notifier[n].called, n \notin sent PROVE FALSE
    <3>1. linker[n].at = "idle"
      BY DEF IInv, Types, Goroutines
    <3>2. PICK e \in linkedSignals : edge.signals[e].signal = {n}
      BY <2>2, <3>1 DEF IInv, FlowInv, ArmedInv
    <3>3. PICK own : SignalsOwned(own)
      BY DEF IInv, SignalsInv
    <3>4. own[e] \in DOMAIN log /\ ~log[own[e]].started
      BY <3>2, <3>3, ListsOpen
    <3>5. log[own[e]].started
      BY <2>1, <3>4 DEF IInv, WaitInv
    <3> QED BY <3>4, <3>5
  <2> QED BY <2>1, <2>2
<1> QED BY <1>1, Invariance, PTL

=============================================================================
