-------------------------- MODULE SupervisorProofs --------------------------
(***************************************************************************)
(* Proofs about Supervisor, for every finite set of kernels, any number of *)
(* plugins, callers and jobs.                                              *)
(***************************************************************************)
EXTENDS Supervisor, SequenceTheorems, TLAPS

-----------------------------------------------------------------------------
(* The inductive invariant of the kernels and their plugins *)

\* What was called on a plugin that is untouched, on one initialized, on one
\* that is down but not destroyed, and on one that
\* nothing more is called on.
Untouched == <<>>
Inited == <<"init">>
Down == {Inited, <<"init", "start failed">>, <<"init", "start", "stop">>}
Over == legalCalls \cup {Untouched}
Called == {Inited, up} \cup Down \cup Over

\* The calls of plugin i of kernel k follow from how far k is: the plugins on
\* one side of next have been through the phase, the others have not.
CallsOf(k, i) ==
  LET c == calls[k][i]
      n == next[k]
  IN  /\ phase[k] \in {"absent", "refused"} => c = Untouched
      /\ phase[k] = "init" => c = IF i < n THEN Inited ELSE Untouched
      /\ phase[k] = "start" => c = IF i < n THEN up ELSE Inited
      /\ phase[k] = "live" => c = up
      /\ phase[k] = "stop" => IF i <= n THEN c = up ELSE c \in Down
      /\ phase[k] \in {"drain", "await", "join"} => c \in Down
      /\ phase[k] = "destroy" => c \in IF i <= n THEN Down ELSE Over
      /\ phase[k] = "gone" => c \in Over

\* Where the goroutine of a kernel may be.
NextOf(k) ==
  /\ phase[k] \in {"init", "start"} => next[k] \in 1..(PluginCount + 1)
  /\ phase[k] \in {"stop", "destroy"} => next[k] \in 0..PluginCount

Types ==
  /\ kernels \in SUBSET Kernels
  /\ open \in SUBSET Kernels
  /\ quitting \in BOOLEAN
  /\ phase \in [Kernels -> Phases]
  /\ next \in [Kernels -> Int]
  /\ calls \in [Kernels -> [Plugins -> Called]]

\* A kernel is among the live ones just while it is live, and takes work just
\* between StartWorkers and BeginDrain.
AliveOf(k) ==
  /\ k \in kernels <=> phase[k] = "live"
  /\ k \in open <=> phase[k] \in {"start", "live", "stop"}

\* Kernel k is where its variables say.
KernelInv(k) ==
  /\ AliveOf(k)
  /\ NextOf(k)
  /\ \A i \in Plugins : CallsOf(k, i)

IInv ==
  /\ Types
  /\ quitting => kernels = {}
  /\ \A k \in Kernels : KernelInv(k)

-----------------------------------------------------------------------------
(* The calls of a plugin, one after another *)

\* One more call, after one.
LEMMA AppendToOne ==
  ASSUME NEW a, NEW b
  PROVE  Append(<<a>>, b) = <<a, b>>
<1> DEFINE S == {a, b}
           s == Append(<<a>>, b)
<1>1. <<a>> \in Seq(S) /\ b \in S /\ Len(<<a>>) = 1
  OBVIOUS
<1>2. s \in Seq(S) /\ Len(s) = 2 /\ s[1] = a /\ s[2] = b
  BY <1>1, AppendProperties
<1>3. <<a, b>> \in Seq(S) /\ Len(<<a, b>>) = 2
  OBVIOUS
<1>4. \A i \in 1..Len(s) : s[i] = <<a, b>>[i]
  BY <1>2
<1> HIDE DEF S
<1> QED BY <1>2, <1>3, <1>4, SeqEqual

\* One more call, after two.
LEMMA AppendToTwo ==
  ASSUME NEW a, NEW b, NEW c
  PROVE  Append(<<a, b>>, c) = <<a, b, c>>
<1> DEFINE S == {a, b, c}
           s == Append(<<a, b>>, c)
<1>1. <<a, b>> \in Seq(S) /\ c \in S /\ Len(<<a, b>>) = 2
  OBVIOUS
<1>2. s \in Seq(S) /\ Len(s) = 3 /\ s[1] = a /\ s[2] = b /\ s[3] = c
  BY <1>1, AppendProperties
<1>3. <<a, b, c>> \in Seq(S) /\ Len(<<a, b, c>>) = 3
  OBVIOUS
<1>4. \A i \in 1..Len(s) : s[i] = <<a, b, c>>[i]
  BY <1>2
<1> HIDE DEF S
<1> QED BY <1>2, <1>3, <1>4, SeqEqual

\* One more call, after three.
LEMMA AppendToThree ==
  ASSUME NEW a, NEW b, NEW c, NEW d
  PROVE  Append(<<a, b, c>>, d) = <<a, b, c, d>>
<1> DEFINE S == {a, b, c, d}
           s == Append(<<a, b, c>>, d)
<1>1. <<a, b, c>> \in Seq(S) /\ d \in S /\ Len(<<a, b, c>>) = 3
  OBVIOUS
<1>2. s \in Seq(S) /\ Len(s) = 4 /\ s[1] = a /\ s[2] = b /\ s[3] = c /\ s[4] = d
  BY <1>1, AppendProperties
<1>3. <<a, b, c, d>> \in Seq(S) /\ Len(<<a, b, c, d>>) = 4
  OBVIOUS
<1>4. \A i \in 1..Len(s) : s[i] = <<a, b, c, d>>[i]
  BY <1>2
<1> HIDE DEF S
<1> QED BY <1>2, <1>3, <1>4, SeqEqual

\* What a plugin's calls become with the next one.
LEMMA CallsAppended ==
  /\ Append(Untouched, "init") = Inited
  /\ Append(Untouched, "init failed") \in Over
  /\ Append(Inited, "start") = up
  /\ Append(Inited, "start failed") \in Down
  /\ Append(up, "stop") \in Down
  /\ \A c \in Down : Append(c, "destroy") \in Over
<1>1. /\ Append(<<"init">>, "start") = <<"init", "start">>
      /\ Append(<<"init">>, "start failed") = <<"init", "start failed">>
      /\ Append(<<"init">>, "destroy") = <<"init", "destroy">>
  BY AppendToOne
<1>2. /\ Append(<<"init", "start">>, "stop") = <<"init", "start", "stop">>
      /\ Append(<<"init", "start failed">>, "destroy")
           = <<"init", "start failed", "destroy">>
  BY AppendToTwo
<1>3. Append(<<"init", "start", "stop">>, "destroy")
        = <<"init", "start", "stop", "destroy">>
  BY AppendToThree
<1>4. Append(<<>>, "init") = <<"init">> /\ Append(<<>>, "init failed") = <<"init failed">>
  OBVIOUS
<1> QED BY <1>1, <1>2, <1>3, <1>4 DEF Untouched, Inited, Over, Down, up, legalCalls

\* The calls of a plugin at each stage are among those it may have.
LEMMA CalledAre ==
  /\ Untouched \in Called /\ Inited \in Called /\ up \in Called
  /\ Inited \in Down /\ Down \subseteq Called /\ Over \subseteq Called
  /\ Untouched \in Over
BY DEF Called, Down, Over

\* How far a plugin is can be told from its calls.
LEMMA CallsTold ==
  /\ Inited # up /\ Untouched # up /\ up \notin Down \cup Over
  /\ up # <<>> /\ Untouched = <<>> /\ Last(up) \notin {"init failed", "destroy"}
  /\ \A c \in Down : c # <<>> /\ Last(c) \notin {"init failed", "destroy"}
  /\ \A c \in Over : c = <<>> \/ Last(c) \in {"init failed", "destroy"}
BY DEF Untouched, Inited, up, Down, Over, legalCalls, Last

-----------------------------------------------------------------------------
(* Every step keeps the invariant *)

\* No kernel is there at first.
LEMMA InitIInv == Init => IInv
<1> SUFFICES ASSUME Init PROVE IInv
  OBVIOUS
<1>1. calls = [k \in Kernels |-> [i \in Plugins |-> Untouched]]
  BY DEF Init, Untouched
<1>2. calls \in [Kernels -> [Plugins -> Called]]
  BY <1>1, CalledAre
<1>3. phase \in [Kernels -> Phases] /\ next \in [Kernels -> Int]
  BY DEF Init, Phases
<1>5. Types
  BY <1>2, <1>3 DEF Init, Types
<1>6. \A k \in Kernels : AliveOf(k) /\ NextOf(k)
  BY DEF Init, AliveOf, NextOf
<1>7. \A k \in Kernels, i \in Plugins : CallsOf(k, i)
  BY <1>1 DEF Init, CallsOf
<1>8. quitting => kernels = {}
  BY DEF Init
<1> QED BY <1>5, <1>6, <1>7, <1>8 DEF IInv, KernelInv

\* What a call on the plugin that the goroutine of k is at changes.
LEMMA CalledKeeps ==
  ASSUME IInv, NEW k \in Kernels, next[k] \in Plugins, NEW x, called(k, x),
         Append(calls[k][next[k]], x) \in Called
  PROVE  /\ calls' \in [Kernels -> [Plugins -> Called]]
         /\ calls'[k][next[k]] = Append(calls[k][next[k]], x)
         /\ \A i \in Plugins \ {next[k]} : calls'[k][i] = calls[k][i]
         /\ \A l \in Kernels \ {k} : calls'[l] = calls[l]
<1> DEFINE c == Append(calls[k][next[k]], x)
<1>1. calls' = [calls EXCEPT ![k][next[k]] = c]
  BY DEF called
<1>2. calls \in [Kernels -> [Plugins -> Called]]
  BY DEF IInv, Types
<1> HIDE DEF c
<1>3. c \in Called
  BY DEF c
<1>4. /\ calls' \in [Kernels -> [Plugins -> Called]]
      /\ calls'[k][next[k]] = c
      /\ \A i \in Plugins \ {next[k]} : calls'[k][i] = calls[k][i]
      /\ \A l \in Kernels \ {k} : calls'[l] = calls[l]
  BY <1>1, <1>2, <1>3
<1> QED BY <1>4 DEF c

\* A kernel that a step leaves alone is where it was.
LEMMA KernelKept ==
  ASSUME NEW l \in Kernels, KernelInv(l),
         phase'[l] = phase[l], next'[l] = next[l], calls'[l] = calls[l],
         l \in kernels' <=> l \in kernels, l \in open' <=> l \in open
  PROVE  KernelInv(l)'
<1>1. AliveOf(l)'
  BY DEF KernelInv, AliveOf
<1>2. NextOf(l)'
  BY DEF KernelInv, NextOf
<1>3. ASSUME NEW i \in Plugins PROVE CallsOf(l, i)'
  <2>1. CallsOf(l, i)
    BY DEF KernelInv
  <2> QED BY <2>1 DEF CallsOf
<1> QED BY <1>1, <1>2, <1>3 DEF KernelInv

\* What a step of k may change: whether it takes work, its plugins' calls and
\* whether it is live.
OpenOf(k) ==
  /\ open' \in SUBSET Kernels
  /\ \A l \in Kernels \ {k} : l \in open' <=> l \in open

CallsAt(k) ==
  /\ calls' \in [Kernels -> [Plugins -> Called]]
  /\ \A l \in Kernels \ {k} : calls'[l] = calls[l]

SuperOf(k) ==
  /\ kernels' \in SUBSET Kernels
  /\ UNCHANGED quitting
  /\ quitting => kernels' = {}
  /\ \A l \in Kernels \ {k} : l \in kernels' <=> l \in kernels

\* A step that moves the goroutine of k keeps the invariant if k is where its
\* variables say afterwards.
LEMMA KernelMoves ==
  ASSUME IInv, NEW k \in Kernels, NEW p \in Phases, NEW n \in Int,
         enter(k, p, n), SuperOf(k), OpenOf(k), CallsAt(k),
         phase'[k] = p /\ next'[k] = n =>
           AliveOf(k)' /\ NextOf(k)' /\ \A i \in Plugins : CallsOf(k, i)'
  PROVE  IInv'
<1>1. /\ phase' \in [Kernels -> Phases] /\ next' \in [Kernels -> Int]
      /\ phase'[k] = p /\ next'[k] = n
      /\ \A l \in Kernels \ {k} : phase'[l] = phase[l] /\ next'[l] = next[l]
  BY DEF IInv, Types, enter
<1>2. Types'
  BY <1>1 DEF IInv, Types, SuperOf, OpenOf, CallsAt
<1>3. KernelInv(k)'
  BY <1>1 DEF KernelInv
<1>4. ASSUME NEW l \in Kernels \ {k} PROVE KernelInv(l)'
  <2>1. KernelInv(l)
    BY DEF IInv
  <2> QED BY <2>1, <1>1, KernelKept DEF SuperOf, OpenOf, CallsAt
<1>5. quitting' => kernels' = {}
  BY DEF SuperOf
<1> QED BY <1>2, <1>3, <1>4, <1>5 DEF IInv

\* What holds of the live kernels stays, with them unchanged.
LEMMA KeptSuper ==
  ASSUME IInv, NEW k \in Kernels, UNCHANGED <<kernels, quitting>>
  PROVE  SuperOf(k)
BY DEF IInv, Types, SuperOf

\* What holds of the kernels that take work stays, with them unchanged.
LEMMA KeptOpen ==
  ASSUME IInv, NEW k \in Kernels, UNCHANGED open
  PROVE  OpenOf(k)
BY DEF IInv, Types, OpenOf

\* What holds of the calls stays, with them unchanged.
LEMMA KeptCalls ==
  ASSUME IInv, NEW k \in Kernels, UNCHANGED calls
  PROVE  CallsAt(k)
BY DEF IInv, Types, CallsAt

\* A kernel is spawned or refused (Supervisor.Spawn).
LEMMA SpawnIInv ==
  ASSUME IInv, NEW k \in Kernels, Spawn(k)
  PROVE  IInv'
<1>1. PICK p \in {"refused", "init"}, n \in {0, 1} :
        enter(k, p, n) /\ (p = "init" => n = 1)
  BY DEF Spawn
<1>2. p \in Phases /\ n \in Int /\ phase[k] = "absent"
  BY DEF Phases, Spawn
<1>3. UNCHANGED <<kernels, quitting, open, calls>>
  BY DEF Spawn, super
<1>4. ASSUME phase'[k] = p, next'[k] = n
      PROVE  AliveOf(k)' /\ NextOf(k)' /\ \A i \in Plugins : CallsOf(k, i)'
  <2>1. AliveOf(k)'
    BY <1>2, <1>3, <1>4 DEF IInv, KernelInv, AliveOf
  <2>2. NextOf(k)'
    BY <1>1, <1>4, SupervisorAssumption DEF NextOf
  <2>3. ASSUME NEW i \in Plugins PROVE CallsOf(k, i)'
    <3>1. calls[k][i] = Untouched
      BY <1>2 DEF IInv, KernelInv, CallsOf
    <3> QED BY <3>1, <1>1, <1>3, <1>4 DEF CallsOf, Plugins
  <2> QED BY <2>1, <2>2, <2>3
<1> QED BY <1>1, <1>2, <1>3, <1>4, KernelMoves, KeptSuper, KeptOpen, KeptCalls

\* The next plugin is initialized, or fails (initPlugins).
LEMMA InitPluginIInv ==
  ASSUME IInv, NEW k \in Kernels, InitPlugin(k)
  PROVE  IInv'
<1>1. next[k] \in Plugins /\ phase[k] = "init" /\ next[k] \in Int
  BY DEF InitPlugin, IInv, Types
<1>2. KernelInv(k)
  BY DEF IInv
<1>3. calls[k][next[k]] = Untouched
  BY <1>1, <1>2 DEF KernelInv, CallsOf
<1>4. UNCHANGED <<kernels, quitting, open>>
  BY DEF InitPlugin, super
<1>5. phase'[k] \in {"init", "destroy"} => AliveOf(k)'
  BY <1>1, <1>2, <1>4 DEF KernelInv, AliveOf
<1>6. CASE called(k, "init") /\ enter(k, "init", next[k] + 1)
  <2>1. Append(calls[k][next[k]], "init") = Inited
    BY <1>3, CallsAppended
  <2>2. /\ calls' \in [Kernels -> [Plugins -> Called]]
        /\ calls'[k][next[k]] = Inited
        /\ \A i \in Plugins \ {next[k]} : calls'[k][i] = calls[k][i]
        /\ \A l \in Kernels \ {k} : calls'[l] = calls[l]
    BY <1>1, <1>6, <2>1, CalledAre, CalledKeeps
  <2>3. CallsAt(k)
    BY <2>2 DEF CallsAt
  <2>4. ASSUME phase'[k] = "init", next'[k] = next[k] + 1
        PROVE  NextOf(k)' /\ \A i \in Plugins : CallsOf(k, i)'
    <3>1. NextOf(k)'
      BY <1>1, <2>4, SupervisorAssumption DEF NextOf, Plugins
    <3>2. ASSUME NEW i \in Plugins PROVE CallsOf(k, i)'
      <4>1. i \in Int /\ CallsOf(k, i)
        BY <1>2, SupervisorAssumption DEF KernelInv, Plugins
      <4> QED BY <4>1, <1>1, <2>2, <2>4 DEF CallsOf
    <3> QED BY <3>1, <3>2
  <2>5. "init" \in Phases /\ next[k] + 1 \in Int
    BY <1>1 DEF Phases
  <2> QED BY <1>4, <1>5, <1>6, <2>3, <2>4, <2>5, KernelMoves, KeptSuper, KeptOpen
<1>7. CASE called(k, "init failed") /\ enter(k, "destroy", next[k] - 1)
  <2>1. Append(calls[k][next[k]], "init failed") \in Over
    BY <1>3, CallsAppended
  <2>2. /\ calls' \in [Kernels -> [Plugins -> Called]]
        /\ calls'[k][next[k]] \in Over
        /\ \A i \in Plugins \ {next[k]} : calls'[k][i] = calls[k][i]
        /\ \A l \in Kernels \ {k} : calls'[l] = calls[l]
    BY <1>1, <1>7, <2>1, CalledAre, CalledKeeps
  <2>3. CallsAt(k)
    BY <2>2 DEF CallsAt
  <2>4. ASSUME phase'[k] = "destroy", next'[k] = next[k] - 1
        PROVE  NextOf(k)' /\ \A i \in Plugins : CallsOf(k, i)'
    <3>1. NextOf(k)'
      BY <1>1, <2>4, SupervisorAssumption DEF NextOf, Plugins
    <3>2. ASSUME NEW i \in Plugins PROVE CallsOf(k, i)'
      <4>1. i \in Int /\ CallsOf(k, i)
        BY <1>2, SupervisorAssumption DEF KernelInv, Plugins
      <4> QED BY <4>1, <1>1, <2>2, <2>4, CalledAre DEF CallsOf
    <3> QED BY <3>1, <3>2
  <2>5. "destroy" \in Phases /\ next[k] - 1 \in Int
    BY <1>1 DEF Phases
  <2> QED BY <1>4, <1>5, <1>7, <2>3, <2>4, <2>5, KernelMoves, KeptSuper, KeptOpen
<1> QED BY <1>6, <1>7 DEF InitPlugin

\* All plugins are initialized, and the workers start.
LEMMA StartWorkersIInv ==
  ASSUME IInv, NEW k \in Kernels, StartWorkers(k)
  PROVE  IInv'
<1>1. /\ phase[k] = "init" /\ next[k] > PluginCount /\ next[k] \in Int
      /\ open' = open \cup {k} /\ enter(k, "start", 1)
      /\ UNCHANGED <<kernels, quitting, calls>>
  BY DEF StartWorkers, IInv, Types, super
<1>2. KernelInv(k)
  BY DEF IInv
<1>3. OpenOf(k)
  BY <1>1 DEF IInv, Types, OpenOf
<1>4. ASSUME phase'[k] = "start", next'[k] = 1
      PROVE  AliveOf(k)' /\ NextOf(k)' /\ \A i \in Plugins : CallsOf(k, i)'
  <2>1. AliveOf(k)'
    BY <1>1, <1>2, <1>4 DEF KernelInv, AliveOf
  <2>2. NextOf(k)'
    BY <1>4, SupervisorAssumption DEF NextOf
  <2>3. ASSUME NEW i \in Plugins PROVE CallsOf(k, i)'
    <3>1. i \in Int /\ i >= 1 /\ i <= PluginCount /\ CallsOf(k, i) /\ PluginCount \in Int
      BY <1>2, SupervisorAssumption DEF KernelInv, Plugins
    <3>2. calls[k][i] = Inited
      BY <1>1, <3>1 DEF CallsOf
    <3> QED BY <1>1, <1>4, <3>1, <3>2 DEF CallsOf
  <2> QED BY <2>1, <2>2, <2>3
<1>5. "start" \in Phases
  BY DEF Phases
<1> QED BY <1>1, <1>3, <1>4, <1>5, KernelMoves, KeptSuper, KeptCalls

\* The next plugin is started, or fails (startPlugins).
LEMMA StartPluginIInv ==
  ASSUME IInv, NEW k \in Kernels, StartPlugin(k)
  PROVE  IInv'
<1>1. /\ next[k] \in Plugins /\ phase[k] = "start" /\ next[k] \in Int
      /\ UNCHANGED <<kernels, quitting, open>>
  BY DEF StartPlugin, IInv, Types, super
<1>2. KernelInv(k)
  BY DEF IInv
<1>3. calls[k][next[k]] = Inited
  BY <1>1, <1>2 DEF KernelInv, CallsOf
<1>4. OpenOf(k)
  BY <1>1, KeptOpen
<1>5. phase'[k] \in {"start", "stop"} => AliveOf(k)'
  BY <1>1, <1>2 DEF KernelInv, AliveOf
<1>6. CASE called(k, "start") /\ enter(k, "start", next[k] + 1)
  <2>1. Append(calls[k][next[k]], "start") = up
    BY <1>3, CallsAppended
  <2>2. /\ calls' \in [Kernels -> [Plugins -> Called]]
        /\ calls'[k][next[k]] = up
        /\ \A i \in Plugins \ {next[k]} : calls'[k][i] = calls[k][i]
        /\ \A l \in Kernels \ {k} : calls'[l] = calls[l]
    BY <1>1, <1>6, <2>1, CalledAre, CalledKeeps
  <2>3. CallsAt(k)
    BY <2>2 DEF CallsAt
  <2>4. ASSUME phase'[k] = "start", next'[k] = next[k] + 1
        PROVE  NextOf(k)' /\ \A i \in Plugins : CallsOf(k, i)'
    <3>1. NextOf(k)'
      BY <1>1, <2>4, SupervisorAssumption DEF NextOf, Plugins
    <3>2. ASSUME NEW i \in Plugins PROVE CallsOf(k, i)'
      <4>1. i \in Int /\ CallsOf(k, i)
        BY <1>2, SupervisorAssumption DEF KernelInv, Plugins
      <4> QED BY <4>1, <1>1, <2>2, <2>4 DEF CallsOf
    <3> QED BY <3>1, <3>2
  <2>5. "start" \in Phases /\ next[k] + 1 \in Int
    BY <1>1 DEF Phases
  <2> QED BY <1>1, <1>4, <1>5, <1>6, <2>3, <2>4, <2>5, KernelMoves, KeptSuper
<1>7. CASE called(k, "start failed") /\ enter(k, "stop", lastStarted(k))
  <2>1. Append(calls[k][next[k]], "start failed") \in Down
    BY <1>3, CallsAppended
  <2>2. /\ calls' \in [Kernels -> [Plugins -> Called]]
        /\ calls'[k][next[k]] \in Down
        /\ \A i \in Plugins \ {next[k]} : calls'[k][i] = calls[k][i]
        /\ \A l \in Kernels \ {k} : calls'[l] = calls[l]
    BY <1>1, <1>7, <2>1, CalledAre, CalledKeeps
  <2>3. CallsAt(k)
    BY <2>2 DEF CallsAt
  <2>4. ASSUME phase'[k] = "stop", next'[k] = next[k] - 1
        PROVE  NextOf(k)' /\ \A i \in Plugins : CallsOf(k, i)'
    <3>1. NextOf(k)'
      BY <1>1, <2>4, SupervisorAssumption DEF NextOf, Plugins
    <3>2. ASSUME NEW i \in Plugins PROVE CallsOf(k, i)'
      <4>1. i \in Int /\ CallsOf(k, i)
        BY <1>2, SupervisorAssumption DEF KernelInv, Plugins
      <4> QED BY <4>1, <1>1, <2>2, <2>4, CalledAre DEF CallsOf
    <3> QED BY <3>1, <3>2
  <2>5. "stop" \in Phases /\ next[k] - 1 \in Int /\ lastStarted(k) = next[k] - 1
    BY <1>1 DEF Phases, lastStarted
  <2> QED BY <1>1, <1>4, <1>5, <1>7, <2>3, <2>4, <2>5, KernelMoves, KeptSuper
<1> QED BY <1>6, <1>7 DEF StartPlugin

\* The kernel joins the live ones, unless Quit came first.
LEMMA AddKernelIInv ==
  ASSUME IInv, NEW k \in Kernels, AddKernel(k)
  PROVE  IInv'
<1>1. /\ phase[k] = "start" /\ next[k] > PluginCount /\ next[k] \in Int
      /\ UNCHANGED <<quitting, open, calls>>
  BY DEF AddKernel, IInv, Types
<1>2. KernelInv(k)
  BY DEF IInv
<1>3. ASSUME NEW i \in Plugins PROVE i \in Int /\ i <= PluginCount /\ calls'[k][i] = up
  <2>1. i \in Int /\ i <= PluginCount /\ CallsOf(k, i) /\ PluginCount \in Int
    BY <1>2, SupervisorAssumption DEF KernelInv, Plugins
  <2> QED BY <1>1, <2>1 DEF CallsOf
<1>4. "live" \in Phases /\ "stop" \in Phases /\ 0 \in Int /\ PluginCount \in Int
  BY SupervisorAssumption DEF Phases
<1>5. CASE /\ mayAdd /\ kernels' = kernels \cup {k} /\ enter(k, "live", 0)
  <2>1. SuperOf(k)
    BY <1>1, <1>5 DEF mayAdd, SuperOf, IInv, Types
  <2>2. ASSUME phase'[k] = "live", next'[k] = 0
        PROVE  AliveOf(k)' /\ NextOf(k)' /\ \A i \in Plugins : CallsOf(k, i)'
    BY <1>1, <1>2, <1>3, <1>5, <2>2 DEF KernelInv, AliveOf, NextOf, CallsOf
  <2> QED BY <1>1, <1>4, <1>5, <2>1, <2>2, KernelMoves, KeptOpen, KeptCalls
<1>6. CASE /\ ~mayAdd /\ enter(k, "stop", PluginCount) /\ UNCHANGED kernels
  <2>1. ASSUME phase'[k] = "stop", next'[k] = PluginCount
        PROVE  AliveOf(k)' /\ NextOf(k)' /\ \A i \in Plugins : CallsOf(k, i)'
    <3>1. AliveOf(k)' /\ NextOf(k)'
      BY <1>1, <1>2, <1>6, <2>1, SupervisorAssumption DEF KernelInv, AliveOf, NextOf
    <3>2. \A i \in Plugins : CallsOf(k, i)'
      BY <1>3, <2>1 DEF CallsOf
    <3> QED BY <3>1, <3>2
  <2> QED BY <1>1, <1>4, <1>6, <2>1, KernelMoves, KeptSuper, KeptOpen, KeptCalls
<1> QED BY <1>5, <1>6 DEF AddKernel

\* The plugin before is stopped (stopPlugins).
LEMMA StopPluginIInv ==
  ASSUME IInv, NEW k \in Kernels, StopPlugin(k)
  PROVE  IInv'
<1>1. /\ next[k] \in Plugins /\ phase[k] = "stop" /\ next[k] \in Int
      /\ UNCHANGED <<kernels, quitting, open>>
      /\ called(k, "stop") /\ enter(k, "stop", next[k] - 1)
  BY DEF StopPlugin, IInv, Types, super
<1>2. KernelInv(k)
  BY DEF IInv
<1>3. calls[k][next[k]] = up
  BY <1>1, <1>2 DEF KernelInv, CallsOf
<1>4. Append(calls[k][next[k]], "stop") \in Down
  BY <1>3, CallsAppended
<1>5. /\ calls' \in [Kernels -> [Plugins -> Called]]
      /\ calls'[k][next[k]] \in Down
      /\ \A i \in Plugins \ {next[k]} : calls'[k][i] = calls[k][i]
      /\ \A l \in Kernels \ {k} : calls'[l] = calls[l]
  BY <1>1, <1>4, CalledAre, CalledKeeps
<1>6. CallsAt(k) /\ OpenOf(k)
  BY <1>1, <1>5, KeptOpen DEF CallsAt
<1>7. ASSUME phase'[k] = "stop", next'[k] = next[k] - 1
      PROVE  AliveOf(k)' /\ NextOf(k)' /\ \A i \in Plugins : CallsOf(k, i)'
  <2>1. AliveOf(k)'
    BY <1>1, <1>2, <1>7 DEF KernelInv, AliveOf
  <2>2. NextOf(k)'
    BY <1>1, <1>7, SupervisorAssumption DEF NextOf, Plugins
  <2>3. ASSUME NEW i \in Plugins PROVE CallsOf(k, i)'
    <3>1. i \in Int /\ CallsOf(k, i)
      BY <1>2, SupervisorAssumption DEF KernelInv, Plugins
    <3> QED BY <3>1, <1>1, <1>5, <1>7 DEF CallsOf
  <2> QED BY <2>1, <2>2, <2>3
<1>8. "stop" \in Phases /\ next[k] - 1 \in Int
  BY <1>1 DEF Phases
<1> QED BY <1>1, <1>6, <1>7, <1>8, KernelMoves, KeptSuper

\* The plugin before is destroyed (destroyPlugins).
LEMMA DestroyPluginIInv ==
  ASSUME IInv, NEW k \in Kernels, DestroyPlugin(k)
  PROVE  IInv'
<1>1. /\ next[k] \in Plugins /\ phase[k] = "destroy" /\ next[k] \in Int
      /\ UNCHANGED <<kernels, quitting, open>>
      /\ called(k, "destroy") /\ enter(k, "destroy", next[k] - 1)
  BY DEF DestroyPlugin, IInv, Types, super
<1>2. KernelInv(k)
  BY DEF IInv
<1>3. calls[k][next[k]] \in Down
  BY <1>1, <1>2 DEF KernelInv, CallsOf
<1>4. Append(calls[k][next[k]], "destroy") \in Over
  BY <1>3, CallsAppended
<1>5. /\ calls' \in [Kernels -> [Plugins -> Called]]
      /\ calls'[k][next[k]] \in Over
      /\ \A i \in Plugins \ {next[k]} : calls'[k][i] = calls[k][i]
      /\ \A l \in Kernels \ {k} : calls'[l] = calls[l]
  BY <1>1, <1>4, CalledAre, CalledKeeps
<1>6. CallsAt(k) /\ OpenOf(k)
  BY <1>1, <1>5, KeptOpen DEF CallsAt
<1>7. ASSUME phase'[k] = "destroy", next'[k] = next[k] - 1
      PROVE  AliveOf(k)' /\ NextOf(k)' /\ \A i \in Plugins : CallsOf(k, i)'
  <2>1. AliveOf(k)'
    BY <1>1, <1>2, <1>7 DEF KernelInv, AliveOf
  <2>2. NextOf(k)'
    BY <1>1, <1>7, SupervisorAssumption DEF NextOf, Plugins
  <2>3. ASSUME NEW i \in Plugins PROVE CallsOf(k, i)'
    <3>1. i \in Int /\ CallsOf(k, i)
      BY <1>2, SupervisorAssumption DEF KernelInv, Plugins
    <3> QED BY <3>1, <1>1, <1>5, <1>7 DEF CallsOf
  <2> QED BY <2>1, <2>2, <2>3
<1>8. "destroy" \in Phases /\ next[k] - 1 \in Int
  BY <1>1 DEF Phases
<1> QED BY <1>1, <1>6, <1>7, <1>8, KernelMoves, KeptSuper

\* The kernel takes no more work.
LEMMA BeginDrainIInv ==
  ASSUME IInv, NEW k \in Kernels, BeginDrain(k)
  PROVE  IInv'
<1>1. /\ phase[k] = "stop" /\ next[k] = 0
      /\ open' = open \ {k} /\ enter(k, "drain", 0)
      /\ UNCHANGED <<kernels, quitting, calls>>
  BY DEF BeginDrain, super
<1>2. KernelInv(k)
  BY DEF IInv
<1>3. OpenOf(k)
  BY <1>1 DEF IInv, Types, OpenOf
<1>4. ASSUME phase'[k] = "drain", next'[k] = 0
      PROVE  AliveOf(k)' /\ NextOf(k)' /\ \A i \in Plugins : CallsOf(k, i)'
  <2>1. AliveOf(k)' /\ NextOf(k)'
    BY <1>1, <1>2, <1>4 DEF KernelInv, AliveOf, NextOf
  <2>2. ASSUME NEW i \in Plugins PROVE CallsOf(k, i)'
    <3>1. i \in Int /\ i >= 1 /\ CallsOf(k, i)
      BY <1>2, SupervisorAssumption DEF KernelInv, Plugins
    <3> QED BY <1>1, <1>4, <3>1 DEF CallsOf
  <2> QED BY <2>1, <2>2
<1>5. "drain" \in Phases
  BY DEF Phases
<1> QED BY <1>1, <1>3, <1>4, <1>5, KernelMoves, KeptSuper, KeptCalls

\* drain looks at what is outstanding.
LEMMA CheckOutstandingIInv ==
  ASSUME IInv, NEW k \in Kernels, CheckOutstanding(k)
  PROVE  IInv'
<1>1. /\ phase[k] = "drain" /\ UNCHANGED <<kernels, quitting, open, calls>>
      /\ enter(k, "join", 0) \/ enter(k, "await", 0)
  BY DEF CheckOutstanding, super
<1>2. KernelInv(k)
  BY DEF IInv
<1>3. ASSUME NEW p \in {"await", "join"}, phase'[k] = p, next'[k] = 0
      PROVE  AliveOf(k)' /\ NextOf(k)' /\ \A i \in Plugins : CallsOf(k, i)'
  <2>1. AliveOf(k)' /\ NextOf(k)'
    BY <1>1, <1>2, <1>3 DEF KernelInv, AliveOf, NextOf
  <2>2. ASSUME NEW i \in Plugins PROVE CallsOf(k, i)'
    <3>1. CallsOf(k, i)
      BY <1>2 DEF KernelInv
    <3> QED BY <1>1, <1>3, <3>1 DEF CallsOf
  <2> QED BY <2>1, <2>2
<1>4. "await" \in Phases /\ "join" \in Phases
  BY DEF Phases
<1> QED BY <1>1, <1>3, <1>4, KernelMoves, KeptSuper, KeptOpen, KeptCalls

\* drain takes the token.
LEMMA AwaitDrainedIInv ==
  ASSUME IInv, NEW k \in Kernels, AwaitDrained(k)
  PROVE  IInv'
<1>1. /\ phase[k] = "await" /\ UNCHANGED <<kernels, quitting, open, calls>>
      /\ enter(k, "join", 0)
  BY DEF AwaitDrained, super
<1>2. KernelInv(k)
  BY DEF IInv
<1>3. ASSUME NEW p \in {"await", "join"}, phase'[k] = p, next'[k] = 0
      PROVE  AliveOf(k)' /\ NextOf(k)' /\ \A i \in Plugins : CallsOf(k, i)'
  <2>1. AliveOf(k)' /\ NextOf(k)'
    BY <1>1, <1>2, <1>3 DEF KernelInv, AliveOf, NextOf
  <2>2. ASSUME NEW i \in Plugins PROVE CallsOf(k, i)'
    <3>1. CallsOf(k, i)
      BY <1>2 DEF KernelInv
    <3> QED BY <1>1, <1>3, <3>1 DEF CallsOf
  <2> QED BY <2>1, <2>2
<1>4. "await" \in Phases /\ "join" \in Phases
  BY DEF Phases
<1> QED BY <1>1, <1>3, <1>4, KernelMoves, KeptSuper, KeptOpen, KeptCalls

\* The workers have ended.
LEMMA AwaitWorkersIInv ==
  ASSUME IInv, NEW k \in Kernels, AwaitWorkers(k)
  PROVE  IInv'
<1>1. /\ phase[k] = "join" /\ enter(k, "destroy", PluginCount)
      /\ UNCHANGED <<kernels, quitting, open, calls>>
  BY DEF AwaitWorkers, super
<1>2. KernelInv(k)
  BY DEF IInv
<1>4. ASSUME phase'[k] = "destroy", next'[k] = PluginCount
      PROVE  AliveOf(k)' /\ NextOf(k)' /\ \A i \in Plugins : CallsOf(k, i)'
  <2>1. AliveOf(k)' /\ NextOf(k)'
    BY <1>1, <1>2, <1>4, SupervisorAssumption DEF KernelInv, AliveOf, NextOf
  <2>2. ASSUME NEW i \in Plugins PROVE CallsOf(k, i)'
    <3>1. i \in Int /\ i <= PluginCount /\ CallsOf(k, i)
      BY <1>2, SupervisorAssumption DEF KernelInv, Plugins
    <3> QED BY <1>1, <1>4, <3>1 DEF CallsOf
  <2> QED BY <2>1, <2>2
<1>5. "destroy" \in Phases /\ PluginCount \in Int
  BY SupervisorAssumption DEF Phases
<1> QED BY <1>1, <1>4, <1>5, KernelMoves, KeptSuper, KeptOpen, KeptCalls

\* The kernel is gone.
LEMMA GoneIInv ==
  ASSUME IInv, NEW k \in Kernels, Gone(k)
  PROVE  IInv'
<1>1. /\ phase[k] = "destroy" /\ next[k] = 0 /\ enter(k, "gone", 0)
      /\ UNCHANGED <<kernels, quitting, open, calls>>
  BY DEF Gone, super
<1>2. KernelInv(k)
  BY DEF IInv
<1>3. ASSUME phase'[k] = "gone", next'[k] = 0
      PROVE  AliveOf(k)' /\ NextOf(k)' /\ \A i \in Plugins : CallsOf(k, i)'
  <2>1. AliveOf(k)' /\ NextOf(k)'
    BY <1>1, <1>2, <1>3 DEF KernelInv, AliveOf, NextOf
  <2>2. ASSUME NEW i \in Plugins PROVE CallsOf(k, i)'
    <3>1. i \in Int /\ i >= 1 /\ CallsOf(k, i)
      BY <1>2, SupervisorAssumption DEF KernelInv, Plugins
    <3> QED BY <1>1, <1>3, <3>1 DEF CallsOf
  <2> QED BY <2>1, <2>2
<1>4. "gone" \in Phases
  BY DEF Phases
<1> QED BY <1>1, <1>3, <1>4, KernelMoves, KeptSuper, KeptOpen, KeptCalls

\* A kernel is taken out of the live ones (Supervisor.Destroy).
LEMMA DestroyIInv ==
  ASSUME IInv, NEW k \in Kernels, Destroy(k)
  PROVE  IInv'
<1>1. /\ k \in kernels /\ kernels' = kernels \ {k} /\ enter(k, "stop", PluginCount)
      /\ UNCHANGED <<quitting, open, calls>>
  BY DEF Destroy
<1>2. KernelInv(k)
  BY DEF IInv
<1>3. phase[k] = "live"
  BY <1>1, <1>2 DEF KernelInv, AliveOf
<1>4. SuperOf(k)
  BY <1>1 DEF SuperOf, IInv, Types
<1>5. ASSUME phase'[k] = "stop", next'[k] = PluginCount
      PROVE  AliveOf(k)' /\ NextOf(k)' /\ \A i \in Plugins : CallsOf(k, i)'
  <2>1. AliveOf(k)' /\ NextOf(k)'
    BY <1>1, <1>2, <1>3, <1>5, SupervisorAssumption DEF KernelInv, AliveOf, NextOf
  <2>2. ASSUME NEW i \in Plugins PROVE CallsOf(k, i)'
    <3>1. i \in Int /\ i <= PluginCount /\ CallsOf(k, i)
      BY <1>2, SupervisorAssumption DEF KernelInv, Plugins
    <3> QED BY <1>1, <1>3, <1>5, <3>1 DEF CallsOf
  <2> QED BY <2>1, <2>2
<1>6. "stop" \in Phases /\ PluginCount \in Int
  BY SupervisorAssumption DEF Phases
<1> QED BY <1>1, <1>4, <1>5, <1>6, KernelMoves, KeptOpen, KeptCalls

\* Every live kernel is taken (Supervisor.Quit).
LEMMA QuitIInv ==
  ASSUME IInv, Quit
  PROVE  IInv'
<1>1. /\ quitting' = TRUE /\ kernels' = {}
      /\ phase' = [k \in Kernels |-> IF k \in kernels THEN "stop" ELSE phase[k]]
      /\ next' = [k \in Kernels |-> IF k \in kernels THEN PluginCount ELSE next[k]]
      /\ UNCHANGED <<open, calls>>
  BY DEF Quit
<1>2. Types'
  BY <1>1, SupervisorAssumption DEF IInv, Types, Phases
<1>3. ASSUME NEW k \in Kernels PROVE KernelInv(k)'
  <2>1. KernelInv(k)
    BY DEF IInv
  <2>2. CASE k \in kernels
    <3>1. phase[k] = "live" /\ phase'[k] = "stop" /\ next'[k] = PluginCount
      BY <1>1, <2>1, <2>2 DEF KernelInv, AliveOf
    <3>2. AliveOf(k)' /\ NextOf(k)'
      BY <1>1, <2>1, <3>1, SupervisorAssumption DEF KernelInv, AliveOf, NextOf
    <3>3. ASSUME NEW i \in Plugins PROVE CallsOf(k, i)'
      <4>1. i \in Int /\ i <= PluginCount /\ CallsOf(k, i)
        BY <2>1, SupervisorAssumption DEF KernelInv, Plugins
      <4> QED BY <1>1, <3>1, <4>1 DEF CallsOf
    <3> QED BY <3>2, <3>3 DEF KernelInv
  <2>3. CASE k \notin kernels
    BY <1>1, <2>1, <2>3, KernelKept
  <2> QED BY <2>2, <2>3
<1> QED BY <1>1, <1>2, <1>3 DEF IInv

\* The steps that touch none of the variables of the invariant: publications,
\* jobs and how they are settled among them.
LEMMA AsideIInv ==
  ASSUME IInv, UNCHANGED <<kernels, quitting, life, calls>>
  PROVE  IInv'
<1>1. UNCHANGED <<phase, next, open>>
  BY DEF life
<1>2. Types'
  BY <1>1 DEF IInv, Types
<1>3. ASSUME NEW k \in Kernels PROVE KernelInv(k)'
  <2>1. KernelInv(k)
    BY DEF IInv
  <2> QED BY <2>1, <1>1, KernelKept
<1> QED BY <1>2, <1>3 DEF IInv

\* Every step keeps the invariant.
LEMMA NextIInv == IInv /\ [Next]_vars => IInv'
<1> SUFFICES ASSUME IInv, [Next]_vars PROVE IInv'
  OBVIOUS
<1>1. ASSUME NEW k \in Kernels, Spawn(k) \/ Destroy(k) PROVE IInv'
  BY <1>1, SpawnIInv, DestroyIInv
<1>2. ASSUME NEW k \in Kernels, goOn(k) PROVE IInv'
  BY <1>2, InitPluginIInv, StartWorkersIInv, StartPluginIInv, AddKernelIInv,
     StopPluginIInv, BeginDrainIInv, CheckOutstandingIInv, AwaitDrainedIInv,
     AwaitWorkersIInv, DestroyPluginIInv, GoneIInv DEF goOn
<1>3. ASSUME NEW k \in Kernels,
             \/ RunPinned(k) \/ \E w \in Workers : RunJob(k, w)
             \/ \E g \in Goroutines : settleLast(k, g)
      PROVE  IInv'
  BY <1>3, AsideIInv DEF RunPinned, RunJob, settleLast, super
<1>4. ASSUME NEW c \in Callers,
             \/ Broadcast(c) \/ PublishNext(c) \/ publish(c)
             \/ \E k \in Kernels : GetKernel(c, k)
      PROVE  IInv'
  BY <1>4, AsideIInv DEF Broadcast, GetKernel, PublishNext, publish, CheckOpen, Submit, super
<1>5. CASE Quit
  BY <1>5, QuitIInv
<1>6. CASE CloseDone \/ MainEnds
  BY <1>6, AsideIInv DEF CloseDone, MainEnds, super
<1>7. CASE UNCHANGED vars
  BY <1>7, AsideIInv DEF vars, super
<1> QED BY <1>1, <1>2, <1>3, <1>4, <1>5, <1>6, <1>7 DEF Next

\* Whatever its plugins answer and whoever spawns, destroys, publishes and
\* quits at the same time, a kernel is always where its goroutine's place says:
\* the plugins on one side of the one it is at have been through the phase.
THEOREM Invariance == Spec => []IInv
<1> QED BY InitIInv, NextIInv, PTL DEF Spec

-----------------------------------------------------------------------------
(* What follows from it *)

\* GetKernel and Broadcast reach only kernels whose plugins are all started and
\* that take work, and none once Quit was called, not even one that was being
\* spawned then.
THEOREM LiveKernels == Spec => []LiveKernelsAreUp
<1>1. ASSUME IInv PROVE LiveKernelsAreUp
  <2>1. ASSUME NEW k \in kernels PROVE k \in open /\ \A i \in Plugins : calls[k][i] = up
    <3>1. k \in Kernels /\ KernelInv(k) /\ phase[k] = "live"
      BY <1>1 DEF IInv, Types, KernelInv, AliveOf
    <3> QED BY <3>1 DEF KernelInv, AliveOf, CallsOf
  <2> QED BY <1>1, <2>1 DEF IInv, LiveKernelsAreUp
<1> QED BY <1>1, Invariance, PTL

\* A plugin comes up after the ones before it and goes down before them, and a
\* kernel that is gone has taken every plugin it touched down to the end,
\* exactly once, whichever Init or Start failed on the way.
THEOREM Nesting == Spec => []PluginsNest
<1>1. ASSUME IInv PROVE PluginsNest
  <2> SUFFICES ASSUME NEW k \in Kernels
      PROVE  /\ \A i \in Plugins : \A j \in 1..(i - 1) :
                  /\ calls[k][i] = up => calls[k][j] = up
                  /\ calls[k][i] # <<>> /\ Last(calls[k][i]) \notin {"init failed", "destroy"}
                       => calls[k][j] # <<>> /\ Last(calls[k][j]) # "destroy"
             /\ phase[k] = "gone" =>
                  \A i \in Plugins : calls[k][i] \in legalCalls \cup {<<>>}
    BY DEF PluginsNest
  <2>1. KernelInv(k) /\ phase[k] \in Phases /\ next[k] \in Int
    BY <1>1 DEF IInv, Types
  <2>2. ASSUME NEW i \in Plugins, NEW j \in 1..(i - 1)
        PROVE  j \in Plugins /\ j \in Int /\ i \in Int /\ j < i
    BY <2>2, SupervisorAssumption DEF Plugins
  <2>3. ASSUME NEW i \in Plugins, NEW j \in 1..(i - 1), calls[k][i] = up
        PROVE  calls[k][j] = up
    <3>1. /\ CallsOf(k, i) /\ CallsOf(k, j)
          /\ j \in Int /\ i \in Int /\ j < i
      BY <2>1, <2>2 DEF KernelInv
    <3>2. calls[k][i] \notin Down \cup Over /\ calls[k][i] # Inited /\ calls[k][i] # Untouched
      BY <2>3, CallsTold
    <3>3. \/ phase[k] = "start" /\ i < next[k]
          \/ phase[k] = "live"
          \/ phase[k] = "stop" /\ i <= next[k]
      BY <2>1, <3>1, <3>2 DEF CallsOf, Phases
    <3> QED BY <2>1, <3>1, <3>3 DEF CallsOf
  <2>4. ASSUME NEW i \in Plugins, NEW j \in 1..(i - 1),
               calls[k][i] # <<>>, Last(calls[k][i]) \notin {"init failed", "destroy"}
        PROVE  calls[k][j] # <<>> /\ Last(calls[k][j]) # "destroy"
    <3>1. /\ CallsOf(k, i) /\ CallsOf(k, j)
          /\ j \in Int /\ i \in Int /\ j < i
      BY <2>1, <2>2 DEF KernelInv
    <3>2. calls[k][i] \notin Over /\ calls[k][i] # Untouched
      BY <2>4, CallsTold
    <3>3. calls[k][j] \in Down \/ calls[k][j] = up \/ calls[k][j] = Inited
      BY <2>1, <3>1, <3>2 DEF CallsOf, Phases
    <3> QED BY <3>3, CallsTold, CalledAre
  <2>5. ASSUME phase[k] = "gone", NEW i \in Plugins PROVE calls[k][i] \in legalCalls \cup {<<>>}
    BY <2>1, <2>5 DEF KernelInv, CallsOf, Over, Untouched
  <2> QED BY <2>3, <2>4, <2>5
<1> QED BY <1>1, Invariance, PTL

-----------------------------------------------------------------------------
(* The inductive invariant of the drain *)

Unopened == {"absent", "refused", "init"}
PastDrain == {"join", "destroy", "gone"}

\* The handlers that c's publication into k was let through to are running.
Handling(c, k) == stage[c] = "handlers" /\ publishesInto(c, k)

\* Work is there only between StartWorkers and the end of the drain; and where
\* nothing crossed, a goroutine in last, or the token, tells that none is left.
WorkInv(k) ==
  /\ k \in open => k \notin drained
  /\ phase[k] \in Unopened => ~atWork(k)
  /\ k \notin crossed /\ (last[k] # {} \/ k \in drained \/ phase[k] \in PastDrain)
       => ~atWork(k)

WTypes ==
  /\ jobs \in [Kernels -> Nat] /\ pinned \in [Kernels -> Nat]
  /\ last \in [Kernels -> SUBSET Goroutines]
  /\ stage \in [Callers -> Stages]
  /\ reached = [c \in Callers |-> reached[c]]

WInv ==
  /\ WTypes
  /\ \A c \in Callers : reached[c] = <<>> => stage[c] = "next"
  /\ \A k \in Kernels : WorkInv(k)

\* When nothing is outstanding, no work is left.
LEMMA NothingLeft ==
  ASSUME NEW k
  PROVE  /\ nothingOutstanding(k) => ~atWork(k)
         /\ nothingOutstanding(k)' => ~atWork(k)'
<1>1. nothingOutstanding(k) => ~atWork(k)
  BY DEF nothingOutstanding, atWork
<1>2. nothingOutstanding(k)' => ~atWork(k)'
  BY DEF nothingOutstanding, atWork
<1> QED BY <1>1, <1>2

\* No work comes to a kernel that gets no job and no publication.
LEMMA NoWorkComes ==
  ASSUME NEW l, jobs'[l] = jobs[l], pinned'[l] = pinned[l],
         \A c \in Callers : Handling(c, l)' => Handling(c, l)
  PROVE  atWork(l)' => atWork(l)
BY DEF atWork, Handling

\* The jobs of a kernel are work, and so are its handlers.
LEMMA Works ==
  ASSUME NEW l
  PROVE  /\ jobs[l] > 0 \/ pinned[l] > 0 => atWork(l)
         /\ \A c \in Callers : Handling(c, l) => atWork(l)
BY DEF atWork, Handling

\* What a step does to the kernels other than k.
Others(k) ==
  \A l \in Kernels \ {k} :
    /\ phase'[l] = phase[l] /\ last'[l] = last[l]
    /\ l \in open' <=> l \in open
    /\ l \in drained' <=> l \in drained
    /\ l \in crossed' <=> l \in crossed
    /\ atWork(l)' => atWork(l)

Started == \A c \in Callers : reached[c] = <<>> => stage[c] = "next"

\* A step that changes the work of k alone.
LEMMA OneWInv ==
  ASSUME WInv, NEW k, Others(k), WTypes', Started', k \in Kernels => WorkInv(k)'
  PROVE  WInv'
<1>1. ASSUME NEW l \in Kernels \ {k} PROVE WorkInv(l)'
  <2>1. WorkInv(l)
    BY DEF WInv
  <2>2. /\ phase'[l] = phase[l] /\ last'[l] = last[l]
        /\ l \in open' <=> l \in open
        /\ l \in drained' <=> l \in drained
        /\ l \in crossed' <=> l \in crossed
        /\ atWork(l)' => atWork(l)
    BY DEF Others
  <2> QED BY <2>1, <2>2 DEF WorkInv
<1> QED BY <1>1 DEF WInv, Started

\* What is left alone when publications are.
LEMMA PublishingKept ==
  ASSUME WInv, UNCHANGED publishing
  PROVE  /\ Started' /\ stage' \in [Callers -> Stages]
         /\ reached' = [c \in Callers |-> reached'[c]]
         /\ \A c \in Callers : \A l : Handling(c, l)' => Handling(c, l)
<1>1. reached' = reached /\ stage' = stage
  BY DEF publishing
<1>2. reached = [c \in Callers |-> reached[c]] /\ stage \in [Callers -> Stages]
  BY DEF WInv, WTypes
<1>3. Started'
  BY <1>1 DEF WInv, Started
<1>4. \A c \in Callers : \A l : Handling(c, l)' => Handling(c, l)
  BY <1>1 DEF Handling, publishesInto
<1>5. reached' = [c \in Callers |-> reached'[c]]
  BY ONLY <1>1, <1>2
<1> QED BY <1>1, <1>2, <1>3, <1>4, <1>5

\* A step that leaves publications, jobs and what is settled alone.
LEMMA LifeWInv ==
  ASSUME WInv, UNCHANGED <<work, settling, publishing, open>>,
         \A k \in Kernels :
           /\ phase'[k] \in Unopened => phase[k] \in Unopened
           /\ phase'[k] \in PastDrain =>
                phase[k] \in Unopened \cup PastDrain \/ ~atWork(k)
  PROVE  WInv'
<1>1. UNCHANGED <<jobs, pinned, last, drained, crossed>>
  BY DEF work, settling
<1>2. WTypes' /\ Started'
  BY <1>1, PublishingKept DEF WInv, WTypes
<1>3. ASSUME NEW k \in Kernels PROVE WorkInv(k)'
  <2>1. WorkInv(k)
    BY DEF WInv
  <2>2. atWork(k)' => atWork(k)
    BY <1>1, PublishingKept, NoWorkComes
  <2> QED BY <1>1, <2>1, <2>2 DEF WorkInv
<1> QED BY <1>2, <1>3 DEF WInv, Started

\* The goroutine of k moves, and no work is touched.
LEMMA MoveWInv ==
  ASSUME IInv, WInv, NEW k \in Kernels, NEW p, NEW n, enter(k, p, n),
         UNCHANGED <<work, settling, publishing, open>>,
         p \in Unopened => phase[k] \in Unopened,
         p \in PastDrain => phase[k] \in Unopened \cup PastDrain \/ ~atWork(k)
  PROVE  WInv'
<1>1. phase' = [phase EXCEPT ![k] = p] /\ phase \in [Kernels -> Phases]
  BY DEF enter, IInv, Types
<1>2. phase'[k] = p /\ \A l \in Kernels \ {k} : phase'[l] = phase[l]
  BY <1>1
<1> QED BY <1>2, LifeWInv

\* The steps of a kernel's goroutine that change no work.
LEMMA LifecycleWInv ==
  ASSUME IInv, WInv, NEW k \in Kernels,
         \/ Spawn(k) \/ InitPlugin(k) \/ AddKernel(k) \/ CheckOutstanding(k)
         \/ AwaitWorkers(k) \/ DestroyPlugin(k) \/ Gone(k) \/ Destroy(k)
  PROVE  WInv'
<1>1. UNCHANGED <<work, settling, publishing, open>>
  BY DEF Spawn, InitPlugin, AddKernel, CheckOutstanding, AwaitWorkers, DestroyPlugin, Gone,
     Destroy
<1>2. CASE Spawn(k)
  <2>1. phase[k] = "absent" /\ (enter(k, "refused", 0) \/ enter(k, "init", 1))
    BY <1>2 DEF Spawn
  <2> QED BY <1>1, <2>1, MoveWInv DEF Unopened, PastDrain
<1>3. CASE InitPlugin(k)
  <2>1. /\ phase[k] = "init"
        /\ enter(k, "init", next[k] + 1) \/ enter(k, "destroy", next[k] - 1)
    BY <1>3 DEF InitPlugin
  <2> QED BY <1>1, <2>1, MoveWInv DEF Unopened, PastDrain
<1>4. CASE AddKernel(k)
  <2>1. enter(k, "live", 0) \/ enter(k, "stop", PluginCount)
    BY <1>4 DEF AddKernel
  <2> QED BY <1>1, <2>1, MoveWInv DEF Unopened, PastDrain
<1>5. CASE CheckOutstanding(k)
  <2>1. enter(k, "await", 0) \/ (enter(k, "join", 0) /\ ~atWork(k))
    BY <1>5, NothingLeft DEF CheckOutstanding
  <2> QED BY <1>1, <2>1, MoveWInv DEF Unopened, PastDrain
<1>6. CASE AwaitWorkers(k)
  <2>1. phase[k] = "join" /\ enter(k, "destroy", PluginCount)
    BY <1>6 DEF AwaitWorkers
  <2> QED BY <1>1, <2>1, MoveWInv DEF Unopened, PastDrain
<1>7. CASE DestroyPlugin(k)
  <2>1. phase[k] = "destroy" /\ enter(k, "destroy", next[k] - 1)
    BY <1>7 DEF DestroyPlugin
  <2> QED BY <1>1, <2>1, MoveWInv DEF Unopened, PastDrain
<1>8. CASE Gone(k)
  <2>1. phase[k] = "destroy" /\ enter(k, "gone", 0)
    BY <1>8 DEF Gone
  <2> QED BY <1>1, <2>1, MoveWInv DEF Unopened, PastDrain
<1>9. CASE Destroy(k)
  <2>1. enter(k, "stop", PluginCount)
    BY <1>9 DEF Destroy
  <2> QED BY <1>1, <2>1, MoveWInv DEF Unopened, PastDrain
<1> QED BY <1>2, <1>3, <1>4, <1>5, <1>6, <1>7, <1>8, <1>9

\* What enter leaves alone, for the steps below.
LEMMA Entered ==
  ASSUME IInv, NEW k \in Kernels, NEW p, NEW n, enter(k, p, n)
  PROVE  phase'[k] = p /\ \A l \in Kernels \ {k} : phase'[l] = phase[l]
<1>1. phase' = [phase EXCEPT ![k] = p] /\ phase \in [Kernels -> Phases]
  BY DEF enter, IInv, Types
<1> QED BY <1>1

\* The workers start, with a channel that holds no token; drain stores closed,
\* and takes the token.
LEMMA OpenedWInv ==
  ASSUME IInv, WInv, NEW k \in Kernels,
         StartWorkers(k) \/ BeginDrain(k) \/ AwaitDrained(k)
  PROVE  WInv'
<1>1. UNCHANGED <<jobs, pinned, last, crossed, publishing>>
  BY DEF StartWorkers, BeginDrain, AwaitDrained, work, settling
<1>2. WTypes' /\ Started'
  BY <1>1, PublishingKept DEF WInv, WTypes
<1>3. WorkInv(k) /\ AliveOf(k)
  BY DEF WInv, IInv, KernelInv
<1>4. \A l : atWork(l)' => atWork(l)
  BY <1>1, PublishingKept, NoWorkComes
<1>5. CASE StartWorkers(k)
  <2>1. /\ phase[k] = "init" /\ enter(k, "start", 1)
        /\ open' = open \cup {k} /\ drained' = drained \ {k}
    BY <1>5 DEF StartWorkers
  <2>2. Others(k)
    BY <1>1, <1>4, <2>1, Entered DEF Others
  <2>3. phase'[k] = "start"
    BY <2>1, Entered
  <2>4. ~atWork(k)
    BY <1>3, <2>1 DEF WorkInv, Unopened
  <2>5. WorkInv(k)'
    BY <1>4, <2>1, <2>4 DEF WorkInv
  <2> QED BY <1>2, <2>2, <2>5, OneWInv
<1>6. CASE BeginDrain(k)
  <2>1. /\ phase[k] = "stop" /\ enter(k, "drain", 0)
        /\ open' = open \ {k} /\ drained' = drained
    BY <1>6 DEF BeginDrain, settling
  <2>2. Others(k)
    BY <1>1, <1>4, <2>1, Entered DEF Others
  <2>3. phase'[k] = "drain"
    BY <2>1, Entered
  <2>4. WorkInv(k)'
    BY <1>1, <1>3, <1>4, <2>1, <2>3 DEF WorkInv, Unopened, PastDrain
  <2> QED BY <1>2, <2>2, <2>4, OneWInv
<1>7. CASE AwaitDrained(k)
  <2>1. /\ k \in drained /\ enter(k, "join", 0)
        /\ open' = open /\ drained' = drained \ {k}
    BY <1>7 DEF AwaitDrained
  <2>2. Others(k)
    BY <1>1, <1>4, <2>1, Entered DEF Others
  <2>3. phase'[k] = "join"
    BY <2>1, Entered
  <2>4. WorkInv(k)'
    BY <1>1, <1>3, <1>4, <2>1, <2>3 DEF WorkInv, Unopened, PastDrain
  <2> QED BY <1>2, <2>2, <2>4, OneWInv
<1> QED BY <1>5, <1>6, <1>7

\* One job more for k.
LEMMA JobAdded ==
  ASSUME WInv, NEW k, addJob(k)
  PROVE  /\ jobs' \in [Kernels -> Nat] /\ pinned' \in [Kernels -> Nat]
         /\ \A l \in Kernels \ {k} : jobs'[l] = jobs[l] /\ pinned'[l] = pinned[l]
<1>1. jobs \in [Kernels -> Nat] /\ pinned \in [Kernels -> Nat]
  BY DEF WInv, WTypes
<1>2. CASE jobs' = [jobs EXCEPT ![k] = @ + 1] /\ UNCHANGED pinned
  <2>1. jobs' = [l \in Kernels |-> IF l = k THEN jobs[l] + 1 ELSE jobs[l]]
    BY <1>1, <1>2
  <2>2. ASSUME NEW l \in Kernels
        PROVE  jobs'[l] \in Nat /\ (l # k => jobs'[l] = jobs[l])
    BY <1>1, <2>1
  <2>3. jobs' \in [Kernels -> Nat]
    BY <2>1, <2>2
  <2> QED BY <1>1, <1>2, <2>2, <2>3
<1>3. CASE pinned' = [pinned EXCEPT ![k] = @ + 1] /\ UNCHANGED jobs
  <2>1. pinned' = [l \in Kernels |-> IF l = k THEN pinned[l] + 1 ELSE pinned[l]]
    BY <1>1, <1>3
  <2>2. ASSUME NEW l \in Kernels
        PROVE  pinned'[l] \in Nat /\ (l # k => pinned'[l] = pinned[l])
    BY <1>1, <2>1
  <2>3. pinned' \in [Kernels -> Nat]
    BY <2>1, <2>2
  <2> QED BY <1>1, <1>3, <2>2, <2>3
<1> QED BY <1>2, <1>3 DEF addJob

\* A plugin is started or stopped, and may publish.
LEMMA PluginWInv ==
  ASSUME IInv, WInv, NEW k \in Kernels, StartPlugin(k) \/ StopPlugin(k)
  PROVE  WInv'
<1>1. /\ Publish(k) /\ UNCHANGED <<open, last, drained, publishing>>
      /\ phase[k] \in {"start", "stop"}
  BY DEF StartPlugin, StopPlugin
<1>2. \E p \in {"start", "stop"} : \E n : enter(k, p, n)
  BY DEF StartPlugin, StopPlugin
<1>3. /\ phase'[k] \in {"start", "stop"}
      /\ \A l \in Kernels \ {k} : phase'[l] = phase[l]
  BY <1>2, Entered
<1>4. WorkInv(k) /\ AliveOf(k)
  BY DEF WInv, IInv, KernelInv
<1>5. k \in open /\ k \notin drained
  BY <1>1, <1>4 DEF WorkInv, AliveOf
<1>6. CASE UNCHANGED <<work, crossed>>
  <2>1. UNCHANGED <<work, settling, publishing, open>>
    BY <1>1, <1>6 DEF settling
  <2> QED BY <1>2, <2>1, MoveWInv DEF Unopened, PastDrain
<1>7. CASE addJob(k) /\ crosses(k)
  <2>1. WTypes' /\ Started'
    BY <1>1, <1>7, JobAdded, PublishingKept DEF WInv, WTypes
  <2>2. crossed' = IF last[k] = {} THEN crossed ELSE crossed \cup {k}
    BY <1>7 DEF crosses
  <2>3. ASSUME NEW l \in Kernels \ {k} PROVE atWork(l)' => atWork(l)
    BY <1>1, <1>7, JobAdded, PublishingKept, NoWorkComes
  <2>4. Others(k)
    BY <1>1, <1>3, <2>2, <2>3 DEF Others
  <2>5. WorkInv(k)'
    BY <1>1, <1>3, <1>5, <2>2 DEF WorkInv, Unopened, PastDrain
  <2> QED BY <2>1, <2>4, <2>5, OneWInv
<1> QED BY <1>1, <1>6, <1>7 DEF Publish

\* Who settles the last one goes to last, and then no work is left.
LEMMA Settled ==
  ASSUME WInv, NEW k, NEW g \in Goroutines, settle(k, g)
  PROVE  /\ last' \in [Kernels -> SUBSET Goroutines]
         /\ \A l \in Kernels \ {k} : last'[l] = last[l]
         /\ k \in Kernels => last'[k] = last[k] \/ ~atWork(k)'
<1> DEFINE q == nothingOutstanding(k)'
<1>1. last \in [Kernels -> SUBSET Goroutines]
  BY DEF WInv, WTypes
<1>2. last' = [last EXCEPT ![k] = IF q THEN @ \cup {g} ELSE @]
  BY DEF settle
<1>3. q => ~atWork(k)'
  BY NothingLeft
<1> HIDE DEF q
<1>4. CASE q
  BY <1>1, <1>2, <1>3, <1>4
<1>5. CASE ~q
  BY <1>1, <1>2, <1>5
<1> QED BY <1>4, <1>5

\* A job finishes.
LEMMA RunWInv ==
  ASSUME IInv, WInv, NEW k \in Kernels, NEW g \in Goroutines,
         RunJob(k, g) \/ (RunPinned(k) /\ g = Main)
  PROVE  WInv'
<1>1. UNCHANGED <<open, phase, drained, crossed, publishing>> /\ settle(k, g)
  BY DEF RunJob, RunPinned, life
<1>2. /\ jobs' \in [Kernels -> Nat] /\ pinned' \in [Kernels -> Nat]
      /\ \A l \in Kernels \ {k} : jobs'[l] = jobs[l] /\ pinned'[l] = pinned[l]
  <2>1. jobs \in [Kernels -> Nat] /\ pinned \in [Kernels -> Nat]
    BY DEF WInv, WTypes
  <2>2. CASE RunJob(k, g)
    BY <2>1, <2>2 DEF RunJob
  <2>3. CASE RunPinned(k)
    BY <2>1, <2>3 DEF RunPinned
  <2> QED BY <2>2, <2>3
<1>3. atWork(k)
  BY Works DEF RunJob, RunPinned
<1>4. WTypes' /\ Started'
  BY <1>1, <1>2, Settled, PublishingKept DEF WInv, WTypes
<1>5. ASSUME NEW l \in Kernels \ {k} PROVE atWork(l)' => atWork(l)
  BY <1>1, <1>2, PublishingKept, NoWorkComes
<1>6. Others(k)
  BY <1>1, <1>5, Settled DEF Others
<1>7. WorkInv(k)
  BY DEF WInv
<1>8. last'[k] = last[k] \/ ~atWork(k)'
  BY <1>1, Settled
<1>9. WorkInv(k)'
  BY <1>1, <1>3, <1>7, <1>8 DEF WorkInv
<1> QED BY <1>4, <1>6, <1>9, OneWInv

\* The goroutine that settled the last one looks whether the kernel is closed.
LEMMA SettleLastWInv ==
  ASSUME IInv, WInv, NEW k \in Kernels, NEW g \in Goroutines, settleLast(k, g)
  PROVE  WInv'
<1>1. /\ UNCHANGED <<open, phase, jobs, pinned, publishing>>
      /\ g \in last[k] /\ last' = [last EXCEPT ![k] = @ \ {g}]
  BY DEF settleLast, life, work
<1>2. last \in [Kernels -> SUBSET Goroutines] /\ WorkInv(k) /\ AliveOf(k)
  BY DEF WInv, WTypes, IInv, KernelInv
<1>3. /\ last' \in [Kernels -> SUBSET Goroutines] /\ last'[k] = last[k] \ {g}
      /\ \A l \in Kernels \ {k} : last'[l] = last[l]
  BY <1>1, <1>2
<1>4. WTypes' /\ Started'
  BY <1>1, <1>3, PublishingKept DEF WInv, WTypes
<1>5. \A l : atWork(l)' => atWork(l)
  BY <1>1, PublishingKept, NoWorkComes
<1>6. CASE /\ k \in open /\ UNCHANGED drained
           /\ crossed' = IF last[k] = {g} THEN crossed \ {k} ELSE crossed
  <2>1. Others(k)
    BY <1>1, <1>3, <1>5, <1>6 DEF Others
  <2>2. k \notin drained /\ phase[k] \notin Unopened /\ phase[k] \notin PastDrain
    BY <1>2, <1>6 DEF WorkInv, AliveOf, Unopened, PastDrain
  <2>3. k \notin crossed' /\ last'[k] # {} => ~atWork(k)
    <3>1. CASE last[k] = {g}
      BY <1>3, <3>1
    <3>2. CASE last[k] # {g}
      BY <1>1, <1>2, <1>6, <3>2 DEF WorkInv
    <3> QED BY <3>1, <3>2
  <2>4. WorkInv(k)'
    BY <1>1, <1>5, <1>6, <2>2, <2>3 DEF WorkInv
  <2> QED BY <1>4, <2>1, <2>4, OneWInv
<1>7. CASE k \notin open /\ drained' = drained \cup {k} /\ UNCHANGED crossed
  <2>1. Others(k)
    BY <1>1, <1>3, <1>5, <1>7 DEF Others
  <2>2. k \notin crossed => ~atWork(k)
    BY <1>1, <1>2 DEF WorkInv
  <2>3. WorkInv(k)'
    BY <1>1, <1>2, <1>5, <1>7, <2>2 DEF WorkInv
  <2> QED BY <1>4, <2>1, <2>3, OneWInv
<1> QED BY <1>6, <1>7 DEF settleLast

\* A caller's own entries, in the functions of what callers reach and of how far
\* they are.
LEMMA ReachedSet ==
  ASSUME reached = [c \in Callers |-> reached[c]], NEW d \in Callers, NEW v,
         reached' = [reached EXCEPT ![d] = v]
  PROVE  /\ reached' = [c \in Callers |-> reached'[c]]
         /\ reached'[d] = v /\ \A c \in Callers \ {d} : reached'[c] = reached[c]
<1>1. reached' = [c \in Callers |-> IF c = d THEN v ELSE reached[c]]
  BY ONLY reached = [c \in Callers |-> reached[c]], reached' = [reached EXCEPT ![d] = v],
          d \in Callers
<1> QED BY ONLY <1>1, d \in Callers

\* What setting the stage of one caller leaves of the others.
LEMMA StageSet ==
  ASSUME stage \in [Callers -> Stages], NEW d \in Callers, NEW v \in Stages,
         stage' = [stage EXCEPT ![d] = v]
  PROVE  /\ stage' \in [Callers -> Stages]
         /\ stage'[d] = v /\ \A c \in Callers \ {d} : stage'[c] = stage[c]
OBVIOUS

\* What a step of caller d leaves alone: the handlers of the other callers.
LEMMA OtherHandlers ==
  ASSUME NEW d \in Callers, NEW l,
         \A c \in Callers \ {d} : stage'[c] = stage[c] /\ reached'[c] = reached[c],
         Handling(d, l)' => Handling(d, l)
  PROVE  \A c \in Callers : Handling(c, l)' => Handling(c, l)
BY DEF Handling, publishesInto

\* A caller gets a kernel, or all of them, and publishes into the next one.
LEMMA ReachWInv ==
  ASSUME IInv, WInv, NEW c \in Callers,
         Broadcast(c) \/ PublishNext(c) \/ \E k \in Kernels : GetKernel(c, k)
  PROVE  WInv'
<1>1. /\ UNCHANGED <<open, phase, jobs, pinned, last, drained, crossed>>
      /\ stage[c] = "next" /\ stage'[c] \in {"next", "counted"}
      /\ stage'[c] = "counted" => reached[c] # <<>> /\ UNCHANGED reached
      /\ stage' \in [Callers -> Stages] /\ reached' = [d \in Callers |-> reached'[d]]
      /\ \A d \in Callers \ {c} : stage'[d] = stage[d] /\ reached'[d] = reached[d]
  <2>1. reached = [d \in Callers |-> reached[d]] /\ stage \in [Callers -> Stages]
    BY DEF WInv, WTypes
  <2>2. CASE PublishNext(c)
    <3>1. /\ stage[c] = "next" /\ reached[c] # <<>> /\ UNCHANGED reached
          /\ stage' = [stage EXCEPT ![c] = "counted"]
          /\ UNCHANGED <<open, phase, jobs, pinned, last, drained, crossed>>
      BY <2>2 DEF PublishNext, life, work, settling
    <3>2. "counted" \in Stages
      BY DEF Stages
    <3>3. /\ stage' \in [Callers -> Stages] /\ stage'[c] = "counted"
          /\ \A d \in Callers \ {c} : stage'[d] = stage[d]
      BY ONLY <2>1, <3>1, <3>2, StageSet, c \in Callers
    <3>4. reached' = [d \in Callers |-> reached'[d]]
      BY ONLY <2>1, <3>1
    <3> QED BY <3>1, <3>3, <3>4
  <2>3. CASE Broadcast(c) \/ \E k \in Kernels : GetKernel(c, k)
    <3>1. /\ reached[c] = <<>> /\ UNCHANGED stage
          /\ \E v : reached' = [reached EXCEPT ![c] = v]
          /\ UNCHANGED <<open, phase, jobs, pinned, last, drained, crossed>>
      BY <2>3 DEF Broadcast, GetKernel, life, work, settling
    <3>2. /\ reached' = [d \in Callers |-> reached'[d]]
          /\ \A d \in Callers \ {c} : reached'[d] = reached[d]
      BY ONLY <2>1, <3>1, ReachedSet, c \in Callers
    <3>3. stage[c] = "next"
      BY <3>1 DEF WInv
    <3> QED BY <2>1, <3>1, <3>2, <3>3
  <2> QED BY <2>2, <2>3
<1>2. WTypes'
  BY <1>1 DEF WInv, WTypes
<1>3. Started'
  BY <1>1 DEF WInv, Started
<1>4. ASSUME NEW l PROVE atWork(l)' => atWork(l)
  <2>1. ~Handling(c, l)'
    BY <1>1 DEF Handling
  <2> QED BY <1>1, <2>1, OtherHandlers, NoWorkComes
<1>5. ASSUME NEW k \in Kernels PROVE WorkInv(k)'
  <2>1. WorkInv(k)
    BY DEF WInv
  <2> QED BY <1>1, <1>4, <2>1 DEF WorkInv
<1> QED BY <1>2, <1>3, <1>5 DEF WInv, Started

\* The kernel is checked: handlers run, unless it is closed.
LEMMA LetThroughWInv ==
  ASSUME IInv, WInv, NEW c \in Callers, CheckOpen(c), Head(reached[c]) \in open
  PROVE  WInv'
<1>0. PICK h : h = Head(reached[c])
  OBVIOUS
<1>1. /\ stage[c] = "counted" /\ stage' = [stage EXCEPT ![c] = "handlers"]
      /\ UNCHANGED <<open, phase, jobs, pinned, last, drained, reached>>
      /\ crossed' = IF last[h] = {} THEN crossed ELSE crossed \cup {h}
  BY <1>0 DEF CheckOpen, crosses, life, work
<1>2. reached = [d \in Callers |-> reached[d]] /\ stage \in [Callers -> Stages]
  BY DEF WInv, WTypes
<1>3. "handlers" \in Stages
  BY DEF Stages
<1>4. /\ stage' \in [Callers -> Stages] /\ stage'[c] = "handlers"
      /\ \A d \in Callers \ {c} : stage'[d] = stage[d]
  BY ONLY <1>1, <1>2, <1>3, StageSet, c \in Callers
<1>5. reached' = [d \in Callers |-> reached'[d]]
  BY ONLY <1>1, <1>2
<1>6. WTypes'
  BY <1>1, <1>4, <1>5 DEF WInv, WTypes
<1>7. Started'
  BY <1>1, <1>4 DEF WInv, Started
<1>8. h \in Kernels /\ WorkInv(h) /\ AliveOf(h)
  BY <1>0 DEF IInv, Types, WInv, KernelInv
<1>9. ASSUME NEW l \in Kernels \ {h} PROVE atWork(l)' => atWork(l)
  <2>1. ~Handling(c, l)'
    BY <1>0, <1>1, <1>9 DEF Handling, publishesInto
  <2> QED BY <1>1, <1>4, <2>1, OtherHandlers, NoWorkComes
<1>10. Others(h)
  BY <1>1, <1>9 DEF Others
<1>11. h \notin drained /\ phase[h] \notin Unopened /\ phase[h] \notin PastDrain
  BY <1>0, <1>8 DEF WorkInv, AliveOf, Unopened, PastDrain
<1>12. WorkInv(h)'
  BY <1>1, <1>11 DEF WorkInv
<1> QED BY <1>6, <1>7, <1>10, <1>12, OneWInv

\* The publication is settled: refused, or over with its jobs counted.
LEMMA PublishedWInv ==
  ASSUME IInv, WInv, NEW c \in Callers, NEW h, h = Head(reached[c]), reached[c] # <<>>,
         settlePublication(c), UNCHANGED <<open, phase, drained, crossed>>,
         jobs' \in [Kernels -> Nat], pinned' \in [Kernels -> Nat],
         \A l \in Kernels \ {h} : jobs'[l] = jobs[l] /\ pinned'[l] = pinned[l],
         UNCHANGED work \/ Handling(c, h)
  PROVE  WInv'
<1>1. /\ stage' = [stage EXCEPT ![c] = "next"] /\ settle(h, c)
      /\ reached' = [reached EXCEPT ![c] = Tail(reached[c])]
  BY DEF settlePublication
<1>2. reached = [d \in Callers |-> reached[d]] /\ stage \in [Callers -> Stages]
  BY DEF WInv, WTypes
<1>3. "next" \in Stages /\ c \in Goroutines
  BY DEF Stages, Goroutines
<1>4. /\ stage' \in [Callers -> Stages] /\ stage'[c] = "next"
      /\ \A d \in Callers \ {c} : stage'[d] = stage[d]
  BY ONLY <1>1, <1>2, <1>3, StageSet, c \in Callers
<1>5. /\ reached' = [d \in Callers |-> reached'[d]]
      /\ \A d \in Callers \ {c} : reached'[d] = reached[d]
  BY ONLY <1>1, <1>2, ReachedSet, c \in Callers
<1>6. /\ last' \in [Kernels -> SUBSET Goroutines]
      /\ \A l \in Kernels \ {h} : last'[l] = last[l]
      /\ h \in Kernels => last'[h] = last[h] \/ ~atWork(h)'
  BY <1>1, <1>3, Settled
<1>7. WTypes'
  BY <1>4, <1>5, <1>6 DEF WTypes
<1>8. Started'
  BY <1>4, <1>5 DEF WInv, Started
<1>9. ASSUME NEW l PROVE \A d \in Callers : Handling(d, l)' => Handling(d, l)
  <2>1. ~Handling(c, l)'
    BY <1>4 DEF Handling
  <2> QED BY <1>4, <1>5, <2>1, OtherHandlers
<1>10. ASSUME NEW l \in Kernels \ {h} PROVE atWork(l)' => atWork(l)
  BY <1>9, <1>10, NoWorkComes
<1>11. Others(h)
  BY <1>6, <1>10 DEF Others
<1>12. ASSUME h \in Kernels PROVE WorkInv(h)'
  <2>1. WorkInv(h)
    BY <1>12 DEF WInv
  <2>2. atWork(h)' => atWork(h)
    <3>1. CASE UNCHANGED work
      BY <1>9, <3>1, NoWorkComes DEF work
    <3>2. CASE Handling(c, h)
      BY <3>2, Works
    <3> QED BY <3>1, <3>2
  <2> QED BY <1>6, <1>12, <2>1, <2>2 DEF WorkInv
<1> QED BY <1>7, <1>8, <1>11, <1>12, OneWInv

\* The rest of a publication.
LEMMA PublishWInv ==
  ASSUME IInv, WInv, NEW c \in Callers, publish(c)
  PROVE  WInv'
<1> DEFINE h == Head(reached[c])
<1>1. stage[c] # "next"
  BY DEF publish, CheckOpen, Submit
<1>2. reached[c] # <<>>
  BY <1>1 DEF WInv
<1>3. jobs \in [Kernels -> Nat] /\ pinned \in [Kernels -> Nat]
  BY DEF WInv, WTypes
<1>4. CASE CheckOpen(c) /\ h \in open
  BY <1>4, LetThroughWInv
<1>5. CASE CheckOpen(c) /\ h \notin open
  <2>1. UNCHANGED <<open, phase, drained, crossed, work>> /\ settlePublication(c)
    BY <1>5 DEF CheckOpen, life
  <2>2. UNCHANGED <<jobs, pinned>>
    BY <2>1 DEF work
  <2> QED BY <1>2, <1>3, <2>1, <2>2, PublishedWInv
<1>6. CASE Submit(c)
  <2>1. /\ stage[c] = "handlers" /\ settlePublication(c)
        /\ UNCHANGED <<open, phase, drained, crossed>>
        /\ UNCHANGED work \/ addJob(h)
    BY <1>6 DEF Submit, life, settling
  <2>2. Handling(c, h)
    BY <1>2, <2>1 DEF Handling, publishesInto
  <2>3. /\ jobs' \in [Kernels -> Nat] /\ pinned' \in [Kernels -> Nat]
        /\ \A l \in Kernels \ {h} : jobs'[l] = jobs[l] /\ pinned'[l] = pinned[l]
    <3>1. CASE UNCHANGED work
      BY <1>3, <3>1 DEF work
    <3>2. CASE addJob(h)
      BY <3>2, JobAdded
    <3> QED BY <2>1, <3>1, <3>2
  <2> HIDE DEF h
  <2>4. h = Head(reached[c])
    BY DEF h
  <2> QED BY <1>2, <2>1, <2>2, <2>3, <2>4, PublishedWInv
<1> QED BY <1>4, <1>5, <1>6 DEF publish

\* There is no work at first.
LEMMA InitWInv == Init => WInv
<1> SUFFICES ASSUME Init PROVE WInv
  OBVIOUS
<1>1. /\ jobs = [k \in Kernels |-> 0] /\ pinned = [k \in Kernels |-> 0]
      /\ last = [k \in Kernels |-> {}] /\ stage = [c \in Callers |-> "next"]
      /\ reached = [c \in Callers |-> <<>>] /\ open = {}
  BY DEF Init
<1>2. WTypes
  <2>1. reached = [c \in Callers |-> reached[c]]
    BY ONLY <1>1
  <2> QED BY <1>1, <2>1 DEF WTypes, Stages
<1>3. ASSUME NEW k \in Kernels PROVE ~atWork(k)
  BY <1>1 DEF atWork
<1> QED BY <1>1, <1>2, <1>3 DEF WInv, WorkInv

\* Every step keeps the invariant.
LEMMA NextWInv == IInv /\ WInv /\ [Next]_vars => WInv'
<1> SUFFICES ASSUME IInv, WInv, [Next]_vars PROVE WInv'
  OBVIOUS
<1>1. ASSUME NEW k \in Kernels, Spawn(k) \/ goOn(k) \/ Destroy(k) PROVE WInv'
  BY <1>1, LifecycleWInv, OpenedWInv, PluginWInv DEF goOn
<1>2. ASSUME NEW k \in Kernels, RunPinned(k) \/ \E w \in Workers : RunJob(k, w) PROVE WInv'
  BY <1>2, RunWInv DEF Goroutines
<1>3. ASSUME NEW k \in Kernels, NEW g \in Goroutines, settleLast(k, g) PROVE WInv'
  BY <1>3, SettleLastWInv
<1>4. ASSUME NEW c \in Callers,
             \/ Broadcast(c) \/ PublishNext(c) \/ publish(c)
             \/ \E k \in Kernels : GetKernel(c, k)
      PROVE  WInv'
  BY <1>4, ReachWInv, PublishWInv
<1>5. CASE Quit
  <2>1. /\ UNCHANGED <<work, settling, publishing, open>>
        /\ phase' = [k \in Kernels |-> IF k \in kernels THEN "stop" ELSE phase[k]]
    BY <1>5 DEF Quit
  <2>2. ASSUME NEW k \in Kernels
        PROVE  /\ phase'[k] \in Unopened => phase[k] \in Unopened
               /\ phase'[k] \in PastDrain => phase[k] \in PastDrain
    BY <2>1 DEF Unopened, PastDrain
  <2> QED BY <2>1, <2>2, LifeWInv
<1>6. CASE CloseDone \/ MainEnds \/ UNCHANGED vars
  <2>1. UNCHANGED <<work, settling, publishing, open, phase>>
    BY <1>6 DEF CloseDone, MainEnds, vars, life
  <2> QED BY <2>1, LifeWInv
<1> QED BY <1>1, <1>2, <1>3, <1>4, <1>5, <1>6 DEF Next

\* A plugin's Destroy runs once every job of its kernel has finished: from the
\* end of the drain on no job, pinned or not, and no handler that was let through
\* is left, and none is there before the workers start. The one exception is a
\* kernel that closed while a goroutine that had settled the last outstanding
\* one had still not looked, and work had been let through past it.
THEOREM JobsBetween == Spec => []NoJobAfterPlugins
<1>1. Spec => []WInv
  BY InitWInv, NextWInv, Invariance, PTL DEF Spec
<1>2. ASSUME WInv PROVE NoJobAfterPlugins
  BY <1>2 DEF WInv, WorkInv, NoJobAfterPlugins, Unopened, PastDrain
<1> QED BY <1>1, <1>2, PTL

=============================================================================
