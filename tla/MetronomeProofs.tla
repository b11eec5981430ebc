--------------------------- MODULE MetronomeProofs ---------------------------
(***************************************************************************)
(* What holds of the tracks of a metronome for every number of tracks,     *)
(* every setting NewTrack lets through and every way the clock is moved:   *)
(* their time adds up, what a beat reads of its reference is one           *)
(* published tick, and the ring of signals tells which beat has finished.  *)
(***************************************************************************)
EXTENDS Metronome, SequenceTheorems, WellFoundedInduction, TLAPS

-----------------------------------------------------------------------------
(* Types *)

\* Where the goroutine of a track may be.
Publishing == {"lock", "loadVersion", "loadTick", "loadDeadline", "loadCheck", "stamp"}
Storing == {"storing", "storeTick", "storeDeadline", "stored"}
Places == {"new", "select", "publish", "notify", "reset", "stopTimer", "end", "ended"}
          \cup Publishing \cup Storing

TrackStates ==
  [pc : Places, deadlineReached : BOOLEAN, running : BOOLEAN,
   tick : Nat, stepCount : Nat, lastBeat : Nat, nextDeadline : Nat,
   signals : Seq(Nat), oldestSignal : Nat, inFlightCount : Nat, signal : Nat,
   version : Nat, loaded : Nat, deadline : Nat, since : Nat]
Timers == [deadline : Nat, armed : BOOLEAN, fired : BOOLEAN, token : BOOLEAN]
Publications == [version : Nat, tick : Nat, deadline : Nat]
Beats == [signal : Nat, armed : BOOLEAN, done : BOOLEAN]

\* The types of what the clock and the tracks keep.
Types ==
  /\ settings \in Configs /\ now \in Nat /\ moves \in Nat
  /\ timer \in [Tracks -> Timers]
  /\ track \in [Tracks -> TrackStates]
  /\ published \in [Tracks -> Publications]
  /\ out \in [Tracks -> Nat]
  /\ driver \in [at : {"idle", "moved", "check", "parked", "move"},
                 op : {"Wait", "Advance"}, target : Nat, last : BOOLEAN, waited : BOOLEAN]

\* The ring of signals a track with state r has: as many as places, all
\* distinct, one for each beat in flight from the oldest on.
Ring(r) ==
  LET n == Len(r.signals) IN
  /\ n > 0 /\ r.oldestSignal < n /\ r.inFlightCount <= n
  /\ \A i \in 1..n : r.signals[i] \in 1..n
  /\ \A i, j \in 1..n : r.signals[i] = r.signals[j] => i = j

\* Types, the rings as they are made and grown, and that only a track with a
\* reference reads one.
TypeInv ==
  /\ Types
  /\ \A t \in Tracks :
       /\ Ring(track[t])
       /\ reference(t) = NoTrack =>
            track[t].pc \notin {"loadVersion", "loadTick", "loadDeadline", "loadCheck"}

-----------------------------------------------------------------------------
(* The invariants *)

\* The driver moves the clock forward: the target of an Advance under way has
\* not passed.
DriverAhead ==
  /\ driver.at = "idle" => driver.op = "Wait"
  /\ driver.at = "move" => driver.op = "Advance"
  /\ driver.op = "Advance" => now <= driver.target

\* The timer of a fixed-step track is for its next deadline while the
\* goroutine waits for it; who publishes has reached that.
FixedTimed(tm, r, at) ==
  /\ tm.armed => tm.deadline > at
  /\ tm.armed \/ tm.token =>
       /\ tm.deadline = r.nextDeadline
       /\ r.pc \in {"select", "stopTimer"} /\ ~r.deadlineReached
  /\ tm.token => ~tm.armed /\ tm.deadline <= at
  /\ r.pc \in Publishing \/ (r.pc = "select" /\ r.deadlineReached) => r.nextDeadline <= at

\* A move of the clock has reached the variable track and no beat has used it.
Reached(r) == r.deadlineReached /\ r.pc \notin {"publish", "notify"}
Due(tm, r) == tm.token \/ Reached(r)

\* A variable track is due at most once for a move of the clock.
VariableTimed(tm, r, n) ==
  /\ tm.armed => ~Due(tm, r)
  /\ tm.token => ~Reached(r)
  /\ r.tick <= n
  /\ Due(tm, r) => r.tick < n
  /\ r.pc \in Publishing => r.deadlineReached
  /\ r.pc \notin Storing \cup {"reset"}

\* Before Start the goroutines have not begun and no timer is set.
Unset(tm, r) == r.pc = "new" => ~tm.armed /\ ~tm.token /\ ~r.deadlineReached

\* The timer of a track of either kind.
Timed(strict, tm, r, at, n) ==
  /\ Unset(tm, r)
  /\ IF strict THEN FixedTimed(tm, r, at) ELSE VariableTimed(tm, r, n)

\* The times of a track's ticks, the last of which is e.
StepsSorted(q, e, strict) ==
  /\ \A i \in 1..Len(q) : q[i] <= e
  /\ \A i \in 1..Len(q) : i > 1 => IF strict THEN q[i - 1] < q[i] ELSE q[i - 1] <= q[i]
  /\ Len(q) > 0 => q[Len(q)] = e

\* What paces a track: its step count, or its last beat.
Paced(r, s, e) ==
  IF s.Step > 0
  THEN e = r.stepCount * s.Step /\ r.nextDeadline >= (r.stepCount + 1) * s.Step
  ELSE e = r.lastBeat

\* The time of a track.
Counted(t) ==
  /\ StepsSorted(steps[t], elapsed[t], fixed(t)) /\ Len(steps[t]) = track[t].tick
  /\ Paced(track[t], settings[t], elapsed[t])
  /\ elapsed[t] <= now

\* The invariant of the tracks' time.
TimeInv ==
  /\ steps \in [Tracks -> Seq(Nat)] /\ elapsed \in [Tracks -> Nat]
  /\ DriverAhead
  /\ phase = "new" => \A t \in Tracks : track[t].pc = "new"
  /\ \A t \in Tracks : Timed(fixed(t), timer[t], track[t], now, moves) /\ Counted(t)

\* The deadline of tick k of a track with steps q.
deadlineOf(q, k) == IF k = 0 THEN 0 ELSE q[k]

\* What a fixed-step track has published is its last tick with that tick's
\* deadline, the version even, except while it stores the next: p is what it
\* has published, r its state, n its publications and q its steps.
Stored(p, r, n, q) ==
  LET earlier(places) == IF r.pc \in places THEN r.tick - 1 ELSE r.tick IN
  /\ r.pc \in Storing \cup {"publish"} => r.tick > 0
  /\ n = earlier({"publish"})
  /\ p.tick = earlier({"publish", "storing", "storeTick"})
  /\ p.deadline = deadlineOf(q, earlier({"publish", "storing", "storeTick", "storeDeadline"}))
  /\ p.version = earlier({"publish", "storing"}) + earlier({"publish"} \cup Storing)

\* What a beat with track state r has read so far of what its reference has
\* published: with the version it read still there, and even, it is the tick
\* of that version with its deadline.
Reading(r, p, q) ==
  LET same == r.version = p.version /\ r.version % 2 = 0 IN
  /\ r.pc \in Publishing \ {"lock"} => r.since <= p.tick
  /\ r.pc \in {"loadTick", "loadDeadline", "loadCheck"} => r.version <= p.version
  /\ r.pc \in {"loadDeadline", "loadCheck"} =>
       r.since <= r.loaded /\ r.loaded <= p.tick /\ (same => r.loaded = p.tick)
  /\ r.pc = "loadCheck" => (same => r.deadline = p.deadline)
  /\ r.pc = "stamp" =>
       r.since <= r.loaded /\ r.loaded <= p.tick /\ r.deadline = deadlineOf(q, r.loaded)

\* The invariant of what beats read of their references.
ReadInv ==
  \A t \in Tracks :
    /\ fixed(t) => Stored(published[t], track[t], out[t], steps[t])
    /\ reference(t) # NoTrack =>
         Reading(track[t], published[reference(t)], steps[reference(t)])

\* The place of the i-th beat in flight in a ring of length n that has the
\* oldest at place o.
place(o, i, n) == IF o + i <= n THEN o + i ELSE o + i - n

\* The beats f in flight have the signals of the ring of r, in order, the one
\* being published has the next, and a token is there only for a beat that has
\* finished.
InFlight(r, f, tokens) ==
  LET n == Len(r.signals) IN
  /\ r.inFlightCount = IF r.pc = "publish" THEN Len(f) + 1 ELSE Len(f)
  /\ \A i \in 1..Len(f) : f[i].signal = r.signals[place(r.oldestSignal, i, n)]
  /\ r.pc = "publish" => r.signal = r.signals[place(r.oldestSignal, r.inFlightCount, n)]
  /\ r.pc \in Storing \cup {"notify"} => Len(f) > 0 /\ r.signal = f[Len(f)].signal
  /\ \A s \in tokens : \E i \in 1..Len(f) : f[i].signal = s /\ f[i].armed /\ f[i].done

\* A track limited to so many beats in flight has a place for the one it is
\* about to publish.
Limited(r, limit) ==
  limit > 0 =>
    /\ r.inFlightCount <= limit
    /\ r.pc \in Publishing => r.inFlightCount < limit

\* The invariant of the beats in flight.
RingInv ==
  /\ flying \in [Tracks -> Seq(Beats)] /\ sent \in [Tracks -> SUBSET Nat]
  /\ \A t \in Tracks :
       InFlight(track[t], flying[t], sent[t]) /\ Limited(track[t], settings[t].MaxInFlight)

-----------------------------------------------------------------------------
(* Arithmetic *)

\* A multiple of a whole step.
LEMMA Multiples ==
  ASSUME NEW a \in Nat, NEW b \in Nat, NEW c \in Nat
  PROVE  /\ a * c \in Nat
         /\ (a + b) * c = a * c + b * c
         /\ a <= b => a * c <= b * c
<1>1. a * c \in Nat /\ (a + b) * c = a * c + b * c
  OBVIOUS
<1>2. ASSUME a <= b PROVE a * c <= b * c
  <2>1. PICK d \in Nat : b = a + d
    <3>1. b - a \in Nat /\ b = a + (b - a)
      BY <1>2
    <3> QED BY <3>1
  <2>2. b * c = a * c + d * c /\ d * c \in Nat /\ a * c \in Nat
    BY <2>1
  <2> QED BY <2>2
<1> QED BY <1>1, <1>2

\* The whole steps in a time are no more than it.
LEMMA Whole ==
  ASSUME NEW a \in Nat, NEW c \in Nat, c > 0
  PROVE  a \div c \in Nat /\ (a \div c) * c <= a
OBVIOUS

\* A ring turns once.
LEMMA Turn ==
  ASSUME NEW n \in Nat, n > 0, NEW x \in Nat, x < 2 * n
  PROVE  x % n = IF x < n THEN x ELSE x - n
<1>1. CASE x < n
  BY <1>1
<1>2. CASE x >= n
  BY <1>2
<1> QED BY <1>1, <1>2

-----------------------------------------------------------------------------
(* The ring of signals *)

\* A ring of n places has a place for each of n beats.
LEMMA Places1 ==
  ASSUME NEW n \in Nat, NEW o \in Nat, o < n
  PROVE  /\ \A i \in 1..n : place(o, i, n) \in 1..n
         /\ \A i, j \in 1..n : place(o, i, n) = place(o, j, n) => i = j
BY DEF place

\* The place after c beats from the oldest.
LEMMA Slot ==
  ASSUME NEW n \in Nat, NEW o \in Nat, NEW c \in Nat, o < n, c < n
  PROVE  ((o + c) % n) + 1 = place(o, c + 1, n) /\ place(o, c + 1, n) \in 1..n
<1>1. (o + c) % n = IF o + c < n THEN o + c ELSE o + c - n
  BY Turn
<1> QED BY <1>1 DEF place

\* growSignals keeps the signals of the beats in flight in their order, and
\* the ring has a place left.
LEMMA Grown ==
  ASSUME NEW r \in TrackStates, Ring(r)
  PROVE  LET g == growSignals(r) IN
         /\ g \in TrackStates /\ Ring(g)
         /\ g = [r EXCEPT !.signals = g.signals, !.oldestSignal = g.oldestSignal]
         /\ r.inFlightCount < Len(g.signals)
         /\ \A i \in 1..r.inFlightCount :
              g.signals[place(g.oldestSignal, i, Len(g.signals))]
                = r.signals[place(r.oldestSignal, i, Len(r.signals))]
<1> DEFINE g == growSignals(r)
<1>a. PICK q : q = r.signals
  OBVIOUS
<1>b. PICK o : o = r.oldestSignal
  OBVIOUS
<1>c. PICK n : n = Len(q)
  OBVIOUS
<1>0. /\ q \in Seq(Nat) /\ o \in Nat /\ n \in Nat /\ n > 0 /\ o < n
      /\ r.inFlightCount \in Nat /\ r.inFlightCount <= n
  BY <1>a, <1>b, <1>c, LenProperties DEF TrackStates, Ring
<1>d. /\ \A i \in 1..n : q[i] \in 1..n
      /\ \A i, j \in 1..n : q[i] = q[j] => i = j
  BY <1>a, <1>c DEF Ring
<1>1. CASE r.inFlightCount < n
  <2>1. g = r
    BY <1>1, <1>a, <1>c DEF growSignals
  <2>2. r = [r EXCEPT !.signals = r.signals, !.oldestSignal = r.oldestSignal]
    BY DEF TrackStates
  <2> QED BY <1>1, <1>a, <1>c, <2>1, <2>2
<1>2. CASE ~(r.inFlightCount < n)
  <2> DEFINE a == SubSeq(q, o + 1, n)
             b == SubSeq(q, 1, o)
             c == [i \in 1..n |-> n + i]
             s == (a \o b) \o c
  <2>0. r.inFlightCount = n
    BY <1>0, <1>2
  <2>1. g = [r EXCEPT !.signals = s, !.oldestSignal = 0]
    BY <1>2, <1>a, <1>b, <1>c DEF growSignals
  <2>2. /\ a \in Seq(Nat) /\ Len(a) = n - o
        /\ \A i \in 1..n - o : a[i] = q[o + i]
    <3>1. o + 1 \in Int /\ n \in Int /\ o + 1 <= n /\ \A i \in o + 1..n : q[i] \in Nat
      BY <1>0, <1>d
    <3>2. /\ a \in Seq(Nat) /\ Len(a) = n - (o + 1) + 1
          /\ \A i \in 1..n - (o + 1) + 1 : a[i] = q[(o + 1) + i - 1]
      BY <3>1, SubSeqProperties
    <3>3. n - (o + 1) + 1 = n - o /\ \A i \in 1..n - o : (o + 1) + i - 1 = o + i
      BY <1>0
    <3> HIDE DEF a
    <3> QED BY <3>2, <3>3
  <2>3. /\ b \in Seq(Nat) /\ Len(b) = o
        /\ \A i \in 1..o : b[i] = q[i]
    <3>1. o \in Int /\ \A i \in 1..o : q[i] \in Nat
      BY <1>0, <1>d
    <3>2. /\ b \in Seq(Nat) /\ Len(b) = o - 1 + 1
          /\ \A i \in 1..o - 1 + 1 : b[i] = q[1 + i - 1]
      BY <1>0, <3>1, SubSeqProperties
    <3>3. o - 1 + 1 = o /\ \A i \in 1..o : 1 + i - 1 = i
      BY <1>0
    <3> HIDE DEF b
    <3> QED BY <3>2, <3>3
  <2>4. /\ c \in Seq(Nat) /\ Len(c) = n
        /\ \A i \in 1..n : c[i] = n + i
    <3>1. \A i \in 1..n : n + i \in Nat
      BY <1>0
    <3> QED BY <1>0, <3>1, IsASeq
  <2> HIDE DEF a, b, c
  <2>5. /\ a \o b \in Seq(Nat) /\ Len(a \o b) = n
        /\ \A i \in 1..n : (a \o b)[i] = q[place(o, i, n)]
    <3>1. a \o b \in Seq(Nat) /\ Len(a \o b) = Len(a) + Len(b)
      BY <2>2, <2>3, ConcatProperties
    <3>2. \A i \in 1..Len(a) + Len(b) : (a \o b)[i] = IF i <= Len(a) THEN a[i] ELSE b[i - Len(a)]
      BY <2>2, <2>3, ConcatProperties
    <3>3. (n - o) + o = n
      BY <1>0
    <3>4. ASSUME NEW i \in 1..n
          PROVE  (a \o b)[i] = q[place(o, i, n)]
      <4>1. CASE i <= n - o
        <5>1. i \in 1..n - o /\ place(o, i, n) = o + i
          BY <1>0, <4>1 DEF place
        <5> QED BY <2>2, <2>3, <3>2, <3>3, <4>1, <5>1
      <4>2. CASE ~(i <= n - o)
        <5>1. place(o, i, n) = o + i - n
          BY <1>0, <4>2 DEF place
        <5>2. o + i - n = i - (n - o) /\ i - (n - o) \in 1..o
          BY <1>0, <4>2
        <5> QED BY <2>2, <2>3, <3>2, <3>3, <4>2, <5>1, <5>2
      <4> QED BY <4>1, <4>2
    <3> QED BY <2>2, <2>3, <3>1, <3>3, <3>4
  <2>6. /\ s \in Seq(Nat) /\ Len(s) = 2 * n
        /\ \A i \in 1..n : s[i] = q[place(o, i, n)]
        /\ \A i \in n + 1..2 * n : s[i] = i
    <3>1. s \in Seq(Nat) /\ Len(s) = Len(a \o b) + Len(c)
      BY <2>4, <2>5, ConcatProperties
    <3> DEFINE ab == a \o b
    <3>a. ab \in Seq(Nat) /\ s = ab \o c
      BY <2>5
    <3> HIDE DEF ab
    <3>2. \A i \in 1..Len(ab) + Len(c) : s[i] = IF i <= Len(ab) THEN ab[i] ELSE c[i - Len(ab)]
      BY <2>4, <3>a, ConcatProperties
    <3>3. n + n = 2 * n /\ 1..n \subseteq 1..2 * n /\ \A i \in 1..n : i <= n
      BY <1>0
    <3>4. \A i \in n + 1..2 * n :
            i \in 1..2 * n /\ ~(i <= n) /\ i - n \in 1..n /\ n + (i - n) = i
      BY <1>0
    <3> HIDE DEF s
    <3>5. \A i \in 1..2 * n : s[i] = IF i <= n THEN (a \o b)[i] ELSE c[i - n]
      BY <2>4, <2>5, <3>2, <3>3 DEF ab
    <3> QED BY <2>4, <2>5, <3>1, <3>3, <3>4, <3>5
  <2> HIDE DEF s
  <2>7. g \in TrackStates /\ g.signals = s /\ g.oldestSignal = 0 /\ g.inFlightCount = r.inFlightCount
        /\ g = [r EXCEPT !.signals = g.signals, !.oldestSignal = g.oldestSignal]
    <3>1. s \in Seq(Nat)
      BY <2>6
    <3> HIDE DEF g
    <3>2. g \in TrackStates
      BY <2>1, <3>1 DEF TrackStates
    <3>3. g.signals = s /\ g.oldestSignal = 0 /\ g.inFlightCount = r.inFlightCount
      BY <2>1 DEF TrackStates
    <3> QED BY <2>1, <3>2, <3>3
  <2>8. \A i \in 1..n : place(o, i, n) \in 1..n
    BY <1>0, Places1
  <2>9. \A i \in 1..2 * n : i \in 1..n \/ i \in n + 1..2 * n
    BY <1>0
  <2>10. \A i \in 1..n : s[i] \in 1..n
    BY <1>d, <2>6, <2>8
  <2>11. \A i \in 1..2 * n : s[i] \in 1..2 * n
    <3>1. \A i \in 1..n : s[i] \in 1..2 * n
      BY <1>0, <2>10
    <3>2. \A i \in n + 1..2 * n : s[i] \in 1..2 * n
      BY <1>0, <2>6
    <3> QED BY <2>9, <3>1, <3>2
  <2>12. ASSUME NEW i \in 1..2 * n, NEW j \in 1..2 * n, s[i] = s[j]
         PROVE  i = j
    <3>1. CASE i \in 1..n /\ j \in 1..n
      <4>0. PICK k, l : k = place(o, i, n) /\ l = place(o, j, n)
        OBVIOUS
      <4>1. k = l
        <5>1. k \in 1..n /\ l \in 1..n
          BY <2>8, <3>1, <4>0
        <5>2. s[i] = q[k] /\ s[j] = q[l]
          BY <2>6, <3>1, <4>0
        <5> QED BY <1>d, <2>12, <5>1, <5>2
      <4> QED BY <1>0, <3>1, <4>0, <4>1, Places1
    <3>2. CASE i \in n + 1..2 * n /\ j \in n + 1..2 * n
      BY <2>6, <2>12, <3>2
    <3>3. CASE \/ i \in 1..n /\ j \in n + 1..2 * n
               \/ j \in 1..n /\ i \in n + 1..2 * n
      <4>1. \A k \in 1..n, l \in n + 1..2 * n : s[k] # s[l]
        <5>1. \A k \in 1..n, l \in n + 1..2 * n : s[k] \in 1..n /\ s[l] = l /\ l > n
          BY <1>0, <2>6, <2>10
        <5> QED BY <1>0, <5>1
      <4> QED BY <2>12, <3>3, <4>1
    <3> QED BY <2>9, <3>1, <3>2, <3>3
  <2>13. Ring(g) /\ r.inFlightCount < Len(g.signals)
    <3>1. Len(g.signals) = 2 * n /\ g.signals = s /\ 2 * n > 0 /\ n < 2 * n
      BY <1>0, <2>6, <2>7
    <3> QED BY <1>0, <2>0, <2>7, <2>11, <2>12, <3>1 DEF Ring
  <2>14. \A i \in 1..n : place(0, i, 2 * n) = i
    BY <1>0 DEF place
  <2>15. ASSUME NEW i \in 1..r.inFlightCount
         PROVE  g.signals[place(g.oldestSignal, i, Len(g.signals))]
                  = r.signals[place(r.oldestSignal, i, Len(r.signals))]
    <3>1. i \in 1..n /\ s[i] = q[place(o, i, n)]
      BY <2>0, <2>6
    <3>2. g.signals = s /\ g.oldestSignal = 0 /\ Len(g.signals) = 2 * n
      BY <2>6, <2>7
    <3>3. place(0, i, 2 * n) = i
      BY <2>14, <3>1
    <3> QED BY <1>a, <1>b, <1>c, <3>1, <3>2, <3>3
  <2> QED BY <2>7, <2>13, <2>15
<1> QED BY <1>1, <1>2

-----------------------------------------------------------------------------
(* Types *)

\* What NewTrack and Start have checked of the settings in force.
LEMMA Settings ==
  ASSUME settings \in Configs, NEW t \in Tracks
  PROVE  /\ settings[t].Step \in Nat /\ settings[t].MinInterval \in Nat
         /\ settings[t].MaxDelta \in Nat /\ settings[t].MaxInFlight \in Nat
         /\ settings[t].MaxDebt \in Nat /\ settings[t].MaxDebt > 0
         /\ reference(t) # NoTrack => reference(t) \in Tracks /\ fixed(reference(t))
BY MetronomeAssumption DEF reference, fixed

\* The steps that change only where the goroutine is.
LEMMA Went ==
  ASSUME track \in [Tracks -> TrackStates], NEW t \in Tracks, NEW pc \in Places, go(t, pc)
  PROVE  /\ track' = [track EXCEPT ![t] = [track[t] EXCEPT !.pc = pc]]
         /\ [track[t] EXCEPT !.pc = pc] \in TrackStates
<1>1. track[t] \in TrackStates
  OBVIOUS
<1>2. [track[t] EXCEPT !.pc = pc] \in TrackStates
  BY <1>1 DEF TrackStates
<1> QED BY <1>2 DEF go

\* What Stamp makes of the track.
LEMMA Stamped ==
  ASSUME TypeInv, NEW t \in Tracks, Stamp(t)
  PROVE  LET g == growSignals(track[t]) r == track'[t] IN
         /\ track' = [track EXCEPT ![t] = r] /\ r \in TrackStates /\ Ring(r)
         /\ r.pc = "publish" /\ r.deadlineReached = track[t].deadlineReached
         /\ r.running = track[t].running
         /\ r.tick = track[t].tick + 1 /\ r.inFlightCount = track[t].inFlightCount + 1
         /\ r.signals = g.signals /\ r.oldestSignal = g.oldestSignal
         /\ r.signal = g.signals[place(g.oldestSignal, track[t].inFlightCount + 1, Len(g.signals))]
         /\ fixed(t) =>
              /\ dropped(t) \in Nat
              /\ r.stepCount = track[t].stepCount + dropped(t) + 1
              /\ r.nextDeadline = (r.stepCount + 1) * settings[t].Step
         /\ ~fixed(t) => r.lastBeat = now
<1>0. track[t] \in TrackStates /\ Ring(track[t]) /\ now \in Nat /\ settings \in Configs
      /\ track \in [Tracks -> TrackStates]
  BY DEF TypeInv, Types
<1>1. PICK g : g = growSignals(track[t])
  OBVIOUS
<1>2. /\ g \in TrackStates /\ Ring(g)
      /\ g = [track[t] EXCEPT !.signals = g.signals, !.oldestSignal = g.oldestSignal]
      /\ track[t].inFlightCount < Len(g.signals)
  BY <1>0, <1>1, Grown
<1>3. /\ g.deadlineReached = track[t].deadlineReached /\ g.running = track[t].running
      /\ g.tick = track[t].tick /\ g.inFlightCount = track[t].inFlightCount
      /\ g.stepCount = track[t].stepCount
  BY <1>0, <1>2 DEF TrackStates
<1>4. /\ g.stepCount \in Nat /\ g.tick \in Nat /\ g.inFlightCount \in Nat
      /\ g.signals \in Seq(Nat) /\ g.oldestSignal \in Nat /\ Len(g.signals) \in Nat
      /\ g.oldestSignal < Len(g.signals)
  BY <1>2, LenProperties DEF TrackStates, Ring
<1>5. /\ settings[t].Step \in Nat /\ settings[t].MinInterval \in Nat
      /\ settings[t].MaxDebt \in Nat
  BY <1>0, Settings
<1>6. fixed(t) => dropped(t) \in Nat
  <2> SUFFICES ASSUME settings[t].Step > 0 PROVE dropped(t) \in Nat
    BY DEF fixed
  <2>1. PICK d \in Nat : d = now \div settings[t].Step
    BY <1>0, <1>5, Whole
  <2>2. PICK x \in Int : x = d - track[t].stepCount - settings[t].MaxDebt
    <3>1. track[t].stepCount \in Nat /\ settings[t].MaxDebt \in Nat
      BY <1>3, <1>4, <1>5
    <3> QED BY <3>1
  <2>3. dropped(t) = larger(x, 0)
    BY <2>1, <2>2 DEF dropped
  <2> QED BY <2>3 DEF larger
<1> DEFINE slot == (g.oldestSignal + g.inFlightCount) % Len(g.signals)
           count == track[t].stepCount + dropped(t) + 1
           paced == IF fixed(t)
                    THEN [g EXCEPT !.stepCount = count,
                                   !.nextDeadline = (count + 1) * settings[t].Step]
                    ELSE [g EXCEPT !.lastBeat = now,
                                   !.nextDeadline = now + settings[t].MinInterval]
           r == [paced EXCEPT
                   !.tick = @ + 1, !.signal = g.signals[slot + 1],
                   !.inFlightCount = @ + 1, !.pc = "publish",
                   !.version = 0, !.loaded = 0, !.deadline = 0, !.since = 0]
<1>7. track' = [track EXCEPT ![t] = r]
  BY <1>1 DEF Stamp
<1>8. slot + 1 = place(g.oldestSignal, track[t].inFlightCount + 1, Len(g.signals))
  BY <1>2, <1>3, <1>4, Slot
<1>9. g.signals[slot + 1] \in Nat
  <2>1. place(g.oldestSignal, track[t].inFlightCount + 1, Len(g.signals)) \in 1..Len(g.signals)
    BY <1>2, <1>3, <1>4, Slot
  <2> QED BY <1>4, <1>8, <2>1, ElementOfSeq
<1> HIDE DEF slot
<1>10. /\ fixed(t) => count \in Nat /\ (count + 1) * settings[t].Step \in Nat
       /\ now + settings[t].MinInterval \in Nat
  <2>1. fixed(t) => count \in Nat /\ count + 1 \in Nat
    <3>1. track[t].stepCount \in Nat
      BY <1>3, <1>4
    <3> QED BY <1>6, <3>1
  <2> HIDE DEF count
  <2>2. now + settings[t].MinInterval \in Nat
    BY <1>0, <1>5
  <2> QED BY <1>5, <2>1, <2>2, Multiples
<1> HIDE DEF count
<1>11. /\ paced \in TrackStates /\ paced.tick = g.tick /\ paced.inFlightCount = g.inFlightCount
       /\ paced.deadlineReached = g.deadlineReached /\ paced.running = g.running
       /\ paced.signals = g.signals /\ paced.oldestSignal = g.oldestSignal
       /\ fixed(t) => paced.stepCount = count
                      /\ paced.nextDeadline = (count + 1) * settings[t].Step
       /\ ~fixed(t) => paced.lastBeat = now
  <2>1. CASE fixed(t)
    BY <1>2, <1>10, <2>1 DEF TrackStates
  <2>2. CASE ~fixed(t)
    BY <1>0, <1>2, <1>10, <2>2 DEF TrackStates
  <2> QED BY <2>1, <2>2
<1> HIDE DEF paced
<1>12. r \in TrackStates
  <2>1. /\ "publish" \in Places /\ 0 \in Nat
        /\ paced.tick + 1 \in Nat /\ paced.inFlightCount + 1 \in Nat
    BY <1>4, <1>11 DEF Places
  <2> QED BY <1>9, <1>11, <2>1 DEF TrackStates
<1>13. /\ r.pc = "publish" /\ r.deadlineReached = paced.deadlineReached
       /\ r.running = paced.running
       /\ r.tick = paced.tick + 1 /\ r.inFlightCount = paced.inFlightCount + 1
       /\ r.signals = paced.signals /\ r.oldestSignal = paced.oldestSignal
       /\ r.signal = g.signals[slot + 1] /\ r.stepCount = paced.stepCount
       /\ r.nextDeadline = paced.nextDeadline /\ r.lastBeat = paced.lastBeat
  BY <1>11 DEF TrackStates
<1> HIDE DEF r
<1>14. track'[t] = r
  BY <1>0, <1>7
<1>15. Ring(r)
  BY <1>2, <1>3, <1>4, <1>11, <1>13 DEF Ring
<1>16. count = track[t].stepCount + dropped(t) + 1
  BY DEF count
<1> QED BY <1>1, <1>3, <1>6, <1>7, <1>8, <1>11, <1>12, <1>13, <1>14, <1>15, <1>16

\* A set of naturals has a least.
LEMMA Least ==
  ASSUME NEW T, T \subseteq Nat, T # {}
  PROVE  \E x \in T : \A y \in T : x <= y
<1>1. \E x \in T : \A y \in T : <<y, x>> \notin OpToRel(<, Nat)
  BY NatLessThanWellFounded, WFMin
<1>2. PICK x \in T : \A y \in T : <<y, x>> \notin OpToRel(<, Nat)
  BY <1>1
<1>3. \A y \in T : ~(y < x)
  BY <1>2 DEF OpToRel
<1>4. \A y \in T : x <= y
  BY <1>3
<1> QED BY <1>4

\* Advance walks to the least deadline ahead, no further than its target.
LEMMA Nearest ==
  ASSUME timer \in [Tracks -> Timers], NEW target \in Nat, fireDue(target) # {}
  PROVE  \E u \in fireDue(target) :
           /\ nextDeadline(target) = timer[u].deadline
           /\ \A v \in fireDue(target) : timer[u].deadline <= timer[v].deadline
<1> DEFINE ahead == {timer[u].deadline : u \in fireDue(target)}
<1>1. ahead \subseteq Nat /\ ahead # {}
  BY DEF fireDue, due, Timers
<1>2. \E d \in ahead : \A e \in ahead : d <= e
  BY <1>1, Least
<1>3. nextDeadline(target) = CHOOSE d \in ahead : \A e \in ahead : d <= e
  BY <1>1 DEF nextDeadline
<1>4. nextDeadline(target) \in ahead /\ \A e \in ahead : nextDeadline(target) <= e
  BY <1>2, <1>3
<1> QED BY <1>4

\* The driver's own steps keep its type and leave the tracks alone.
LEMMA DriverTypes ==
  ASSUME Types,
         \/ Wait \/ GiveUp \/ waiting
         \/ \E d \in Durations : Advance(d) \/ Jump(d)
  PROVE  /\ Types'
         /\ UNCHANGED <<settings, mutex, phase, stop, track, beats, steps, elapsed, out>>
<1> DEFINE Drivers == [at : {"idle", "moved", "check", "parked", "move"},
                       op : {"Wait", "Advance"}, target : Nat, last : BOOLEAN, waited : BOOLEAN]
<1>0. /\ UNCHANGED <<settings, mutex, phase, stop, track, beats, steps, elapsed, out>>
      /\ driver \in Drivers /\ idle \in Drivers /\ now \in Nat /\ moves \in Nat
      /\ timer \in [Tracks -> Timers]
  BY DEF Wait, GiveUp, waiting, AwaitMoved, CheckSettled, Walk, Arrive, Advance, Jump,
         idleDriver, Types, idle
<1>1. ASSUME NEW d \in Drivers, NEW w \in BOOLEAN
      PROVE  returned(d, w) \in Drivers
  BY <1>0 DEF returned
<1>2. \A d \in Drivers : await(d) \in Drivers
  BY <1>1 DEF await
<1>3. ASSUME NEW ts, fireAll(ts)
      PROVE  timer' \in [Tracks -> Timers]
  <2>1. \A u \in Tracks : fire(timer[u]) \in Timers
    BY <1>0 DEF fire, Timers
  <2> QED BY <1>0, <1>3, <2>1 DEF fireAll
<1>4. now' \in Nat /\ moves' \in Nat /\ timer' \in [Tracks -> Timers] /\ driver' \in Drivers
  <2>1. CASE Wait \/ GiveUp \/ AwaitMoved \/ CheckSettled
    <3>1. now' = now /\ moves' = moves /\ timer' = timer
      BY <2>1 DEF Wait, GiveUp, AwaitMoved, CheckSettled, clock
    <3>2. [driver EXCEPT !.at = "parked"] \in Drivers
      BY <1>0
    <3> HIDE DEF Drivers
    <3>3. driver' \in Drivers
      BY <1>0, <1>1, <1>2, <2>1, <3>2 DEF Wait, GiveUp, AwaitMoved, CheckSettled
    <3> QED BY <1>0, <3>1, <3>3
  <2>2. ASSUME NEW d \in Durations, Advance(d)
        PROVE  now' \in Nat /\ moves' \in Nat /\ timer' \in [Tracks -> Timers] /\ driver' \in Drivers
    <3>1. now + d \in Nat
      BY <1>0, <2>2, MetronomeAssumption
    <3>2. [idle EXCEPT !.op = "Advance", !.target = now + d] \in Drivers
      BY <3>1 DEF idle
    <3> QED BY <1>0, <1>2, <2>2, <3>2 DEF Advance, clock
  <2>3. ASSUME NEW d \in Durations, Jump(d)
        PROVE  now' \in Nat /\ moves' \in Nat /\ timer' \in [Tracks -> Timers] /\ driver' \in Drivers
    <3>1. now + d \in Nat
      BY <1>0, <2>3, MetronomeAssumption
    <3> QED BY <1>0, <1>3, <2>3, <3>1 DEF Jump
  <2>4. CASE Walk
    <3>1. driver.target \in Nat
      BY <1>0
    <3>2. nextDeadline(driver.target) \in Nat
      BY <1>0, <2>4, <3>1, Nearest DEF Walk, fireDue, due, Timers
    <3> QED BY <1>0, <1>3, <2>4, <3>2 DEF Walk
  <2>5. CASE Arrive
    <3>1. [driver EXCEPT !.at = "moved", !.last = TRUE] \in Drivers /\ driver.target \in Nat
      BY <1>0
    <3> HIDE DEF Drivers
    <3> QED BY <1>0, <1>3, <2>5, <3>1 DEF Arrive
  <2> QED BY <2>1, <2>2, <2>3, <2>4, <2>5 DEF waiting
<1> QED BY <1>0, <1>4 DEF Types, beats

\* What a timer is made of when it is set.
LEMMA Rearmed ==
  ASSUME timer \in [Tracks -> Timers], settings \in Configs, now \in Nat,
         NEW t \in Tracks, NEW at \in Nat
  PROVE  Reset(t, at) \in Timers /\ rearm(t) \in Timers
<1>1. timer[t] \in Timers /\ now + settings[t].MinInterval \in Nat
  BY Settings
<1> QED BY <1>1 DEF Reset, rearm, fire, Timers

\* What a goroutine makes of its track is a track state with a ring, and the
\* other tracks are left alone.
LEMMA GoroutineTypes ==
  ASSUME TypeInv, NEW t \in Tracks, run(t)
  PROVE  /\ track' = [track EXCEPT ![t] = track'[t]]
         /\ track'[t] \in TrackStates /\ Ring(track'[t])
<1>0. /\ track \in [Tracks -> TrackStates] /\ track[t] \in TrackStates /\ Ring(track[t])
      /\ settings \in Configs /\ published \in [Tracks -> Publications]
  BY DEF TypeInv, Types
<1>1. ASSUME NEW r \in TrackStates, track' = [track EXCEPT ![t] = r],
             r.signals = track[t].signals, r.oldestSignal = track[t].oldestSignal,
             r.inFlightCount = track[t].inFlightCount
      PROVE  /\ track' = [track EXCEPT ![t] = track'[t]]
             /\ track'[t] \in TrackStates /\ Ring(track'[t])
  BY <1>0, <1>1 DEF Ring
<1>2. ASSUME NEW pc \in Places, go(t, pc)
      PROVE  /\ track' = [track EXCEPT ![t] = track'[t]]
             /\ track'[t] \in TrackStates /\ Ring(track'[t])
  <2> DEFINE r == [track[t] EXCEPT !.pc = pc]
  <2>1. r \in TrackStates /\ track' = [track EXCEPT ![t] = r]
    BY <1>0, <1>2, Went
  <2>2. /\ r.signals = track[t].signals /\ r.oldestSignal = track[t].oldestSignal
        /\ r.inFlightCount = track[t].inFlightCount
    BY <1>0 DEF TrackStates
  <2> HIDE DEF r
  <2> QED BY <1>1, <2>1, <2>2
<1>3. CASE Stopped(t) \/ StopTimer(t) \/ Publish(t) \/ BeginStore(t) \/ StoreTick(t)
           \/ StoreDeadline(t) \/ EndStore(t) \/ (Lock(t) /\ reference(t) = NoTrack)
  <2>1. \E pc \in Places : go(t, pc)
    BY <1>3 DEF Stopped, StopTimer, Publish, BeginStore, StoreTick, StoreDeadline, EndStore,
                store, Lock, Places, Publishing, Storing
  <2> QED BY <1>2, <2>1
<1>4. CASE \/ Fired(t) \/ EndTrack(t) \/ (Lock(t) /\ reference(t) # NoTrack)
           \/ LoadVersion(t) \/ LoadTick(t) \/ LoadDeadline(t) \/ LoadCheck(t)
           \/ Notify(t) \/ ResetTimer(t)
  <2> DEFINE p == published[reference(t)]
  <2>1. reference(t) # NoTrack =>
          p.version \in Nat /\ p.tick \in Nat /\ p.deadline \in Nat
    BY <1>0, Settings DEF Publications
  <2> HIDE DEF p
  <2>b. /\ track[t].running \in BOOLEAN /\ track[t].deadlineReached \in BOOLEAN
        /\ fixed(t) \in BOOLEAN /\ 0 \in Nat
    BY <1>0 DEF TrackStates, fixed
  <2>c. /\ {"loadVersion", "loadTick", "loadDeadline", "loadCheck", "stamp", "select", "ended",
            "reset"} \subseteq Places
        /\ \A reached, n : next(t, reached, n) \in Places
    BY DEF next, Places, Publishing
  <2>2. CASE Fired(t)
    <3> DEFINE r == [track[t] EXCEPT !.deadlineReached = TRUE,
                                    !.pc = next(t, TRUE, track[t].inFlightCount)]
    <3>1. track' = [track EXCEPT ![t] = r]
      BY <1>0, <2>2 DEF Fired
    <3>2. r \in TrackStates
      BY <1>0, <2>1, <2>b, <2>c DEF TrackStates
    <3>3. /\ r.signals = track[t].signals /\ r.oldestSignal = track[t].oldestSignal
          /\ r.inFlightCount = track[t].inFlightCount
      BY <1>0 DEF TrackStates
    <3> HIDE DEF r
    <3> QED BY <1>1, <3>1, <3>2, <3>3
  <2>3. CASE EndTrack(t)
    <3> DEFINE r == [track[t] EXCEPT !.running = FALSE, !.pc = "ended"]
    <3>1. track' = [track EXCEPT ![t] = r]
      BY <1>0, <2>3 DEF EndTrack
    <3>2. r \in TrackStates
      BY <1>0, <2>1, <2>b, <2>c DEF TrackStates
    <3>3. /\ r.signals = track[t].signals /\ r.oldestSignal = track[t].oldestSignal
          /\ r.inFlightCount = track[t].inFlightCount
      BY <1>0 DEF TrackStates
    <3> HIDE DEF r
    <3> QED BY <1>1, <3>1, <3>2, <3>3
  <2>4. CASE Lock(t) /\ reference(t) # NoTrack
    <3> DEFINE r == [track[t] EXCEPT !.pc = "loadVersion", !.since = p.tick]
    <3>1. track' = [track EXCEPT ![t] = r]
      BY <1>0, <2>4 DEF Lock, p
    <3>2. r \in TrackStates
      BY <1>0, <2>4, <2>1, <2>b, <2>c DEF TrackStates
    <3>3. /\ r.signals = track[t].signals /\ r.oldestSignal = track[t].oldestSignal
          /\ r.inFlightCount = track[t].inFlightCount
      BY <1>0 DEF TrackStates
    <3> HIDE DEF r
    <3> QED BY <1>1, <3>1, <3>2, <3>3
  <2>5. CASE LoadVersion(t) /\ reference(t) # NoTrack
    <3> DEFINE r == [[track[t] EXCEPT !.version = p.version] EXCEPT !.pc = "loadTick"]
    <3>1. track' = [track EXCEPT ![t] = r]
      BY <1>0, <2>5 DEF LoadVersion, load, p
    <3>2. r \in TrackStates
      BY <1>0, <2>5, <2>1, <2>b, <2>c DEF TrackStates
    <3>3. /\ r.signals = track[t].signals /\ r.oldestSignal = track[t].oldestSignal
          /\ r.inFlightCount = track[t].inFlightCount
      BY <1>0 DEF TrackStates
    <3> HIDE DEF r
    <3> QED BY <1>1, <3>1, <3>2, <3>3
  <2>6. CASE LoadTick(t) /\ reference(t) # NoTrack
    <3> DEFINE r == [[track[t] EXCEPT !.loaded = p.tick] EXCEPT !.pc = "loadDeadline"]
    <3>1. track' = [track EXCEPT ![t] = r]
      BY <1>0, <2>6 DEF LoadTick, load, p
    <3>2. r \in TrackStates
      BY <1>0, <2>6, <2>1, <2>b, <2>c DEF TrackStates
    <3>3. /\ r.signals = track[t].signals /\ r.oldestSignal = track[t].oldestSignal
          /\ r.inFlightCount = track[t].inFlightCount
      BY <1>0 DEF TrackStates
    <3> HIDE DEF r
    <3> QED BY <1>1, <3>1, <3>2, <3>3
  <2>7. CASE LoadDeadline(t) /\ reference(t) # NoTrack
    <3> DEFINE r == [[track[t] EXCEPT !.deadline = p.deadline] EXCEPT !.pc = "loadCheck"]
    <3>1. track' = [track EXCEPT ![t] = r]
      BY <1>0, <2>7 DEF LoadDeadline, load, p
    <3>2. r \in TrackStates
      BY <1>0, <2>7, <2>1, <2>b, <2>c DEF TrackStates
    <3>3. /\ r.signals = track[t].signals /\ r.oldestSignal = track[t].oldestSignal
          /\ r.inFlightCount = track[t].inFlightCount
      BY <1>0 DEF TrackStates
    <3> HIDE DEF r
    <3> QED BY <1>1, <3>1, <3>2, <3>3
  <2>8. CASE LoadCheck(t)
    <3> DEFINE r == [track[t] EXCEPT !.pc = IF torn(t) THEN "loadVersion" ELSE "stamp"]
    <3>1. track' = [track EXCEPT ![t] = r]
      BY <1>0, <2>8 DEF LoadCheck, load
    <3>2. r \in TrackStates
      BY <1>0, <2>1, <2>b, <2>c DEF TrackStates
    <3>3. /\ r.signals = track[t].signals /\ r.oldestSignal = track[t].oldestSignal
          /\ r.inFlightCount = track[t].inFlightCount
      BY <1>0 DEF TrackStates
    <3> HIDE DEF r
    <3> QED BY <1>1, <3>1, <3>2, <3>3
  <2>9. CASE Notify(t)
    <3> DEFINE r == [track[t] EXCEPT !.pc = IF fixed(t) THEN "reset" ELSE "select",
                                    !.deadlineReached = fixed(t), !.signal = 0]
    <3>1. track' = [track EXCEPT ![t] = r]
      BY <1>0, <2>9 DEF Notify
    <3>2. r \in TrackStates
      BY <1>0, <2>1, <2>b, <2>c DEF TrackStates
    <3>3. /\ r.signals = track[t].signals /\ r.oldestSignal = track[t].oldestSignal
          /\ r.inFlightCount = track[t].inFlightCount
      BY <1>0 DEF TrackStates
    <3> HIDE DEF r
    <3> QED BY <1>1, <3>1, <3>2, <3>3
  <2>10. CASE ResetTimer(t)
    <3> DEFINE r == [track[t] EXCEPT !.pc = "select", !.deadlineReached = FALSE]
    <3>1. track' = [track EXCEPT ![t] = r]
      BY <1>0, <2>10 DEF ResetTimer
    <3>2. r \in TrackStates
      BY <1>0, <2>1, <2>b, <2>c DEF TrackStates
    <3>3. /\ r.signals = track[t].signals /\ r.oldestSignal = track[t].oldestSignal
          /\ r.inFlightCount = track[t].inFlightCount
      BY <1>0 DEF TrackStates
    <3> HIDE DEF r
    <3> QED BY <1>1, <3>1, <3>2, <3>3
  <2>11. LoadVersion(t) \/ LoadTick(t) \/ LoadDeadline(t) => reference(t) # NoTrack
    BY DEF LoadVersion, LoadTick, LoadDeadline, load, TypeInv
  <2> QED BY <1>4, <2>11, <2>2, <2>3, <2>4, <2>5, <2>6, <2>7, <2>8, <2>9, <2>10
<1>5. CASE Finished(t)
  <2> DEFINE r == [track[t] EXCEPT
                     !.oldestSignal = afterOldest(t), !.inFlightCount = @ - 1,
                     !.pc = next(t, track[t].deadlineReached, track[t].inFlightCount - 1)]
  <2>1. track' = [track EXCEPT ![t] = r] /\ track[t].inFlightCount > 0
    BY <1>0, <1>5 DEF Finished
  <2>2. /\ Len(track[t].signals) \in Nat /\ track[t].inFlightCount \in Nat
        /\ track[t].oldestSignal \in Nat /\ Len(track[t].signals) > 0
        /\ track[t].inFlightCount <= Len(track[t].signals)
    BY <1>0, LenProperties DEF TrackStates, Ring
  <2>3. afterOldest(t) \in Nat /\ afterOldest(t) < Len(track[t].signals)
    BY <2>2 DEF afterOldest
  <2>4. next(t, track[t].deadlineReached, track[t].inFlightCount - 1) \in Places
    BY DEF next, Places, Publishing
  <2>5. track[t].inFlightCount - 1 \in Nat /\ track[t].inFlightCount - 1 <= Len(track[t].signals)
    BY <2>1, <2>2
  <2>6. r \in TrackStates
    BY <1>0, <2>3, <2>4, <2>5 DEF TrackStates
  <2>7. /\ r.signals = track[t].signals /\ r.oldestSignal = afterOldest(t)
        /\ r.inFlightCount = track[t].inFlightCount - 1
    BY <1>0 DEF TrackStates
  <2> HIDE DEF r
  <2>8. track'[t] = r
    BY <1>0, <2>1
  <2> QED BY <1>0, <2>1, <2>3, <2>5, <2>6, <2>7, <2>8 DEF Ring
<1>6. CASE Stamp(t)
  BY <1>6, Stamped
<1> QED BY <1>3, <1>4, <1>5, <1>6 DEF run, publishDue

\* A step of a goroutine keeps the types.
LEMMA RunTypes ==
  ASSUME TypeInv, NEW t \in Tracks, run(t)
  PROVE  TypeInv'
<1>0. /\ track \in [Tracks -> TrackStates] /\ track[t] \in TrackStates /\ Ring(track[t])
      /\ settings \in Configs /\ published \in [Tracks -> Publications]
      /\ published[t] \in Publications
      /\ timer \in [Tracks -> Timers] /\ timer[t] \in Timers /\ now \in Nat
      /\ out \in [Tracks -> Nat]
      /\ driver \in [at : {"idle", "moved", "check", "parked", "move"},
                     op : {"Wait", "Advance"}, target : Nat, last : BOOLEAN, waited : BOOLEAN]
  BY DEF TypeInv, Types
<1>1. /\ track' = [track EXCEPT ![t] = track'[t]]
      /\ track'[t] \in TrackStates /\ Ring(track'[t])
  BY GoroutineTypes
<1>2. UNCHANGED <<settings, now, moves>>
  BY DEF run, Fired, Finished, Stopped, StopTimer, EndTrack, publishDue, Lock, LoadVersion,
         LoadTick, LoadDeadline, LoadCheck, load, Stamp, Publish, BeginStore, StoreTick,
         StoreDeadline, EndStore, store, Notify, ResetTimer, busyTrack
<1>3. /\ track[t].nextDeadline \in Nat /\ track[t].tick \in Nat /\ track[t].signal \in Nat
      /\ track[t].stepCount * settings[t].Step \in Nat
  BY <1>0, Settings, Multiples DEF TrackStates
<1>4. timer' \in [Tracks -> Timers]
  <2>1. CASE UNCHANGED timer
    BY <1>0, <2>1
  <2>2. CASE Fired(t) \/ StopTimer(t)
    <3>1. /\ [timer[t] EXCEPT !.token = FALSE] \in Timers
          /\ [timer[t] EXCEPT !.armed = FALSE, !.fired = FALSE, !.token = FALSE] \in Timers
      BY <1>0 DEF Timers
    <3> QED BY <1>0, <2>2, <3>1 DEF Fired, StopTimer
  <2>3. CASE Stamp(t)
    BY <1>0, <1>3, <2>3, Rearmed DEF Stamp
  <2>4. CASE ResetTimer(t)
    BY <1>0, <1>3, <2>4, Rearmed DEF ResetTimer
  <2> QED
    BY <2>1, <2>2, <2>3, <2>4
       DEF run, Finished, Stopped, EndTrack, publishDue, Lock, LoadVersion, LoadTick,
           LoadDeadline, LoadCheck, load, Publish, BeginStore, StoreTick, StoreDeadline,
           EndStore, store, Notify
<1>5. published' \in [Tracks -> Publications]
  <2>1. CASE UNCHANGED published
    BY <1>0, <2>1
  <2>2. ASSUME NEW p \in Publications, published' = [published EXCEPT ![t] = p]
        PROVE  published' \in [Tracks -> Publications]
    BY <1>0, <2>2
  <2>3. CASE BeginStore(t) \/ EndStore(t)
    <3>1. published[t].version \in Nat /\ published[t].version + 1 \in Nat
      BY <1>0 DEF Publications
    <3>2. [published[t] EXCEPT !.version = published[t].version + 1] \in Publications
      BY <1>0, <3>1 DEF Publications
    <3> QED BY <2>2, <2>3, <3>2 DEF BeginStore, EndStore, store
  <2>4. CASE StoreTick(t)
    <3>1. [published[t] EXCEPT !.tick = track[t].tick] \in Publications
      BY <1>0, <1>3 DEF Publications
    <3> QED BY <2>2, <2>4, <3>1 DEF StoreTick, store
  <2>5. CASE StoreDeadline(t)
    <3>1. [published[t] EXCEPT !.deadline = track[t].stepCount * settings[t].Step] \in Publications
      BY <1>0, <1>3 DEF Publications
    <3> QED BY <2>2, <2>5, <3>1 DEF StoreDeadline, store
  <2> QED
    BY <2>1, <2>3, <2>4, <2>5
       DEF run, Fired, Finished, Stopped, StopTimer, EndTrack, publishDue, Lock, LoadVersion,
           LoadTick, LoadDeadline, LoadCheck, load, Stamp, Publish, Notify, ResetTimer, beats
<1>6. out' \in [Tracks -> Nat]
  <2>1. CASE Publish(t)
    BY <1>0, <2>1 DEF Publish
  <2>2. CASE UNCHANGED out
    BY <1>0, <2>2
  <2> QED
    BY <2>1, <2>2
       DEF run, Fired, Finished, Stopped, StopTimer, EndTrack, publishDue, Lock, LoadVersion,
           LoadTick, LoadDeadline, LoadCheck, load, Stamp, BeginStore, StoreTick,
           StoreDeadline, EndStore, store, Notify, ResetTimer
<1>8. driver' \in [at : {"idle", "moved", "check", "parked", "move"},
                   op : {"Wait", "Advance"}, target : Nat, last : BOOLEAN, waited : BOOLEAN]
  <2>1. broadcast \/ UNCHANGED driver
    BY DEF run, Fired, Finished, Stopped, StopTimer, EndTrack, publishDue, Lock, LoadVersion,
         LoadTick, LoadDeadline, LoadCheck, load, Stamp, Publish, BeginStore, StoreTick,
         StoreDeadline, EndStore, store, Notify, ResetTimer
  <2> QED BY <1>0, <2>1 DEF broadcast
<1>9. reference(t) = NoTrack =>
        track'[t].pc \notin {"loadVersion", "loadTick", "loadDeadline", "loadCheck"}
  <2> SUFFICES ASSUME reference(t) = NoTrack
               PROVE  track'[t].pc \notin {"loadVersion", "loadTick", "loadDeadline", "loadCheck"}
    OBVIOUS
  <2>1. track[t].pc \notin {"loadVersion", "loadTick", "loadDeadline", "loadCheck"}
    BY DEF TypeInv
  <2>2. CASE Stamp(t)
    BY <2>2, Stamped
  <2>3. ASSUME ~Stamp(t)
        PROVE  track'[t].pc \in {"select", "lock", "stamp", "stopTimer", "end", "ended", "notify",
                                 "storing", "storeTick", "storeDeadline", "stored", "reset"}
    <3>1. CASE Fired(t) \/ Finished(t)
      BY <1>0, <3>1 DEF Fired, Finished, next, TrackStates
    <3>2. CASE Stopped(t) \/ StopTimer(t) \/ EndTrack(t)
      BY <1>0, <3>2 DEF Stopped, StopTimer, EndTrack, go, TrackStates
    <3>3. CASE Lock(t)
      BY <1>0, <3>3 DEF Lock, go, TrackStates
    <3>4. CASE LoadVersion(t) \/ LoadTick(t) \/ LoadDeadline(t) \/ LoadCheck(t)
      BY <2>1, <3>4 DEF LoadVersion, LoadTick, LoadDeadline, LoadCheck, load
    <3>5. CASE Publish(t) \/ BeginStore(t) \/ StoreTick(t) \/ StoreDeadline(t) \/ EndStore(t)
      <4>1. PICK pc \in {"storing", "storeTick", "storeDeadline", "stored", "notify"} : go(t, pc)
        BY <3>5 DEF Publish, BeginStore, StoreTick, StoreDeadline, EndStore, store
      <4> QED BY <1>0, <4>1 DEF go, TrackStates
    <3>6. CASE Notify(t)
      BY <1>0, <3>6 DEF Notify, TrackStates
    <3>7. CASE ResetTimer(t)
      BY <1>0, <3>7 DEF ResetTimer, TrackStates
    <3> QED BY <2>3, <3>1, <3>2, <3>3, <3>4, <3>5, <3>6, <3>7 DEF run, publishDue
  <2> QED BY <2>2, <2>3
<1>10. Types'
  BY <1>0, <1>1, <1>2, <1>4, <1>5, <1>6, <1>8 DEF Types, TypeInv
<1>11. ASSUME NEW u \in Tracks
       PROVE  /\ Ring(track'[u])
              /\ reference(u) = NoTrack =>
                   track'[u].pc \notin {"loadVersion", "loadTick", "loadDeadline", "loadCheck"}
  <2>1. CASE u = t
    BY <1>1, <1>9, <2>1
  <2>2. CASE u # t
    <3>1. track'[u] = track[u]
      BY <1>0, <1>1, <2>2
    <3> QED BY <3>1 DEF TypeInv
  <2> QED BY <2>1, <2>2
<1> QED BY <1>2, <1>10, <1>11 DEF TypeInv, reference

\* The types and the rings, of every reachable state.
THEOREM TypesHold == Spec => []TypeInv
<1>1. Init => TypeInv
  <2> SUFFICES ASSUME Init PROVE TypeInv
    OBVIOUS
  <2>1. settings \in Configs
    BY DEF Init
  <2>2. ASSUME NEW t \in Tracks
        PROVE  /\ track[t] \in TrackStates /\ Ring(track[t]) /\ track[t].pc = "new"
               /\ track = [u \in Tracks |-> track[u]]
    <3>1. PICK n \in Nat : n = larger(settings[t].MaxInFlight, 1) /\ n > 0
      BY <2>1, Settings DEF larger
    <3>2. PICK q : q = ring(settings[t])
      OBVIOUS
    <3>3. q = [i \in 1..n |-> i]
      BY <3>1, <3>2 DEF ring
    <3>4. q \in Seq(Nat) /\ Len(q) = n /\ \A i \in 1..n : q[i] = i
      <4>1. \A i \in 1..n : i \in Nat
        OBVIOUS
      <4> QED BY <3>3, <4>1, IsASeq
    <3>5. settings[t].Step + settings[t].MinInterval \in Nat
      BY <2>1, Settings
    <3>6. PICK d \in Nat : d = settings[t].Step + settings[t].MinInterval
      BY <3>5
    <3>7. track[t] = [pc |-> "new", deadlineReached |-> FALSE, running |-> FALSE,
                      tick |-> 0, stepCount |-> 0, lastBeat |-> 0, nextDeadline |-> d,
                      signals |-> q, oldestSignal |-> 0, inFlightCount |-> 0, signal |-> 0,
                      version |-> 0, loaded |-> 0, deadline |-> 0, since |-> 0]
      BY <3>2, <3>6 DEF Init
    <3>8. track[t] \in TrackStates
      BY <3>4, <3>7 DEF TrackStates, Places
    <3>9. Ring(track[t])
      BY <3>1, <3>4, <3>7 DEF Ring
    <3> QED BY <3>7, <3>8, <3>9 DEF Init
  <2>3. track \in [Tracks -> TrackStates]
    BY <2>2 DEF Init
  <2>4. Types
    BY <2>1, <2>3 DEF Init, Types, Timers, Publications, idle
  <2> QED BY <2>2, <2>4 DEF TypeInv
<1>2. ASSUME TypeInv, [Next]_vars
      PROVE  TypeInv'
  <2>1. ASSUME NEW t \in Tracks, run(t) PROVE TypeInv'
    BY <1>2, <2>1, RunTypes
  <2>2. CASE \/ Wait \/ GiveUp \/ waiting
             \/ \E d \in Durations : Advance(d) \/ Jump(d)
    BY <1>2, <2>2, DriverTypes DEF TypeInv, reference
  <2>3. CASE Start
    <3>1. /\ track \in [Tracks -> TrackStates] /\ timer \in [Tracks -> Timers]
          /\ settings \in Configs /\ now \in Nat
      BY <1>2 DEF TypeInv, Types
    <3>2. timer' \in [Tracks -> Timers]
      <4>1. \A t \in Tracks : track[t].nextDeadline \in Nat
        BY <3>1 DEF TrackStates
      <4> QED BY <2>3, <3>1, <4>1, Rearmed DEF Start
    <3>3. ASSUME NEW t \in Tracks
          PROVE  /\ track'[t] \in TrackStates /\ Ring(track'[t]) /\ track'[t].pc = "select"
      <4>1. track'[t] = [track[t] EXCEPT !.running = TRUE, !.pc = "select"] /\ track[t] \in TrackStates
        BY <2>3, <3>1 DEF Start
      <4>2. "select" \in Places
        BY DEF Places
      <4>3. /\ track'[t] \in TrackStates /\ track'[t].pc = "select"
            /\ track'[t].signals = track[t].signals
            /\ track'[t].oldestSignal = track[t].oldestSignal
            /\ track'[t].inFlightCount = track[t].inFlightCount
        BY <4>1, <4>2 DEF TrackStates
      <4> QED BY <1>2, <4>3 DEF TypeInv, Ring
    <3>4. track' \in [Tracks -> TrackStates]
      BY <2>3, <3>3 DEF Start
    <3>5. UNCHANGED <<settings, now, moves, published, out, driver>>
      BY <2>3 DEF Start, plugin, beats, history
    <3>6. Types'
      BY <1>2, <3>2, <3>4, <3>5 DEF TypeInv, Types
    <3> QED BY <3>3, <3>6 DEF TypeInv
  <2>4. CASE \/ \E t \in Tracks : \E i \in DOMAIN flying[t] : Finish(t, i)
             \/ Stop \/ stopping \/ AllOver \/ UNCHANGED vars
    <3>1. UNCHANGED <<settings, now, moves, timer, track, published, out, driver>>
      BY <2>4 DEF Finish, busyTrack, Stop, stopping, CloseStop, Join, plugin, AllOver, vars,
                  clock, beats, history
    <3> QED BY <1>2, <3>1 DEF TypeInv, Types, reference
  <2> QED BY <1>2, <2>1, <2>2, <2>3, <2>4 DEF Next
<1> QED BY <1>1, <1>2, PTL DEF Spec

-----------------------------------------------------------------------------
(* The tracks' time *)

\* The clock moves forward and fires timers that are due.
LEMMA ClockMoved ==
  ASSUME TypeInv, TimeInv, now' \in Nat, now <= now', moves' \in Nat, moves <= moves',
         UNCHANGED <<settings, phase, track, steps, elapsed>>,
         \A t \in Tracks :
           \/ timer'[t] = timer[t] /\ (fixed(t) /\ timer[t].armed => timer[t].deadline > now')
           \/ /\ timer'[t] = fire(timer[t]) /\ timer[t].armed /\ timer[t].deadline <= now'
              /\ ~fixed(t) => moves' = moves + 1
  PROVE  /\ phase' = "new" => \A t \in Tracks : track'[t].pc = "new"
         /\ \A t \in Tracks : Timed(fixed(t), timer'[t], track'[t], now', moves') /\ Counted(t)'
<1>1. phase' = "new" => \A t \in Tracks : track'[t].pc = "new"
  BY DEF TimeInv
<1>2. ASSUME NEW t \in Tracks
      PROVE  Counted(t)'
  <2>1. Counted(t) /\ elapsed[t] \in Nat /\ now \in Nat
    BY DEF TimeInv, TypeInv, Types
  <2> QED BY <2>1 DEF Counted, fixed
<1>3. ASSUME NEW t \in Tracks
      PROVE  Timed(fixed(t), timer'[t], track'[t], now', moves')
  <2>0. /\ Timed(fixed(t), timer[t], track[t], now, moves) /\ timer[t] \in Timers
        /\ now \in Nat /\ moves \in Nat
        /\ track[t].nextDeadline \in Nat /\ track[t].tick \in Nat /\ timer[t].deadline \in Nat
    BY DEF TimeInv, TypeInv, Types, Timers, TrackStates
  <2>1. CASE timer'[t] = timer[t] /\ (fixed(t) /\ timer[t].armed => timer[t].deadline > now')
    <3>1. CASE fixed(t)
      BY <2>0, <2>1, <3>1 DEF Timed, Unset, FixedTimed
    <3>2. CASE ~fixed(t)
      BY <2>0, <2>1, <3>2 DEF Timed, Unset, VariableTimed
    <3> QED BY <3>1, <3>2
  <2>2. CASE /\ timer'[t] = fire(timer[t]) /\ timer[t].armed /\ timer[t].deadline <= now'
             /\ ~fixed(t) => moves' = moves + 1
    <3>1. ~timer'[t].armed /\ timer'[t].token /\ timer'[t].deadline = timer[t].deadline
      BY <2>0, <2>2 DEF fire, Timers
    <3>2. CASE fixed(t)
      BY <2>0, <2>2, <3>1, <3>2 DEF Timed, Unset, FixedTimed
    <3>3. CASE ~fixed(t)
      BY <2>0, <2>2, <3>1, <3>3 DEF Timed, Unset, VariableTimed, Due
    <3> QED BY <3>2, <3>3
  <2> QED BY <2>1, <2>2
<1> QED BY <1>1, <1>2, <1>3

\* The driver's steps keep the time of the tracks.
LEMMA DriverTimes ==
  ASSUME TypeInv, TimeInv,
         \/ Wait \/ GiveUp \/ waiting
         \/ \E d \in Durations : Advance(d) \/ Jump(d)
  PROVE  TimeInv'
<1>0. /\ UNCHANGED <<settings, phase, track, steps, elapsed>>
      /\ now \in Nat /\ moves \in Nat /\ timer \in [Tracks -> Timers]
      /\ driver.target \in Nat
      /\ \A t \in Tracks : timer[t].deadline \in Nat
  BY DriverTypes DEF TypeInv, Types, Timers
<1>1. ASSUME DriverAhead',
             phase' = "new" => \A t \in Tracks : track'[t].pc = "new",
             \A t \in Tracks : Timed(fixed(t), timer'[t], track'[t], now', moves') /\ Counted(t)'
      PROVE  TimeInv'
  BY <1>0, <1>1 DEF TimeInv, fixed
<1>2. CASE Wait \/ GiveUp \/ AwaitMoved \/ CheckSettled \/ \E d \in Durations : Advance(d)
  <2>1. UNCHANGED <<now, moves, timer>>
    BY <1>2 DEF Wait, GiveUp, AwaitMoved, CheckSettled, Advance, clock
  <2>2. DriverAhead'
    <3>0. /\ DriverAhead
          /\ driver \in [at : {"idle", "moved", "check", "parked", "move"},
                         op : {"Wait", "Advance"}, target : Nat, last : BOOLEAN, waited : BOOLEAN]
      BY DEF TimeInv, TypeInv, Types
    <3>1. CASE Wait
      BY <2>1, <3>1 DEF Wait, await, returned, idle, DriverAhead
    <3>2. CASE GiveUp
      BY <2>1, <3>2 DEF GiveUp, returned, idle, DriverAhead
    <3>3. CASE AwaitMoved
      BY <2>1, <3>0, <3>3 DEF AwaitMoved, await, returned, idle, DriverAhead
    <3>4. CASE CheckSettled
      BY <2>1, <3>0, <3>4 DEF CheckSettled, returned, idle, DriverAhead
    <3>5. ASSUME NEW d \in Durations, Advance(d)
          PROVE  DriverAhead'
      <4>1. d \in Nat /\ now <= now + d
        BY <1>0, MetronomeAssumption
      <4> QED BY <2>1, <3>5, <4>1 DEF Advance, await, returned, idle, DriverAhead
    <3> QED BY <1>2, <3>1, <3>2, <3>3, <3>4, <3>5
  <2>3. /\ phase' = "new" => \A t \in Tracks : track'[t].pc = "new"
        /\ \A t \in Tracks : Timed(fixed(t), timer'[t], track'[t], now', moves') /\ Counted(t)'
    BY <1>0, <2>1 DEF TimeInv, Counted, fixed
  <2> QED BY <1>1, <2>2, <2>3
<1>3. CASE Walk
  <2>1. PICK u \in fireDue(driver.target) :
          /\ nextDeadline(driver.target) = timer[u].deadline
          /\ \A v \in fireDue(driver.target) : timer[u].deadline <= timer[v].deadline
    BY <1>0, <1>3, Nearest DEF Walk
  <2>2. now' = timer[u].deadline /\ moves' = moves /\ fireAll(fireDue(now'))
    BY <1>3, <2>1 DEF Walk, dueOnTheWay
  <2>3. u \in Tracks /\ fixed(u) /\ timer[u].armed /\ timer[u].deadline <= driver.target
    BY DEF fireDue, due
  <2>4. now' > now /\ now' \in Nat /\ now' <= driver.target
    BY <1>0, <2>2, <2>3 DEF TimeInv, Timed, FixedTimed
  <2>5. ASSUME NEW t \in Tracks
        PROVE  \/ timer'[t] = timer[t] /\ (fixed(t) /\ timer[t].armed => timer[t].deadline > now')
               \/ /\ timer'[t] = fire(timer[t]) /\ timer[t].armed /\ timer[t].deadline <= now'
                  /\ fixed(t)
    BY <1>0, <2>2, <2>4 DEF fireAll, fireDue, due
  <2>6. /\ phase' = "new" => \A t \in Tracks : track'[t].pc = "new"
        /\ \A t \in Tracks : Timed(fixed(t), timer'[t], track'[t], now', moves') /\ Counted(t)'
    BY <1>0, <2>2, <2>4, <2>5, ClockMoved
  <2>7. DriverAhead'
    BY <1>0, <1>3, <2>4 DEF Walk, DriverAhead, TimeInv, TypeInv, Types
  <2> QED BY <1>1, <2>6, <2>7
<1>4. CASE Arrive
  <2>1. /\ now' = driver.target /\ moves' = moves + 1 /\ fireAll(fireVariable(now'))
        /\ fireDue(driver.target) = {}
        /\ now <= driver.target
    BY <1>4 DEF Arrive, TimeInv, DriverAhead
  <2>2. ASSUME NEW t \in Tracks
        PROVE  \/ timer'[t] = timer[t] /\ (fixed(t) /\ timer[t].armed => timer[t].deadline > now')
               \/ timer'[t] = fire(timer[t]) /\ timer[t].armed /\ timer[t].deadline <= now'
    <3>1. CASE fixed(t)
      BY <1>0, <2>1, <3>1 DEF fireAll, fireDue, fireVariable, due
    <3>2. CASE ~fixed(t)
      BY <1>0, <2>1, <3>2 DEF fireAll, fireVariable, due
    <3> QED BY <3>1, <3>2
  <2>3. /\ phase' = "new" => \A t \in Tracks : track'[t].pc = "new"
        /\ \A t \in Tracks : Timed(fixed(t), timer'[t], track'[t], now', moves') /\ Counted(t)'
    BY <1>0, <2>1, <2>2, ClockMoved
  <2>4. DriverAhead'
    BY <1>0, <1>4, <2>1 DEF Arrive, DriverAhead, TimeInv, TypeInv, Types
  <2> QED BY <1>1, <2>3, <2>4
<1>5. ASSUME NEW d \in Durations, Jump(d)
      PROVE  TimeInv'
  <2>1. /\ now' = now + d /\ moves' = moves + 1 /\ UNCHANGED driver /\ d \in Nat
        /\ fireAll(fireDue(now') \cup fireVariable(now')) /\ driver.at = "idle"
    BY <1>5, MetronomeAssumption DEF Jump
  <2>2. now' \in Nat /\ now <= now'
    BY <1>0, <2>1
  <2>3. ASSUME NEW t \in Tracks
        PROVE  \/ timer'[t] = timer[t] /\ (fixed(t) /\ timer[t].armed => timer[t].deadline > now')
               \/ timer'[t] = fire(timer[t]) /\ timer[t].armed /\ timer[t].deadline <= now'
    BY <1>0, <2>1, <2>2 DEF fireAll, fireDue, fireVariable, due
  <2>4. /\ phase' = "new" => \A t \in Tracks : track'[t].pc = "new"
        /\ \A t \in Tracks : Timed(fixed(t), timer'[t], track'[t], now', moves') /\ Counted(t)'
    BY <1>0, <2>1, <2>2, <2>3, ClockMoved
  <2>5. DriverAhead'
    BY <2>1 DEF DriverAhead, TimeInv
  <2> QED BY <1>1, <2>4, <2>5
<1> QED BY <1>2, <1>3, <1>4, <1>5 DEF waiting

\* What Finished makes of the track.
LEMMA FinishedTrack ==
  ASSUME TypeInv, NEW t \in Tracks, Finished(t)
  PROVE  LET r == track[t] q == track'[t] IN
         /\ r.pc = "select" /\ q.deadlineReached = r.deadlineReached
         /\ q.pc = next(t, r.deadlineReached, r.inFlightCount - 1)
         /\ q.pc = "select" \/ (q.pc = "lock" /\ r.deadlineReached)
         /\ q.oldestSignal = afterOldest(t) /\ q.inFlightCount = r.inFlightCount - 1
         /\ q.signals = r.signals /\ q.signal = r.signal
         /\ q.tick = r.tick /\ q.stepCount = r.stepCount /\ q.lastBeat = r.lastBeat
         /\ q.nextDeadline = r.nextDeadline /\ r.inFlightCount > 0
<1>1. PICK r, q : r \in TrackStates /\ r = track[t] /\ q = track'[t]
  BY DEF TypeInv, Types
<1>2. PICK o, pc : o = afterOldest(t) /\ pc = next(t, r.deadlineReached, r.inFlightCount - 1)
  OBVIOUS
<1>3. q = [r EXCEPT !.oldestSignal = o, !.inFlightCount = @ - 1, !.pc = pc]
  <2>1. track \in [Tracks -> TrackStates]
    BY DEF TypeInv, Types
  <2> QED BY <1>1, <1>2, <2>1 DEF Finished
<1>4. pc = "select" \/ (pc = "lock" /\ r.deadlineReached)
  BY <1>2 DEF next
<1>5. r.pc = "select" /\ r.inFlightCount > 0
  BY <1>1 DEF Finished
<1>6. /\ q.pc = pc /\ q.oldestSignal = o /\ q.inFlightCount = r.inFlightCount - 1
      /\ q.deadlineReached = r.deadlineReached
      /\ q.signals = r.signals /\ q.signal = r.signal
      /\ q.tick = r.tick /\ q.stepCount = r.stepCount /\ q.lastBeat = r.lastBeat
      /\ q.nextDeadline = r.nextDeadline
  BY <1>3 DEF TrackStates
<1> QED BY <1>1, <1>2, <1>4, <1>5, <1>6

\* What the loads of publishedTick make of the track.
LEMMA LoadedTrack ==
  ASSUME TypeInv, NEW t \in Tracks,
         LoadVersion(t) \/ LoadTick(t) \/ LoadDeadline(t) \/ LoadCheck(t)
  PROVE  LET r == track[t] q == track'[t] p == published[reference(t)] IN
         /\ q.deadlineReached = r.deadlineReached /\ q.since = r.since
         /\ q.oldestSignal = r.oldestSignal /\ q.inFlightCount = r.inFlightCount
         /\ q.signals = r.signals /\ q.signal = r.signal
         /\ q.tick = r.tick /\ q.stepCount = r.stepCount /\ q.lastBeat = r.lastBeat
         /\ q.nextDeadline = r.nextDeadline
         /\ \/ /\ r.pc = "loadVersion" /\ q.pc = "loadTick"
               /\ q.version = p.version
            \/ /\ r.pc = "loadTick" /\ q.pc = "loadDeadline"
               /\ q.version = r.version /\ q.loaded = p.tick
            \/ /\ r.pc = "loadDeadline" /\ q.pc = "loadCheck"
               /\ q.version = r.version /\ q.loaded = r.loaded /\ q.deadline = p.deadline
            \/ /\ r.pc = "loadCheck"
               /\ q.pc = (IF torn(t) THEN "loadVersion" ELSE "stamp")
               /\ q.version = r.version /\ q.loaded = r.loaded /\ q.deadline = r.deadline
<1>1. PICK r, q : r \in TrackStates /\ r = track[t] /\ q = track'[t]
  BY DEF TypeInv, Types
<1>2. PICK p : p = published[reference(t)]
  OBVIOUS
<1>3. PICK pc : pc = IF torn(t) THEN "loadVersion" ELSE "stamp"
  OBVIOUS
<1>4. track \in [Tracks -> TrackStates]
  BY DEF TypeInv, Types
<1>5. CASE LoadVersion(t)
  <2>1. r.pc = "loadVersion" /\ q = [[r EXCEPT !.version = p.version] EXCEPT !.pc = "loadTick"]
    BY <1>1, <1>2, <1>4, <1>5 DEF LoadVersion, load
  <2> QED BY <1>1, <1>2, <2>1 DEF TrackStates
<1>6. CASE LoadTick(t)
  <2>1. r.pc = "loadTick" /\ q = [[r EXCEPT !.loaded = p.tick] EXCEPT !.pc = "loadDeadline"]
    BY <1>1, <1>2, <1>4, <1>6 DEF LoadTick, load
  <2> QED BY <1>1, <1>2, <2>1 DEF TrackStates
<1>7. CASE LoadDeadline(t)
  <2>1. r.pc = "loadDeadline" /\ q = [[r EXCEPT !.deadline = p.deadline] EXCEPT !.pc = "loadCheck"]
    BY <1>1, <1>2, <1>4, <1>7 DEF LoadDeadline, load
  <2> QED BY <1>1, <1>2, <2>1 DEF TrackStates
<1>8. CASE LoadCheck(t)
  <2>1. r.pc = "loadCheck" /\ q = [r EXCEPT !.pc = pc]
    BY <1>1, <1>3, <1>4, <1>8 DEF LoadCheck, load
  <2> QED BY <1>1, <1>3, <2>1 DEF TrackStates
<1> QED BY <1>5, <1>6, <1>7, <1>8

\* Only Stamp counts time.
LEMMA OnlyStampCounts ==
  ASSUME TypeInv, NEW t \in Tracks, run(t), ~Stamp(t)
  PROVE  /\ track'[t].tick = track[t].tick /\ track'[t].stepCount = track[t].stepCount
         /\ track'[t].lastBeat = track[t].lastBeat
         /\ track'[t].nextDeadline = track[t].nextDeadline
         /\ UNCHANGED <<steps, elapsed>>
<1>0. track \in [Tracks -> TrackStates] /\ track[t] \in TrackStates
  BY DEF TypeInv, Types
<1>1. UNCHANGED <<steps, elapsed>>
  BY DEF run, Fired, Finished, Stopped, StopTimer, EndTrack, publishDue, Lock, LoadVersion,
         LoadTick, LoadDeadline, LoadCheck, load, Publish, BeginStore, StoreTick,
         StoreDeadline, EndStore, store, Notify, ResetTimer
<1>2. /\ track'[t].tick = track[t].tick /\ track'[t].stepCount = track[t].stepCount
      /\ track'[t].lastBeat = track[t].lastBeat
      /\ track'[t].nextDeadline = track[t].nextDeadline
  <2>0. CASE Finished(t)
    BY <2>0, FinishedTrack
  <2>1. CASE EndTrack(t)
    BY <1>0, <2>1 DEF EndTrack, TrackStates
  <2>5. CASE Fired(t)
    <3>1. PICK pc : pc = next(t, TRUE, track[t].inFlightCount)
      OBVIOUS
    <3>2. track'[t] = [track[t] EXCEPT !.deadlineReached = TRUE, !.pc = pc]
      BY <1>0, <2>5, <3>1 DEF Fired
    <3> QED BY <1>0, <3>2 DEF TrackStates
  <2>2. CASE Stopped(t) \/ StopTimer(t) \/ Publish(t) \/ BeginStore(t) \/ StoreTick(t)
             \/ StoreDeadline(t) \/ EndStore(t)
    <3>1. PICK pc : go(t, pc)
      BY <2>2 DEF Stopped, StopTimer, Publish, BeginStore, StoreTick, StoreDeadline, EndStore, store
    <3> QED BY <1>0, <3>1 DEF go, TrackStates
  <2>3. CASE Lock(t)
    BY <1>0, <2>3 DEF Lock, go, TrackStates
  <2>4. CASE LoadVersion(t) \/ LoadTick(t) \/ LoadDeadline(t) \/ LoadCheck(t)
    BY <2>4, LoadedTrack
  <2>6. CASE Notify(t) \/ ResetTimer(t)
    <3>1. CASE Notify(t)
      BY <1>0, <3>1 DEF Notify, TrackStates
    <3>2. CASE ResetTimer(t)
      BY <1>0, <3>2 DEF ResetTimer, TrackStates
    <3> QED BY <2>6, <3>1, <3>2
  <2> QED BY <2>0, <2>1, <2>2, <2>3, <2>4, <2>5, <2>6 DEF run, publishDue
<1> QED BY <1>1, <1>2

\* Each step of a goroutine: where it goes, and what it makes of its timer.
LEMMA RunTimed ==
  ASSUME TypeInv, NEW t \in Tracks, run(t), ~Stamp(t),
         Timed(fixed(t), timer[t], track[t], now, moves)
  PROVE  Timed(fixed(t), timer'[t], track'[t], now, moves)
<1>p. PICK r, q, m, n : r = track[t] /\ q = track'[t] /\ m = timer[t] /\ n = timer'[t]
  OBVIOUS
<1>s. Timed(fixed(t), m, r, now, moves)
  BY <1>p
<1> SUFFICES Timed(fixed(t), n, q, now, moves)
  BY <1>p
<1>a. /\ track \in [Tracks -> TrackStates] /\ track[t] \in TrackStates
      /\ timer \in [Tracks -> Timers] /\ timer[t] \in Timers
  BY DEF TypeInv, Types
<1>0. /\ now \in Nat /\ moves \in Nat
      /\ r.nextDeadline \in Nat /\ r.tick \in Nat /\ m.deadline \in Nat
  BY <1>p DEF TypeInv, Types, TrackStates, Timers
<1>1. q.tick = r.tick /\ q.nextDeadline = r.nextDeadline
  BY <1>p, OnlyStampCounts
<1>2. CASE Fired(t)
  <2>1. /\ r.pc = "select" /\ ~r.deadlineReached /\ m.token
        /\ q.pc \in {"lock", "select"} /\ q.deadlineReached
    BY <1>a, <1>p, <1>2 DEF Fired, next, TrackStates
  <2>2. ~n.token /\ n.armed = m.armed /\ n.deadline = m.deadline
    BY <1>a, <1>p, <1>2 DEF Fired, Timers
  <2>3. CASE fixed(t)
    BY <1>0, <1>s, <1>1, <2>1, <2>2, <2>3 DEF Timed, Unset, FixedTimed
  <2>4. CASE ~fixed(t)
    BY <1>0, <1>s, <1>1, <2>1, <2>2, <2>4 DEF Timed, Unset, VariableTimed, Due, Reached, Publishing, Storing
  <2> QED BY <2>3, <2>4
<1>3. CASE Finished(t)
  <2>1. /\ r.pc = "select" /\ q.deadlineReached = r.deadlineReached
        /\ q.pc = "select" \/ (q.pc = "lock" /\ r.deadlineReached)
    <3>1. /\ track[t].pc = "select" /\ track'[t].deadlineReached = track[t].deadlineReached
          /\ track'[t].pc = "select" \/ (track'[t].pc = "lock" /\ track[t].deadlineReached)
      BY <1>3, FinishedTrack
    <3> QED BY <1>p, <3>1
  <2>2. n = m
    BY <1>p, <1>3 DEF Finished
  <2>3. CASE fixed(t)
    BY <1>0, <1>s, <1>1, <2>1, <2>2, <2>3 DEF Timed, Unset, FixedTimed
  <2>4. CASE ~fixed(t)
    BY <1>0, <1>s, <1>1, <2>1, <2>2, <2>4 DEF Timed, Unset, VariableTimed, Due, Reached, Publishing, Storing
  <2> QED BY <2>3, <2>4
<1>4. CASE Stopped(t) \/ EndTrack(t) \/ Lock(t) \/ LoadVersion(t) \/ LoadTick(t) \/ LoadDeadline(t)
           \/ LoadCheck(t) \/ Publish(t) \/ BeginStore(t) \/ StoreTick(t) \/ StoreDeadline(t)
           \/ EndStore(t)
  <2>1. /\ q.deadlineReached = r.deadlineReached
        /\ \/ r.pc = "select" /\ q.pc = "stopTimer"
           \/ r.pc = "end" /\ q.pc = "ended"
           \/ r.pc \in Publishing /\ q.pc \in Publishing
           \/ r.pc = "publish" /\ q.pc = (IF fixed(t) THEN "storing" ELSE "notify")
           \/ r.pc \in Storing /\ q.pc \in Storing \cup {"notify"}
    <3>1. CASE Stopped(t) \/ Publish(t)
      BY <1>a, <1>p, <3>1 DEF Stopped, Publish, go, TrackStates
    <3>2. CASE EndTrack(t)
      BY <1>a, <1>p, <3>2 DEF EndTrack, TrackStates
    <3>3. CASE BeginStore(t) \/ StoreTick(t) \/ StoreDeadline(t) \/ EndStore(t)
      BY <1>a, <1>p, <3>3 DEF BeginStore, StoreTick, StoreDeadline, EndStore, store, go, Storing,
                              TrackStates
    <3>4. CASE Lock(t)
      BY <1>a, <1>p, <3>4 DEF Lock, go, Publishing, TrackStates
    <3>5. CASE LoadVersion(t) \/ LoadTick(t) \/ LoadDeadline(t) \/ LoadCheck(t)
      BY <1>p, <3>5, LoadedTrack DEF Publishing
    <3> QED BY <1>4, <3>1, <3>2, <3>3, <3>4, <3>5
  <2>2. n = m
    BY <1>p, <1>4 DEF Stopped, EndTrack, Lock, LoadVersion, LoadTick, LoadDeadline, LoadCheck,
                load, Publish, BeginStore, StoreTick, StoreDeadline, EndStore, store
  <2>3. CASE fixed(t)
    BY <1>0, <1>s, <1>1, <2>1, <2>2, <2>3 DEF Timed, Unset, FixedTimed, Publishing, Storing
  <2>4. CASE ~fixed(t)
    BY <1>0, <1>s, <1>1, <2>1, <2>2, <2>4 DEF Timed, Unset, VariableTimed, Due, Reached, Publishing, Storing
  <2> QED BY <2>3, <2>4
<1>5. CASE StopTimer(t)
  <2>1. r.pc = "stopTimer" /\ q.pc = "end" /\ q.deadlineReached = r.deadlineReached
    BY <1>a, <1>p, <1>5 DEF StopTimer, go, TrackStates
  <2>2. ~n.token /\ ~n.armed
    BY <1>a, <1>p, <1>5 DEF StopTimer, Timers
  <2>3. CASE fixed(t)
    BY <1>0, <1>s, <1>1, <2>1, <2>2, <2>3 DEF Timed, Unset, FixedTimed, Publishing
  <2>4. CASE ~fixed(t)
    BY <1>0, <1>s, <1>1, <2>1, <2>2, <2>4 DEF Timed, Unset, VariableTimed, Due, Reached, Publishing, Storing
  <2> QED BY <2>3, <2>4
<1>6. CASE Notify(t)
  <2>1. /\ r.pc = "notify" /\ q.pc = (IF fixed(t) THEN "reset" ELSE "select")
        /\ q.deadlineReached = fixed(t)
    BY <1>a, <1>p, <1>6 DEF Notify, TrackStates
  <2>2. n = m
    BY <1>p, <1>6 DEF Notify
  <2>3. CASE fixed(t)
    BY <1>0, <1>s, <1>1, <2>1, <2>2, <2>3 DEF Timed, Unset, FixedTimed, Publishing
  <2>4. CASE ~fixed(t)
    BY <1>0, <1>s, <1>1, <2>1, <2>2, <2>4 DEF Timed, Unset, VariableTimed, Due, Reached, Publishing, Storing
  <2> QED BY <2>3, <2>4
<1>7. CASE ResetTimer(t)
  <2>1. r.pc = "reset" /\ q.pc = "select" /\ ~q.deadlineReached
    BY <1>a, <1>p, <1>7 DEF ResetTimer, TrackStates
  <2>2. fixed(t)
    BY <1>s, <2>1 DEF Timed, VariableTimed
  <2>3. ~m.armed /\ ~m.token
    BY <1>s, <2>1, <2>2 DEF Timed, FixedTimed
  <2>4. n = Reset(t, r.nextDeadline)
    BY <1>a, <1>p, <1>7 DEF ResetTimer
  <2>5. /\ n.deadline = r.nextDeadline
        /\ IF r.nextDeadline <= now THEN ~n.armed /\ n.token ELSE n.armed /\ ~n.token
    BY <1>a, <1>p, <2>2, <2>3, <2>4 DEF Reset, fire, Timers
  <2> QED
    BY <1>0, <1>s, <1>1, <2>1, <2>2, <2>5 DEF Timed, Unset, FixedTimed, Publishing
<1> QED BY <1>2, <1>3, <1>4, <1>5, <1>6, <1>7 DEF run, publishDue

\* A beat's delta and what it lost add up to the time since the last, on a
\* track of either kind, and end at a time that has come.
LEMMA BeatAddsUp ==
  ASSUME TypeInv, TimeInv, NEW t \in Tracks, track[t].pc = "stamp"
  PROVE  /\ stamp(t).time \in Nat /\ stamp(t).time <= now
         /\ stamp(t).time = elapsed[t] + stamp(t).delta + stamp(t).lost
         /\ elapsed[t] <= stamp(t).time
         /\ fixed(t) =>
              /\ stamp(t).time = (track[t].stepCount + dropped(t) + 1) * settings[t].Step
              /\ elapsed[t] < stamp(t).time
         /\ ~fixed(t) => stamp(t).time = now
<1>0. /\ settings \in Configs /\ now \in Nat /\ elapsed[t] \in Nat
      /\ track[t].stepCount \in Nat /\ track[t].nextDeadline \in Nat /\ track[t].lastBeat \in Nat
      /\ elapsed[t] <= now
      /\ Paced(track[t], settings[t], elapsed[t])
  BY DEF TypeInv, Types, TrackStates, TimeInv, Counted
<1>1. CASE fixed(t)
  <2>1. PICK k \in Nat : k = track[t].stepCount
    BY <1>0
  <2>2. PICK s \in Nat : s = settings[t].Step /\ s > 0
    BY <1>0, <1>1, Settings DEF fixed
  <2>3. PICK b \in Nat : b = settings[t].MaxDebt /\ b > 0
    BY <1>0, Settings
  <2>4. PICK d \in Nat : d = now \div s /\ d * s <= now
    BY <1>0, <2>2, Whole
  <2>5. dropped(t) = IF d - k - b > 0 THEN d - k - b ELSE 0
    BY <2>1, <2>2, <2>3, <2>4 DEF dropped, larger
  <2>6. PICK x \in Nat : x = dropped(t)
    BY <2>5
  <2>7. /\ stamp(t).time = (k + x + 1) * s /\ stamp(t).delta = s /\ stamp(t).lost = x * s
    BY <1>1, <2>1, <2>2, <2>6 DEF stamp, fixedBeat
  <2>8. elapsed[t] = k * s /\ track[t].nextDeadline >= (k + 1) * s
    BY <1>0, <2>1, <2>2 DEF Paced
  <2>9. /\ (k + x) * s = k * s + x * s /\ (k + x + 1) * s = (k + x) * s + s
        /\ k * s \in Nat /\ x * s \in Nat
    <3>1. (k + x + 1) * s = (k + x) * s + 1 * s
      BY Multiples
    <3> QED BY <3>1, Multiples
  <2>10. (k + x + 1) * s <= now
    <3>1. CASE x = 0
      <4>1. track[t].nextDeadline <= now
        BY <1>1 DEF TimeInv, Timed, FixedTimed, Publishing
      <4>2. (k + 1) * s \in Nat /\ k + x + 1 = k + 1
        BY <3>1, Multiples
      <4> QED BY <1>0, <2>8, <4>1, <4>2
    <3>2. CASE x > 0
      <4>1. k + x + 1 <= d /\ k + x + 1 \in Nat
        BY <2>3, <2>5, <2>6, <3>2
      <4>2. (k + x + 1) * s <= d * s /\ (k + x + 1) * s \in Nat /\ d * s \in Nat
        BY <4>1, Multiples
      <4> QED BY <1>0, <2>4, <4>2
    <3> QED BY <3>1, <3>2
  <2>11. (k + x + 1) * s \in Nat
    BY <2>9
  <2> QED BY <1>1, <2>1, <2>2, <2>6, <2>7, <2>8, <2>9, <2>10, <2>11
<1>2. CASE ~fixed(t)
  <2>1. elapsed[t] = track[t].lastBeat
    BY <1>0, <1>2 DEF Paced, fixed
  <2>2. PICK since \in Nat : since = now - track[t].lastBeat
    BY <1>0, <2>1
  <2>3. PICK delta \in Nat : delta = IF settings[t].MaxDelta > 0
                                     THEN smaller(since, settings[t].MaxDelta) ELSE since
    BY <1>0, Settings DEF smaller
  <2>4. stamp(t).time = now /\ stamp(t).delta = delta /\ stamp(t).lost = since - delta
    BY <1>2, <2>2, <2>3 DEF stamp, variableBeat
  <2> QED BY <1>0, <1>2, <2>1, <2>2, <2>4
<1> QED BY <1>1, <1>2

\* Stamp keeps the times of the ticks, and the timer of its track.
LEMMA StampTimes ==
  ASSUME TypeInv, TimeInv, NEW t \in Tracks, Stamp(t)
  PROVE  /\ steps' \in [Tracks -> Seq(Nat)] /\ elapsed' \in [Tracks -> Nat]
         /\ Timed(fixed(t), timer'[t], track'[t], now, moves)
         /\ Counted(t)'
<1>0. /\ settings \in Configs /\ now \in Nat /\ moves \in Nat /\ elapsed[t] \in Nat
      /\ track[t].stepCount \in Nat /\ track[t].tick \in Nat
      /\ steps \in [Tracks -> Seq(Nat)] /\ elapsed \in [Tracks -> Nat] /\ steps[t] \in Seq(Nat)
      /\ timer \in [Tracks -> Timers] /\ timer[t] \in Timers
  BY DEF TypeInv, Types, TrackStates, TimeInv
<1>1. /\ track[t].pc = "stamp" /\ UNCHANGED <<settings, now, moves>>
  BY DEF Stamp, busyTrack
<1>2. PICK e : e = stamp(t).time
  OBVIOUS
<1>3. /\ e \in Nat /\ e <= now /\ elapsed[t] <= e
      /\ fixed(t) => e = (track[t].stepCount + dropped(t) + 1) * settings[t].Step /\ elapsed[t] < e
      /\ ~fixed(t) => e = now
  BY <1>1, <1>2, BeatAddsUp
<1>4. steps' = [steps EXCEPT ![t] = Append(@, e)] /\ elapsed' = [elapsed EXCEPT ![t] = e]
  <2>1. stamp(t).time = elapsed[t] + stamp(t).delta + stamp(t).lost
    BY <1>1, BeatAddsUp
  <2> QED BY <1>0, <1>2, <2>1 DEF Stamp
<1>5. steps'[t] = Append(steps[t], e) /\ elapsed'[t] = e
  BY <1>0, <1>4
<1>6. PICK q : q = steps'[t]
  OBVIOUS
<1>7. /\ q \in Seq(Nat) /\ Len(steps[t]) \in Nat /\ Len(q) = Len(steps[t]) + 1
      /\ \A i \in 1..Len(steps[t]) : q[i] = steps[t][i] /\ steps[t][i] \in Nat
      /\ q[Len(steps[t]) + 1] = e
  BY <1>0, <1>3, <1>5, <1>6, AppendProperties, LenProperties
<1>8. steps' \in [Tracks -> Seq(Nat)] /\ elapsed' \in [Tracks -> Nat]
  BY <1>0, <1>3, <1>4, <1>5, <1>6, <1>7
<1>9. Counted(t)
  BY DEF TimeInv
<1>10. StepsSorted(q, e, fixed(t))
  <2>1. StepsSorted(steps[t], elapsed[t], fixed(t))
    BY <1>9 DEF Counted
  <2>2. 1..Len(q) = 1..Len(steps[t]) \cup {Len(steps[t]) + 1}
    BY <1>7
  <2>3. \A i \in 1..Len(q) : q[i] <= e
    <3>1. \A i \in 1..Len(steps[t]) : q[i] <= e
      <4>1. \A i \in 1..Len(steps[t]) : steps[t][i] <= elapsed[t]
        BY <2>1 DEF StepsSorted
      <4>2. \A x \in Nat : x <= elapsed[t] => x <= e
        BY <1>0, <1>3
      <4> QED BY <1>7, <4>1, <4>2
    <3> QED BY <1>3, <1>7, <2>2, <3>1
  <2>4. ASSUME NEW i \in 1..Len(q), i > 1
        PROVE  IF fixed(t) THEN q[i - 1] < q[i] ELSE q[i - 1] <= q[i]
    <3>1. CASE i \in 1..Len(steps[t])
      <4>1. i - 1 \in 1..Len(steps[t])
        BY <1>7, <2>4, <3>1
      <4>2. q[i] = steps[t][i] /\ q[i - 1] = steps[t][i - 1]
        BY <1>7, <3>1, <4>1
      <4> QED BY <2>1, <2>4, <3>1, <4>2 DEF StepsSorted
    <3>2. CASE i = Len(steps[t]) + 1
      <4>1. Len(steps[t]) > 0 /\ i - 1 = Len(steps[t]) /\ Len(steps[t]) \in 1..Len(steps[t])
        BY <1>7, <2>4, <3>2
      <4>2. q[i - 1] = elapsed[t] /\ q[i] = e
        BY <1>7, <2>1, <3>2, <4>1 DEF StepsSorted
      <4> QED BY <1>3, <4>2
    <3> QED BY <2>2, <3>1, <3>2
  <2> QED BY <1>7, <2>3, <2>4 DEF StepsSorted
<1>11. /\ track'[t].tick = track[t].tick + 1 /\ track'[t].pc = "publish"
       /\ track'[t].deadlineReached = track[t].deadlineReached
       /\ fixed(t) =>
            /\ dropped(t) \in Nat
            /\ track'[t].stepCount = track[t].stepCount + dropped(t) + 1
            /\ track'[t].nextDeadline = (track'[t].stepCount + 1) * settings[t].Step
       /\ ~fixed(t) => track'[t].lastBeat = now
  BY Stamped
<1>12. Paced(track'[t], settings[t], e)
  <2>1. CASE fixed(t)
    <3>1. PICK k \in Nat : k = track'[t].stepCount
      BY <1>0, <1>11, <2>1
    <3>2. (k + 1) * settings[t].Step \in Nat
      BY <1>0, Settings, Multiples
    <3>3. e = k * settings[t].Step /\ track'[t].nextDeadline = (k + 1) * settings[t].Step
      BY <1>3, <1>11, <2>1, <3>1
    <3> QED BY <2>1, <3>1, <3>2, <3>3 DEF Paced, fixed
  <2>2. CASE ~fixed(t)
    BY <1>3, <1>11, <2>2 DEF Paced, fixed
  <2> QED BY <2>1, <2>2
<1>13. Counted(t)'
  <2>1. Len(q) = track'[t].tick
    BY <1>7, <1>9, <1>11 DEF Counted
  <2> QED BY <1>1, <1>3, <1>5, <1>6, <1>10, <1>12, <2>1 DEF Counted, fixed
<1>14. Timed(fixed(t), timer'[t], track'[t], now, moves)
  <2>0. Timed(fixed(t), timer[t], track[t], now, moves)
    BY DEF TimeInv
  <2>1. CASE fixed(t)
    <3>1. timer'[t] = timer[t]
      BY <2>1 DEF Stamp
    <3> QED BY <1>1, <1>11, <2>0, <2>1, <3>1 DEF Timed, Unset, FixedTimed, Publishing
  <2>2. CASE ~fixed(t)
    <3>1. timer'[t] = rearm(t)
      BY <1>0, <2>2 DEF Stamp
    <3>2. timer'[t].armed /\ timer'[t].token = timer[t].token
      BY <1>0, <3>1 DEF rearm, Timers
    <3>3. track[t].deadlineReached /\ Reached(track[t])
      BY <1>1, <2>0, <2>2 DEF Timed, VariableTimed, Publishing, Reached
    <3>4. ~timer[t].token /\ track[t].tick < moves
      BY <2>0, <2>2, <3>3 DEF Timed, VariableTimed, Due
    <3>5. ~Reached(track'[t]) /\ ~timer'[t].token
      BY <1>11, <3>2, <3>4 DEF Reached
    <3>6. track'[t].tick <= moves
      BY <1>0, <1>11, <3>4
    <3> QED BY <1>11, <2>2, <3>5, <3>6 DEF Timed, Unset, VariableTimed, Due, Publishing, Storing
  <2> QED BY <2>1, <2>2
<1> QED BY <1>8, <1>13, <1>14

\* A step of a goroutine keeps the time of the tracks.
LEMMA RunTimes ==
  ASSUME TypeInv, TimeInv, NEW t \in Tracks, run(t)
  PROVE  TimeInv'
<1>0. /\ track \in [Tracks -> TrackStates] /\ timer \in [Tracks -> Timers]
      /\ steps \in [Tracks -> Seq(Nat)] /\ elapsed \in [Tracks -> Nat]
      /\ driver \in [at : {"idle", "moved", "check", "parked", "move"},
                     op : {"Wait", "Advance"}, target : Nat, last : BOOLEAN, waited : BOOLEAN]
  BY DEF TypeInv, Types, TimeInv
<1>1. UNCHANGED <<settings, now, moves, phase>>
  BY DEF run, Fired, Finished, Stopped, StopTimer, EndTrack, publishDue, Lock, LoadVersion,
         LoadTick, LoadDeadline, LoadCheck, load, Stamp, Publish, BeginStore, StoreTick,
         StoreDeadline, EndStore, store, Notify, ResetTimer, busyTrack
<1>2. /\ Timed(fixed(t), timer'[t], track'[t], now, moves)
      /\ Counted(t)' /\ steps' \in [Tracks -> Seq(Nat)] /\ elapsed' \in [Tracks -> Nat]
  <2>1. CASE Stamp(t)
    BY <2>1, StampTimes
  <2>2. CASE ~Stamp(t)
    <3>1. /\ track'[t].tick = track[t].tick /\ track'[t].stepCount = track[t].stepCount
          /\ track'[t].lastBeat = track[t].lastBeat
          /\ track'[t].nextDeadline = track[t].nextDeadline
          /\ UNCHANGED <<steps, elapsed>>
      BY <2>2, OnlyStampCounts
    <3>2. Counted(t) /\ Timed(fixed(t), timer[t], track[t], now, moves)
      BY DEF TimeInv
    <3>3. Counted(t)'
      BY <1>1, <3>1, <3>2 DEF Counted, Paced, fixed
    <3>4. Timed(fixed(t), timer'[t], track'[t], now, moves)
      BY <2>2, <3>2, RunTimed
    <3> QED BY <1>0, <3>1, <3>3, <3>4
  <2> QED BY <2>1, <2>2
<1>3. ASSUME NEW u \in Tracks, u # t
      PROVE  /\ Timed(fixed(u), timer'[u], track'[u], now, moves) /\ Counted(u)'
             /\ track'[u] = track[u]
  <2>1. track'[u] = track[u]
    BY <1>0, <1>3, GoroutineTypes
  <2>2. timer'[u] = timer[u]
    BY <1>0, <1>3
       DEF run, Fired, Finished, Stopped, StopTimer, EndTrack, publishDue, Lock, LoadVersion,
           LoadTick, LoadDeadline, LoadCheck, load, Stamp, Publish, BeginStore, StoreTick,
           StoreDeadline, EndStore, store, Notify, ResetTimer
  <2>3. steps'[u] = steps[u] /\ elapsed'[u] = elapsed[u]
    <3>1. CASE Stamp(t)
      BY <1>0, <1>3, <3>1 DEF Stamp
    <3>2. CASE ~Stamp(t)
      BY <3>2, OnlyStampCounts
    <3> QED BY <3>1, <3>2
  <2>4. Counted(u) /\ Timed(fixed(u), timer[u], track[u], now, moves)
    BY DEF TimeInv
  <2>5. Counted(u)'
    BY <1>1, <2>1, <2>3, <2>4 DEF Counted, fixed
  <2> QED BY <2>1, <2>2, <2>4, <2>5
<1>4. DriverAhead'
  <2>1. broadcast \/ UNCHANGED driver
    BY DEF run, Fired, Finished, Stopped, StopTimer, EndTrack, publishDue, Lock, LoadVersion,
         LoadTick, LoadDeadline, LoadCheck, load, Stamp, Publish, BeginStore, StoreTick,
         StoreDeadline, EndStore, store, Notify, ResetTimer
  <2> QED BY <1>0, <1>1, <2>1 DEF broadcast, DriverAhead, TimeInv
<1>5. phase' # "new"
  <2>1. track[t].pc # "new"
    BY DEF run, Fired, Finished, Stopped, StopTimer, EndTrack, publishDue, Lock, LoadVersion,
         LoadTick, LoadDeadline, LoadCheck, load, Stamp, Publish, BeginStore, StoreTick,
         StoreDeadline, EndStore, store, Notify, ResetTimer
  <2> QED BY <1>1, <2>1 DEF TimeInv
<1>6. \A u \in Tracks : Timed(fixed(u), timer'[u], track'[u], now, moves) /\ Counted(u)'
  BY <1>2, <1>3
<1> QED BY <1>1, <1>2, <1>4, <1>5, <1>6 DEF TimeInv, fixed

\* The time of the tracks, in every reachable state.
THEOREM TimeHolds == Spec => []TimeInv
<1>1. Init => TimeInv
  <2> SUFFICES ASSUME Init PROVE TimeInv
    OBVIOUS
  <2>1. settings \in Configs
    BY DEF Init
  <2>2. ASSUME NEW t \in Tracks
        PROVE  Timed(fixed(t), timer[t], track[t], now, moves) /\ Counted(t)
    <3>1. /\ track[t].pc = "new" /\ ~track[t].deadlineReached /\ track[t].tick = 0
          /\ track[t].stepCount = 0 /\ track[t].lastBeat = 0
          /\ track[t].nextDeadline = settings[t].Step + settings[t].MinInterval
      BY DEF Init
    <3>2. /\ ~timer[t].armed /\ ~timer[t].token /\ steps[t] = <<>> /\ elapsed[t] = 0
          /\ now = 0 /\ moves = 0
      BY DEF Init
    <3>3. settings[t].Step \in Nat /\ settings[t].MinInterval \in Nat
      BY <2>1, Settings
    <3>4. Timed(fixed(t), timer[t], track[t], now, moves)
      BY <3>1, <3>2 DEF Timed, Unset, FixedTimed, VariableTimed, Due, Reached, Publishing, Storing
    <3>5. Paced(track[t], settings[t], elapsed[t])
      <4>1. 0 * settings[t].Step = 0 /\ (0 + 1) * settings[t].Step = settings[t].Step
        BY <3>3
      <4> QED BY <3>1, <3>2, <3>3, <4>1 DEF Paced
    <3>6. Counted(t)
      <4>1. Len(steps[t]) = 0
        BY <3>2
      <4> QED BY <3>1, <3>2, <3>5, <4>1 DEF Counted, StepsSorted
    <3> QED BY <3>4, <3>6
  <2>3. steps \in [Tracks -> Seq(Nat)] /\ elapsed \in [Tracks -> Nat]
    BY DEF Init
  <2>4. DriverAhead /\ \A t \in Tracks : track[t].pc = "new"
    BY DEF Init, DriverAhead, idle
  <2> QED BY <2>2, <2>3, <2>4 DEF TimeInv
<1>2. ASSUME TypeInv, TimeInv, [Next]_vars
      PROVE  TimeInv'
  <2>1. ASSUME NEW t \in Tracks, run(t) PROVE TimeInv'
    BY <1>2, <2>1, RunTimes
  <2>2. CASE \/ Wait \/ GiveUp \/ waiting
             \/ \E d \in Durations : Advance(d) \/ Jump(d)
    BY <1>2, <2>2, DriverTimes
  <2>3. CASE Start
    <3>1. UNCHANGED <<settings, now, moves, steps, elapsed, driver>> /\ phase' = "started" /\ phase = "new"
      BY <2>3 DEF Start, plugin, history
    <3>2. ASSUME NEW t \in Tracks
          PROVE  Timed(fixed(t), timer'[t], track'[t], now, moves) /\ Counted(t)'
      <4>0. /\ track[t] \in TrackStates /\ timer[t] \in Timers /\ now \in Nat
            /\ track[t].nextDeadline \in Nat
            /\ Timed(fixed(t), timer[t], track[t], now, moves) /\ Counted(t)
        BY <1>2 DEF TypeInv, Types, TimeInv, TrackStates
      <4>1. ~timer[t].armed /\ ~timer[t].token /\ ~track[t].deadlineReached /\ track[t].pc = "new"
        BY <1>2, <3>1, <4>0 DEF TimeInv, Timed, Unset
      <4>2. track'[t] = [track[t] EXCEPT !.running = TRUE, !.pc = "select"]
        BY <2>3 DEF Start
      <4>3. /\ track'[t].pc = "select" /\ track'[t].tick = track[t].tick
            /\ track'[t].stepCount = track[t].stepCount /\ track'[t].lastBeat = track[t].lastBeat
            /\ track'[t].nextDeadline = track[t].nextDeadline
            /\ ~track'[t].deadlineReached
        BY <4>0, <4>1, <4>2 DEF TrackStates
      <4>4. timer'[t] = Reset(t, track[t].nextDeadline)
        BY <2>3 DEF Start
      <4>5. /\ timer'[t].deadline = track[t].nextDeadline
            /\ IF fixed(t) /\ track[t].nextDeadline <= now
               THEN ~timer'[t].armed /\ timer'[t].token ELSE timer'[t].armed /\ ~timer'[t].token
        BY <4>0, <4>1, <4>4 DEF Reset, fire, Timers
      <4>6. CASE fixed(t)
        <5>1. FixedTimed(timer'[t], track'[t], now)
          BY <4>0, <4>3, <4>5, <4>6 DEF FixedTimed, Publishing
        <5>2. Counted(t)'
          BY <3>1, <4>0, <4>3 DEF Counted, Paced, fixed
        <5> QED BY <4>3, <4>6, <5>1, <5>2 DEF Timed, Unset
      <4>7. CASE ~fixed(t)
        <5>1. VariableTimed(timer[t], track[t], moves)
          BY <4>0, <4>7 DEF Timed
        <5>2. VariableTimed(timer'[t], track'[t], moves)
          BY <4>3, <4>5, <4>7, <5>1 DEF VariableTimed, Due, Reached, Publishing, Storing
        <5>3. Counted(t)'
          BY <3>1, <4>0, <4>3 DEF Counted, Paced, fixed
        <5> QED BY <4>3, <4>7, <5>2, <5>3 DEF Timed, Unset
      <4> QED BY <4>6, <4>7
    <3> QED BY <1>2, <3>1, <3>2 DEF TimeInv, DriverAhead, fixed
  <2>4. CASE \/ \E t \in Tracks : \E i \in DOMAIN flying[t] : Finish(t, i)
             \/ Stop \/ stopping \/ AllOver \/ UNCHANGED vars
    <3>1. /\ UNCHANGED <<settings, now, moves, timer, track, steps, elapsed, driver>>
          /\ phase' = "new" => phase = "new"
      BY <2>4 DEF Finish, busyTrack, Stop, stopping, CloseStop, Join, plugin, AllOver, vars,
                  clock, beats, history
    <3> QED BY <1>2, <3>1 DEF TimeInv, DriverAhead, Counted, fixed
  <2> QED BY <1>2, <2>1, <2>2, <2>3, <2>4 DEF Next
<1> QED BY <1>1, <1>2, TypesHold, PTL DEF Spec

\* No time is counted twice and none is missing, no beat stands for time that
\* has not come, and a variable track beats at most once for a move of the
\* clock (track.publishDue, ManualClock).
THEOREM TimeAddsUp == Spec => []StepsAddUp
<1>1. TypeInv /\ TimeInv => StepsAddUp
  <2> SUFFICES ASSUME TypeInv, TimeInv, NEW t \in Tracks
               PROVE  /\ elapsed[t] <= now
                      /\ steps[t] # <<>> => Last(steps[t]) = elapsed[t]
                      /\ \A i \in 2..Len(steps[t]) :
                           IF fixed(t) THEN steps[t][i - 1] < steps[t][i]
                           ELSE steps[t][i - 1] <= steps[t][i]
                      /\ ~fixed(t) => track[t].tick <= moves
    BY DEF StepsAddUp
  <2>1. Counted(t) /\ Timed(fixed(t), timer[t], track[t], now, moves) /\ steps[t] \in Seq(Nat)
    BY DEF TimeInv
  <2>2. steps[t] # <<>> => Last(steps[t]) = elapsed[t]
    <3>1. steps[t] # <<>> => Len(steps[t]) > 0
      BY <2>1, EmptySeq
    <3> QED BY <2>1, <3>1 DEF Counted, StepsSorted, Last
  <2>3. \A i \in 2..Len(steps[t]) : i \in 1..Len(steps[t]) /\ i > 1
    BY <2>1, LenProperties
  <2>4. \A i \in 2..Len(steps[t]) :
          IF fixed(t) THEN steps[t][i - 1] < steps[t][i] ELSE steps[t][i - 1] <= steps[t][i]
    BY <2>1, <2>3 DEF Counted, StepsSorted
  <2>5. elapsed[t] <= now /\ (~fixed(t) => track[t].tick <= moves)
    BY <2>1 DEF Counted, Timed, VariableTimed
  <2> QED BY <2>2, <2>4, <2>5
<1> QED BY <1>1, TypesHold, TimeHolds, PTL

-----------------------------------------------------------------------------
(* What a beat reads of its reference *)

\* What is published is a tick whose publication is out, and with an even
\* version it has that tick's deadline.
LEMMA StoredIsOut ==
  ASSUME NEW p \in Publications, NEW r \in TrackStates, NEW n, NEW q \in Seq(Nat),
         Stored(p, r, n, q), Len(q) = r.tick
  PROVE  /\ p.tick <= n /\ p.tick <= Len(q)
         /\ p.version % 2 = 0 => p.deadline = deadlineOf(q, p.tick)
<1>1. r.tick \in Nat /\ p.version \in Nat /\ p.tick \in Nat
  BY DEF TrackStates, Publications
<1>2. CASE r.pc \in {"storeTick", "storeDeadline", "stored"}
  <2>1. p.version = r.tick + (r.tick - 1) /\ n = r.tick /\ r.tick > 0
    BY <1>2 DEF Stored, Storing
  <2>2. p.tick \in {r.tick, r.tick - 1}
    BY <1>2 DEF Stored
  <2>3. p.version % 2 # 0
    BY <1>1, <2>1
  <2> QED BY <1>1, <2>1, <2>2, <2>3
<1>3. CASE r.pc \in {"publish", "storing"}
  <2>1. /\ p.tick = r.tick - 1 /\ n \in {r.tick - 1, r.tick} /\ r.tick > 0
        /\ p.deadline = deadlineOf(q, r.tick - 1)
    BY <1>3 DEF Stored, Storing
  <2> QED BY <1>1, <2>1
<1>4. CASE r.pc \notin {"publish", "storing", "storeTick", "storeDeadline", "stored"}
  BY <1>1, <1>4 DEF Stored, Storing
<1> QED BY <1>2, <1>3, <1>4

\* What is published only grows: a later tick has a later version, and steps
\* are only added.
Grows(p, p1, q, q1) ==
  /\ p.tick <= p1.tick /\ p.version <= p1.version
  /\ p1.version = p.version /\ p.version % 2 = 0 => p1.tick = p.tick /\ p1.deadline = p.deadline
  /\ Len(q) <= Len(q1) /\ \A k \in 1..Len(q) : q1[k] = q[k]

\* A step of the goroutine of a fixed-step track.
LEMMA WriterStep ==
  ASSUME TypeInv, TypeInv', TimeInv, NEW t \in Tracks, run(t), fixed(t),
         Stored(published[t], track[t], out[t], steps[t])
  PROVE  /\ Stored(published'[t], track'[t], out'[t], steps'[t])
         /\ Grows(published[t], published'[t], steps[t], steps'[t])
<1>p. PICK p, p1, r, r1, n, n1, q, q1 :
        /\ p = published[t] /\ p1 = published'[t] /\ r = track[t] /\ r1 = track'[t]
        /\ n = out[t] /\ n1 = out'[t] /\ q = steps[t] /\ q1 = steps'[t]
  OBVIOUS
<1> SUFFICES Stored(p1, r1, n1, q1) /\ Grows(p, p1, q, q1)
  BY <1>p
<1>0. /\ published \in [Tracks -> Publications] /\ published[t] \in Publications
      /\ track \in [Tracks -> TrackStates] /\ track[t] \in TrackStates
      /\ out \in [Tracks -> Nat] /\ settings \in Configs
  BY DEF TypeInv, Types
<1>1. /\ p.tick \in Nat /\ p.version \in Nat /\ r.tick \in Nat /\ n \in Nat
      /\ q \in Seq(Nat) /\ Len(q) \in Nat /\ Len(q) = r.tick
  <2>1. p.tick \in Nat /\ p.version \in Nat /\ r.tick \in Nat /\ n \in Nat
    BY <1>p, <1>0 DEF Publications, TrackStates
  <2>2. q \in Seq(Nat) /\ Len(q) = r.tick
    BY <1>p DEF TimeInv, Counted
  <2> QED BY <2>1, <2>2
<1>s. Stored(p, r, n, q)
  BY <1>p
<1>2. CASE Stamp(t)
  <2>1. r.pc = "stamp" /\ p1 = p /\ n1 = n
    BY <1>p, <1>2 DEF Stamp, beats
  <2>2. r1.pc = "publish" /\ r1.tick = r.tick + 1
    BY <1>p, <1>2, Stamped
  <2>3. Len(q1) = Len(q) + 1 /\ \A k \in 1..Len(q) : q1[k] = q[k]
    <3>1. PICK e \in Nat : q1 = Append(q, e)
      <4>1. stamp(t).time \in Nat
        BY <1>p, <2>1, BeatAddsUp
      <4>2. steps'[t] = Append(steps[t], stamp(t).time)
        BY <1>2 DEF Stamp, TimeInv
      <4> QED BY <1>p, <4>1, <4>2
    <3> QED BY <1>1, <3>1, AppendProperties
  <2>4. /\ n = r.tick /\ p.tick = r.tick /\ p.deadline = deadlineOf(q, r.tick)
        /\ p.version = r.tick + r.tick
    BY <1>s, <2>1 DEF Stored, Storing
  <2>5. deadlineOf(q1, r.tick) = deadlineOf(q, r.tick)
    BY <1>1, <2>3 DEF deadlineOf
  <2>6. r1.tick - 1 = r.tick /\ r1.tick > 0
    BY <1>1, <2>2
  <2>7. Stored(p1, r1, n1, q1)
    BY <2>1, <2>2, <2>4, <2>5, <2>6 DEF Stored, Storing
  <2> QED BY <1>1, <2>1, <2>3, <2>7 DEF Grows
<1>3. ASSUME ~Stamp(t) PROVE r1.tick = r.tick /\ q1 = q
  BY <1>p, <1>3, OnlyStampCounts
<1>4. CASE Publish(t)
  <2>0. ~Stamp(t)
    BY <1>4 DEF Publish, Stamp
  <2>1. p1 = p /\ n1 = n + 1 /\ r.pc = "publish"
    BY <1>p, <1>0, <1>4 DEF Publish
  <2>2. r1.pc = "storing"
    BY <1>p, <1>0, <1>4 DEF Publish, go, TrackStates
  <2>3. Stored(p1, r1, n1, q1)
    <3>1. /\ r.tick > 0 /\ n = r.tick - 1 /\ p.tick = r.tick - 1
          /\ p.deadline = deadlineOf(q, r.tick - 1)
          /\ p.version = (r.tick - 1) + (r.tick - 1)
      BY <1>s, <2>1 DEF Stored, Storing
    <3>2. r1.tick = r.tick /\ q1 = q /\ n1 = r.tick
      BY <1>1, <1>3, <2>0, <2>1, <3>1
    <3> QED BY <2>1, <2>2, <3>1, <3>2 DEF Stored, Storing
  <2> QED BY <1>1, <1>3, <2>0, <2>1, <2>3 DEF Grows
<1>5. CASE BeginStore(t) \/ EndStore(t)
  <2>0. ~Stamp(t)
    BY <1>5 DEF BeginStore, EndStore, store, Stamp
  <2>1. n1 = n /\ p1.version = p.version + 1 /\ p1.tick = p.tick /\ p1.deadline = p.deadline
    BY <1>p, <1>0, <1>5 DEF BeginStore, EndStore, store, Publications
  <2>2. \/ r.pc = "storing" /\ r1.pc = "storeTick"
        \/ r.pc = "stored" /\ r1.pc = "notify"
    BY <1>p, <1>0, <1>5 DEF BeginStore, EndStore, store, go, TrackStates
  <2>3. Stored(p1, r1, n1, q1)
    <3>0. r1.tick = r.tick /\ q1 = q
      BY <1>3, <2>0
    <3>1. CASE r.pc = "storing" /\ r1.pc = "storeTick"
      <4>1. /\ r.tick > 0 /\ n = r.tick /\ p.tick = r.tick - 1
            /\ p.deadline = deadlineOf(q, r.tick - 1)
            /\ p.version = (r.tick - 1) + (r.tick - 1)
        BY <1>s, <3>1 DEF Stored, Storing
      <4>2. p1.version = r.tick + (r.tick - 1)
        BY <1>1, <2>1, <4>1
      <4> QED BY <2>1, <3>0, <3>1, <4>1, <4>2 DEF Stored, Storing
    <3>2. CASE r.pc = "stored" /\ r1.pc = "notify"
      <4>1. /\ n = r.tick /\ p.tick = r.tick
            /\ p.deadline = deadlineOf(q, r.tick)
            /\ p.version = r.tick + (r.tick - 1)
        BY <1>s, <3>2 DEF Stored, Storing
      <4>2. p1.version = r.tick + r.tick
        BY <1>1, <2>1, <4>1
      <4> QED BY <2>1, <3>0, <3>2, <4>1, <4>2 DEF Stored, Storing
    <3> QED BY <2>2, <3>1, <3>2
  <2> QED BY <1>1, <1>3, <2>0, <2>1, <2>3 DEF Grows
<1>6. CASE StoreTick(t)
  <2>0. ~Stamp(t)
    BY <1>6 DEF StoreTick, store, Stamp
  <2>1. n1 = n /\ p1.version = p.version /\ p1.tick = r.tick /\ p1.deadline = p.deadline
    BY <1>p, <1>0, <1>6 DEF StoreTick, store, Publications
  <2>2. r.pc = "storeTick" /\ r1.pc = "storeDeadline"
    BY <1>p, <1>0, <1>6 DEF StoreTick, store, go, TrackStates
  <2>3. Stored(p1, r1, n1, q1)
    <3>1. /\ r.tick > 0 /\ n = r.tick /\ p.deadline = deadlineOf(q, r.tick - 1)
          /\ p.version = r.tick + (r.tick - 1)
      BY <1>s, <2>2 DEF Stored, Storing
    <3>2. r1.tick = r.tick /\ q1 = q
      BY <1>3, <2>0
    <3> QED BY <2>1, <2>2, <3>1, <3>2 DEF Stored, Storing
  <2>4. p.version % 2 # 0 /\ p.tick <= r.tick
    <3>1. p.version = r.tick + (r.tick - 1) /\ p.tick = r.tick - 1
      BY <1>s, <2>2 DEF Stored, Storing
    <3> QED BY <1>1, <3>1
  <2> QED BY <1>1, <1>3, <2>0, <2>1, <2>3, <2>4 DEF Grows
<1>7. CASE StoreDeadline(t)
  <2>0. ~Stamp(t)
    BY <1>7 DEF StoreDeadline, store, Stamp
  <2>1. /\ n1 = n /\ p1.version = p.version /\ p1.tick = p.tick
        /\ p1.deadline = track[t].stepCount * settings[t].Step
    BY <1>p, <1>0, <1>7 DEF StoreDeadline, store, Publications
  <2>2. r.pc = "storeDeadline" /\ r1.pc = "stored"
    BY <1>p, <1>0, <1>7 DEF StoreDeadline, store, go, TrackStates
  <2>3. r.tick > 0
    BY <1>s, <2>2 DEF Stored, Storing
  <2>4. p1.deadline = deadlineOf(q, r.tick)
    <3>1. Counted(t)
      BY DEF TimeInv
    <3>2. elapsed[t] = track[t].stepCount * settings[t].Step
      BY <3>1 DEF Counted, Paced, fixed
    <3>3. q[Len(q)] = elapsed[t]
      BY <1>p, <1>1, <2>3, <3>1 DEF Counted, StepsSorted
    <3> QED BY <1>1, <2>1, <2>3, <3>2, <3>3 DEF deadlineOf
  <2>5. Stored(p1, r1, n1, q1)
    BY <1>1, <1>3, <1>s, <2>0, <2>1, <2>2, <2>4 DEF Stored, Storing
  <2>6. p.version % 2 # 0
    <3>1. p.version = r.tick + (r.tick - 1)
      BY <1>s, <2>2 DEF Stored, Storing
    <3> QED BY <1>1, <3>1
  <2> QED BY <1>1, <1>3, <2>0, <2>1, <2>5, <2>6 DEF Grows
<1>8. CASE \/ Fired(t) \/ Finished(t) \/ Stopped(t) \/ StopTimer(t) \/ EndTrack(t) \/ Notify(t)
           \/ ResetTimer(t) \/ Lock(t) \/ LoadVersion(t) \/ LoadTick(t) \/ LoadDeadline(t)
           \/ LoadCheck(t)
  <2>1. p1 = p /\ n1 = n /\ ~Stamp(t)
    BY <1>p, <1>8
       DEF Fired, Finished, Stopped, StopTimer, EndTrack, Lock, LoadVersion, LoadTick,
           LoadDeadline, LoadCheck, load, Notify, ResetTimer, beats, Stamp
  <2>2. r.pc \notin Storing \cup {"publish"} /\ r1.pc \notin Storing \cup {"publish"}
    <3>1. CASE Finished(t)
      BY <1>p, <3>1, FinishedTrack DEF Storing
    <3>2. CASE LoadVersion(t) \/ LoadTick(t) \/ LoadDeadline(t) \/ LoadCheck(t)
      BY <1>p, <3>2, LoadedTrack DEF Storing
    <3>3. CASE Fired(t) \/ Notify(t)
      <4>1. CASE Fired(t)
        BY <1>p, <1>0, <4>1 DEF Fired, next, Storing, TrackStates
      <4>2. CASE Notify(t)
        BY <1>p, <1>0, <4>2 DEF Notify, Storing, TrackStates
      <4> QED BY <3>3, <4>1, <4>2
    <3>4. CASE Stopped(t) \/ StopTimer(t) \/ EndTrack(t)
      BY <1>p, <1>0, <3>4 DEF Stopped, StopTimer, EndTrack, go, Storing, TrackStates
    <3>5. CASE ResetTimer(t) \/ Lock(t)
      BY <1>p, <1>0, <3>5 DEF ResetTimer, Lock, go, Storing, TrackStates
    <3> QED BY <1>8, <3>1, <3>2, <3>3, <3>4, <3>5
  <2>3. Stored(p1, r1, n1, q1)
    BY <1>1, <1>3, <1>s, <2>1, <2>2 DEF Stored, Storing
  <2> QED BY <1>1, <1>3, <2>1, <2>3 DEF Grows
<1> QED BY <1>2, <1>4, <1>5, <1>6, <1>7, <1>8 DEF run, publishDue

\* A reader that waits sees its reference publish.
LEMMA ReadingGrows ==
  ASSUME NEW r \in TrackStates, NEW p \in Publications, NEW p1 \in Publications,
         NEW q \in Seq(Nat), NEW q1 \in Seq(Nat), p.tick <= Len(q),
         Reading(r, p, q), Grows(p, p1, q, q1)
  PROVE  Reading(r, p1, q1)
<1>1. /\ p.tick \in Nat /\ p1.tick \in Nat /\ p.version \in Nat /\ p1.version \in Nat
      /\ r.since \in Nat /\ r.loaded \in Nat /\ r.version \in Nat /\ Len(q) \in Nat
  BY LenProperties DEF Publications, TrackStates
<1>2. /\ p.tick <= p1.tick /\ p.version <= p1.version
      /\ p1.version = p.version /\ p.version % 2 = 0 => p1.tick = p.tick /\ p1.deadline = p.deadline
      /\ \A k \in 1..Len(q) : q1[k] = q[k]
  BY DEF Grows
<1>3. r.pc \in Publishing \ {"lock"} => r.since <= p1.tick
  BY <1>1, <1>2 DEF Reading
<1>4. r.pc \in {"loadTick", "loadDeadline", "loadCheck"} =>
        /\ r.version <= p1.version
        /\ r.version = p1.version => r.version = p.version
  BY <1>1, <1>2 DEF Reading
<1>5. r.pc \in {"loadDeadline", "loadCheck"} =>
        /\ r.since <= r.loaded /\ r.loaded <= p1.tick
        /\ r.version = p1.version /\ r.version % 2 = 0 => r.loaded = p1.tick
  BY <1>1, <1>2, <1>4 DEF Reading
<1>6. r.pc = "loadCheck" =>
        (r.version = p1.version /\ r.version % 2 = 0 => r.deadline = p1.deadline)
  BY <1>2, <1>4 DEF Reading
<1>7. r.pc = "stamp" =>
        r.since <= r.loaded /\ r.loaded <= p1.tick /\ r.deadline = deadlineOf(q1, r.loaded)
  <2> SUFFICES ASSUME r.pc = "stamp"
               PROVE  r.since <= r.loaded /\ r.loaded <= p1.tick /\ r.deadline = deadlineOf(q1, r.loaded)
    OBVIOUS
  <2>1. r.since <= r.loaded /\ r.loaded <= p.tick /\ r.deadline = deadlineOf(q, r.loaded)
    BY DEF Reading
  <2>2. r.loaded = 0 \/ r.loaded \in 1..Len(q)
    BY <1>1, <2>1
  <2>3. deadlineOf(q1, r.loaded) = deadlineOf(q, r.loaded)
    BY <1>2, <2>2 DEF deadlineOf
  <2> QED BY <1>1, <1>2, <2>1, <2>3
<1> QED BY <1>3, <1>4, <1>5, <1>6, <1>7 DEF Reading

\* A step of the goroutine of a track with a reference.
LEMMA ReaderStep ==
  ASSUME TypeInv, TimeInv, ReadInv, NEW t \in Tracks, run(t), reference(t) # NoTrack
  PROVE  LET u == reference(t) IN
         \/ track'[t].pc \notin Publishing \ {"lock"}
         \/ /\ Reading(track'[t], published[u], steps[u])
            /\ published'[u] = published[u] /\ steps'[u] = steps[u]
<1>p. PICK r, r1, p, q, u : /\ u = reference(t) /\ r = track[t] /\ r1 = track'[t]
                            /\ p = published[u] /\ q = steps[u]
  OBVIOUS
<1> SUFFICES \/ r1.pc \notin Publishing \ {"lock"}
             \/ Reading(r1, p, q) /\ published'[u] = p /\ steps'[u] = q
  BY <1>p
<1>0. /\ track \in [Tracks -> TrackStates] /\ track[t] \in TrackStates
      /\ u \in Tracks /\ fixed(u)
  BY <1>p, Settings DEF TypeInv, Types
<1>1. /\ Reading(r, p, q) /\ Stored(p, track[u], out[u], q)
      /\ p \in Publications /\ q \in Seq(Nat) /\ track[u] \in TrackStates /\ Len(q) = track[u].tick
      /\ p.tick \in Nat /\ p.version \in Nat
      /\ r.since \in Nat /\ r.loaded \in Nat /\ r.version \in Nat
  BY <1>p, <1>0 DEF ReadInv, TimeInv, Counted, TypeInv, Types, Publications, TrackStates
<1>2. CASE Lock(t)
  <2>1. r1.since = p.tick /\ r1.pc = "loadVersion"
    <3>1. track'[t] = [track[t] EXCEPT !.pc = "loadVersion", !.since = p.tick]
      BY <1>p, <1>0, <1>2 DEF Lock
    <3> QED BY <1>p, <1>0, <3>1 DEF TrackStates
  <2>2. Reading(r1, p, q)
    BY <1>1, <2>1 DEF Reading, Publishing
  <2> QED BY <1>p, <1>2, <2>2 DEF Lock, beats
<1>3. CASE LoadVersion(t) \/ LoadTick(t) \/ LoadDeadline(t) \/ LoadCheck(t)
  <2>1. /\ r1.since = r.since
        /\ \/ r.pc = "loadVersion" /\ r1.pc = "loadTick" /\ r1.version = p.version
           \/ /\ r.pc = "loadTick" /\ r1.pc = "loadDeadline"
              /\ r1.version = r.version /\ r1.loaded = p.tick
           \/ /\ r.pc = "loadDeadline" /\ r1.pc = "loadCheck"
              /\ r1.version = r.version /\ r1.loaded = r.loaded /\ r1.deadline = p.deadline
           \/ /\ r.pc = "loadCheck" /\ r1.pc = (IF torn(t) THEN "loadVersion" ELSE "stamp")
              /\ r1.version = r.version /\ r1.loaded = r.loaded /\ r1.deadline = r.deadline
    BY <1>p, <1>3, LoadedTrack
  <2>2. published'[u] = p /\ steps'[u] = q
    BY <1>p, <1>3 DEF LoadVersion, LoadTick, LoadDeadline, LoadCheck, load, beats
  <2>3. r.pc \in {"loadVersion", "loadTick", "loadDeadline", "loadCheck"} => r.since <= p.tick
    BY <1>1 DEF Reading, Publishing
  <2>4. CASE r.pc = "loadVersion"
    BY <1>1, <2>1, <2>2, <2>3, <2>4 DEF Reading, Publishing
  <2>5. CASE r.pc = "loadTick"
    BY <1>1, <2>1, <2>2, <2>3, <2>5 DEF Reading, Publishing
  <2>6. CASE r.pc = "loadDeadline"
    BY <1>1, <2>1, <2>2, <2>3, <2>6 DEF Reading, Publishing
  <2>7. CASE r.pc = "loadCheck" /\ torn(t)
    BY <1>1, <2>1, <2>2, <2>3, <2>7 DEF Reading, Publishing
  <2>8. CASE r.pc = "loadCheck" /\ ~torn(t)
    <3>1. r.version % 2 = 0 /\ r.version = p.version
      BY <1>p, <2>8 DEF torn
    <3>2. r.loaded = p.tick /\ r.deadline = p.deadline
      BY <1>1, <2>8, <3>1 DEF Reading
    <3>3. p.deadline = deadlineOf(q, p.tick)
      BY <1>1, <3>1, StoredIsOut
    <3>4. r1.pc = "stamp" /\ r1.loaded = p.tick /\ r1.deadline = deadlineOf(q, p.tick)
      BY <2>1, <2>8, <3>2, <3>3
    <3>5. Reading(r1, p, q)
      BY <1>1, <2>1, <2>3, <2>8, <3>4 DEF Reading, Publishing
    <3> QED BY <2>2, <3>5
  <2> QED BY <2>1, <2>4, <2>5, <2>6, <2>7, <2>8
<1>4. CASE Finished(t)
  BY <1>p, <1>4, FinishedTrack DEF Publishing
<1>5. CASE Stamp(t)
  BY <1>p, <1>5, Stamped DEF Publishing
<1>6. CASE Fired(t) \/ Notify(t) \/ ResetTimer(t)
  <2>1. track'[t].pc \in {"select", "lock", "reset"}
    <3>1. CASE Fired(t)
      BY <1>0, <3>1 DEF Fired, next, TrackStates
    <3>2. CASE Notify(t)
      BY <1>0, <3>2 DEF Notify, TrackStates
    <3>3. CASE ResetTimer(t)
      BY <1>0, <3>3 DEF ResetTimer, TrackStates
    <3> QED BY <1>6, <3>1, <3>2, <3>3
  <2> QED BY <1>p, <2>1 DEF Publishing
<1>7. CASE Stopped(t) \/ StopTimer(t) \/ EndTrack(t) \/ Publish(t)
  <2>1. track'[t].pc \in {"stopTimer", "end", "ended", "storing", "notify"}
    <3>1. CASE Stopped(t) \/ StopTimer(t) \/ Publish(t)
      <4>1. PICK pc \in {"stopTimer", "end", "storing", "notify"} : go(t, pc)
        BY <3>1 DEF Stopped, StopTimer, Publish
      <4> QED BY <1>0, <4>1 DEF go, TrackStates
    <3>2. CASE EndTrack(t)
      BY <1>0, <3>2 DEF EndTrack, TrackStates
    <3> QED BY <1>7, <3>1, <3>2
  <2> QED BY <1>p, <2>1 DEF Publishing
<1>8. CASE BeginStore(t) \/ StoreTick(t) \/ StoreDeadline(t) \/ EndStore(t)
  <2>1. track'[t].pc \in {"storeTick", "storeDeadline", "stored", "notify"}
    <3>1. PICK pc \in {"storeTick", "storeDeadline", "stored", "notify"} : go(t, pc)
      BY <1>8 DEF BeginStore, StoreTick, StoreDeadline, EndStore, store
    <3> QED BY <1>0, <3>1 DEF go, TrackStates
  <2> QED BY <1>p, <2>1 DEF Publishing
<1> QED BY <1>2, <1>3, <1>4, <1>5, <1>6, <1>7, <1>8 DEF run, publishDue

\* What beats read of their references, in every reachable state.
THEOREM ReadsHold == Spec => []ReadInv
<1>1. Init => ReadInv
  <2> SUFFICES ASSUME Init, NEW t \in Tracks
               PROVE  /\ Stored(published[t], track[t], out[t], steps[t])
                      /\ reference(t) # NoTrack =>
                           Reading(track[t], published[reference(t)], steps[reference(t)])
    BY DEF ReadInv
  <2>1. /\ published[t].version = 0 /\ published[t].tick = 0 /\ published[t].deadline = 0
        /\ out[t] = 0 /\ track[t].tick = 0 /\ track[t].pc = "new"
    BY DEF Init
  <2> QED BY <2>1 DEF Stored, Reading, deadlineOf, Storing, Publishing
<1>2. ASSUME TypeInv, TypeInv', TimeInv, TimeInv', ReadInv, [Next]_vars
      PROVE  ReadInv'
  <2>1. ASSUME NEW a \in Tracks, run(a)
        PROVE  ReadInv'
    <3>0. /\ settings' = settings /\ settings \in Configs
          /\ track \in [Tracks -> TrackStates] /\ published \in [Tracks -> Publications]
          /\ published' \in [Tracks -> Publications] /\ out \in [Tracks -> Nat]
          /\ steps \in [Tracks -> Seq(Nat)] /\ steps' \in [Tracks -> Seq(Nat)]
      <4>1. settings' = settings
        BY <2>1 DEF run, Fired, Finished, Stopped, StopTimer, EndTrack, publishDue, Lock, LoadVersion,
             LoadTick, LoadDeadline, LoadCheck, load, Stamp, Publish, BeginStore, StoreTick,
             StoreDeadline, EndStore, store, Notify, ResetTimer, busyTrack
      <4> QED BY <1>2, <4>1 DEF TypeInv, Types, TimeInv
    <3>1. ASSUME NEW t \in Tracks, t # a
          PROVE  /\ track'[t] = track[t] /\ published'[t] = published[t]
                 /\ out'[t] = out[t] /\ steps'[t] = steps[t]
      <4>1. track'[t] = track[t]
        BY <1>2, <2>1, <3>0, <3>1, GoroutineTypes
      <4>2. published'[t] = published[t]
        BY <2>1, <3>0, <3>1
           DEF run, Fired, Finished, Stopped, StopTimer, EndTrack, publishDue, Lock, LoadVersion,
               LoadTick, LoadDeadline, LoadCheck, load, Stamp, Publish, BeginStore, StoreTick,
               StoreDeadline, EndStore, store, Notify, ResetTimer, beats
      <4>3. out'[t] = out[t]
        BY <2>1, <3>0, <3>1
           DEF run, Fired, Finished, Stopped, StopTimer, EndTrack, publishDue, Lock, LoadVersion,
               LoadTick, LoadDeadline, LoadCheck, load, Stamp, Publish, BeginStore, StoreTick,
               StoreDeadline, EndStore, store, Notify, ResetTimer
      <4>4. steps'[t] = steps[t]
        <5>1. CASE Stamp(a)
          BY <3>0, <3>1, <5>1 DEF Stamp
        <5>2. CASE ~Stamp(a)
          BY <1>2, <2>1, <5>2, OnlyStampCounts
        <5> QED BY <5>1, <5>2
      <4> QED BY <4>1, <4>2, <4>3, <4>4
    <3>2. ASSUME NEW t \in Tracks, fixed(t)
          PROVE  /\ Stored(published'[t], track'[t], out'[t], steps'[t])
                 /\ Grows(published[t], published'[t], steps[t], steps'[t])
      <4>1. Stored(published[t], track[t], out[t], steps[t])
        BY <1>2, <3>2 DEF ReadInv
      <4>2. CASE t = a
        BY <1>2, <2>1, <3>2, <4>1, <4>2, WriterStep
      <4>3. CASE t # a
        <5>1. published[t] \in Publications /\ steps[t] \in Seq(Nat)
          BY <3>0
        <5>2. published[t].tick \in Nat /\ published[t].version \in Nat /\ Len(steps[t]) \in Nat
          BY <5>1, LenProperties DEF Publications
        <5> QED BY <3>1, <4>1, <4>3, <5>2 DEF Grows
      <4> QED BY <4>2, <4>3
    <3>3. ASSUME NEW t \in Tracks, reference(t) # NoTrack
          PROVE  Reading(track'[t], published'[reference(t)], steps'[reference(t)])
      <4>1. PICK u \in Tracks : u = reference(t) /\ fixed(u)
        BY <3>0, <3>3, Settings
      <4>2. Reading(track[t], published[u], steps[u])
        BY <1>2, <3>3, <4>1 DEF ReadInv
      <4>3. CASE t = a
        <5>1. \/ track'[t].pc \notin Publishing \ {"lock"}
              \/ /\ Reading(track'[t], published[u], steps[u])
                 /\ published'[u] = published[u] /\ steps'[u] = steps[u]
          BY <1>2, <2>1, <3>3, <4>1, <4>3, ReaderStep
        <5>2. ASSUME track'[t].pc \notin Publishing \ {"lock"}
              PROVE  Reading(track'[t], published'[u], steps'[u])
          BY <5>2 DEF Reading, Publishing
        <5> QED BY <4>1, <5>1, <5>2
      <4>4. CASE t # a
        <5>1. /\ track[t] \in TrackStates /\ published[u] \in Publications
              /\ published'[u] \in Publications /\ steps[u] \in Seq(Nat) /\ steps'[u] \in Seq(Nat)
              /\ track[u] \in TrackStates
          BY <3>0
        <5>2. Stored(published[u], track[u], out[u], steps[u]) /\ Len(steps[u]) = track[u].tick
          BY <1>2, <4>1 DEF ReadInv, TimeInv, Counted
        <5>3. published[u].tick <= Len(steps[u])
          BY <5>1, <5>2, StoredIsOut
        <5>4. Reading(track[t], published'[u], steps'[u])
          BY <3>2, <4>1, <4>2, <5>1, <5>3, ReadingGrows
        <5> QED BY <3>1, <4>1, <4>4, <5>4
      <4> QED BY <4>3, <4>4
    <3> QED BY <3>0, <3>2, <3>3 DEF ReadInv, reference, fixed
  <2>2. CASE Start
    <3>1. UNCHANGED <<settings, published, out, steps>>
      BY <2>2 DEF Start, plugin, beats, history
    <3>2. ASSUME NEW t \in Tracks
          PROVE  /\ track'[t].pc = "select" /\ track'[t].tick = track[t].tick /\ track[t].pc = "new"
      <4>1. track[t] \in TrackStates /\ track'[t] = [track[t] EXCEPT !.running = TRUE, !.pc = "select"]
        BY <1>2, <2>2 DEF Start, TypeInv, Types
      <4> QED BY <1>2, <2>2, <4>1 DEF Start, TimeInv, TrackStates
    <3>3. ASSUME NEW t \in Tracks, fixed(t)
          PROVE  Stored(published[t], track'[t], out[t], steps[t])
      BY <1>2, <3>2, <3>3 DEF ReadInv, Stored, Storing
    <3>4. ASSUME NEW t \in Tracks
          PROVE  Reading(track'[t], published[reference(t)], steps[reference(t)])
      BY <3>2 DEF Reading, Publishing
    <3> QED BY <3>1, <3>3, <3>4 DEF ReadInv, reference, fixed
  <2>3. CASE \/ Wait \/ GiveUp \/ waiting
             \/ \E d \in Durations : Advance(d) \/ Jump(d)
    BY <1>2, <2>3, DriverTypes DEF ReadInv, reference, fixed, beats, TypeInv
  <2>4. CASE \/ \E t \in Tracks : \E i \in DOMAIN flying[t] : Finish(t, i)
             \/ Stop \/ stopping \/ AllOver \/ UNCHANGED vars
    <3>1. UNCHANGED <<settings, track, published, steps, out>>
      BY <2>4 DEF Finish, busyTrack, Stop, stopping, CloseStop, Join, plugin, AllOver, vars,
                  clock, beats, history
    <3> QED BY <1>2, <3>1 DEF ReadInv, reference, fixed
  <2> QED BY <1>2, <2>1, <2>2, <2>3, <2>4 DEF Next
<1> QED BY <1>1, <1>2, TypesHold, TimeHolds, PTL DEF Spec

\* What a beat reads of its reference track is one published tick with that
\* tick's deadline, no older than the last stored when the beat began, its
\* publication out and its deadline not after the beat (publishedTick.load,
\* publishedTick.store, track.publishDue).
THEOREM ReadsMatch == Spec => InterpolationMatches
<1> DEFINE A == \A t \in Tracks : reference(t) # NoTrack /\ track'[t].tick # track[t].tick =>
                  LET r == track[t] IN
                  /\ r.deadline = IF r.loaded = 0 THEN 0 ELSE steps[reference(t)][r.loaded]
                  /\ r.deadline <= now
                  /\ r.since <= r.loaded /\ r.loaded <= out[reference(t)]
<1>1. ASSUME TypeInv, TimeInv, ReadInv, [Next]_vars
      PROVE  [A]_vars
  <2> SUFFICES ASSUME NEW t \in Tracks, reference(t) # NoTrack, track'[t].tick # track[t].tick
               PROVE  LET r == track[t] IN
                      /\ r.deadline = IF r.loaded = 0 THEN 0 ELSE steps[reference(t)][r.loaded]
                      /\ r.deadline <= now
                      /\ r.since <= r.loaded /\ r.loaded <= out[reference(t)]
    OBVIOUS
  <2>0. track \in [Tracks -> TrackStates] /\ track[t] \in TrackStates /\ settings \in Configs /\ now \in Nat
    BY <1>1 DEF TypeInv, Types
  <2>1. Stamp(t)
    <3>1. CASE \E a \in Tracks : run(a)
      <4>1. PICK a \in Tracks : run(a)
        BY <3>1
      <4>2. a = t
        BY <1>1, <2>0, <4>1, GoroutineTypes
      <4> QED BY <1>1, <4>1, <4>2, OnlyStampCounts
    <3>2. CASE Start
      BY <2>0, <3>2 DEF Start, TrackStates
    <3>3. CASE \/ Wait \/ GiveUp \/ waiting
               \/ \E d \in Durations : Advance(d) \/ Jump(d)
      BY <1>1, <3>3, DriverTypes DEF TypeInv
    <3>4. CASE \/ \E u \in Tracks : \E i \in DOMAIN flying[u] : Finish(u, i)
               \/ Stop \/ stopping \/ AllOver \/ UNCHANGED vars
      BY <3>4 DEF Finish, busyTrack, Stop, stopping, CloseStop, Join, plugin, AllOver, vars
    <3> QED BY <1>1, <3>1, <3>2, <3>3, <3>4 DEF Next
  <2>2. PICK u \in Tracks : u = reference(t) /\ fixed(u)
    BY <2>0, Settings
  <2>3. PICK r, p, q : r = track[t] /\ p = published[u] /\ q = steps[u]
    OBVIOUS
  <2>4. /\ r.since <= r.loaded /\ r.loaded <= p.tick /\ r.deadline = deadlineOf(q, r.loaded)
    BY <1>1, <2>1, <2>2, <2>3 DEF ReadInv, Reading, Stamp
  <2>5. /\ p \in Publications /\ q \in Seq(Nat) /\ track[u] \in TrackStates
        /\ Stored(p, track[u], out[u], q) /\ Len(q) = track[u].tick
        /\ elapsed[u] \in Nat /\ elapsed[u] <= now /\ \A i \in 1..Len(q) : q[i] <= elapsed[u]
        /\ p.tick \in Nat /\ r.loaded \in Nat /\ out[u] \in Nat /\ r.since \in Nat
    BY <1>1, <2>0, <2>2, <2>3
       DEF TypeInv, Types, TimeInv, Counted, StepsSorted, ReadInv, Publications, TrackStates
  <2>6. p.tick <= out[u] /\ p.tick <= Len(q)
    BY <2>5, StoredIsOut
  <2>7. r.loaded = 0 \/ r.loaded \in 1..Len(q)
    BY <2>4, <2>5, <2>6, LenProperties
  <2>8. r.deadline <= now
    <3>1. CASE r.loaded = 0
      BY <2>0, <2>4, <3>1 DEF deadlineOf
    <3>2. CASE r.loaded \in 1..Len(q) /\ r.loaded # 0
      <4>1. r.deadline = q[r.loaded] /\ q[r.loaded] \in Nat /\ q[r.loaded] <= elapsed[u]
        BY <2>4, <2>5, <3>2, ElementOfSeq DEF deadlineOf
      <4> QED BY <2>0, <2>5, <4>1
    <3> QED BY <2>7, <3>1, <3>2
  <2>9. r.loaded <= out[u]
    BY <2>4, <2>5, <2>6
  <2> QED BY <2>2, <2>3, <2>4, <2>8, <2>9 DEF deadlineOf
<1>2. TypeInv /\ TimeInv /\ ReadInv /\ [Next]_vars => [A]_vars
  BY <1>1
<1> QED BY <1>2, TypesHold, TimeHolds, ReadsHold, PTL DEF Spec, InterpolationMatches

-----------------------------------------------------------------------------
(* The beats in flight *)

\* The ring turned by one.
LEMMA Turned ==
  ASSUME NEW n \in Nat, NEW o \in Nat, o < n
  PROVE  \A i \in 1..n - 1 : place((o + 1) % n, i, n) = place(o, i + 1, n)
<1>1. (o + 1) % n = IF o + 1 < n THEN o + 1 ELSE 0
  <2>1. CASE o + 1 < n
    BY <2>1, Turn
  <2>2. CASE o + 1 = n
    BY <2>2, Turn
  <2> QED BY <2>1, <2>2
<1> QED BY <1>1 DEF place

\* The beat being published takes its place in flight.
LEMMA PublishInFlight ==
  ASSUME TypeInv, RingInv, NEW t \in Tracks, Publish(t)
  PROVE  /\ flying' \in [Tracks -> Seq(Beats)] /\ sent' \in [Tracks -> SUBSET Nat]
         /\ InFlight(track'[t], flying'[t], sent'[t])
         /\ Limited(track'[t], settings[t].MaxInFlight)
<1>p. PICK r, r1, f, f1, s : /\ r = track[t] /\ r1 = track'[t] /\ f = flying[t]
                             /\ f1 = flying'[t] /\ s = sent[t]
  OBVIOUS
<1>0. /\ track \in [Tracks -> TrackStates] /\ track[t] \in TrackStates
      /\ flying \in [Tracks -> Seq(Beats)] /\ f \in Seq(Beats) /\ Len(f) \in Nat
      /\ sent \in [Tracks -> SUBSET Nat] /\ sent' = sent
      /\ InFlight(r, f, s) /\ Limited(r, settings[t].MaxInFlight)
  BY <1>p, LenProperties DEF TypeInv, Types, RingInv, Publish
<1>1. /\ r.pc = "publish" /\ r.signal \in Nat
      /\ r1 = [r EXCEPT !.pc = IF fixed(t) THEN "storing" ELSE "notify"]
  BY <1>p, <1>0 DEF Publish, go, TrackStates
<1>2. /\ r1.pc \in {"storing", "notify"}
      /\ r1.signals = r.signals /\ r1.oldestSignal = r.oldestSignal
      /\ r1.inFlightCount = r.inFlightCount /\ r1.signal = r.signal
  BY <1>p, <1>0, <1>1 DEF TrackStates
<1>3. PICK b : b = [signal |-> r.signal, armed |-> FALSE, done |-> FALSE]
  OBVIOUS
<1>4. b \in Beats /\ b.signal = r.signal
  BY <1>1, <1>3 DEF Beats
<1>5. flying' = [flying EXCEPT ![t] = Append(f, b)] /\ f1 = Append(f, b)
  BY <1>p, <1>0, <1>3 DEF Publish
<1>6. /\ f1 \in Seq(Beats) /\ Len(f1) = Len(f) + 1
      /\ \A i \in 1..Len(f) : f1[i] = f[i]
      /\ f1[Len(f) + 1] = b
  BY <1>0, <1>4, <1>5, AppendProperties
<1>7. 1..Len(f1) = 1..Len(f) \cup {Len(f) + 1}
  BY <1>0, <1>6
<1>8. /\ r.inFlightCount = Len(f) + 1
      /\ \A i \in 1..Len(f) : f[i].signal = r.signals[place(r.oldestSignal, i, Len(r.signals))]
      /\ r.signal = r.signals[place(r.oldestSignal, Len(f) + 1, Len(r.signals))]
      /\ \A x \in s : \E i \in 1..Len(f) : f[i].signal = x /\ f[i].armed /\ f[i].done
  BY <1>0, <1>1 DEF InFlight
<1>9. \A i \in 1..Len(f1) : f1[i].signal = r.signals[place(r.oldestSignal, i, Len(r.signals))]
  BY <1>4, <1>6, <1>7, <1>8
<1>10. \A x \in s : \E i \in 1..Len(f1) : f1[i].signal = x /\ f1[i].armed /\ f1[i].done
  BY <1>6, <1>7, <1>8
<1>11. Len(f1) > 0 /\ r1.signal = f1[Len(f1)].signal
  BY <1>0, <1>2, <1>4, <1>6
<1>12. InFlight(r1, f1, s)
  BY <1>2, <1>6, <1>8, <1>9, <1>10, <1>11 DEF InFlight, Storing
<1>13. Limited(r1, settings[t].MaxInFlight)
  BY <1>0, <1>2 DEF Limited, Publishing
<1>14. flying' \in [Tracks -> Seq(Beats)]
  BY <1>0, <1>5, <1>6
<1> QED BY <1>p, <1>0, <1>12, <1>13, <1>14

\* The oldest beat in flight has finished when its signal is received, and the
\* ring turns.
LEMMA FinishedInFlight ==
  ASSUME TypeInv, RingInv, NEW t \in Tracks, Finished(t)
  PROVE  /\ flying' \in [Tracks -> Seq(Beats)] /\ sent' \in [Tracks -> SUBSET Nat]
         /\ InFlight(track'[t], flying'[t], sent'[t])
         /\ Limited(track'[t], settings[t].MaxInFlight)
         /\ Len(flying[t]) > 0 /\ flying[t][1].done
<1>p. PICK r, r1, f, f1, s, s1 : /\ r = track[t] /\ r1 = track'[t] /\ f = flying[t]
                                 /\ f1 = flying'[t] /\ s = sent[t] /\ s1 = sent'[t]
  OBVIOUS
<1>0. /\ track[t] \in TrackStates /\ Ring(r) /\ settings \in Configs
      /\ flying \in [Tracks -> Seq(Beats)] /\ f \in Seq(Beats) /\ Len(f) \in Nat
      /\ sent \in [Tracks -> SUBSET Nat]
      /\ InFlight(r, f, s) /\ Limited(r, settings[t].MaxInFlight)
  BY <1>p, LenProperties DEF TypeInv, Types, RingInv
<1>1. /\ r.pc = "select" /\ r.inFlightCount > 0 /\ r1.signals = r.signals
      /\ r1.oldestSignal = afterOldest(t) /\ r1.inFlightCount = r.inFlightCount - 1
      /\ r1.pc = next(t, r.deadlineReached, r.inFlightCount - 1)
      /\ r1.pc \in {"select", "lock"}
  BY <1>p, FinishedTrack
<1>2. PICK n, o : n = Len(r.signals) /\ o = r.oldestSignal
  OBVIOUS
<1>3. /\ n \in Nat /\ n > 0 /\ o \in Nat /\ o < n /\ r.inFlightCount \in Nat /\ r.inFlightCount <= n
      /\ r.signals \in Seq(Nat)
      /\ \A i, j \in 1..n : r.signals[i] = r.signals[j] => i = j
  BY <1>p, <1>0, <1>2, LenProperties DEF Ring, TrackStates
<1>4. /\ r.inFlightCount = Len(f)
      /\ \A i \in 1..Len(f) : f[i].signal = r.signals[place(o, i, n)]
      /\ \A x \in s : \E i \in 1..Len(f) : f[i].signal = x /\ f[i].armed /\ f[i].done
  BY <1>0, <1>1, <1>2 DEF InFlight
<1>5. Len(f) > 0 /\ Len(f) <= n /\ 1 \in 1..Len(f) /\ f # <<>>
  BY <1>0, <1>1, <1>3, <1>4
<1>6. f1 = Tail(f) /\ flying' = [flying EXCEPT ![t] = f1]
  BY <1>p, <1>0 DEF Finished
<1>7. /\ f1 \in Seq(Beats) /\ Len(f1) = Len(f) - 1
      /\ \A i \in 1..Len(f1) : f1[i] = f[i + 1]
  BY <1>0, <1>5, <1>6, HeadTailProperties
<1>8. oldest(t) = f[1].signal
  <2>1. place(o, 1, n) = o + 1
    BY <1>3 DEF place
  <2> QED BY <1>p, <1>2, <1>4, <1>5, <2>1 DEF oldest
<1>9. /\ oldest(t) \in s /\ s1 = s \ {oldest(t)} /\ sent' = [sent EXCEPT ![t] = s1]
  BY <1>p, <1>0 DEF Finished
<1>10. f[1].done
  <2>1. PICK i \in 1..Len(f) : f[i].signal = oldest(t) /\ f[i].done
    BY <1>4, <1>9
  <2>2. i \in 1..n /\ 1 \in 1..n
    BY <1>3, <1>5
  <2>3. place(o, i, n) \in 1..n /\ place(o, 1, n) \in 1..n
    BY <1>3, <2>2, Places1
  <2>4. place(o, i, n) = place(o, 1, n)
    <3>1. PICK k, l : k = place(o, i, n) /\ l = place(o, 1, n)
      OBVIOUS
    <3>2. k \in 1..n /\ l \in 1..n
      BY <2>3, <3>1
    <3>3. r.signals[k] = oldest(t)
      BY <1>4, <2>1, <3>1
    <3>4. r.signals[l] = oldest(t)
      BY <1>4, <1>5, <1>8, <3>1
    <3> QED BY <1>3, <3>1, <3>2, <3>3, <3>4
  <2>5. i = 1
    BY <1>3, <2>2, <2>4, Places1
  <2> QED BY <2>1, <2>5
<1>11. \A i \in 1..Len(f1) : i + 1 \in 1..Len(f) /\ i \in 1..n - 1
  BY <1>0, <1>5, <1>7, <1>3
<1>12. \A i \in 1..Len(f1) : f1[i].signal = r1.signals[place(r1.oldestSignal, i, Len(r1.signals))]
  <2>1. r1.oldestSignal = (o + 1) % n /\ Len(r1.signals) = n
    BY <1>p, <1>1, <1>2 DEF afterOldest
  <2>2. \A i \in 1..n - 1 : place(r1.oldestSignal, i, n) = place(o, i + 1, n)
    BY <1>3, <2>1, Turned
  <2>3. ASSUME NEW i \in 1..Len(f1)
        PROVE  f1[i].signal = r1.signals[place(r1.oldestSignal, i, Len(r1.signals))]
    <3>1. f1[i] = f[i + 1] /\ i + 1 \in 1..Len(f) /\ place(r1.oldestSignal, i, n) = place(o, i + 1, n)
      BY <1>7, <1>11, <2>2
    <3> QED BY <1>1, <1>4, <2>1, <3>1
  <2> QED BY <2>3
<1>13. \A x \in s1 : \E i \in 1..Len(f1) : f1[i].signal = x /\ f1[i].armed /\ f1[i].done
  <2> SUFFICES ASSUME NEW x \in s1
               PROVE  \E i \in 1..Len(f1) : f1[i].signal = x /\ f1[i].armed /\ f1[i].done
    OBVIOUS
  <2>1. x \in s /\ x # f[1].signal
    BY <1>8, <1>9
  <2>2. PICK i \in 1..Len(f) : f[i].signal = x /\ f[i].armed /\ f[i].done
    BY <1>4, <2>1
  <2>3. i # 1
    BY <2>1, <2>2
  <2>4. i - 1 \in 1..Len(f1) /\ (i - 1) + 1 = i
    BY <1>0, <1>7, <2>3
  <2>5. f1[i - 1] = f[i]
    BY <1>7, <2>4
  <2> QED BY <2>2, <2>4, <2>5
<1>14. InFlight(r1, f1, s1)
  <2>1. r1.inFlightCount = Len(f1)
    BY <1>1, <1>4, <1>7
  <2> QED BY <1>1, <1>12, <1>13, <2>1 DEF InFlight, Storing
<1>15. Limited(r1, settings[t].MaxInFlight)
  <2>1. PICK m \in Nat : m = settings[t].MaxInFlight
    BY <1>0, Settings
  <2>2. r1.pc = "lock" => m = 0 \/ r.inFlightCount - 1 < m
    BY <1>1, <2>1 DEF next
  <2>3. m > 0 => r.inFlightCount - 1 <= m
    BY <1>0, <1>3, <2>1 DEF Limited
  <2> QED BY <1>1, <2>1, <2>2, <2>3 DEF Limited, Publishing
<1>16. flying' \in [Tracks -> Seq(Beats)] /\ sent' \in [Tracks -> SUBSET Nat]
  <2>1. s1 \subseteq Nat
    BY <1>p, <1>0, <1>9
  <2> QED BY <1>0, <1>6, <1>7, <1>9, <2>1
<1> QED BY <1>p, <1>5, <1>10, <1>14, <1>15, <1>16

\* A signal is taken from the ring for the beat about to be published.
LEMMA StampInFlight ==
  ASSUME TypeInv, RingInv, NEW t \in Tracks, Stamp(t)
  PROVE  /\ UNCHANGED <<flying, sent>>
         /\ InFlight(track'[t], flying[t], sent[t])
         /\ Limited(track'[t], settings[t].MaxInFlight)
<1>p. PICK r, r1, f, s, g : /\ r = track[t] /\ r1 = track'[t] /\ f = flying[t] /\ s = sent[t]
                            /\ g = growSignals(r)
  OBVIOUS
<1>0. /\ r \in TrackStates /\ Ring(r) /\ settings \in Configs
      /\ f \in Seq(Beats) /\ Len(f) \in Nat
      /\ InFlight(r, f, s) /\ Limited(r, settings[t].MaxInFlight)
  BY <1>p, LenProperties DEF TypeInv, Types, RingInv
<1>1. UNCHANGED <<flying, sent>> /\ r.pc = "stamp"
  BY <1>p DEF Stamp, beats
<1>2. /\ r1.pc = "publish" /\ r1.inFlightCount = r.inFlightCount + 1
      /\ r1.signals = g.signals /\ r1.oldestSignal = g.oldestSignal
      /\ r1.signal = g.signals[place(g.oldestSignal, r.inFlightCount + 1, Len(g.signals))]
  BY <1>p, Stamped
<1>3. \A i \in 1..r.inFlightCount :
        g.signals[place(g.oldestSignal, i, Len(g.signals))]
          = r.signals[place(r.oldestSignal, i, Len(r.signals))]
  BY <1>p, <1>0, Grown
<1>4. /\ r.inFlightCount = Len(f)
      /\ \A i \in 1..Len(f) : f[i].signal = r.signals[place(r.oldestSignal, i, Len(r.signals))]
      /\ \A x \in s : \E i \in 1..Len(f) : f[i].signal = x /\ f[i].armed /\ f[i].done
  BY <1>0, <1>1 DEF InFlight
<1>5. \A i \in 1..Len(f) : f[i].signal = r1.signals[place(r1.oldestSignal, i, Len(r1.signals))]
  BY <1>2, <1>3, <1>4
<1>6. InFlight(r1, f, s)
  BY <1>2, <1>4, <1>5 DEF InFlight, Storing
<1>7. Limited(r1, settings[t].MaxInFlight)
  <2>1. PICK m \in Nat : m = settings[t].MaxInFlight
    BY <1>0, Settings
  <2>2. m > 0 => r.inFlightCount < m
    BY <1>0, <1>1, <2>1 DEF Limited, Publishing
  <2>3. m > 0 => r1.inFlightCount <= m
    BY <1>0, <1>2, <1>4, <2>1, <2>2
  <2> QED BY <1>2, <2>1, <2>3 DEF Limited, Publishing
<1> QED BY <1>p, <1>1, <1>6, <1>7

\* One beat in flight is changed, and a token sent for it only if it is armed
\* and has finished.
LEMMA BeatChanged ==
  ASSUME NEW r, NEW f \in Seq(Beats), NEW tokens, InFlight(r, f, tokens),
         NEW i \in 1..Len(f), NEW b \in Beats, b.signal = f[i].signal,
         f[i].armed => b.armed, f[i].done => b.done,
         NEW more, more \subseteq {b.signal}, more # {} => b.armed /\ b.done
  PROVE  /\ [f EXCEPT ![i] = b] \in Seq(Beats)
         /\ InFlight(r, [f EXCEPT ![i] = b], tokens \cup more)
<1>1. PICK f1 : f1 = [f EXCEPT ![i] = b]
  OBVIOUS
<1>2. /\ f1 \in Seq(Beats) /\ Len(f1) = Len(f) /\ Len(f) \in Nat
      /\ \A j \in 1..Len(f) : f1[j] = IF j = i THEN b ELSE f[j]
  BY <1>1, ExceptSeq, LenProperties
<1>3. \A j \in 1..Len(f) : /\ f1[j].signal = f[j].signal
                           /\ f[j].armed => f1[j].armed
                           /\ f[j].done => f1[j].done
  BY <1>2
<1>4. \A x \in tokens \cup more : \E j \in 1..Len(f1) :
        f1[j].signal = x /\ f1[j].armed /\ f1[j].done
  <2>1. ASSUME NEW x \in tokens
        PROVE  \E j \in 1..Len(f1) : f1[j].signal = x /\ f1[j].armed /\ f1[j].done
    <3>1. PICK j \in 1..Len(f) : f[j].signal = x /\ f[j].armed /\ f[j].done
      BY <2>1 DEF InFlight
    <3> QED BY <1>2, <1>3, <3>1
  <2>2. ASSUME NEW x \in more
        PROVE  \E j \in 1..Len(f1) : f1[j].signal = x /\ f1[j].armed /\ f1[j].done
    <3>1. f1[i] = b
      BY <1>2
    <3> QED BY <1>2, <2>2, <3>1
  <2> QED BY <2>1, <2>2
<1>5. \A j \in 1..Len(f1) : f1[j].signal = r.signals[place(r.oldestSignal, j, Len(r.signals))]
  BY <1>2, <1>3 DEF InFlight
<1>6. r.pc \in Storing \cup {"notify"} => Len(f1) > 0 /\ r.signal = f1[Len(f1)].signal
  <2>1. Len(f) > 0 => Len(f) \in 1..Len(f)
    BY <1>2
  <2> QED BY <1>2, <1>3, <2>1 DEF InFlight
<1>7. /\ r.inFlightCount = IF r.pc = "publish" THEN Len(f1) + 1 ELSE Len(f1)
      /\ r.pc = "publish" => r.signal = r.signals[place(r.oldestSignal, r.inFlightCount, Len(r.signals))]
  BY <1>2 DEF InFlight
<1>8. InFlight(r, f1, tokens \cup more)
  BY <1>4, <1>5, <1>6, <1>7 DEF InFlight
<1> QED BY <1>1, <1>2, <1>8

\* A goroutine between beats, or with its beat published, leaves the ring alone.
LEMMA KeptInFlight ==
  ASSUME NEW r, NEW r1, NEW f, NEW tokens, NEW limit,
         InFlight(r, f, tokens), Limited(r, limit),
         r1.signals = r.signals, r1.oldestSignal = r.oldestSignal,
         r1.inFlightCount = r.inFlightCount, r.pc # "publish", r1.pc # "publish",
         r1.pc \in Storing \cup {"notify"} =>
           r.pc \in Storing \cup {"notify"} /\ r1.signal = r.signal,
         r1.pc \in Publishing /\ limit > 0 => r.pc \in Publishing \/ r.inFlightCount < limit
  PROVE  InFlight(r1, f, tokens) /\ Limited(r1, limit)
<1>1. Limited(r1, limit)
  BY DEF Limited
<1>2. InFlight(r1, f, tokens)
  BY DEF InFlight
<1> QED BY <1>1, <1>2

\* Kernel.Notify arms the signal of the beat just published.
LEMMA NotifyInFlight ==
  ASSUME TypeInv, RingInv, NEW t \in Tracks, Notify(t)
  PROVE  /\ flying' \in [Tracks -> Seq(Beats)] /\ sent' \in [Tracks -> SUBSET Nat]
         /\ InFlight(track'[t], flying'[t], sent'[t])
         /\ Limited(track'[t], settings[t].MaxInFlight)
<1>p. PICK r, r1, f, s, n : /\ r = track[t] /\ r1 = track'[t] /\ f = flying[t] /\ s = sent[t]
                            /\ n = Len(f)
  OBVIOUS
<1>0. /\ track \in [Tracks -> TrackStates] /\ r \in TrackStates
      /\ flying \in [Tracks -> Seq(Beats)] /\ f \in Seq(Beats) /\ n \in Nat
      /\ sent \in [Tracks -> SUBSET Nat] /\ s \subseteq Nat
      /\ InFlight(r, f, s) /\ Limited(r, settings[t].MaxInFlight)
  BY <1>p, LenProperties DEF TypeInv, Types, RingInv
<1>1. r.pc = "notify" /\ n > 0 /\ n \in 1..Len(f) /\ r.signal = f[n].signal
  <2>1. r.pc = "notify"
    BY <1>p DEF Notify
  <2> QED BY <1>p, <1>0, <2>1 DEF InFlight
<1>2. PICK b, more : /\ b = [f[n] EXCEPT !.armed = TRUE]
                     /\ more = IF f[n].done THEN {r.signal} ELSE {}
  OBVIOUS
<1>3. f[n] \in Beats
  BY <1>0, <1>1, ElementOfSeq
<1>4. b \in Beats /\ b.signal = f[n].signal /\ b.armed /\ b.done = f[n].done
  BY <1>2, <1>3 DEF Beats
<1>5. more \subseteq {b.signal} /\ (more # {} => b.armed /\ b.done)
  BY <1>1, <1>2, <1>4
<1>6. PICK f1 : f1 = [f EXCEPT ![n] = b]
  OBVIOUS
<1>7. f1 \in Seq(Beats) /\ InFlight(r, f1, s \cup more)
  BY <1>0, <1>1, <1>4, <1>5, <1>6, BeatChanged
<1>8. flying' = [flying EXCEPT ![t] = f1]
  BY <1>p, <1>0, <1>2, <1>6 DEF Notify
<1>9. sent' = [sent EXCEPT ![t] = s \cup more]
  <2>1. CASE f[n].done
    BY <1>p, <1>0, <1>2, <2>1 DEF Notify
  <2>2. CASE ~f[n].done
    <3>1. sent' = sent /\ s \cup more = s
      BY <1>p, <1>2, <2>2 DEF Notify
    <3> QED BY <1>p, <1>0, <3>1
  <2> QED BY <2>1, <2>2
<1>10. flying'[t] = f1 /\ sent'[t] = s \cup more
  BY <1>0, <1>8, <1>9
<1>11. /\ r1.signals = r.signals /\ r1.oldestSignal = r.oldestSignal
       /\ r1.inFlightCount = r.inFlightCount /\ r1.pc \in {"reset", "select"}
  BY <1>p, <1>0 DEF Notify, TrackStates
<1>12. InFlight(r1, f1, s \cup more) /\ Limited(r1, settings[t].MaxInFlight)
  <2>1. /\ r.pc # "publish" /\ r1.pc # "publish"
        /\ r1.pc \notin Storing \cup {"notify"} /\ r1.pc \notin Publishing
    BY <1>1, <1>11 DEF Storing, Publishing
  <2>2. PICK tokens : tokens = s \cup more
    OBVIOUS
  <2>3. InFlight(r, f1, tokens) /\ Limited(r, settings[t].MaxInFlight)
    BY <1>0, <1>7, <2>2
  <2> QED BY <1>11, <2>1, <2>2, <2>3, KeptInFlight
<1>13. s \cup more \subseteq Nat
  <2>1. r.signal \in Nat
    BY <1>0 DEF TrackStates
  <2> QED BY <1>0, <1>2, <2>1
<1> QED BY <1>p, <1>0, <1>7, <1>8, <1>9, <1>10, <1>12, <1>13

\* The kernel finishes a beat.
LEMMA FinishInFlight ==
  ASSUME TypeInv, RingInv, NEW t \in Tracks, NEW i \in DOMAIN flying[t], Finish(t, i)
  PROVE  RingInv'
<1>p. PICK r, f, s : r = track[t] /\ f = flying[t] /\ s = sent[t]
  OBVIOUS
<1>0. /\ flying \in [Tracks -> Seq(Beats)] /\ f \in Seq(Beats) /\ Len(f) \in Nat
      /\ sent \in [Tracks -> SUBSET Nat] /\ s \subseteq Nat
      /\ InFlight(r, f, s) /\ UNCHANGED <<settings, track>>
  BY <1>p, LenProperties DEF TypeInv, Types, RingInv, Finish, busyTrack
<1>1. i \in 1..Len(f) /\ f[i] \in Beats
  <2>1. i \in 1..Len(f)
    BY <1>p, <1>0, LenProperties
  <2> QED BY <1>0, <2>1, ElementOfSeq
<1>2. PICK b, more : /\ b = [f[i] EXCEPT !.done = TRUE]
                     /\ more = IF f[i].armed THEN {f[i].signal} ELSE {}
  OBVIOUS
<1>4. b \in Beats /\ b.signal = f[i].signal /\ b.done /\ b.armed = f[i].armed
  BY <1>1, <1>2 DEF Beats
<1>5. more \subseteq {b.signal} /\ (more # {} => b.armed /\ b.done)
  BY <1>2, <1>4
<1>6. PICK f1 : f1 = [f EXCEPT ![i] = b]
  OBVIOUS
<1>7. f1 \in Seq(Beats) /\ InFlight(r, f1, s \cup more)
  BY <1>0, <1>1, <1>4, <1>5, <1>6, BeatChanged
<1>8. flying' = [flying EXCEPT ![t] = f1]
  BY <1>p, <1>0, <1>2, <1>6 DEF Finish
<1>9. sent' = [sent EXCEPT ![t] = s \cup more]
  <2>1. CASE f[i].armed
    BY <1>p, <1>0, <1>2, <2>1 DEF Finish
  <2>2. CASE ~f[i].armed
    <3>1. sent' = sent /\ s \cup more = s
      BY <1>p, <1>2, <2>2 DEF Finish
    <3> QED BY <1>p, <1>0, <3>1
  <2> QED BY <2>1, <2>2
<1>10. s \cup more \subseteq Nat
  <2>1. f[i].signal \in Nat
    BY <1>1 DEF Beats
  <2> QED BY <1>0, <1>2, <2>1
<1>11. flying' \in [Tracks -> Seq(Beats)] /\ sent' \in [Tracks -> SUBSET Nat]
  BY <1>0, <1>7, <1>8, <1>9, <1>10
<1>12. ASSUME NEW u \in Tracks
       PROVE  InFlight(track[u], flying'[u], sent'[u])
  <2>1. CASE u = t
    BY <1>p, <1>0, <1>7, <1>8, <1>9, <2>1
  <2>2. CASE u # t
    BY <1>0, <1>8, <1>9, <2>2 DEF RingInv
  <2> QED BY <2>1, <2>2
<1> QED BY <1>0, <1>11, <1>12 DEF RingInv

\* The other steps of a goroutine leave the beats in flight as they are.
LEMMA OthersInFlight ==
  ASSUME TypeInv, RingInv, NEW t \in Tracks, run(t),
         ~Stamp(t), ~Publish(t), ~Finished(t), ~Notify(t)
  PROVE  /\ UNCHANGED <<flying, sent>>
         /\ InFlight(track'[t], flying[t], sent[t])
         /\ Limited(track'[t], settings[t].MaxInFlight)
<1>p. PICK r, r1 : r = track[t] /\ r1 = track'[t]
  OBVIOUS
<1>0. /\ track \in [Tracks -> TrackStates] /\ r \in TrackStates /\ settings \in Configs
      /\ InFlight(r, flying[t], sent[t]) /\ Limited(r, settings[t].MaxInFlight)
  BY <1>p DEF TypeInv, Types, RingInv
<1>1. UNCHANGED <<flying, sent>>
  BY DEF run, Fired, Stopped, StopTimer, EndTrack, publishDue, Lock, LoadVersion, LoadTick,
         LoadDeadline, LoadCheck, load, BeginStore, StoreTick, StoreDeadline, EndStore, store,
         ResetTimer, beats
<1> DEFINE Kept == /\ r1.signals = r.signals /\ r1.oldestSignal = r.oldestSignal
                   /\ r1.inFlightCount = r.inFlightCount /\ r1.signal = r.signal
<1>2. CASE Fired(t)
  <2>1. PICK pc : pc = next(t, TRUE, r.inFlightCount)
    OBVIOUS
  <2>2. r1 = [r EXCEPT !.deadlineReached = TRUE, !.pc = pc] /\ r.pc = "select"
    BY <1>p, <1>0, <1>2, <2>1 DEF Fired
  <2>3. Kept /\ r1.pc = pc
    BY <1>0, <2>2 DEF TrackStates
  <2>4. pc = "select" \/ (pc = "lock" /\ (settings[t].MaxInFlight > 0 =>
                                            r.inFlightCount < settings[t].MaxInFlight))
    BY <1>0, <2>1, Settings DEF next
  <2>5. /\ r.pc # "publish" /\ r1.pc # "publish" /\ r1.pc \notin Storing \cup {"notify"}
        /\ r1.pc \in Publishing /\ settings[t].MaxInFlight > 0 =>
             r.inFlightCount < settings[t].MaxInFlight
    BY <2>2, <2>3, <2>4 DEF Storing, Publishing
  <2>6. InFlight(r1, flying[t], sent[t]) /\ Limited(r1, settings[t].MaxInFlight)
    BY <1>0, <2>3, <2>5, KeptInFlight
  <2> QED BY <1>p, <1>1, <2>6
<1>3. CASE Stopped(t) \/ StopTimer(t) \/ EndTrack(t) \/ ResetTimer(t)
  <2>1. /\ Kept /\ r.pc \in {"select", "stopTimer", "end", "reset"}
        /\ r1.pc \in {"stopTimer", "end", "ended", "select"}
    BY <1>p, <1>0, <1>3 DEF Stopped, StopTimer, EndTrack, ResetTimer, go, TrackStates
  <2> QED BY <1>p, <1>0, <1>1, <2>1, KeptInFlight DEF Storing, Publishing
<1>4. CASE Lock(t) \/ LoadVersion(t) \/ LoadTick(t) \/ LoadDeadline(t) \/ LoadCheck(t)
  <2>1. Kept /\ r.pc \in Publishing /\ r1.pc \in Publishing
    <3>1. CASE Lock(t)
      BY <1>p, <1>0, <3>1 DEF Lock, go, TrackStates, Publishing
    <3>2. CASE LoadVersion(t) \/ LoadTick(t) \/ LoadDeadline(t) \/ LoadCheck(t)
      BY <1>p, <3>2, LoadedTrack DEF Publishing
    <3> QED BY <1>4, <3>1, <3>2
  <2> QED BY <1>p, <1>0, <1>1, <2>1, KeptInFlight DEF Storing, Publishing
<1>5. CASE BeginStore(t) \/ StoreTick(t) \/ StoreDeadline(t) \/ EndStore(t)
  <2>1. Kept /\ r.pc \in Storing /\ r1.pc \in Storing \cup {"notify"}
    BY <1>p, <1>0, <1>5
       DEF BeginStore, StoreTick, StoreDeadline, EndStore, store, go, TrackStates, Storing
  <2> QED BY <1>p, <1>0, <1>1, <2>1, KeptInFlight DEF Storing, Publishing
<1> QED BY <1>2, <1>3, <1>4, <1>5 DEF run, publishDue

\* The invariant of the beats in flight holds.
THEOREM RingsHold == Spec => []RingInv
<1>1. Init => RingInv
  <2> SUFFICES ASSUME Init PROVE RingInv
    OBVIOUS
  <2>1. flying \in [Tracks -> Seq(Beats)] /\ sent \in [Tracks -> SUBSET Nat]
    BY DEF Init
  <2>2. ASSUME NEW t \in Tracks
        PROVE  InFlight(track[t], flying[t], sent[t]) /\ Limited(track[t], settings[t].MaxInFlight)
    <3>1. /\ track[t].pc = "new" /\ track[t].inFlightCount = 0
          /\ flying[t] = <<>> /\ sent[t] = {} /\ settings \in Configs
      BY DEF Init
    <3>2. Len(flying[t]) = 0 /\ 1..0 = {}
      BY <3>1
    <3>3. InFlight(track[t], flying[t], sent[t])
      BY <3>1, <3>2 DEF InFlight, Storing
    <3> QED BY <3>1, <3>3, Settings DEF Limited, Publishing
  <2> QED BY <2>1, <2>2 DEF RingInv
<1>2. ASSUME TypeInv, TypeInv', TimeInv, RingInv, [Next]_vars
      PROVE  RingInv'
  <2>0. /\ track \in [Tracks -> TrackStates]
        /\ flying \in [Tracks -> Seq(Beats)] /\ sent \in [Tracks -> SUBSET Nat]
    BY <1>2 DEF TypeInv, Types, RingInv
  <2>1. ASSUME NEW a \in Tracks, run(a)
        PROVE  RingInv'
    <3>1. settings' = settings
      BY <2>1 DEF run, Fired, Finished, Stopped, StopTimer, EndTrack, publishDue, Lock, LoadVersion,
           LoadTick, LoadDeadline, LoadCheck, load, Stamp, Publish, BeginStore, StoreTick,
           StoreDeadline, EndStore, store, Notify, ResetTimer, busyTrack
    <3>2. /\ flying' \in [Tracks -> Seq(Beats)] /\ sent' \in [Tracks -> SUBSET Nat]
          /\ InFlight(track'[a], flying'[a], sent'[a])
          /\ Limited(track'[a], settings[a].MaxInFlight)
      <4>1. CASE Stamp(a)
        BY <1>2, <2>0, <2>1, <4>1, StampInFlight
      <4>2. CASE Publish(a)
        BY <1>2, <2>1, <4>2, PublishInFlight
      <4>3. CASE Finished(a)
        BY <1>2, <2>1, <4>3, FinishedInFlight
      <4>4. CASE Notify(a)
        BY <1>2, <2>1, <4>4, NotifyInFlight
      <4>5. CASE ~Stamp(a) /\ ~Publish(a) /\ ~Finished(a) /\ ~Notify(a)
        BY <1>2, <2>0, <2>1, <4>5, OthersInFlight
      <4> QED BY <4>1, <4>2, <4>3, <4>4, <4>5
    <3>3. ASSUME NEW t \in Tracks, t # a
          PROVE  track'[t] = track[t] /\ flying'[t] = flying[t] /\ sent'[t] = sent[t]
      <4>1. track'[t] = track[t]
        BY <1>2, <2>0, <2>1, <3>3, GoroutineTypes
      <4>2. CASE Stamp(a)
        BY <1>2, <2>1, <4>1, <4>2, StampInFlight
      <4>3. CASE Publish(a) \/ Finished(a) \/ Notify(a)
        BY <2>0, <3>3, <4>1, <4>3 DEF Publish, Finished, Notify
      <4>4. CASE ~Stamp(a) /\ ~Publish(a) /\ ~Finished(a) /\ ~Notify(a)
        BY <1>2, <2>1, <4>1, <4>4, OthersInFlight
      <4> QED BY <4>2, <4>3, <4>4
    <3>4. ASSUME NEW t \in Tracks
          PROVE  InFlight(track'[t], flying'[t], sent'[t]) /\ Limited(track'[t], settings[t].MaxInFlight)
      <4>1. CASE t = a
        BY <3>2, <4>1
      <4>2. CASE t # a
        BY <1>2, <3>3, <4>2 DEF RingInv
      <4> QED BY <4>1, <4>2
    <3> QED BY <3>1, <3>2, <3>4 DEF RingInv
  <2>2. CASE Start
    <3>1. UNCHANGED <<settings, flying, sent>>
      BY <2>2 DEF Start, plugin, beats
    <3>2. ASSUME NEW t \in Tracks
          PROVE  InFlight(track'[t], flying[t], sent[t]) /\ Limited(track'[t], settings[t].MaxInFlight)
      <4>1. /\ track[t] \in TrackStates
            /\ track'[t] = [track[t] EXCEPT !.running = TRUE, !.pc = "select"]
        BY <1>2, <2>2 DEF Start, TypeInv, Types
      <4>2. /\ track'[t].signals = track[t].signals /\ track'[t].oldestSignal = track[t].oldestSignal
            /\ track'[t].inFlightCount = track[t].inFlightCount /\ track'[t].pc = "select"
        BY <4>1 DEF TrackStates
      <4>3. track[t].pc = "new"
        BY <1>2, <2>2 DEF Start, TimeInv
      <4>4. /\ InFlight(track[t], flying[t], sent[t])
            /\ Limited(track[t], settings[t].MaxInFlight)
        BY <1>2 DEF RingInv
      <4>5. /\ track[t].pc # "publish" /\ track'[t].pc # "publish"
            /\ track'[t].pc \notin Storing \cup {"notify"} /\ track'[t].pc \notin Publishing
        BY <4>2, <4>3 DEF Storing, Publishing
      <4> QED BY <4>2, <4>4, <4>5, KeptInFlight
    <3> QED BY <1>2, <3>1, <3>2 DEF RingInv
  <2>3. CASE \/ Wait \/ GiveUp \/ waiting
             \/ \E d \in Durations : Advance(d) \/ Jump(d)
    BY <1>2, <2>3, DriverTypes DEF RingInv, beats, TypeInv
  <2>4. CASE \E t \in Tracks : \E i \in DOMAIN flying[t] : Finish(t, i)
    BY <1>2, <2>4, FinishInFlight
  <2>5. CASE Stop \/ stopping \/ AllOver \/ UNCHANGED vars
    <3>1. UNCHANGED <<settings, track, flying, sent>>
      BY <2>5 DEF Stop, stopping, CloseStop, Join, plugin, AllOver, vars, beats
    <3> QED BY <1>2, <3>1 DEF RingInv
  <2> QED BY <1>2, <2>1, <2>2, <2>3, <2>4, <2>5 DEF Next
<1> QED BY <1>1, <1>2, TypesHold, TimeHolds, PTL DEF Spec

\* The ring of reused signals tells its beats: the signals of the beats in
\* flight are those from the oldest on, in the order of the beats, a token is
\* there only for a beat that has finished, and a limited track never has more
\* in flight than its limit (track.run, publishDue, growSignals).
THEOREM SignalsTell == Spec => []SignalsTellTheirBeat
<1>1. ASSUME TypeInv, RingInv
      PROVE  SignalsTellTheirBeat
  <2> SUFFICES ASSUME NEW t \in Tracks
               PROVE  LET r == track[t] IN
                 /\ \A i \in DOMAIN flying[t] :
                      flying[t][i].signal = r.signals[((r.oldestSignal + i - 1) % Len(r.signals)) + 1]
                 /\ \A s \in sent[t] : \E i \in DOMAIN flying[t] :
                      flying[t][i].signal = s /\ flying[t][i].armed /\ flying[t][i].done
                 /\ settings[t].MaxInFlight > 0 => Len(flying[t]) <= settings[t].MaxInFlight
    BY DEF SignalsTellTheirBeat
  <2>p. PICK r, f, n, o : r = track[t] /\ f = flying[t] /\ n = Len(r.signals) /\ o = r.oldestSignal
    OBVIOUS
  <2>0. /\ r \in TrackStates /\ Ring(r) /\ settings \in Configs
        /\ f \in Seq(Beats) /\ Len(f) \in Nat /\ DOMAIN f = 1..Len(f)
        /\ InFlight(r, f, sent[t]) /\ Limited(r, settings[t].MaxInFlight)
    BY <1>1, <2>p, LenProperties DEF TypeInv, Types, RingInv
  <2>1. /\ n \in Nat /\ n > 0 /\ o \in Nat /\ o < n
        /\ r.inFlightCount \in Nat /\ r.inFlightCount <= n
    BY <2>0, <2>p, LenProperties DEF Ring, TrackStates
  <2>2. Len(f) <= r.inFlightCount
    BY <2>0 DEF InFlight
  <2>3. ASSUME NEW i \in 1..Len(f)
        PROVE  f[i].signal = r.signals[((o + i - 1) % n) + 1]
    <3>1. i - 1 \in Nat /\ i - 1 < n /\ (i - 1) + 1 = i /\ o + (i - 1) = o + i - 1
      BY <2>0, <2>1, <2>2
    <3>2. ((o + (i - 1)) % n) + 1 = place(o, (i - 1) + 1, n)
      BY <2>1, <3>1, Slot
    <3>3. f[i].signal = r.signals[place(o, i, n)]
      BY <2>0, <2>p DEF InFlight
    <3> QED BY <3>1, <3>2, <3>3
  <2>4. \A s \in sent[t] : \E i \in 1..Len(f) : f[i].signal = s /\ f[i].armed /\ f[i].done
    BY <2>0 DEF InFlight
  <2>5. settings[t].MaxInFlight > 0 => Len(f) <= settings[t].MaxInFlight
    <3>1. PICK m \in Nat : m = settings[t].MaxInFlight
      BY <2>0, Settings
    <3>2. m > 0 => r.inFlightCount <= m
      BY <2>0, <3>1 DEF Limited
    <3> QED BY <2>0, <2>1, <2>2, <3>1, <3>2
  <2> QED BY <2>0, <2>p, <2>3, <2>4, <2>5
<1> QED BY <1>1, TypesHold, RingsHold, PTL

\* A track frees a slot only for a beat that has finished: the token its
\* goroutine receives was sent for the oldest beat in flight, though signals
\* are reused and their ring grows meanwhile (track.run, growSignals).
FreesFinishedBeat ==
  [][\A t \in Tracks : Finished(t) => flying[t] # <<>> /\ flying[t][1].done]_vars

\* The receive of a signal frees the slot of a beat that has finished
\* (track.run).
THEOREM SlotsFreed == Spec => FreesFinishedBeat
<1> DEFINE A == \A t \in Tracks : Finished(t) => flying[t] # <<>> /\ flying[t][1].done
<1>1. ASSUME TypeInv, RingInv
      PROVE  A
  <2> SUFFICES ASSUME NEW t \in Tracks, Finished(t)
               PROVE  flying[t] # <<>> /\ flying[t][1].done
    OBVIOUS
  <2>1. Len(flying[t]) > 0 /\ flying[t][1].done
    BY <1>1, FinishedInFlight
  <2>2. flying[t] \in Seq(Beats)
    BY <1>1 DEF RingInv
  <2> QED BY <2>1, <2>2, EmptySeq
<1>2. TypeInv /\ RingInv => [A]_vars
  BY <1>1
<1> QED BY <1>2, TypesHold, RingsHold, PTL DEF Spec, FreesFinishedBeat

=============================================================================
