------------------------------ MODULE Metronome ------------------------------
(***************************************************************************)
(* metronome on a ManualClock (metronome/track.go, plugin.go,              *)
(* manualclock.go): the goroutine of each track, the clock's timers, a     *)
(* driver that moves the clock with Advance and Jump and waits for the     *)
(* tracks, and the plugin's Start and Stop.                                *)
(*                                                                         *)
(* What is done under the clock's mutex is one step.  The plugin's mutex   *)
(* is explicit where a track holds it over several steps.  Every access to *)
(* the published tick, which takes no mutex, is a step.  The kernel is     *)
(* reduced to beats that finish in any order; JobGraph.tla has its signals. *)
(***************************************************************************)
EXTENDS Integers, Sequences, FiniteSets, SequencesExt

CONSTANTS
  Tracks,
  NoTrack,
  Configs,   \* the settings the tracks may be given, each a function of Tracks
  Durations, \* what the clock is moved by
  MaxCalls,  \* bound: calls of Advance and Jump
  MaxTime    \* bound: how far they move the clock

\* What NewTrack lets through, and what Start requires of a reference.
ASSUME MetronomeAssumption ==
  /\ NoTrack \notin Tracks
  /\ Durations \subseteq Nat /\ MaxCalls \in Nat /\ MaxTime \in Nat
  /\ \A c \in Configs : \A t \in Tracks :
       /\ c[t].Step \in Nat /\ c[t].MinInterval \in Nat
       /\ c[t].MaxDelta \in Nat /\ c[t].MaxInFlight \in Nat
       /\ c[t].MaxDebt \in Nat \ {0}
       /\ \/ c[t].InterpolateAgainst = NoTrack
          \/ c[t].InterpolateAgainst \in Tracks /\ c[c[t].InterpolateAgainst].Step > 0

VARIABLES
  settings,  \* each track's settings
  now,       \* the clock's time
  wait,      \* whether the clock has a wait callback
  timer,     \* each track's timer
  driver,    \* the goroutine that drives the clock
  mutex,     \* the track that holds the plugin's mutex
  phase,     \* how far the plugin's Start or Stop is
  stop,      \* whether the stop channel is closed
  track,     \* each track's state, pc being where its goroutine is
  published, \* each track's publishedTick
  flying,    \* its beats in flight, oldest first: signal, armed, done
  sent,      \* its signals whose channel holds a token
  moves,     \* history: moves of the clock to the target of a call
  steps,     \* history: the TimeFromStart of each tick of a track
  elapsed,   \* history: the sum of Delta + Lost over its beats
  out        \* history: its publications

clock == <<now, wait, timer>>
beats == <<published, flying, sent>>
history == <<moves, steps, elapsed, out>>
vars == <<settings, clock, driver, mutex, phase, stop, track, beats, history>>

fixed(t) == settings[t].Step > 0
reference(t) == settings[t].InterpolateAgainst

smaller(a, b) == IF a < b THEN a ELSE b
larger(a, b) == IF a > b THEN a ELSE b

\* Plugin.Init: one signal per beat the track may have in flight, or one.
ring(s) == [i \in 1..larger(s.MaxInFlight, 1) |-> i]

\* Where the driver is between two calls.
idle == [at |-> "idle", op |-> "Wait", target |-> 0, last |-> FALSE, waited |-> FALSE]

Init ==
  /\ settings \in Configs
  /\ now = 0 /\ wait = FALSE
  /\ timer = [t \in Tracks |-> [deadline |-> 0, armed |-> FALSE,
                                fired |-> FALSE, token |-> FALSE]]
  /\ driver = idle
  /\ mutex = NoTrack
  /\ phase = "new" /\ stop = FALSE
  /\ track = [t \in Tracks |->
       [pc |-> "new", deadlineReached |-> FALSE, running |-> FALSE,
        tick |-> 0, stepCount |-> 0, lastBeat |-> 0,
        nextDeadline |-> settings[t].Step + settings[t].MinInterval,
        signals |-> ring(settings[t]), oldestSignal |-> 0, inFlightCount |-> 0,
        signal |-> 0,
        version |-> 0, loaded |-> 0, deadline |-> 0, since |-> 0]]
  /\ published = [t \in Tracks |-> [version |-> 0, tick |-> 0, deadline |-> 0]]
  /\ flying = [t \in Tracks |-> <<>>]
  /\ sent = [t \in Tracks |-> {}]
  /\ moves = 0
  /\ steps = [t \in Tracks |-> <<>>]
  /\ elapsed = [t \in Tracks |-> 0]
  /\ out = [t \in Tracks |-> 0]

-----------------------------------------------------------------------------
(* The clock's timers *)

fire(tm) == [tm EXCEPT !.armed = FALSE, !.fired = TRUE, !.token = TRUE]

\* The timers due once the clock reads at, of the fixed-step tracks (fireDue)
\* or of the variable ones (fireVariable).
due(ts, at) == {t \in ts : timer[t].armed /\ timer[t].deadline <= at}
fireAll(ts) == timer' = [t \in Tracks |-> IF t \in ts THEN fire(timer[t]) ELSE timer[t]]
fireDue(at) == due({t \in Tracks : fixed(t)}, at)
fireVariable(at) == due({t \in Tracks : ~fixed(t)}, at)

\* manualTimer.Reset.
Reset(t, at) ==
  LET armed == [timer[t] EXCEPT !.deadline = at, !.armed = TRUE, !.fired = FALSE] IN
  IF fixed(t) /\ at <= now THEN fire(armed) ELSE armed

\* The deadline Advance walks to, or its target.
nextDeadline(target) ==
  LET ahead == {timer[t].deadline : t \in fireDue(target)} IN
  IF ahead = {} THEN target ELSE CHOOSE d \in ahead : \A e \in ahead : d <= e

-----------------------------------------------------------------------------
(* Settling: Plugin.wait, ManualClock.Wait *)

\* Mutated: a step is owed only once the clock is past its deadline.
owes_Late(t) == IF fixed(t) THEN now > track[t].nextDeadline ELSE timer[t].fired
owes(t) == IF fixed(t) THEN now >= track[t].nextDeadline ELSE timer[t].fired

settled ==
  \A t \in Tracks :
    track[t].running => track[t].inFlightCount = 0 /\ ~owes(t)

\* settleChanged.Broadcast: a driver in Wait looks again.  Mutated: it sleeps on.
broadcast_Lost == UNCHANGED driver
broadcast ==
  driver' = IF driver.at = "parked" THEN [driver EXCEPT !.at = "check"] ELSE driver

\* Where driver d is once the Wait it is in returns.
returned(d, waited) ==
  IF d.op = "Wait" \/ d.last THEN idle ELSE [d EXCEPT !.at = "move", !.waited = waited]

\* ManualClock.Wait, called by d, waits on the callback, if there is one.
await(d) == IF wait THEN [d EXCEPT !.at = "check"] ELSE returned(d, FALSE)

idleDriver == UNCHANGED <<settings, mutex, phase, stop, track, beats, steps, elapsed, out>>

Wait ==
  /\ driver.at = "idle"
  /\ driver' = await(idle)
  /\ idleDriver /\ UNCHANGED <<clock, moves>>

AwaitMoved ==
  /\ driver.at = "moved"
  /\ driver' = await(driver)
  /\ idleDriver /\ UNCHANGED <<clock, moves>>

CheckSettled ==
  /\ driver.at = "check"
  /\ mutex = NoTrack
  /\ driver' = IF settled THEN returned(driver, TRUE) ELSE [driver EXCEPT !.at = "parked"]
  /\ idleDriver /\ UNCHANGED <<clock, moves>>

\* The context of a Wait ends, which wakes it.
GiveUp ==
  /\ driver.at = "parked" /\ driver.op = "Wait"
  /\ mutex = NoTrack
  /\ driver' = returned(driver, FALSE)
  /\ idleDriver /\ UNCHANGED <<clock, moves>>

-----------------------------------------------------------------------------
(* Moving the clock: ManualClock.Advance, Jump *)

Advance(d) ==
  /\ driver.at = "idle" /\ moves < MaxCalls /\ now + d <= MaxTime
  /\ driver' = await([idle EXCEPT !.op = "Advance", !.target = now + d])
  /\ idleDriver /\ UNCHANGED <<clock, moves>>

\* The variable tracks are due only where the move ends.
dueOnTheWay(at) == fireDue(at)

Walk ==
  /\ driver.at = "move"
  /\ fireDue(driver.target) # {}
  /\ now' = nextDeadline(driver.target)
  /\ fireAll(dueOnTheWay(now'))
  /\ driver' = [driver EXCEPT !.at = "moved"]
  /\ idleDriver /\ UNCHANGED <<wait, moves>>

Arrive ==
  /\ driver.at = "move"
  /\ fireDue(driver.target) = {}
  /\ now' = driver.target
  /\ fireAll(fireVariable(now'))
  /\ driver' = [driver EXCEPT !.at = "moved", !.last = TRUE]
  /\ moves' = moves + 1
  /\ idleDriver /\ UNCHANGED wait

Jump(d) ==
  /\ driver.at = "idle" /\ moves < MaxCalls /\ now + d <= MaxTime
  /\ now' = now + d
  /\ fireAll(fireDue(now') \cup fireVariable(now'))
  /\ moves' = moves + 1
  /\ idleDriver /\ UNCHANGED <<wait, driver>>

-----------------------------------------------------------------------------
(* The goroutine of a track: track.run *)

busyTrack == UNCHANGED <<settings, now, wait, phase, stop, moves>>

go(t, pc) == track' = [track EXCEPT ![t].pc = pc]

\* After the select: with the deadline reached and a slot free, the beat due is
\* published.
next(t, reached, inFlight) ==
  IF reached /\ (settings[t].MaxInFlight = 0 \/ inFlight < settings[t].MaxInFlight)
  THEN "lock" ELSE "select"

Fired(t) ==
  /\ track[t].pc = "select" /\ ~track[t].deadlineReached
  /\ timer[t].token
  /\ timer' = [timer EXCEPT ![t].token = FALSE]
  /\ track' = [track EXCEPT ![t].deadlineReached = TRUE,
                            ![t].pc = next(t, TRUE, track[t].inFlightCount)]
  /\ busyTrack /\ UNCHANGED <<driver, mutex, beats, steps, elapsed, out>>

oldest(t) == track[t].signals[track[t].oldestSignal + 1]

\* The slot of the next oldest signal.
afterOldest(t) == (track[t].oldestSignal + 1) % Len(track[t].signals)

\* The receive and the section under the mutex are one step: only this
\* goroutine looks at the token.
Finished(t) ==
  /\ track[t].pc = "select" /\ track[t].inFlightCount > 0
  /\ oldest(t) \in sent[t] /\ mutex = NoTrack
  /\ sent' = [sent EXCEPT ![t] = @ \ {oldest(t)}]
  /\ flying' = [flying EXCEPT ![t] = Tail(@)]
  /\ track' = [track EXCEPT
       ![t].oldestSignal = afterOldest(t),
       ![t].inFlightCount = @ - 1,
       ![t].pc = next(t, track[t].deadlineReached, track[t].inFlightCount - 1)]
  /\ broadcast
  /\ busyTrack /\ UNCHANGED <<timer, mutex, published, steps, elapsed, out>>

Stopped(t) ==
  /\ track[t].pc = "select" /\ stop
  /\ go(t, "stopTimer")
  /\ busyTrack /\ UNCHANGED <<driver, timer, mutex, beats, steps, elapsed, out>>

\* track.end
StopTimer(t) ==
  /\ track[t].pc = "stopTimer"
  /\ timer' = [timer EXCEPT ![t].armed = FALSE, ![t].fired = FALSE, ![t].token = FALSE]
  /\ go(t, "end")
  /\ busyTrack /\ UNCHANGED <<driver, mutex, beats, steps, elapsed, out>>

EndTrack(t) ==
  /\ track[t].pc = "end" /\ mutex = NoTrack
  /\ track' = [track EXCEPT ![t].running = FALSE, ![t].pc = "ended"]
  /\ broadcast
  /\ busyTrack /\ UNCHANGED <<timer, mutex, beats, steps, elapsed, out>>

-----------------------------------------------------------------------------
(* publishDue, publishedTick.load and store *)

Lock(t) ==
  /\ track[t].pc = "lock" /\ mutex = NoTrack
  /\ mutex' = t
  /\ \/ reference(t) = NoTrack /\ go(t, "stamp")
     \/ /\ reference(t) # NoTrack
        /\ track' = [track EXCEPT ![t].pc = "loadVersion",
                                  ![t].since = published[reference(t)].tick]
  /\ busyTrack /\ UNCHANGED <<driver, timer, beats, steps, elapsed, out>>

load(t, from, to, loaded) ==
  /\ track[t].pc = from
  /\ track' = [track EXCEPT ![t] = [loaded EXCEPT !.pc = to]]
  /\ busyTrack /\ UNCHANGED <<driver, timer, mutex, beats, steps, elapsed, out>>

LoadVersion(t) ==
  load(t, "loadVersion", "loadTick",
       [track[t] EXCEPT !.version = published[reference(t)].version])
LoadTick(t) ==
  load(t, "loadTick", "loadDeadline",
       [track[t] EXCEPT !.loaded = published[reference(t)].tick])
LoadDeadline(t) ==
  load(t, "loadDeadline", "loadCheck",
       [track[t] EXCEPT !.deadline = published[reference(t)].deadline])

\* Mutated: an odd version is not looked at.
torn_Odd(t) == published[reference(t)].version # track[t].version
torn(t) ==
  \/ track[t].version % 2 # 0
  \/ published[reference(t)].version # track[t].version

LoadCheck(t) ==
  load(t, "loadCheck", IF torn(t) THEN "loadVersion" ELSE "stamp", track[t])

\* The steps owed past the debt cap.
dropped(t) == larger(now \div settings[t].Step - track[t].stepCount - settings[t].MaxDebt, 0)

\* The beat: Delta, Lost and TimeFromStart.  Mutated: dropped steps are not lost.
fixedBeat_NothingLost(t) ==
  LET step == settings[t].Step IN
  [delta |-> step, lost |-> 0, time |-> (track[t].stepCount + dropped(t) + 1) * step]
fixedBeat(t) ==
  LET step == settings[t].Step IN
  [delta |-> step, lost |-> dropped(t) * step,
   time |-> (track[t].stepCount + dropped(t) + 1) * step]
variableBeat(t) ==
  LET since == now - track[t].lastBeat
      delta == IF settings[t].MaxDelta > 0
               THEN smaller(since, settings[t].MaxDelta) ELSE since
  IN  [delta |-> delta, lost |-> since - delta, time |-> now]
stamp(t) == IF fixed(t) THEN fixedBeat(t) ELSE variableBeat(t)

\* growSignals doubles a full ring, oldest first.  Mutated: it does not turn it.
growSignals_Unturned(r) ==
  IF r.inFlightCount < Len(r.signals) THEN r
  ELSE [r EXCEPT !.signals = [i \in 1..2 * Len(r.signals) |-> i], !.oldestSignal = 0]
growSignals(r) ==
  IF r.inFlightCount < Len(r.signals) THEN r
  ELSE [r EXCEPT
    !.signals = SubSeq(@, r.oldestSignal + 1, Len(@)) \o SubSeq(@, 1, r.oldestSignal)
                \o [i \in 1..Len(@) |-> Len(@) + i],
    !.oldestSignal = 0]

\* manualTimer.rearm reads the clock and rearms a variable track's timer in
\* one step.
rearm(t) ==
  [timer[t] EXCEPT !.deadline = now + settings[t].MinInterval, !.armed = TRUE,
                   !.fired = FALSE]

\* From the read of the clock to the unlock.
Stamp(t) ==
  LET beat == stamp(t)
      ready == growSignals(track[t])
      slot == (ready.oldestSignal + ready.inFlightCount) % Len(ready.signals)
      count == track[t].stepCount + dropped(t) + 1
      paced == IF fixed(t)
               THEN [ready EXCEPT !.stepCount = count,
                       !.nextDeadline = (count + 1) * settings[t].Step]
               ELSE [ready EXCEPT !.lastBeat = now,
                       !.nextDeadline = now + settings[t].MinInterval]
  IN
  /\ track[t].pc = "stamp"
  /\ timer' = IF fixed(t) THEN timer ELSE [timer EXCEPT ![t] = rearm(t)]
  /\ track' = [track EXCEPT ![t] = [paced EXCEPT
       !.tick = @ + 1, !.signal = ready.signals[slot + 1],
       !.inFlightCount = @ + 1, !.pc = "publish",
       !.version = 0, !.loaded = 0, !.deadline = 0, !.since = 0]]
  /\ mutex' = NoTrack
  /\ steps' = [steps EXCEPT ![t] = Append(@, beat.time)]
  /\ elapsed' = [elapsed EXCEPT ![t] = @ + beat.delta + beat.lost]
  /\ busyTrack /\ UNCHANGED <<driver, beats, out>>

Publish(t) ==
  /\ track[t].pc = "publish"
  /\ flying' = [flying EXCEPT ![t] =
       Append(@, [signal |-> track[t].signal, armed |-> FALSE, done |-> FALSE])]
  /\ out' = [out EXCEPT ![t] = @ + 1]
  /\ go(t, IF fixed(t) THEN "storing" ELSE "notify")
  /\ busyTrack /\ UNCHANGED <<driver, timer, mutex, published, sent, steps, elapsed>>

store(t, from, to, p) ==
  /\ track[t].pc = from
  /\ published' = [published EXCEPT ![t] = p]
  /\ go(t, to)
  /\ busyTrack /\ UNCHANGED <<driver, timer, mutex, flying, sent, steps, elapsed, out>>

BeginStore(t) == store(t, "storing", "storeTick", [published[t] EXCEPT !.version = @ + 1])
StoreTick(t) == store(t, "storeTick", "storeDeadline", [published[t] EXCEPT !.tick = track[t].tick])
StoreDeadline(t) ==
  store(t, "storeDeadline", "stored",
        [published[t] EXCEPT !.deadline = track[t].stepCount * settings[t].Step])
EndStore(t) == store(t, "stored", "notify", [published[t] EXCEPT !.version = @ + 1])

\* Kernel.Notify arms the signal on the beat just published, or sends it at
\* once if that beat has finished.  Only a variable track has rearmed already.
Notify(t) ==
  LET last == Len(flying[t]) IN
  /\ track[t].pc = "notify"
  /\ flying' = [flying EXCEPT ![t][last].armed = TRUE]
  /\ sent' = IF flying[t][last].done
             THEN [sent EXCEPT ![t] = @ \cup {track[t].signal}] ELSE sent
  /\ track' = [track EXCEPT ![t].pc = IF fixed(t) THEN "reset" ELSE "select",
                            ![t].deadlineReached = fixed(t), ![t].signal = 0]
  /\ busyTrack /\ UNCHANGED <<driver, timer, mutex, published, steps, elapsed, out>>

ResetTimer(t) ==
  /\ track[t].pc = "reset"
  /\ timer' = [timer EXCEPT ![t] = Reset(t, track[t].nextDeadline)]
  /\ track' = [track EXCEPT ![t].pc = "select", ![t].deadlineReached = FALSE]
  /\ busyTrack /\ UNCHANGED <<driver, mutex, beats, steps, elapsed, out>>

\* The kernel finishes the out dependency of a beat.
Finish(t, i) ==
  /\ i \in DOMAIN flying[t] /\ ~flying[t][i].done
  /\ flying' = [flying EXCEPT ![t][i].done = TRUE]
  /\ sent' = IF flying[t][i].armed
             THEN [sent EXCEPT ![t] = @ \cup {flying[t][i].signal}] ELSE sent
  /\ busyTrack /\ UNCHANGED <<driver, timer, mutex, track, published, steps, elapsed, out>>

-----------------------------------------------------------------------------
(* Plugin.Start and Stop *)

plugin == UNCHANGED <<settings, now, driver, mutex, beats, history>>

\* One step: nothing moves the clock while the plugin starts.
Start ==
  /\ phase = "new"
  /\ timer' = [t \in Tracks |-> Reset(t, track[t].nextDeadline)]
  /\ track' = [t \in Tracks |-> [track[t] EXCEPT !.running = TRUE, !.pc = "select"]]
  /\ wait' = TRUE /\ phase' = "started"
  /\ plugin /\ UNCHANGED stop

Stop ==
  /\ phase = "started"
  /\ wait' = FALSE /\ phase' = "stopping"
  /\ plugin /\ UNCHANGED <<timer, stop, track>>

CloseStop ==
  /\ phase = "stopping" /\ ~stop
  /\ stop' = TRUE
  /\ plugin /\ UNCHANGED <<wait, timer, phase, track>>

Join ==
  /\ phase = "stopping" /\ stop /\ \A t \in Tracks : track[t].pc = "ended"
  /\ phase' = "stopped"
  /\ plugin /\ UNCHANGED <<wait, timer, stop, track>>

-----------------------------------------------------------------------------
(* The specification *)

publishDue(t) ==
  \/ Lock(t) \/ LoadVersion(t) \/ LoadTick(t) \/ LoadDeadline(t) \/ LoadCheck(t)
  \/ Stamp(t) \/ Publish(t) \/ BeginStore(t) \/ StoreTick(t) \/ StoreDeadline(t)
  \/ EndStore(t) \/ Notify(t)
run(t) ==
  \/ Fired(t) \/ Finished(t) \/ Stopped(t) \/ publishDue(t) \/ ResetTimer(t)
  \/ StopTimer(t) \/ EndTrack(t)
waiting == AwaitMoved \/ CheckSettled \/ Walk \/ Arrive
stopping == CloseStop \/ Join

AllOver ==
  /\ phase = "stopped" /\ driver.at = "idle" /\ UNCHANGED vars

Next ==
  \/ \E t \in Tracks : run(t)
  \/ \E t \in Tracks : \E i \in DOMAIN flying[t] : Finish(t, i)
  \/ Wait \/ GiveUp \/ waiting
  \/ \E d \in Durations : Advance(d) \/ Jump(d)
  \/ Start \/ Stop \/ stopping
  \/ AllOver

Spec == Init /\ [][Next]_vars

\* Goroutines go on with what they are in the middle of, and the kernel
\* finishes every beat.  Moves, waits and the plugin's Start and Stop may come at any
\* time or never, and a Wait need not give up.
Fairness ==
  /\ \A t \in Tracks : WF_vars(run(t))
  /\ \A t \in Tracks : WF_vars(\E i \in DOMAIN flying[t] : Finish(t, i))
  /\ WF_vars(waiting)
  /\ WF_vars(stopping)

FairSpec == Spec /\ Fairness

-----------------------------------------------------------------------------
(* Properties *)

\* Every variable keeps its type.
TypeOK ==
  /\ settings \in Configs
  /\ now \in Nat /\ moves \in 0..MaxCalls
  /\ wait \in BOOLEAN /\ stop \in BOOLEAN
  /\ timer \in [Tracks -> [deadline : Nat, armed : BOOLEAN, fired : BOOLEAN, token : BOOLEAN]]
  /\ mutex \in Tracks \cup {NoTrack}
  /\ driver.at \in {"idle", "moved", "check", "parked", "move"}
  /\ phase \in {"new", "started", "stopping", "stopped"}
  /\ \A t \in Tracks :
       /\ track[t].inFlightCount \in 0..Len(track[t].signals)
       /\ track[t].oldestSignal \in 0..Len(track[t].signals) - 1
       /\ sent[t] \subseteq ToSet(track[t].signals)

\* "TimeFromStart is always the sum of Delta + Lost over the track's beats"
\* (doc.go), so no time is counted twice and none is missing, and no beat
\* stands for time that has not come: each tick's time is that sum, and is
\* later than its predecessor's on a fixed-step track and never after now; and
\* "a variable track beats at most once per Advance or Jump" (ManualClock).
StepsAddUp ==
  \A t \in Tracks :
    /\ elapsed[t] <= now
    /\ steps[t] # <<>> => Last(steps[t]) = elapsed[t]
    /\ \A i \in 2..Len(steps[t]) :
         IF fixed(t) THEN steps[t][i - 1] < steps[t][i] ELSE steps[t][i - 1] <= steps[t][i]
    /\ ~fixed(t) => track[t].tick <= moves

\* What a beat reads of its reference track is one published tick with that
\* tick's deadline, though the reference may be storing the next; the tick is
\* no older than the last one stored when the beat began, its publication has
\* scheduled its writes, and its deadline is not after the beat's time.
InterpolationMatches ==
  [][\A t \in Tracks : reference(t) # NoTrack /\ track'[t].tick # track[t].tick =>
       LET r == track[t] IN
       /\ r.deadline = IF r.loaded = 0 THEN 0 ELSE steps[reference(t)][r.loaded]
       /\ r.deadline <= now
       /\ r.since <= r.loaded /\ r.loaded <= out[reference(t)]
    ]_vars

\* The ring of reused signals: the signals of the beats in flight are those
\* from the oldest on, in the order of the beats, and a token is there only
\* for a beat that has finished.  So a slot is freed for the beat that had
\* it, and a limited track never has more in flight than its limit.
SignalsTellTheirBeat ==
  \A t \in Tracks :
    LET r == track[t] IN
    /\ \A i \in DOMAIN flying[t] :
         flying[t][i].signal = r.signals[((r.oldestSignal + i - 1) % Len(r.signals)) + 1]
    /\ \A s \in sent[t] : \E i \in DOMAIN flying[t] :
         flying[t][i].signal = s /\ flying[t][i].armed /\ flying[t][i].done
    /\ settings[t].MaxInFlight > 0 => Len(flying[t]) <= settings[t].MaxInFlight

\* The tracks run, and the driver has waited for them since its call began.
keepsPace == phase = "started" /\ driver.op = "Advance" /\ driver.waited

\* Advance "waits until every track reading the clock has settled, its beats
\* published and finished, before moving on", "no track falls behind and no
\* step is dropped" (ManualClock): when it moves on, every track is back at
\* its select with its timer armed for a time to come and no beat in flight;
\* a step published on the way is published at its deadline, and a variable
\* track beats at the target only.
AdvanceKeepsPace ==
  [][\A t \in Tracks : keepsPace =>
       /\ now' # now =>
            /\ track[t].pc = "select" /\ flying[t] = <<>>
            /\ timer[t].armed /\ ~timer[t].token
            /\ fixed(t) => timer[t].deadline > now
       /\ track'[t].tick # track[t].tick =>
            IF fixed(t) THEN Last(steps'[t]) = now ELSE now = driver.target
    ]_vars

\* An Advance and a Stop return, whatever the tracks are doing: every change
\* that may settle a track wakes the driver.
CallsReturn ==
  /\ driver.op = "Advance" /\ driver.at # "idle" ~> driver.at = "idle"
  /\ phase = "stopping" ~> phase = "stopped"

=============================================================================
