------------------------------- MODULE Frames -------------------------------
(***************************************************************************)
(* The frames of gfx (gfx/framepool.go, surface.go, plugin.go, device.go): *)
(* the draw handler of each beat, the chain of jobs it schedules, the      *)
(* surfaces of the windows, the loss of the device and its recovery, the   *)
(* encoders and the captures.                                              *)
(*                                                                         *)
(* Beats are drawn one after another by their track, up to MaxInFlight of  *)
(* them in flight.  The jobs that write the device (create, release,       *)
(* configure, recover) run alone; the jobs of a frame, which read it,      *)
(* follow one another, and beside them run other readers: the jobs that    *)
(* draw, take encoders, request captures, poll and find the device lost.   *)
(* The draw handler takes no lock, so it interleaves with every step.      *)
(* Window events are handled inside platform's job, which writes the       *)
(* WindowManager: never while an acquire or a configure, its readers, run. *)
(*                                                                         *)
(* The backend is external: what its surfaces are and what its calls       *)
(* answer.  Objects, command buffers and the timing signals are left out.  *)
(***************************************************************************)
EXTENDS Integers, Sequences, FiniteSets, SequencesExt

CONSTANTS
  Windows,
  Orders,       \* submit orders an encoder is asked for at
  MaxInFlight,  \* the render track's MaxInFlight
  MaxBeats,     \* bound: beats drawn
  MaxLosses,    \* bound: losses of the device
  MaxEvents     \* bound: resizes, windows hidden or shown, surface requests

ASSUME FramesAssumption ==
  /\ MaxInFlight \in Nat \ {0} /\ MaxBeats \in Nat
  /\ MaxLosses \in Nat /\ MaxEvents \in Nat

VARIABLES
  window,   \* whether each window is new, open or closed, in the WindowManager
  shown,    \* the windows shown with a framebuffer of a pixel or more
  handler,  \* the draw handler running
  beats,    \* beats drawn
  jobs,     \* the jobs not finished, with the jobs each follows
  run,      \* the job running that takes several steps
  pool,     \* framePool
  device,   \* device: lost, retry, surfaces, configurations
  failing,  \* who found the device lost and has yet to fail the maps pending
  captures, \* the captures of device, and those a running job holds
  surface,  \* backend: the windows with a surface, those configured, and as a history
            \* how often each was touched
  frames,   \* history: the Frame of each beat
  late,     \* history: the surfaces created after their window's release
  losses, events

window_ == <<window, shown>>
chain == <<handler, beats, jobs, run, frames>>
graphics == <<pool, device, failing, captures, surface>>
counters == <<losses, events>>
vars == <<window_, chain, graphics, late, counters>>

Kinds == {"configure", "acquire", "flush", "present", "recover"}
Jobs == (Kinds \X (1..MaxBeats)) \cup ({"create", "release"} \X Windows)
none == <<"none", 0>>

resting == [pc |-> "idle", beat |-> 0, slot |-> 0, configure |-> FALSE]
notRunning == [job |-> none, pc |-> "idle", todo |-> {}]
newSlot == [generation |-> 1, beat |-> 0, framebuffers |-> {},
            encoders |-> {}, flushed |-> FALSE]

Init ==
  /\ window = [w \in Windows |-> "new"] /\ shown = {}
  /\ handler = resting /\ beats = 0
  /\ jobs = [j \in {} |-> {}] /\ run = notRunning
  /\ pool = [slots |-> <<>>, freeSlots |-> <<>>, lastPresent |-> none,
             closing |-> {}, unconfigured |-> {}, lost |-> {}]
  /\ device = [lost |-> FALSE, retry |-> FALSE, surfaces |-> {}, configurations |-> {}]
  /\ failing = none
  /\ captures = [capturing |-> {}, requested |-> {}, pending |-> {},
                 copied |-> {}, mapped |-> {}, resolved |-> {}]
  /\ surface = [created |-> {}, configured |-> {}, turn |-> [w \in Windows |-> 0]]
  /\ frames = [n \in {} |-> 0]
  /\ late = {}
  /\ losses = 0 /\ events = 0

----------------------------------------------------------------------------
(* The kernel's part: jobs follow others and lock the device.              *)

schedule(new) == [j \in DOMAIN jobs \cup DOMAIN new |->
                    IF j \in DOMAIN new THEN new[j] ELSE jobs[j]]
finish(j) == [i \in DOMAIN jobs \ {j} |-> jobs[i]]

\* A job may start: what it follows has finished, and no job with a lock it
\* conflicts with runs.
ready(j) ==
  /\ j \in DOMAIN jobs
  /\ jobs[j] \cap DOMAIN jobs = {}
  /\ run = notRunning
  /\ j[1] \in {"create", "release", "configure", "recover"} => failing = none

\* Another job that reads the device may run.
reading == run.job[1] \notin {"configure", "recover"}

\* What reads the WindowManager is not running, so platform's job may.
pumping == run.job[1] \notin {"configure", "acquire"}

inFlight == {n \in 1..beats : <<"present", n>> \in DOMAIN jobs \/ <<"recover", n>> \in DOMAIN jobs}

----------------------------------------------------------------------------
(* Loss: checkLoss sets lost once, whoever finds it, and then fails the    *)
(* maps pending.                                                           *)

lose(d) == [d EXCEPT !.lost = TRUE]
mayLose == ~device.lost /\ losses < MaxLosses

\* A reader finds the device lost.
FindLoss ==
  /\ reading /\ mayLose
  /\ device' = lose(device) /\ failing' = <<"other", 0>> /\ losses' = losses + 1
  /\ UNCHANGED <<window_, chain, pool, captures, surface, late, events>>

\* failPendingMaps, and the delivery of the captures among them.
FailPendingMaps ==
  /\ failing # none
  /\ captures' = [captures EXCEPT !.pending = {}, !.capturing = @ \ captures.pending]
  /\ failing' = none
  /\ UNCHANGED <<window_, chain, pool, device, surface, late, counters>>

\* A step of the running job: it is not failing the maps pending itself.
step(kind, pc) == run.job[1] = kind /\ run.pc = pc /\ failing # run.job
frameOf(j) == frames[j[2]].slot

\* The running job found the device lost, or did not.
lossOr(found) ==
  IF found
  THEN mayLose /\ device' = lose(device) /\ failing' = run.job /\ losses' = losses + 1
  ELSE UNCHANGED <<device, failing, losses>>

----------------------------------------------------------------------------
(* draw.                                                                   *)

\* The load of lost and framePool.acquire.
takeSlot ==
  LET reused == pool.freeSlots # <<>>
      s == IF reused THEN Last(pool.freeSlots) ELSE Len(pool.slots) + 1
      slots == IF reused THEN pool.slots ELSE Append(pool.slots, newSlot)
  IN  /\ handler' = [pc |-> "acquired", beat |-> beats + 1, slot |-> s, configure |-> FALSE]
      /\ pool' = [pool EXCEPT !.slots = [slots EXCEPT ![s].beat = beats + 1],
                              !.freeSlots = IF reused THEN Front(@) ELSE @]
      /\ frames' = [n \in DOMAIN frames \cup {beats + 1} |->
                      IF n \in DOMAIN frames THEN frames[n]
                      ELSE [slot |-> s, generation |-> slots[s].generation]]
DrawBegin ==
  /\ handler = resting /\ beats < MaxBeats
  /\ Cardinality(inFlight) < MaxInFlight
  /\ beats' = beats + 1
  /\ IF device.lost
     THEN /\ handler' = [resting EXCEPT !.pc = "lost", !.beat = beats + 1]
          /\ UNCHANGED <<pool, frames>>
     ELSE takeSlot
  /\ UNCHANGED <<window_, jobs, run, device, failing, captures, surface, late, counters>>

\* A lost device: the recovery takes the place of the present.
DrawRecovery ==
  LET recovered == <<"recover", handler.beat>>
  IN  /\ handler.pc = "lost"
      /\ jobs' = schedule([j \in {recovered} |-> {pool.lastPresent}])
      /\ pool' = [pool EXCEPT !.lastPresent = recovered]
      /\ handler' = resting
      /\ UNCHANGED <<window_, beats, run, frames, device, failing, captures, surface, late, counters>>

DrawCheck ==
  /\ handler.pc = "acquired"
  /\ handler' = [handler EXCEPT !.pc = "checked", !.configure = pool.unconfigured # {}]
  /\ UNCHANGED <<window_, beats, jobs, run, frames, graphics, late, counters>>

\* The jobs of the frame and setLastPresent.  The draw jobs, between the
\* acquire and the flush, are steps of other readers here.
frameJobs(n, configure, last) ==
  LET kinds == {"acquire", "flush", "present"} \cup (IF configure THEN {"configure"} ELSE {})
  IN  [j \in kinds \X {n} |->
         CASE j[1] = "configure" -> {last}
           [] j[1] = "acquire" -> {IF configure THEN <<"configure", n>> ELSE last}
           [] j[1] = "flush" -> {<<"acquire", n>>}
           [] j[1] = "present" -> {<<"flush", n>>}]
DrawSubmit ==
  /\ handler.pc = "checked"
  /\ jobs' = schedule(frameJobs(handler.beat, handler.configure, pool.lastPresent))
  /\ pool' = [pool EXCEPT !.lastPresent = <<"present", handler.beat>>]
  /\ handler' = resting
  /\ UNCHANGED <<window_, beats, run, frames, device, failing, captures, surface, late, counters>>

----------------------------------------------------------------------------
(* Window events, and the jobs of the surfaces.                            *)

Opened(w) ==
  /\ pumping /\ window[w] = "new"
  /\ window' = [window EXCEPT ![w] = "open"] /\ shown' = shown \cup {w}
  /\ jobs' = schedule([j \in {<<"create", w>>} |-> {}])
  /\ UNCHANGED <<handler, beats, run, frames, graphics, late, counters>>

\* ResizeEvent: to nothing, or to a size.
Resized(w) ==
  /\ pumping /\ window[w] = "open" /\ events < MaxEvents
  /\ events' = events + 1
  /\ shown' \in {shown \cup {w}, shown \ {w}}
  /\ pool' = [pool EXCEPT !.unconfigured = @ \cup {w}]
  /\ UNCHANGED <<window, chain, device, failing, captures, surface, late, losses>>

\* A job hides the window or shows it again.
SetHidden(w) ==
  /\ pumping /\ window[w] = "open" /\ events < MaxEvents
  /\ events' = events + 1
  /\ shown' = IF w \in shown THEN shown \ {w} ELSE shown \cup {w}
  /\ UNCHANGED <<window, chain, graphics, late, losses>>

\* Mutant: the release of a closed window's surface follows no present.
Closed_atOnce(w) ==
  /\ pumping /\ window[w] = "open"
  /\ window' = [window EXCEPT ![w] = "closed"] /\ shown' = shown \ {w}
  /\ pool' = [pool EXCEPT !.closing = @ \cup {w}]
  /\ jobs' = schedule([j \in {<<"release", w>>} |-> {}])
  /\ UNCHANGED <<handler, beats, run, frames, device, failing, captures, surface, late, counters>>

\* WindowClosedEvent: markClosing answers what the release is to follow.
Closed(w) ==
  /\ pumping /\ window[w] = "open"
  /\ window' = [window EXCEPT ![w] = "closed"] /\ shown' = shown \ {w}
  /\ pool' = [pool EXCEPT !.closing = @ \cup {w}]
  /\ jobs' = schedule([j \in {<<"release", w>>} |-> {pool.lastPresent}])
  /\ UNCHANGED <<handler, beats, run, frames, device, failing, captures, surface, late, counters>>

\* The surface of w is made, configured or released; turn counts this, up to a
\* step that does all three.
turned(s, w) == [s EXCEPT !.turn[w] = (@ + 1) % 4]
createdSurface(s, w) == [turned(s, w) EXCEPT !.created = @ \cup {w}, !.configured = @ \ {w}]
releasedSurface(s, w) == [turned(s, w) EXCEPT !.created = @ \ {w}, !.configured = @ \ {w}]
configuredSurface(s, w) == [turned(s, w) EXCEPT !.configured = @ \cup {w}]

CreateSurface(w) ==
  /\ ready(<<"create", w>>)
  /\ \/ UNCHANGED <<pool, device, surface, late>>  \* the creation fails
     \/ /\ device' = [device EXCEPT !.surfaces = @ \cup {w}]
        /\ pool' = [pool EXCEPT !.unconfigured = @ \cup {w}]
        /\ surface' = createdSurface(surface, w)
        /\ late' = late \cup (IF window[w] = "closed" /\ <<"release", w>> \notin DOMAIN jobs
                              THEN {w} ELSE {})
  /\ jobs' = finish(<<"create", w>>)
  /\ UNCHANGED <<window_, handler, beats, run, frames, failing, captures, counters>>

\* Mutant: the release leaves the window marked for configuring.
ReleaseSurface_keepsMark(w) ==
  /\ ready(<<"release", w>>)
  /\ pool' = [pool EXCEPT !.closing = @ \ {w}, !.lost = @ \ {w}]
  /\ device' = [device EXCEPT !.surfaces = @ \ {w}, !.configurations = @ \ {w}]
  /\ surface' = IF w \in device.surfaces THEN releasedSurface(surface, w) ELSE surface
  /\ jobs' = finish(<<"release", w>>)
  /\ UNCHANGED <<window_, handler, beats, run, frames, failing, captures, late, counters>>

ReleaseSurface(w) ==
  /\ ready(<<"release", w>>)
  /\ pool' = [pool EXCEPT !.closing = @ \ {w}, !.unconfigured = @ \ {w}, !.lost = @ \ {w}]
  /\ device' = [device EXCEPT !.surfaces = @ \ {w}, !.configurations = @ \ {w}]
  /\ surface' = IF w \in device.surfaces THEN releasedSurface(surface, w) ELSE surface
  /\ jobs' = finish(<<"release", w>>)
  /\ UNCHANGED <<window_, handler, beats, run, frames, failing, captures, late, counters>>

\* RequestSurface, from a job that writes the device.
RequestSurface ==
  /\ run = notRunning /\ failing = none /\ events < MaxEvents
  /\ events' = events + 1
  /\ pool' = [pool EXCEPT !.unconfigured = @ \cup device.surfaces]
  /\ UNCHANGED <<window_, chain, device, failing, captures, surface, late, losses>>

\* configureSurfaces: a lost device keeps the marks,
ConfigureBegin(n) ==
  LET j == <<"configure", n>>
  IN  /\ ready(j)
      /\ IF device.lost
         THEN jobs' = finish(j) /\ UNCHANGED <<run, pool>>
         ELSE /\ run' = [job |-> j, pc |-> "configure", todo |-> pool.unconfigured]
              /\ pool' = [pool EXCEPT !.unconfigured = {}]
              /\ UNCHANGED jobs
      /\ UNCHANGED <<window_, handler, beats, frames, device, failing, captures, surface, late, counters>>
\* and each window taken is skipped, recreated first if its surface was lost,
\* left marked while it is not drawn, or configured.
ConfigureOne(w) ==
  /\ step("configure", "configure") /\ w \in run.todo
  /\ run' = [run EXCEPT !.todo = @ \ {w}]
  /\ LET skipped == w \notin device.surfaces \/ w \in pool.closing
         recreate == w \in pool.lost
         remade == IF recreate THEN createdSurface(releasedSurface(surface, w), w) ELSE surface
         forgotten == IF recreate THEN device.configurations \ {w} ELSE device.configurations
     IN  \/ skipped /\ UNCHANGED <<pool, device, failing, losses, surface>>
         \/ /\ ~skipped /\ recreate  \* the creation fails
            /\ pool' = [pool EXCEPT !.lost = @ \ {w}]
            /\ device' = [device EXCEPT !.surfaces = @ \ {w}, !.configurations = forgotten]
            /\ surface' = releasedSurface(surface, w)
            /\ UNCHANGED <<failing, losses>>
         \/ /\ ~skipped /\ w \notin shown
            /\ pool' = [pool EXCEPT !.lost = @ \ {w}, !.unconfigured = @ \cup {w}]
            /\ device' = [device EXCEPT !.configurations = forgotten]
            /\ surface' = remade
            /\ UNCHANGED <<failing, losses>>
         \/ /\ ~skipped /\ w \in shown /\ ~device.lost
            /\ pool' = [pool EXCEPT !.lost = @ \ {w}]
            /\ device' = [device EXCEPT !.configurations = @ \cup {w}]
            /\ surface' = configuredSurface(remade, w)
            /\ UNCHANGED <<failing, losses>>
         \/ /\ ~skipped /\ w \in shown  \* the configure fails, or finds a loss
            /\ pool' = [pool EXCEPT !.lost = @ \ {w}]
            /\ surface' = [turned(remade, w) EXCEPT !.configured = @ \ {w}]
            /\ \/ /\ device' = [device EXCEPT !.configurations = @ \ {w}]
                  /\ UNCHANGED <<failing, losses>>
               \/ /\ mayLose
                  /\ device' = lose([device EXCEPT !.configurations = @ \ {w}])
                  /\ failing' = run.job /\ losses' = losses + 1
  /\ UNCHANGED <<window_, handler, beats, jobs, frames, captures, late, events>>
ConfigureEnd ==
  /\ step("configure", "configure") /\ run.todo = {}
  /\ run' = notRunning /\ jobs' = finish(run.job)
  /\ UNCHANGED <<window_, handler, beats, frames, graphics, late, counters>>

----------------------------------------------------------------------------
(* The jobs of a frame.                                                    *)

Begin(kind, n, pc, todo) ==
  /\ ready(<<kind, n>>)
  /\ run' = [job |-> <<kind, n>>, pc |-> pc, todo |-> todo]
  /\ UNCHANGED <<window_, handler, beats, jobs, frames, graphics, late, counters>>

\* acquireFramebuffers.
AcquireBegin(n) == Begin("acquire", n, "acquire", device.surfaces)
acquirable(w) ==
  ~device.lost /\ w \in device.configurations /\ w \notin pool.closing /\ w \in shown
AcquireOne(w, status) ==
  LET drawn == status \in {"Acquired", "Suboptimal"}
      marked == status \in {"Suboptimal", "Outdated", "Lost", "Error", "DeviceLost"}
  IN  /\ step("acquire", "acquire") /\ w \in run.todo /\ acquirable(w)
      /\ run' = [run EXCEPT !.todo = @ \ {w}]
      /\ pool' = [pool EXCEPT
           !.unconfigured = IF marked THEN @ \cup {w} ELSE @,
           !.lost = IF status = "Lost" THEN @ \cup {w} ELSE @,
           !.slots[frameOf(run.job)].framebuffers = IF drawn THEN @ \cup {w} ELSE @]
      /\ lossOr(status = "DeviceLost")
      /\ UNCHANGED <<window_, handler, beats, jobs, frames, captures, surface, late, events>>
AcquireEnd ==
  /\ step("acquire", "acquire") /\ \A w \in run.todo : ~acquirable(w)
  /\ run' = notRunning /\ jobs' = finish(run.job)
  /\ UNCHANGED <<window_, handler, beats, frames, graphics, late, counters>>

\* flushFrame finishes or discards the encoders, all of them: a loss between
\* two decides only which.
FlushBegin(n) == Begin("flush", n, "finish", {})
flushed(s) ==
  [s EXCEPT !.flushed = TRUE, !.encoders = {[e EXCEPT !.done = TRUE] : e \in s.encoders}]
FlushEncoders ==
  /\ step("flush", "finish")
  /\ pool' = [pool EXCEPT !.slots[frameOf(run.job)] = flushed(@)]
  /\ run' = [run EXCEPT !.pc = IF device.lost THEN "submit" ELSE "copy"]
  /\ UNCHANGED <<window_, handler, beats, jobs, frames, device, failing, captures, surface, late, counters>>

\* copyCaptures: of those requested, the windows not acquired and those that
\* fail are delivered, the others are copied.
delivered(c, windows) == [c EXCEPT !.capturing = @ \ windows]
FlushCopy ==
  /\ step("flush", "copy")
  /\ \E copied \in SUBSET (captures.requested \cap pool.slots[frameOf(run.job)].framebuffers) :
       captures' = [delivered(captures, captures.requested \ copied)
                      EXCEPT !.requested = {}, !.copied = copied]
  /\ \E found \in BOOLEAN : lossOr(found)
  /\ run' = [run EXCEPT !.pc = "submit"]
  /\ UNCHANGED <<window_, handler, beats, jobs, frames, pool, surface, late, events>>

\* Mutant: captures copied and not submitted are dropped.
FlushSubmit_dropsCaptures ==
  /\ step("flush", "submit")
  /\ \/ /\ ~device.lost
        /\ run' = [run EXCEPT !.pc = "map"]
        /\ UNCHANGED <<captures, device, failing, losses>>
     \/ /\ captures' = [captures EXCEPT !.copied = {}]
        /\ run' = [run EXCEPT !.pc = "map"]
        /\ \E found \in BOOLEAN : lossOr(found)
  /\ UNCHANGED <<window_, handler, beats, jobs, frames, pool, surface, late, events>>

\* The submit, or none on a lost device: the captures copied then fail.
FlushSubmit ==
  /\ step("flush", "submit")
  /\ \/ /\ ~device.lost
        /\ run' = [run EXCEPT !.pc = "map"]
        /\ UNCHANGED <<captures, device, failing, losses>>
     \/ /\ captures' = [delivered(captures, captures.copied) EXCEPT !.copied = {}]
        /\ run' = [run EXCEPT !.pc = "map"]
        /\ \E found \in BOOLEAN : lossOr(found)
  /\ UNCHANGED <<window_, handler, beats, jobs, frames, pool, surface, late, events>>

\* mapCaptures: the map of each, made without a look at lost, is kept pending
\* in a second step, or refused.
FlushMap(w) ==
  /\ step("flush", "map") /\ captures.mapped = {} /\ w \in captures.copied
  /\ \/ /\ captures' = [captures EXCEPT !.copied = @ \ {w}, !.mapped = {w}]
        /\ UNCHANGED <<device, failing, losses>>
     \/ /\ captures' = [delivered(captures, {w}) EXCEPT !.copied = @ \ {w}]
        /\ \E found \in BOOLEAN : lossOr(found)
  /\ UNCHANGED <<window_, chain, pool, surface, late, events>>
FlushKeep ==
  /\ step("flush", "map") /\ captures.mapped # {}
  /\ captures' = [captures EXCEPT !.mapped = {}, !.pending = @ \cup captures.mapped]
  /\ UNCHANGED <<window_, chain, pool, device, failing, surface, late, counters>>

\* Poll: the maps found resolved are taken off the list, and once it is
\* unlocked a loss is reported and their captures are delivered.
FlushPoll ==
  /\ step("flush", "map") /\ captures.copied \cup captures.mapped = {}
  /\ \E resolved \in SUBSET (IF device.lost THEN {} ELSE captures.pending) :
       captures' = [captures EXCEPT !.pending = @ \ resolved, !.resolved = resolved]
  /\ run' = [run EXCEPT !.pc = IF device.lost THEN "deliver" ELSE "check"]
  /\ UNCHANGED <<window_, handler, beats, jobs, frames, pool, device, failing, surface, late, counters>>
FlushCheck ==
  /\ step("flush", "check")
  /\ \E found \in BOOLEAN : lossOr(found)
  /\ run' = [run EXCEPT !.pc = "deliver"]
  /\ UNCHANGED <<window_, handler, beats, jobs, frames, pool, captures, surface, late, events>>
FlushEnd ==
  /\ step("flush", "deliver")
  /\ captures' = [delivered(captures, captures.resolved) EXCEPT !.resolved = {}]
  /\ run' = notRunning /\ jobs' = finish(run.job)
  /\ UNCHANGED <<window_, handler, beats, frames, pool, device, failing, surface, late, counters>>

\* presentFramebuffers and framePool.release; a present may find a loss.
released(s) ==
  [s EXCEPT !.generation = @ + 1, !.framebuffers = {}, !.encoders = {}, !.flushed = FALSE]
PresentBegin(n) == Begin("present", n, "present", {})
PresentFrame ==
  /\ step("present", "present")
  /\ \E found \in BOOLEAN : lossOr(found)
  /\ run' = [run EXCEPT !.pc = "release"]
  /\ UNCHANGED <<window_, handler, beats, jobs, frames, pool, captures, surface, late, events>>
ReleaseFrame ==
  /\ step("present", "release")
  /\ pool' = [pool EXCEPT !.slots[frameOf(run.job)] = released(@),
                          !.freeSlots = Append(@, frameOf(run.job))]
  /\ run' = notRunning /\ jobs' = finish(run.job)
  /\ UNCHANGED <<window_, handler, beats, frames, device, failing, captures, surface, late, counters>>

\* recoverDevice: nothing for a device recovered before, or too early after a
\* recovery that failed; a new device has no surface configured.
leaveAlone == ~device.lost \/ device.retry
unconfiguredSurfaces ==
  [surface EXCEPT !.configured = {}, !.turn = [w \in Windows |-> (@[w] + 1) % 4]]
RecoverBegin(n) ==
  LET j == <<"recover", n>>
  IN  /\ ready(j)
      /\ \/ /\ leaveAlone
            /\ jobs' = finish(j) /\ UNCHANGED <<run, device, surface>>
         \/ /\ device.lost  \* it fails
            /\ device' = [device EXCEPT !.retry = TRUE]
            /\ surface' = unconfiguredSurfaces
            /\ jobs' = finish(j) /\ UNCHANGED run
         \/ /\ device.lost
            /\ device' = [device EXCEPT !.lost = FALSE, !.retry = FALSE]
            /\ surface' = unconfiguredSurfaces
            /\ run' = [job |-> j, pc |-> "mark", todo |-> {}]
            /\ UNCHANGED jobs
      /\ UNCHANGED <<window_, handler, beats, frames, pool, failing, captures, late, counters>>
\* Mutant: the recovery marks no surface.
RecoverMark_none ==
  /\ step("recover", "mark")
  /\ run' = notRunning /\ jobs' = finish(run.job)
  /\ UNCHANGED <<window_, handler, beats, frames, pool, device, failing, captures, surface, late, counters>>
RecoverMark ==
  /\ step("recover", "mark")
  /\ pool' = [pool EXCEPT !.unconfigured = @ \cup device.surfaces]
  /\ run' = notRunning /\ jobs' = finish(run.job)
  /\ UNCHANGED <<window_, handler, beats, frames, device, failing, captures, surface, late, counters>>

----------------------------------------------------------------------------
(* Other jobs that read the device.                                        *)

\* Mutant: the generation of the Frame is not compared.
accepts_anyGeneration(frame, order) ==
  LET s == pool.slots[frame.slot]
  IN  ~s.flushed /\ \A e \in s.encoders : e.order # order

\* Encoder and addEncoder, for a Frame kept as long as one likes.
accepts(frame, order) ==
  LET s == pool.slots[frame.slot]
  IN  /\ s.generation = frame.generation /\ ~s.flushed
      /\ \A e \in s.encoders : e.order # order
Encoder(n, order) ==
  /\ reading /\ ~device.lost
  /\ n \in DOMAIN frames \ {handler.beat} /\ accepts(frames[n], order)
  /\ pool' = [pool EXCEPT !.slots[frames[n].slot].encoders =
                @ \cup {[beat |-> n, order |-> order, done |-> FALSE]}]
  /\ UNCHANGED <<window_, chain, device, failing, captures, surface, late, counters>>

RequestCapture(w) ==
  /\ reading /\ ~device.lost
  /\ w \in device.configurations /\ w \notin captures.capturing
  /\ captures' = [captures EXCEPT !.capturing = @ \cup {w}, !.requested = @ \cup {w}]
  /\ UNCHANGED <<window_, chain, pool, device, failing, surface, late, counters>>

PollMaps ==
  /\ reading /\ ~device.lost
  /\ \E resolved \in SUBSET captures.pending \ {{}} :
       captures' = [delivered(captures, resolved) EXCEPT !.pending = @ \ resolved]
  /\ UNCHANGED <<window_, chain, pool, device, failing, surface, late, counters>>

\* The beats are over and every job has finished.
Over ==
  /\ beats = MaxBeats /\ handler = resting /\ DOMAIN jobs = {} /\ failing = none
  /\ UNCHANGED vars

Statuses == {"Acquired", "Suboptimal", "Outdated", "Lost", "Timeout", "Error", "DeviceLost"}

Next ==
  \/ DrawBegin \/ DrawRecovery \/ DrawCheck \/ DrawSubmit
  \/ FindLoss \/ FailPendingMaps
  \/ \E w \in Windows : \/ Opened(w) \/ Resized(w) \/ SetHidden(w) \/ Closed(w)
                        \/ CreateSurface(w) \/ ReleaseSurface(w) \/ ConfigureOne(w)
                        \/ FlushMap(w) \/ RequestCapture(w)
  \/ \E w \in Windows, status \in Statuses : AcquireOne(w, status)
  \/ \E n \in 1..MaxBeats : \/ ConfigureBegin(n) \/ AcquireBegin(n) \/ FlushBegin(n)
                            \/ PresentBegin(n) \/ RecoverBegin(n)
  \/ \E n \in 1..MaxBeats, order \in Orders : Encoder(n, order)
  \/ RequestSurface \/ ConfigureEnd \/ AcquireEnd
  \/ FlushEncoders \/ FlushCopy \/ FlushSubmit \/ FlushKeep \/ FlushPoll \/ FlushCheck \/ FlushEnd
  \/ PresentFrame \/ ReleaseFrame \/ RecoverMark \/ PollMaps
  \/ Over

Spec == Init /\ [][Next]_vars

----------------------------------------------------------------------------
(* Properties.                                                             *)

TypeOK ==
  /\ window \in [Windows -> {"new", "open", "closed"}] /\ shown \subseteq Windows
  /\ handler.pc \in {"idle", "lost", "acquired", "checked"}
  /\ beats \in 0..MaxBeats
  /\ DOMAIN jobs \subseteq Jobs
  /\ run.job \in Jobs \cup {none} /\ run.todo \subseteq Windows
  /\ \A s \in DOMAIN pool.slots :
       /\ pool.slots[s].generation \in 1..MaxBeats + 1
       /\ pool.slots[s].framebuffers \subseteq Windows
  /\ pool.lastPresent \in Jobs \cup {none}
  /\ pool.closing \cup pool.unconfigured \cup pool.lost \subseteq Windows
  /\ device.surfaces \cup device.configurations \subseteq Windows

\* A surface is not released, made again, configured or acquired again, nor its
\* device replaced, while a frame holds a framebuffer of it not yet presented,
\* whenever its window closes, is resized or has its surface lost, or the device
\* is (draw's chain on lastPresent, markClosing).
held(w) == \E s \in DOMAIN pool.slots : w \in pool.slots[s].framebuffers
acquiredNow(w) == \E s \in DOMAIN pool.slots :
                    w \in pool'.slots[s].framebuffers \ pool.slots[s].framebuffers
SurfaceHeldUntilPresent ==
  [][\A w \in Windows : surface'.turn[w] # surface.turn[w] \/ acquiredNow(w) => ~held(w)]_vars

\* An encoder is kept only for the frame it was asked for, and none is taken
\* once the flush has gone through them: a Frame kept too long is refused
\* though its slot is in use again (addEncoder, release).
EncodersInTheirFrame ==
  \A s \in DOMAIN pool.slots : \A e \in pool.slots[s].encoders :
    /\ e.beat = pool.slots[s].beat
    /\ s \notin ToSet(pool.freeSlots)
    /\ e.done <=> pool.slots[s].flushed

\* A window's capture in flight is in exactly one place, whatever fails on its
\* way: none is forgotten, which would refuse its window every other capture,
\* and none is delivered twice.
CapturesAccounted ==
  LET places == <<captures.requested, captures.copied, captures.mapped,
                  captures.pending, captures.resolved>>
  IN  /\ captures.capturing = UNION ToSet(places)
      /\ \A i, j \in DOMAIN places : i # j => places[i] \cap places[j] = {}

\* A configuration the backend does not have, after a loss or a failure, is
\* marked to be made again, unless its window closes or the device is lost.
StaleConfigurationsMarked ==
  \A w \in device.configurations \ pool.closing :
    \/ device.lost \/ w \in surface.configured
    \/ w \in pool.unconfigured
    \/ run.job[1] = "configure" /\ w \in run.todo
    \/ run.job[1] = "recover"

\* Once its surface is released nothing of a closed window is left, except
\* when its surface was created only then.
ClosedWindowsForgotten ==
  \A w \in Windows \ late :
    window[w] = "closed" /\ <<"release", w>> \notin DOMAIN jobs /\ <<"create", w>> \notin DOMAIN jobs
    => w \notin pool.closing \cup pool.unconfigured \cup pool.lost
                \cup device.surfaces \cup device.configurations \cup surface.created

\* A framebuffer is acquired of a configured surface only: acquireFramebuffers
\* takes those of the windows with a configured surface, and a surface marked
\* is configured before the next acquire.
AcquiresConfigured ==
  [][\A w \in Windows, status \in Statuses : AcquireOne(w, status) => w \in surface.configured]_vars
=============================================================================
