---------------------------- MODULE FramesProofs ----------------------------
(***************************************************************************)
(* Proofs about Frames, for any windows and submit orders, any number of   *)
(* beats in flight and any bounds on the beats, the losses and the events. *)
(***************************************************************************)
EXTENDS Frames, SequenceTheorems, TLAPS

-----------------------------------------------------------------------------
(* Types *)

Pcs == {"idle", "configure", "acquire", "finish", "copy", "submit", "map",
        "check", "deliver", "present", "release", "mark"}
Runs == [job : Jobs \cup {none}, pc : Pcs, todo : SUBSET Windows]
Devices == [lost : BOOLEAN, retry : BOOLEAN,
            surfaces : SUBSET Windows, configurations : SUBSET Windows]
Captures == [capturing : SUBSET Windows, requested : SUBSET Windows,
             pending : SUBSET Windows, copied : SUBSET Windows,
             mapped : SUBSET Windows, resolved : SUBSET Windows]
PoolFields == {"slots", "freeSlots", "lastPresent", "closing", "unconfigured", "lost"}

\* The types of the job that runs, the device, the captures and the marks of
\* the pool.
RunTyped == run \in Runs
DeviceTyped == device \in Devices
PoolTyped ==
  /\ DOMAIN pool = PoolFields
  /\ pool.closing \subseteq Windows /\ pool.unconfigured \subseteq Windows
  /\ pool.lost \subseteq Windows
CapturesTyped == captures \in Captures

\* The steps of the jobs that take several, but for those of the flush.
Begins ==
  \E n \in 1..MaxBeats : \/ ConfigureBegin(n) \/ AcquireBegin(n) \/ FlushBegin(n)
                         \/ PresentBegin(n) \/ RecoverBegin(n)
OtherSteps ==
  \/ ConfigureEnd \/ \E w \in Windows : ConfigureOne(w)
  \/ AcquireEnd \/ \E w \in Windows, status \in Statuses : AcquireOne(w, status)
  \/ PresentFrame \/ ReleaseFrame \/ RecoverMark

\* A scheduled job joins the others.
LEMMA Scheduled ==
  ASSUME NEW new
  PROVE  /\ DOMAIN schedule(new) = DOMAIN jobs \cup DOMAIN new
         /\ \A j \in DOMAIN new : schedule(new)[j] = new[j]
         /\ \A j \in DOMAIN jobs \ DOMAIN new : schedule(new)[j] = jobs[j]
BY DEF schedule

\* A finished job leaves the others.
LEMMA Finished ==
  ASSUME NEW j
  PROVE  /\ DOMAIN finish(j) = DOMAIN jobs \ {j}
         /\ \A i \in DOMAIN jobs \ {j} : finish(j)[i] = jobs[i]
BY DEF finish

\* Jobs of a beat and jobs of a window.
LEMMA JobKinds ==
  /\ \A k \in Kinds, n \in 1..MaxBeats : <<k, n>> \in Jobs
  /\ \A k \in {"create", "release"}, w \in Windows : <<k, w>> \in Jobs
  /\ \A j \in Jobs : j[1] \in Kinds \cup {"create", "release"}
BY DEF Jobs

\* Who changes which job runs.
LEMMA RunChanges ==
  ASSUME [Next]_vars
  PROVE  \/ UNCHANGED run \/ Begins \/ OtherSteps
         \/ FlushEncoders \/ FlushCopy \/ FlushSubmit \/ FlushPoll \/ FlushCheck \/ FlushEnd
BY DEF Next, vars, window_, chain, graphics, counters, Begins, OtherSteps, Over,
       DrawBegin, DrawRecovery, DrawCheck, DrawSubmit, FindLoss, FailPendingMaps,
       Opened, Resized, SetHidden, Closed, CreateSurface, ReleaseSurface,
       RequestSurface, FlushMap, FlushKeep, Encoder, RequestCapture, PollMaps

\* Who changes the captures.
LEMMA CapturesChange ==
  ASSUME [Next]_vars
  PROVE  \/ UNCHANGED captures
         \/ FailPendingMaps \/ FlushCopy \/ FlushSubmit \/ FlushKeep \/ FlushPoll
         \/ FlushEnd \/ PollMaps
         \/ \E w \in Windows : FlushMap(w) \/ RequestCapture(w)
BY DEF Next, vars, window_, chain, graphics, counters, Over,
       DrawBegin, DrawRecovery, DrawCheck, DrawSubmit, FindLoss,
       Opened, Resized, SetHidden, Closed, CreateSurface, ReleaseSurface,
       ConfigureOne, AcquireOne, ConfigureBegin, AcquireBegin, FlushBegin,
       PresentBegin, Begin, RecoverBegin, Encoder, RequestSurface, ConfigureEnd,
       AcquireEnd, FlushEncoders, FlushCheck, PresentFrame, ReleaseFrame, RecoverMark

\* A job finds a loss, or none.
LEMMA LossStep ==
  ASSUME DeviceTyped, NEW found, lossOr(found)
  PROVE  /\ DeviceTyped'
         /\ device'.surfaces = device.surfaces
         /\ device'.configurations = device.configurations
         /\ device.lost => device'.lost
BY DEF DeviceTyped, Devices, lossOr, lose

\* Every step keeps the type of the running job.
LEMMA NextRunTyped ==
  ASSUME RunTyped, PoolTyped, DeviceTyped, [Next]_vars
  PROVE  RunTyped'
<1> USE DEF RunTyped, Runs
<1>1. notRunning \in Runs
  BY DEF notRunning, none, Pcs
<1>2. CASE Begins
  <2>1. PICK n \in 1..MaxBeats : \/ ConfigureBegin(n) \/ AcquireBegin(n) \/ FlushBegin(n)
                                 \/ PresentBegin(n) \/ RecoverBegin(n)
    BY <1>2 DEF Begins
  <2>2. \A k \in Kinds : <<k, n>> \in Jobs
    BY JobKinds
  <2>3. /\ pool.unconfigured \subseteq Windows
        /\ device.surfaces \subseteq Windows
    BY DEF PoolTyped, DeviceTyped, Devices
  <2> QED BY <2>1, <2>2, <2>3
          DEF ConfigureBegin, AcquireBegin, FlushBegin, PresentBegin, RecoverBegin,
              Begin, Kinds, Pcs
<1>3. ASSUME NEW w \in Windows, run' = [run EXCEPT !.todo = @ \ {w}]
      PROVE  run' \in Runs
  BY <1>3
<1>4. CASE OtherSteps
  BY <1>1, <1>3, <1>4 DEF OtherSteps, ConfigureEnd, ConfigureOne, AcquireEnd, AcquireOne,
                          PresentFrame, ReleaseFrame, RecoverMark, Pcs
<1>5. CASE FlushEncoders \/ FlushCopy \/ FlushSubmit \/ FlushPoll \/ FlushCheck \/ FlushEnd
  BY <1>1, <1>5 DEF FlushEncoders, FlushCopy, FlushSubmit, FlushPoll, FlushCheck,
                    FlushEnd, Pcs
<1> QED BY <1>2, <1>4, <1>5, RunChanges

\* Every step keeps the types of the device and of the marks, given that the
\* surfaces released, made again or configured are those of windows.
LEMMA NextDeviceTyped ==
  ASSUME DeviceTyped, PoolTyped, RunTyped, [Next]_vars
  PROVE  DeviceTyped' /\ PoolTyped'
<1> USE DEF vars, window_, chain, graphics, counters
<1>1. ASSUME DrawBegin \/ DrawRecovery \/ DrawSubmit
      PROVE  DeviceTyped' /\ PoolTyped'
  BY <1>1 DEF DrawBegin, takeSlot, DrawRecovery, DrawSubmit, DeviceTyped, PoolTyped, PoolFields
<1>2. ASSUME FindLoss
      PROVE  DeviceTyped' /\ PoolTyped'
  BY <1>2 DEF FindLoss, lose, DeviceTyped, Devices, PoolTyped
<1>3. ASSUME NEW w \in Windows, Resized(w) \/ Closed(w)
      PROVE  DeviceTyped' /\ PoolTyped'
  BY <1>3 DEF Resized, Closed, DeviceTyped, PoolTyped, PoolFields
<1>4. ASSUME NEW w \in Windows, CreateSurface(w) \/ ReleaseSurface(w)
      PROVE  DeviceTyped' /\ PoolTyped'
  <2>1. DeviceTyped'
    <3>1. \/ device' = device
          \/ device' = [device EXCEPT !.surfaces = @ \cup {w}]
          \/ device' = [device EXCEPT !.surfaces = @ \ {w}, !.configurations = @ \ {w}]
      BY <1>4 DEF CreateSurface, ReleaseSurface
    <3> QED BY <3>1 DEF DeviceTyped, Devices
  <2>2. PoolTyped'
    <3>1. \/ pool' = pool
          \/ pool' = [pool EXCEPT !.unconfigured = @ \cup {w}]
          \/ pool' = [pool EXCEPT !.closing = @ \ {w}, !.unconfigured = @ \ {w}, !.lost = @ \ {w}]
      BY <1>4 DEF CreateSurface, ReleaseSurface
    <3>2. CASE pool' = pool
      BY <3>2 DEF PoolTyped
    <3>3. CASE pool' = [pool EXCEPT !.unconfigured = @ \cup {w}]
      BY <3>3 DEF PoolTyped, PoolFields
    <3>4. CASE pool' = [pool EXCEPT !.closing = @ \ {w}, !.unconfigured = @ \ {w}, !.lost = @ \ {w}]
      BY <3>4 DEF PoolTyped, PoolFields
    <3> QED BY <3>1, <3>2, <3>3, <3>4
  <2> QED BY <2>1, <2>2
<1>5. ASSUME NEW w \in Windows, ConfigureOne(w)
      PROVE  DeviceTyped' /\ PoolTyped'
  <2>1. DeviceTyped'
    <3>1. PICK forgotten : forgotten = IF w \in pool.lost THEN device.configurations \ {w}
                                                         ELSE device.configurations
      OBVIOUS
    <3>2. forgotten \subseteq Windows /\ device \in Devices
      BY <3>1 DEF DeviceTyped, Devices
    <3>3. \/ device' = device
          \/ device' = [device EXCEPT !.surfaces = @ \ {w}, !.configurations = forgotten]
          \/ device' = [device EXCEPT !.configurations = forgotten]
          \/ device' = [device EXCEPT !.configurations = @ \cup {w}]
          \/ device' = [device EXCEPT !.configurations = @ \ {w}]
          \/ device' = lose([device EXCEPT !.configurations = @ \ {w}])
      BY <1>5, <3>1 DEF ConfigureOne
    <3>4. CASE \/ device' = device
               \/ device' = [device EXCEPT !.surfaces = @ \ {w}, !.configurations = forgotten]
               \/ device' = [device EXCEPT !.configurations = forgotten]
      BY <3>2, <3>4 DEF DeviceTyped, Devices
    <3>5. CASE \/ device' = [device EXCEPT !.configurations = @ \cup {w}]
               \/ device' = [device EXCEPT !.configurations = @ \ {w}]
      BY <3>2, <3>5 DEF DeviceTyped, Devices
    <3>6. CASE device' = lose([device EXCEPT !.configurations = @ \ {w}])
      BY <3>2, <3>6 DEF DeviceTyped, Devices, lose
    <3> QED BY <3>3, <3>4, <3>5, <3>6
  <2>2. PoolTyped'
    <3>1. \/ pool' = pool
          \/ pool' = [pool EXCEPT !.lost = @ \ {w}]
          \/ pool' = [pool EXCEPT !.lost = @ \ {w}, !.unconfigured = @ \cup {w}]
      BY <1>5 DEF ConfigureOne
    <3>2. /\ DOMAIN pool' = DOMAIN pool
          /\ pool'.closing = pool.closing
          /\ pool'.unconfigured \subseteq pool.unconfigured \cup {w}
          /\ pool'.lost \subseteq pool.lost
      BY <3>1 DEF PoolTyped, PoolFields
    <3> QED BY <3>2 DEF PoolTyped
  <2> QED BY <2>1, <2>2
<1>6. ASSUME NEW n \in 1..MaxBeats, ConfigureBegin(n) \/ RecoverBegin(n)
      PROVE  DeviceTyped' /\ PoolTyped'
  BY <1>6 DEF ConfigureBegin, RecoverBegin, DeviceTyped, Devices, PoolTyped, PoolFields
<1>7. ASSUME NEW w \in Windows, NEW status \in Statuses, AcquireOne(w, status)
      PROVE  DeviceTyped' /\ PoolTyped'
  <2>1. DeviceTyped'
    BY <1>7, LossStep DEF AcquireOne
  <2>2. PoolTyped'
    BY <1>7 DEF AcquireOne, PoolTyped, PoolFields
  <2> QED BY <2>1, <2>2
<1>8. ASSUME RequestSurface \/ RecoverMark
      PROVE  DeviceTyped' /\ PoolTyped'
  BY <1>8 DEF RequestSurface, RecoverMark, DeviceTyped, Devices, PoolTyped, PoolFields
<1>9. ASSUME FlushEncoders \/ ReleaseFrame \/ \E n \in 1..MaxBeats, order \in Orders : Encoder(n, order)
      PROVE  DeviceTyped' /\ PoolTyped'
  BY <1>9 DEF FlushEncoders, ReleaseFrame, Encoder, DeviceTyped, PoolTyped, PoolFields
<1>10. ASSUME UNCHANGED pool, NEW found, lossOr(found)
       PROVE  DeviceTyped' /\ PoolTyped'
  BY <1>10, LossStep DEF PoolTyped
<1>11. ASSUME UNCHANGED <<pool, device>>
       PROVE  DeviceTyped' /\ PoolTyped'
  BY <1>11 DEF DeviceTyped, PoolTyped
<1>12. ASSUME FlushCopy \/ FlushSubmit \/ FlushCheck \/ PresentFrame
              \/ \E w \in Windows : FlushMap(w)
       PROVE  UNCHANGED pool /\ (UNCHANGED device \/ \E found \in BOOLEAN : lossOr(found))
  BY <1>12 DEF FlushCopy, FlushSubmit, FlushCheck, PresentFrame, FlushMap
<1>13. \/ UNCHANGED <<pool, device>>
       \/ DrawBegin \/ DrawRecovery \/ DrawSubmit \/ FindLoss
       \/ FlushCopy \/ FlushSubmit \/ FlushCheck \/ PresentFrame
       \/ FlushEncoders \/ ReleaseFrame \/ RequestSurface \/ RecoverMark
       \/ \E n \in 1..MaxBeats, order \in Orders : Encoder(n, order)
       \/ \E w \in Windows : \/ Resized(w) \/ Closed(w) \/ CreateSurface(w)
                             \/ ReleaseSurface(w) \/ ConfigureOne(w) \/ FlushMap(w)
       \/ \E n \in 1..MaxBeats : ConfigureBegin(n) \/ RecoverBegin(n)
       \/ \E w \in Windows, status \in Statuses : AcquireOne(w, status)
  BY DEF Next, Over, DrawCheck, FailPendingMaps, Opened, SetHidden, RequestCapture,
         AcquireBegin, FlushBegin, PresentBegin, Begin, ConfigureEnd, AcquireEnd,
         FlushKeep, FlushPoll, FlushEnd, PollMaps
<1> QED BY <1>1, <1>2, <1>3, <1>4, <1>5, <1>6, <1>7, <1>8, <1>9, <1>10, <1>11,
           <1>12, <1>13

\* The types of the job that runs, the device and the marks hold in every
\* reachable state.
THEOREM TypesHold == Spec => [](RunTyped /\ DeviceTyped /\ PoolTyped)
<1>1. Init => RunTyped /\ DeviceTyped /\ PoolTyped
  BY DEF Init, RunTyped, Runs, notRunning, none, Pcs, DeviceTyped, Devices, PoolTyped,
         PoolFields
<1>2. RunTyped /\ DeviceTyped /\ PoolTyped /\ [Next]_vars
        => (RunTyped /\ DeviceTyped /\ PoolTyped)'
  BY NextRunTyped, NextDeviceTyped
<1> QED BY <1>1, <1>2, PTL DEF Spec

-----------------------------------------------------------------------------
(* The captures *)

\* The captures copied, mapped and resolved are those of the flush that runs,
\* each only from the step that makes them to the one that passes them on.
CapturesHeld ==
  /\ captures.copied # {} => run.job[1] = "flush" /\ run.pc \in {"submit", "map"}
  /\ captures.mapped # {} => run.job[1] = "flush" /\ run.pc = "map"
  /\ captures.resolved # {} => run.job[1] = "flush" /\ run.pc \in {"check", "deliver"}

\* CapturesAccounted, spelled out.
InOnePlace ==
  /\ captures.capturing = captures.requested \cup captures.copied \cup captures.mapped
                            \cup captures.pending \cup captures.resolved
  /\ captures.requested \cap captures.copied = {}
  /\ captures.requested \cap captures.mapped = {}
  /\ captures.requested \cap captures.pending = {}
  /\ captures.requested \cap captures.resolved = {}
  /\ captures.copied \cap captures.mapped = {}
  /\ captures.copied \cap captures.pending = {}
  /\ captures.copied \cap captures.resolved = {}
  /\ captures.mapped \cap captures.pending = {}
  /\ captures.mapped \cap captures.resolved = {}
  /\ captures.pending \cap captures.resolved = {}

\* The inductive invariant of the captures.
CapturesInv == CapturesTyped /\ CapturesHeld /\ InOnePlace

\* The five places of CapturesAccounted are those of InOnePlace.
LEMMA PlacesSpelledOut ==
  ASSUME InOnePlace
  PROVE  CapturesAccounted
<1> DEFINE places == <<captures.requested, captures.copied, captures.mapped,
                       captures.pending, captures.resolved>>
<1>1. DOMAIN places = 1..5
  OBVIOUS
<1>2. UNION ToSet(places) = captures.requested \cup captures.copied \cup captures.mapped
                              \cup captures.pending \cup captures.resolved
  BY DEF ToSet
<1>3. \A i, j \in 1..5 : i # j => places[i] \cap places[j] = {}
  BY DEF InOnePlace
<1> QED BY <1>1, <1>2, <1>3 DEF InOnePlace, CapturesAccounted

\* Every step passes each capture on from one place to the next, or delivers it.
LEMMA NextCapturesInv ==
  ASSUME CapturesInv, RunTyped, [Next]_vars
  PROVE  CapturesInv'
<1> USE DEF RunTyped, Runs, CapturesTyped, Captures
<1>1. ASSUME UNCHANGED captures, CapturesHeld'
      PROVE  CapturesInv'
  BY <1>1 DEF CapturesInv, InOnePlace
<1>2. ASSUME run.job[1] # "flush" \/ run.pc = "finish", UNCHANGED captures
      PROVE  CapturesInv'
  BY <1>1, <1>2 DEF CapturesInv, CapturesHeld
<1>3. CASE Begins /\ UNCHANGED captures
  <2>1. run = notRunning
    BY <1>3 DEF Begins, ConfigureBegin, AcquireBegin, FlushBegin, PresentBegin,
                RecoverBegin, Begin, ready
  <2> QED BY <1>2, <1>3, <2>1 DEF notRunning, none
<1>4. CASE OtherSteps /\ UNCHANGED captures
  <2>1. run.job[1] # "flush"
    BY <1>4 DEF OtherSteps, ConfigureEnd, ConfigureOne, AcquireEnd, AcquireOne,
                PresentFrame, ReleaseFrame, RecoverMark, step
  <2> QED BY <1>2, <1>4, <2>1
<1>5. CASE FlushEncoders
  BY <1>2, <1>5 DEF FlushEncoders, step
<1>6. CASE FlushCheck
  <2>1. /\ UNCHANGED captures /\ run.job[1] = "flush" /\ run.pc = "check"
        /\ run' = [run EXCEPT !.pc = "deliver"]
    BY <1>6 DEF FlushCheck, step
  <2>2. CapturesHeld'
    BY <2>1 DEF CapturesInv, CapturesHeld
  <2> QED BY <1>1, <2>1, <2>2
<1>7. CASE UNCHANGED <<run, captures>>
  <2>1. CapturesHeld'
    BY <1>7 DEF CapturesInv, CapturesHeld
  <2> QED BY <1>1, <1>7, <2>1
<1>8. CASE FlushCopy
  <2>1. /\ run.job[1] = "flush" /\ run.pc = "copy"
        /\ run' = [run EXCEPT !.pc = "submit"]
    BY <1>8 DEF FlushCopy, step
  <2>2. PICK copied \in SUBSET captures.requested :
          captures' = [captures EXCEPT !.capturing = @ \ (captures.requested \ copied),
                                       !.requested = {}, !.copied = copied]
    BY <1>8 DEF FlushCopy, delivered, CapturesInv
  <2>3. captures.copied = {} /\ captures.mapped = {} /\ captures.resolved = {}
    BY <2>1 DEF CapturesInv, CapturesHeld
  <2>4. CapturesTyped' /\ InOnePlace'
    BY <2>2, <2>3 DEF CapturesInv, InOnePlace
  <2>5. CapturesHeld'
    BY <2>1, <2>2, <2>3 DEF CapturesInv, CapturesHeld
  <2> QED BY <2>4, <2>5 DEF CapturesInv
<1>9. CASE FlushSubmit
  <2>1. /\ run.job[1] = "flush" /\ run.pc = "submit"
        /\ run' = [run EXCEPT !.pc = "map"]
    BY <1>9 DEF FlushSubmit, step
  <2>2. captures.mapped = {} /\ captures.resolved = {}
    BY <2>1 DEF CapturesInv, CapturesHeld
  <2>3. CASE UNCHANGED captures
    BY <1>1, <2>1, <2>2, <2>3 DEF CapturesHeld
  <2>4. CASE captures' = [captures EXCEPT !.capturing = @ \ captures.copied, !.copied = {}]
    <3>1. CapturesTyped' /\ InOnePlace'
      BY <2>4 DEF CapturesInv, InOnePlace
    <3>2. CapturesHeld'
      BY <2>2, <2>4 DEF CapturesInv, CapturesHeld
    <3> QED BY <3>1, <3>2 DEF CapturesInv
  <2> QED BY <1>9, <2>3, <2>4 DEF FlushSubmit, delivered, CapturesInv
<1>10. ASSUME NEW w \in Windows, FlushMap(w)
       PROVE  CapturesInv'
  <2>1. /\ run.job[1] = "flush" /\ run.pc = "map" /\ UNCHANGED run
        /\ captures.mapped = {} /\ w \in captures.copied
    BY <1>10 DEF FlushMap, step, chain
  <2>2. CASE captures' = [captures EXCEPT !.copied = @ \ {w}, !.mapped = {w}]
    <3>0. /\ captures'.copied = captures.copied \ {w} /\ captures'.mapped = {w}
          /\ captures'.capturing = captures.capturing
          /\ captures'.requested = captures.requested
          /\ captures'.pending = captures.pending /\ captures'.resolved = captures.resolved
      BY <2>2 DEF CapturesInv
    <3>a. CapturesTyped'
      BY <2>1, <2>2 DEF CapturesInv
    <3>b. captures'.capturing = captures'.requested \cup captures'.copied \cup captures'.mapped
                                  \cup captures'.pending \cup captures'.resolved
      BY <2>1, <3>0 DEF CapturesInv, InOnePlace
    <3>1. CapturesTyped' /\ InOnePlace'
      BY <2>1, <3>0, <3>a, <3>b DEF CapturesInv, InOnePlace
    <3>2. CapturesHeld'
      BY <2>1, <2>2 DEF CapturesInv, CapturesHeld
    <3> QED BY <3>1, <3>2 DEF CapturesInv
  <2>3. CASE captures' = [captures EXCEPT !.capturing = @ \ {w}, !.copied = @ \ {w}]
    <3>0. /\ captures'.copied = captures.copied \ {w} /\ captures'.mapped = captures.mapped
          /\ captures'.capturing = captures.capturing \ {w}
          /\ captures'.requested = captures.requested
          /\ captures'.pending = captures.pending /\ captures'.resolved = captures.resolved
      BY <2>3 DEF CapturesInv
    <3>a. CapturesTyped'
      BY <2>1, <2>3 DEF CapturesInv
    <3>b. /\ w \notin captures.requested /\ w \notin captures.pending
          /\ w \notin captures.resolved /\ w \notin captures.mapped
      BY <2>1 DEF CapturesInv, InOnePlace
    <3>c. captures'.capturing = captures'.requested \cup captures'.copied \cup captures'.mapped
                                  \cup captures'.pending \cup captures'.resolved
      BY <3>0, <3>b DEF CapturesInv, InOnePlace
    <3>1. CapturesTyped' /\ InOnePlace'
      BY <3>0, <3>a, <3>c DEF CapturesInv, InOnePlace
    <3>2. CapturesHeld'
      BY <2>1, <2>3 DEF CapturesInv, CapturesHeld
    <3> QED BY <3>1, <3>2 DEF CapturesInv
  <2> QED BY <1>10, <2>2, <2>3 DEF FlushMap, delivered, CapturesInv
<1>11. CASE FlushKeep
  <2>1. /\ run.job[1] = "flush" /\ run.pc = "map" /\ UNCHANGED run
        /\ captures' = [captures EXCEPT !.mapped = {}, !.pending = @ \cup captures.mapped]
    BY <1>11 DEF FlushKeep, step, chain
  <2>2. CapturesTyped' /\ InOnePlace'
    BY <2>1 DEF CapturesInv, InOnePlace
  <2>3. CapturesHeld'
    BY <2>1 DEF CapturesInv, CapturesHeld
  <2> QED BY <2>2, <2>3 DEF CapturesInv
<1>12. CASE FlushPoll
  <2>1. /\ run.job[1] = "flush" /\ run.pc = "map"
        /\ run' = [run EXCEPT !.pc = "deliver"] \/ run' = [run EXCEPT !.pc = "check"]
        /\ captures.copied = {} /\ captures.mapped = {}
    BY <1>12 DEF FlushPoll, step
  <2>2. PICK resolved \in SUBSET captures.pending :
          captures' = [captures EXCEPT !.pending = @ \ resolved, !.resolved = resolved]
    BY <1>12 DEF FlushPoll
  <2>3. captures.resolved = {}
    BY <2>1 DEF CapturesInv, CapturesHeld
  <2>4. CapturesTyped' /\ InOnePlace'
    BY <2>1, <2>2, <2>3 DEF CapturesInv, InOnePlace
  <2>5. CapturesHeld'
    BY <2>1, <2>2 DEF CapturesInv, CapturesHeld
  <2> QED BY <2>4, <2>5 DEF CapturesInv
<1>13. CASE FlushEnd
  <2>1. /\ run.job[1] = "flush" /\ run.pc = "deliver"
        /\ captures' = [captures EXCEPT !.capturing = @ \ captures.resolved, !.resolved = {}]
    BY <1>13 DEF FlushEnd, step, delivered, CapturesInv
  <2>2. captures.copied = {} /\ captures.mapped = {}
    BY <2>1 DEF CapturesInv, CapturesHeld
  <2>3. CapturesTyped' /\ InOnePlace'
    BY <2>1 DEF CapturesInv, InOnePlace
  <2>4. CapturesHeld'
    BY <2>1, <2>2 DEF CapturesInv, CapturesHeld
  <2> QED BY <2>3, <2>4 DEF CapturesInv
<1>14. CASE FailPendingMaps
  <2>1. /\ UNCHANGED run
        /\ captures' = [captures EXCEPT !.pending = {}, !.capturing = @ \ captures.pending]
    BY <1>14 DEF FailPendingMaps, chain
  <2>2. CapturesTyped' /\ InOnePlace'
    BY <2>1 DEF CapturesInv, InOnePlace
  <2>3. CapturesHeld'
    BY <2>1 DEF CapturesInv, CapturesHeld
  <2> QED BY <2>2, <2>3 DEF CapturesInv
<1>15. CASE PollMaps
  <2>1. UNCHANGED run
    BY <1>15 DEF PollMaps, chain
  <2>2. PICK resolved \in SUBSET captures.pending :
          captures' = [captures EXCEPT !.capturing = @ \ resolved, !.pending = @ \ resolved]
    BY <1>15 DEF PollMaps, delivered, CapturesInv
  <2>3. CapturesTyped' /\ InOnePlace'
    BY <2>2 DEF CapturesInv, InOnePlace
  <2>4. CapturesHeld'
    BY <2>1, <2>2 DEF CapturesInv, CapturesHeld
  <2> QED BY <2>3, <2>4 DEF CapturesInv
<1>16. ASSUME NEW w \in Windows, RequestCapture(w)
       PROVE  CapturesInv'
  <2>1. /\ UNCHANGED run /\ w \notin captures.capturing
        /\ captures' = [captures EXCEPT !.capturing = @ \cup {w}, !.requested = @ \cup {w}]
    BY <1>16 DEF RequestCapture, chain
  <2>a. /\ captures'.copied = captures.copied /\ captures'.mapped = captures.mapped
        /\ captures'.capturing = captures.capturing \cup {w}
        /\ captures'.requested = captures.requested \cup {w}
        /\ captures'.pending = captures.pending /\ captures'.resolved = captures.resolved
        /\ captures' \in Captures
    BY <2>1 DEF CapturesInv
  <2>b. /\ w \notin captures.copied /\ w \notin captures.mapped
        /\ w \notin captures.pending /\ w \notin captures.resolved
    BY <2>1 DEF CapturesInv, InOnePlace
  <2>c. captures'.capturing = captures'.requested \cup captures'.copied \cup captures'.mapped
                                \cup captures'.pending \cup captures'.resolved
    BY <2>a DEF CapturesInv, InOnePlace
  <2>2. CapturesTyped' /\ InOnePlace'
    BY <2>a, <2>b, <2>c DEF CapturesInv, InOnePlace
  <2>3. CapturesHeld'
    BY <2>1 DEF CapturesInv, CapturesHeld
  <2> QED BY <2>2, <2>3 DEF CapturesInv
<1> QED BY <1>3, <1>4, <1>5, <1>6, <1>7, <1>8, <1>9, <1>10, <1>11, <1>12, <1>13,
           <1>14, <1>15, <1>16, RunChanges, CapturesChange

\* A capture requested is in exactly one place until it is delivered, whatever
\* copy, submit, map or loss fails on its way (flushFrame, failPendingMaps,
\* Poll).
THEOREM CapturesAreAccounted == Spec => []CapturesAccounted
<1>1. Init => CapturesInv
  BY DEF Init, CapturesInv, CapturesTyped, Captures, CapturesHeld, InOnePlace
<1>2. RunTyped /\ CapturesInv /\ [Next]_vars => CapturesInv'
  BY NextCapturesInv
<1>3. CapturesInv => CapturesAccounted
  BY PlacesSpelledOut DEF CapturesInv
<1> QED BY <1>1, <1>2, <1>3, TypesHold, PTL DEF Spec

-----------------------------------------------------------------------------
(* The surfaces *)

SurfaceFields == {"created", "configured", "turn"}

\* The window and its surface: a configuration is of a surface the device has,
\* which is one the backend has.
Linked ==
  /\ window \in [Windows -> {"new", "open", "closed"}]
  /\ DOMAIN surface = SurfaceFields
  /\ surface.created = device.surfaces
  /\ device.configurations \subseteq device.surfaces
  /\ \A w \in Windows : <<"create", w>> \in DOMAIN jobs => window[w] # "new"

\* Nothing is left of a window, as before it opens.
Nothing(w) ==
  /\ w \notin pool.closing /\ w \notin pool.unconfigured /\ w \notin pool.lost
  /\ w \notin device.surfaces

\* Nothing is known of a window not open yet, or of one closed whose release
\* has run, even while the job that creates its surface is still to run.
Forgotten ==
  \A w \in Windows \ late :
    window[w] = "new" \/ (window[w] = "closed" /\ <<"release", w>> \notin DOMAIN jobs)
      => Nothing(w)

\* The inductive invariant of the surfaces.
SurfacesInv == Linked /\ StaleConfigurationsMarked /\ Forgotten

\* What each call of the backend leaves of the surfaces.
LEMMA SurfaceCalls ==
  ASSUME NEW s, NEW w, DOMAIN s = SurfaceFields
  PROVE  /\ DOMAIN turned(s, w) = SurfaceFields
         /\ turned(s, w).created = s.created
         /\ turned(s, w).configured = s.configured
         /\ DOMAIN createdSurface(s, w) = SurfaceFields
         /\ createdSurface(s, w).created = s.created \cup {w}
         /\ createdSurface(s, w).configured = s.configured \ {w}
         /\ DOMAIN releasedSurface(s, w) = SurfaceFields
         /\ releasedSurface(s, w).created = s.created \ {w}
         /\ releasedSurface(s, w).configured = s.configured \ {w}
         /\ DOMAIN configuredSurface(s, w) = SurfaceFields
         /\ configuredSurface(s, w).created = s.created
         /\ configuredSurface(s, w).configured = s.configured \cup {w}
<1>1. /\ DOMAIN turned(s, w) = SurfaceFields
      /\ turned(s, w).created = s.created
      /\ turned(s, w).configured = s.configured
  BY DEF turned, SurfaceFields
<1>2. /\ DOMAIN createdSurface(s, w) = SurfaceFields
      /\ createdSurface(s, w).created = s.created \cup {w}
      /\ createdSurface(s, w).configured = s.configured \ {w}
  BY <1>1 DEF createdSurface, SurfaceFields
<1>3. /\ DOMAIN releasedSurface(s, w) = SurfaceFields
      /\ releasedSurface(s, w).created = s.created \ {w}
      /\ releasedSurface(s, w).configured = s.configured \ {w}
  BY <1>1 DEF releasedSurface, SurfaceFields
<1>4. /\ DOMAIN configuredSurface(s, w) = SurfaceFields
      /\ configuredSurface(s, w).created = s.created
      /\ configuredSurface(s, w).configured = s.configured \cup {w}
  BY <1>1 DEF configuredSurface, SurfaceFields
<1> QED BY <1>1, <1>2, <1>3, <1>4

\* The jobs that create and release surfaces stay, or run.
SurfaceJobsKept ==
  \A k \in {"create", "release"}, w \in Windows :
    <<k, w>> \in DOMAIN jobs' <=> <<k, w>> \in DOMAIN jobs

\* A step that leaves the surfaces alone, at most marks a window of which
\* something is known, and ends or starts no job that sees to the marks.
LEMMA SurfacesLeftAlone ==
  ASSUME SurfacesInv,
         UNCHANGED <<window, surface, late>>,
         device'.surfaces = device.surfaces,
         device'.configurations = device.configurations,
         device.lost => device'.lost,
         pool'.closing = pool.closing,
         pool.unconfigured \subseteq pool'.unconfigured,
         pool'.unconfigured \subseteq pool.unconfigured \cup device.surfaces,
         pool'.lost \subseteq pool.lost \cup device.surfaces,
         SurfaceJobsKept,
         run.job[1] \notin {"configure", "recover"} \/ UNCHANGED run
  PROVE  SurfacesInv'
<1>1. Linked'
  BY DEF SurfacesInv, Linked, SurfaceJobsKept
<1>2. StaleConfigurationsMarked'
  BY DEF SurfacesInv, StaleConfigurationsMarked
<1>3. Forgotten'
  BY DEF SurfacesInv, Forgotten, Nothing, SurfaceJobsKept
<1> QED BY <1>1, <1>2, <1>3 DEF SurfacesInv

\* The steps of the jobs of a frame, of draw, and of the readers beside them
\* change nothing of the surfaces but the marks.
LEMMA OthersSurfaces ==
  ASSUME SurfacesInv, RunTyped, DeviceTyped, PoolTyped,
         \/ DrawBegin \/ DrawRecovery \/ DrawCheck \/ DrawSubmit
         \/ FindLoss \/ FailPendingMaps \/ RequestSurface \/ PollMaps
         \/ AcquireEnd \/ FlushEncoders \/ FlushCopy \/ FlushSubmit \/ FlushKeep
         \/ FlushPoll \/ FlushCheck \/ FlushEnd \/ PresentFrame \/ ReleaseFrame
         \/ \E w \in Windows : SetHidden(w) \/ FlushMap(w) \/ RequestCapture(w)
         \/ \E n \in 1..MaxBeats : AcquireBegin(n) \/ FlushBegin(n) \/ PresentBegin(n)
         \/ \E n \in 1..MaxBeats, order \in Orders : Encoder(n, order)
         \/ \E w \in Windows, status \in Statuses : AcquireOne(w, status)
         \/ UNCHANGED vars
  PROVE  SurfacesInv'
<1> USE DEF vars, window_, chain, graphics, counters
<1> DEFINE Same == /\ device'.surfaces = device.surfaces
                   /\ device'.configurations = device.configurations
                   /\ device.lost => device'.lost
           Marks == /\ pool'.closing = pool.closing
                    /\ pool.unconfigured \subseteq pool'.unconfigured
                    /\ pool'.unconfigured \subseteq pool.unconfigured \cup device.surfaces
                    /\ pool'.lost \subseteq pool.lost \cup device.surfaces
<1>s. ASSUME NEW new, jobs' = schedule(new),
             \A k \in {"create", "release"}, w \in Windows : <<k, w>> \notin DOMAIN new
      PROVE  SurfaceJobsKept
  BY <1>s, Scheduled DEF SurfaceJobsKept
<1>f. ASSUME jobs' = finish(run.job), run.job[1] \notin {"create", "release"}
      PROVE  SurfaceJobsKept
  <2>1. \A k \in {"create", "release"}, w \in Windows : <<k, w>> # run.job
    BY <1>f
  <2> QED BY <1>f, <2>1, Finished DEF SurfaceJobsKept
<1>u. ASSUME UNCHANGED jobs
      PROVE  SurfaceJobsKept
  BY <1>u DEF SurfaceJobsKept
<1>1. CASE DrawBegin \/ DrawCheck
  <2>1. Same /\ Marks /\ UNCHANGED <<window, surface, late, jobs, run>>
    BY <1>1 DEF DrawBegin, takeSlot, DrawCheck, PoolTyped, PoolFields
  <2> QED BY <1>u, <2>1, SurfacesLeftAlone
<1>2. CASE DrawRecovery \/ DrawSubmit
  <2>1. Same /\ Marks /\ UNCHANGED <<window, surface, late, run>>
    BY <1>2 DEF DrawRecovery, DrawSubmit, PoolTyped, PoolFields
  <2>2. SurfaceJobsKept
    <3>1. CASE DrawRecovery
      <4>1. jobs' = schedule([j \in {<<"recover", handler.beat>>} |-> {pool.lastPresent}])
        BY <3>1 DEF DrawRecovery
      <4> QED BY <1>s, <4>1
    <3>2. CASE DrawSubmit
      <4> DEFINE new == frameJobs(handler.beat, handler.configure, pool.lastPresent)
      <4>1. jobs' = schedule(new)
        BY <3>2 DEF DrawSubmit
      <4>2. \A j \in DOMAIN new : j[1] \in Kinds
        BY DEF frameJobs, Kinds
      <4>3. \A k \in {"create", "release"}, w \in Windows : <<k, w>> \notin DOMAIN new
        BY <4>2 DEF Kinds
      <4> QED BY <1>s, <4>1, <4>3
    <3> QED BY <1>2, <3>1, <3>2
  <2> QED BY <2>1, <2>2, SurfacesLeftAlone
<1>3. CASE FindLoss \/ RequestSurface
  <2>1. Same /\ Marks /\ UNCHANGED <<window, surface, late, jobs, run>>
    BY <1>3 DEF FindLoss, lose, RequestSurface, PoolTyped, PoolFields, DeviceTyped, Devices
  <2> QED BY <1>u, <2>1, SurfacesLeftAlone
<1>4. CASE \/ FailPendingMaps \/ PollMaps \/ FlushKeep \/ UNCHANGED vars
           \/ \E w \in Windows : SetHidden(w) \/ RequestCapture(w)
  <2>1. UNCHANGED <<window, surface, late, device, pool, jobs, run>>
    BY <1>4 DEF FailPendingMaps, PollMaps, FlushKeep, SetHidden, RequestCapture
  <2> QED BY <1>u, <2>1, SurfacesLeftAlone
<1>5. CASE FlushPoll \/ \E n \in 1..MaxBeats : AcquireBegin(n) \/ FlushBegin(n) \/ PresentBegin(n)
  <2>1. UNCHANGED <<window, surface, late, device, pool, jobs>>
    BY <1>5 DEF FlushPoll, AcquireBegin, FlushBegin, PresentBegin, Begin
  <2>2. run.job[1] \notin {"configure", "recover"}
    <3>1. run = notRunning \/ run.job[1] = "flush"
      BY <1>5 DEF FlushPoll, AcquireBegin, FlushBegin, PresentBegin, Begin, ready, step
    <3> QED BY <3>1 DEF notRunning, none
  <2> QED BY <1>u, <2>1, <2>2, SurfacesLeftAlone
<1>6. CASE AcquireEnd \/ FlushEnd \/ ReleaseFrame
  <2>1. Same /\ Marks /\ UNCHANGED <<window, surface, late>> /\ jobs' = finish(run.job)
    BY <1>6 DEF AcquireEnd, FlushEnd, ReleaseFrame, PoolTyped, PoolFields
  <2>2. run.job[1] \in {"acquire", "flush", "present"}
    BY <1>6 DEF AcquireEnd, FlushEnd, ReleaseFrame, step
  <2> QED BY <1>f, <2>1, <2>2, SurfacesLeftAlone
<1>7. CASE FlushEncoders \/ \E n \in 1..MaxBeats, order \in Orders : Encoder(n, order)
  <2>1. Same /\ Marks /\ UNCHANGED <<window, surface, late, jobs>>
    BY <1>7 DEF FlushEncoders, Encoder, PoolTyped, PoolFields
  <2>2. run.job[1] \notin {"configure", "recover"} \/ UNCHANGED run
    BY <1>7 DEF FlushEncoders, Encoder, step
  <2> QED BY <1>u, <2>1, <2>2, SurfacesLeftAlone
<1>8. CASE \/ FlushCopy \/ FlushSubmit \/ FlushCheck \/ PresentFrame
           \/ \E w \in Windows : FlushMap(w)
  <2>1. UNCHANGED <<window, surface, late, pool, jobs>>
    BY <1>8 DEF FlushCopy, FlushSubmit, FlushCheck, PresentFrame, FlushMap
  <2>2. Same
    <3>1. UNCHANGED device \/ \E found \in BOOLEAN : lossOr(found)
      BY <1>8 DEF FlushCopy, FlushSubmit, FlushCheck, PresentFrame, FlushMap
    <3> QED BY <3>1, LossStep
  <2>3. run.job[1] \notin {"configure", "recover"}
    BY <1>8 DEF FlushCopy, FlushSubmit, FlushCheck, PresentFrame, FlushMap, step
  <2> QED BY <1>u, <2>1, <2>2, <2>3, SurfacesLeftAlone
<1>9. ASSUME NEW w \in Windows, NEW status \in Statuses, AcquireOne(w, status)
      PROVE  SurfacesInv'
  <2>1. UNCHANGED <<window, surface, late, jobs>> /\ run.job[1] = "acquire"
    BY <1>9 DEF AcquireOne, step
  <2>2. Same
    BY <1>9, LossStep DEF AcquireOne
  <2>3. w \in device.surfaces
    BY <1>9 DEF AcquireOne, acquirable, SurfacesInv, Linked
  <2>4. Marks
    BY <1>9, <2>3 DEF AcquireOne, PoolTyped, PoolFields
  <2> QED BY <1>u, <2>1, <2>2, <2>4, SurfacesLeftAlone
<1> QED BY <1>1, <1>2, <1>3, <1>4, <1>5, <1>6, <1>7, <1>8, <1>9

\* A window opens, is resized or closes: its release, scheduled as it closes,
\* is what will forget it.
LEMMA WindowSurfaces ==
  ASSUME SurfacesInv, PoolTyped, NEW w \in Windows, Opened(w) \/ Resized(w) \/ Closed(w)
  PROVE  SurfacesInv'
<1> USE DEF window_, chain, graphics, counters
<1>1. CASE Opened(w)
  <2>1. /\ window[w] = "new" /\ window' = [window EXCEPT ![w] = "open"]
        /\ UNCHANGED <<run, pool, device, surface, late>>
        /\ jobs' = schedule([j \in {<<"create", w>>} |-> {}])
    BY <1>1 DEF Opened
  <2>2. DOMAIN jobs' = DOMAIN jobs \cup {<<"create", w>>}
    BY <2>1, Scheduled
  <2>3. Linked'
    BY <2>1, <2>2 DEF SurfacesInv, Linked
  <2>4. StaleConfigurationsMarked'
    BY <2>1 DEF SurfacesInv, StaleConfigurationsMarked
  <2>5. Forgotten'
    <3>1. \A v \in Windows : <<"release", v>> \in DOMAIN jobs' <=> <<"release", v>> \in DOMAIN jobs
      BY <2>2
    <3> QED BY <2>1, <3>1 DEF SurfacesInv, Linked, Forgotten, Nothing
  <2> QED BY <2>3, <2>4, <2>5 DEF SurfacesInv
<1>2. CASE Resized(w)
  <2>1. /\ window[w] = "open"
        /\ UNCHANGED <<window, run, jobs, device, surface, late>>
        /\ pool'.unconfigured = pool.unconfigured \cup {w}
        /\ pool'.closing = pool.closing /\ pool'.lost = pool.lost
    BY <1>2 DEF Resized, PoolTyped, PoolFields
  <2>2. Linked'
    BY <2>1 DEF SurfacesInv, Linked
  <2>3. StaleConfigurationsMarked'
    BY <2>1 DEF SurfacesInv, StaleConfigurationsMarked
  <2>4. Forgotten'
    BY <2>1 DEF SurfacesInv, Forgotten, Nothing
  <2> QED BY <2>2, <2>3, <2>4 DEF SurfacesInv
<1>3. CASE Closed(w)
  <2>1. /\ window[w] = "open" /\ window' = [window EXCEPT ![w] = "closed"]
        /\ UNCHANGED <<run, device, surface, late>>
        /\ pool'.closing = pool.closing \cup {w}
        /\ pool'.unconfigured = pool.unconfigured /\ pool'.lost = pool.lost
        /\ jobs' = schedule([j \in {<<"release", w>>} |-> {pool.lastPresent}])
    BY <1>3 DEF Closed, PoolTyped, PoolFields
  <2>2. DOMAIN jobs' = DOMAIN jobs \cup {<<"release", w>>}
    BY <2>1, Scheduled
  <2>3. Linked'
    BY <2>1, <2>2 DEF SurfacesInv, Linked
  <2>4. StaleConfigurationsMarked'
    BY <2>1 DEF SurfacesInv, StaleConfigurationsMarked
  <2>5. Forgotten'
    BY <2>1, <2>2 DEF SurfacesInv, Linked, Forgotten, Nothing
  <2> QED BY <2>3, <2>4, <2>5 DEF SurfacesInv
<1> QED BY <1>1, <1>2, <1>3

\* A surface is created, marked to be configured, or released, and with it all
\* that is known of its window.
LEMMA CreateReleaseSurfaces ==
  ASSUME SurfacesInv, PoolTyped, DeviceTyped,
         NEW w \in Windows, CreateSurface(w) \/ ReleaseSurface(w)
  PROVE  SurfacesInv'
<1> USE DEF window_, chain, graphics, counters
<1>0. DOMAIN surface = SurfaceFields
  BY DEF SurfacesInv, Linked
<1>1. CASE CreateSurface(w)
  <2>1. /\ UNCHANGED <<window, run>>
        /\ <<"create", w>> \in DOMAIN jobs
        /\ jobs' = finish(<<"create", w>>)
    BY <1>1 DEF CreateSurface, ready
  <2>2. /\ DOMAIN jobs' \subseteq DOMAIN jobs
        /\ \A v \in Windows : <<"release", v>> \in DOMAIN jobs' <=> <<"release", v>> \in DOMAIN jobs
    BY <2>1, Finished
  <2>3. CASE UNCHANGED <<pool, device, surface, late>>
    BY <2>1, <2>2, <2>3 DEF SurfacesInv, Linked, StaleConfigurationsMarked, Forgotten, Nothing
  <2>4. CASE ~UNCHANGED <<pool, device, surface, late>>
    <3>1. /\ device' = [device EXCEPT !.surfaces = @ \cup {w}]
          /\ pool' = [pool EXCEPT !.unconfigured = @ \cup {w}]
          /\ surface' = createdSurface(surface, w)
          /\ late' = late \cup (IF window[w] = "closed" /\ <<"release", w>> \notin DOMAIN jobs
                                THEN {w} ELSE {})
      BY <1>1, <2>4 DEF CreateSurface
    <3>2. /\ device'.surfaces = device.surfaces \cup {w}
          /\ device'.configurations = device.configurations
          /\ device'.lost = device.lost
          /\ pool'.unconfigured = pool.unconfigured \cup {w}
          /\ pool'.closing = pool.closing /\ pool'.lost = pool.lost
          /\ surface'.created = surface.created \cup {w}
          /\ surface'.configured = surface.configured \ {w}
          /\ DOMAIN surface' = SurfaceFields
      BY <1>0, <3>1, SurfaceCalls DEF DeviceTyped, Devices, PoolTyped, PoolFields
    <3>3. Linked'
      BY <2>1, <2>2, <3>2 DEF SurfacesInv, Linked
    <3>4. StaleConfigurationsMarked'
      BY <2>1, <3>2 DEF SurfacesInv, StaleConfigurationsMarked
    <3>5. window[w] # "new"
      BY <2>1 DEF SurfacesInv, Linked
    <3>6. Forgotten'
      BY <2>1, <2>2, <3>1, <3>2, <3>5 DEF SurfacesInv, Forgotten, Nothing
    <3> QED BY <3>3, <3>4, <3>6 DEF SurfacesInv
  <2> QED BY <2>3, <2>4
<1>2. CASE ReleaseSurface(w)
  <2>1. /\ UNCHANGED <<window, run, late>>
        /\ jobs' = finish(<<"release", w>>)
        /\ pool'.closing = pool.closing \ {w}
        /\ pool'.unconfigured = pool.unconfigured \ {w}
        /\ pool'.lost = pool.lost \ {w}
        /\ device'.surfaces = device.surfaces \ {w}
        /\ device'.configurations = device.configurations \ {w}
        /\ device'.lost = device.lost
    BY <1>2 DEF ReleaseSurface, PoolTyped, PoolFields, DeviceTyped, Devices
  <2>2. /\ DOMAIN surface' = SurfaceFields
        /\ surface'.created = surface.created \ {w}
        /\ \A v \in Windows \ {w} :
             v \in surface'.configured <=> v \in surface.configured
    <3>1. CASE w \in device.surfaces
      <4>1. surface' = releasedSurface(surface, w)
        BY <1>2, <3>1 DEF ReleaseSurface
      <4> QED BY <1>0, <4>1, SurfaceCalls
    <3>2. CASE w \notin device.surfaces
      <4>1. surface' = surface
        BY <1>2, <3>2 DEF ReleaseSurface
      <4> QED BY <1>0, <3>2, <4>1 DEF SurfacesInv, Linked
    <3> QED BY <3>1, <3>2
  <2>3. /\ DOMAIN jobs' \subseteq DOMAIN jobs
        /\ \A v \in Windows \ {w} :
             <<"release", v>> \in DOMAIN jobs' <=> <<"release", v>> \in DOMAIN jobs
    BY <2>1, Finished
  <2>4. Linked'
    BY <2>1, <2>2, <2>3 DEF SurfacesInv, Linked
  <2>5. StaleConfigurationsMarked'
    BY <2>1, <2>2 DEF SurfacesInv, StaleConfigurationsMarked, DeviceTyped, Devices
  <2>6. Forgotten'
    BY <2>1, <2>3 DEF SurfacesInv, Forgotten, Nothing
  <2> QED BY <2>4, <2>5, <2>6 DEF SurfacesInv
<1> QED BY <1>1, <1>2

\* configureSurfaces takes the marks over, and sees to each window taken.
LEMMA ConfigureSurfaces ==
  ASSUME SurfacesInv, RunTyped, PoolTyped, DeviceTyped,
         \/ \E n \in 1..MaxBeats : ConfigureBegin(n)
         \/ \E w \in Windows : ConfigureOne(w)
         \/ ConfigureEnd
  PROVE  SurfacesInv'
<1> USE DEF window_, chain, graphics, counters
<1>0. DOMAIN surface = SurfaceFields
  BY DEF SurfacesInv, Linked
<1>f. ASSUME NEW j, jobs' = finish(j), j[1] = "configure"
      PROVE  SurfaceJobsKept
  <2>1. \A k \in {"create", "release"}, w \in Windows : <<k, w>> # j
    BY <1>f
  <2> QED BY <1>f, <2>1, Finished DEF SurfaceJobsKept
<1>1. ASSUME NEW n \in 1..MaxBeats, ConfigureBegin(n)
      PROVE  SurfacesInv'
  <2>1. run = notRunning /\ UNCHANGED <<window, device, surface, late>>
    BY <1>1 DEF ConfigureBegin, ready
  <2>2. CASE device.lost
    <3>1. UNCHANGED <<pool, run>> /\ jobs' = finish(<<"configure", n>>)
      BY <1>1, <2>2 DEF ConfigureBegin
    <3> QED BY <1>f, <2>1, <3>1, SurfacesLeftAlone
  <2>3. CASE ~device.lost
    <3>1. /\ run'.job[1] = "configure" /\ run'.todo = pool.unconfigured
          /\ pool'.unconfigured = {}
          /\ pool'.closing = pool.closing /\ pool'.lost = pool.lost
          /\ UNCHANGED jobs
      BY <1>1, <2>3 DEF ConfigureBegin, PoolTyped, PoolFields
    <3>2. run.job[1] = "none"
      BY <2>1 DEF notRunning, none
    <3>3. Linked'
      BY <2>1, <3>1 DEF SurfacesInv, Linked
    <3>4. StaleConfigurationsMarked'
      BY <2>1, <3>1, <3>2 DEF SurfacesInv, StaleConfigurationsMarked
    <3>5. Forgotten'
      BY <2>1, <3>1 DEF SurfacesInv, Forgotten, Nothing
    <3> QED BY <3>3, <3>4, <3>5 DEF SurfacesInv
  <2> QED BY <2>2, <2>3
<1>2. CASE ConfigureEnd
  <2>1. /\ run.job[1] = "configure" /\ run.todo = {} /\ run' = notRunning
        /\ jobs' = finish(run.job)
        /\ UNCHANGED <<window, pool, device, surface, late>>
    BY <1>2 DEF ConfigureEnd, step
  <2>2. SurfaceJobsKept
    BY <1>f, <2>1
  <2>3. Linked'
    BY <2>1, <2>2 DEF SurfacesInv, Linked, SurfaceJobsKept
  <2>4. StaleConfigurationsMarked'
    BY <2>1 DEF SurfacesInv, StaleConfigurationsMarked
  <2>5. Forgotten'
    BY <2>1, <2>2 DEF SurfacesInv, Forgotten, Nothing, SurfaceJobsKept
  <2> QED BY <2>3, <2>4, <2>5 DEF SurfacesInv
<1>3. ASSUME NEW w \in Windows, ConfigureOne(w)
      PROVE  SurfacesInv'
  <2> DEFINE remade == IF w \in pool.lost
                       THEN createdSurface(releasedSurface(surface, w), w) ELSE surface
  <2>1. /\ run.job[1] = "configure" /\ w \in run.todo
        /\ run'.job = run.job /\ run'.todo = run.todo \ {w}
        /\ UNCHANGED <<window, jobs, late>>
    BY <1>3 DEF ConfigureOne, step, RunTyped, Runs
  <2>2. CASE w \notin device.surfaces \/ w \in pool.closing
    <3>1. UNCHANGED <<pool, device, surface>>
      BY <1>3, <2>2 DEF ConfigureOne
    <3>2. Linked'
      BY <2>1, <3>1 DEF SurfacesInv, Linked
    <3>3. StaleConfigurationsMarked'
      BY <2>1, <2>2, <3>1 DEF SurfacesInv, StaleConfigurationsMarked, Linked
    <3>4. Forgotten'
      BY <2>1, <3>1 DEF SurfacesInv, Forgotten, Nothing
    <3> QED BY <3>2, <3>3, <3>4 DEF SurfacesInv
  <2>3. CASE w \in device.surfaces /\ w \notin pool.closing
    <3>1. /\ DOMAIN remade = SurfaceFields
          /\ remade.created = surface.created
          /\ \A v \in Windows \ {w} : v \in remade.configured <=> v \in surface.configured
      <4>1. w \in surface.created
        BY <2>3 DEF SurfacesInv, Linked
      <4>2. CASE w \in pool.lost
        <5>1. /\ DOMAIN releasedSurface(surface, w) = SurfaceFields
              /\ releasedSurface(surface, w).created = surface.created \ {w}
              /\ releasedSurface(surface, w).configured = surface.configured \ {w}
          BY <1>0, SurfaceCalls
        <5>2. remade = createdSurface(releasedSurface(surface, w), w)
          BY <4>2
        <5>3. /\ DOMAIN remade = SurfaceFields
              /\ remade.created = (surface.created \ {w}) \cup {w}
              /\ remade.configured = (surface.configured \ {w}) \ {w}
          BY <5>1, <5>2, SurfaceCalls
        <5> QED BY <4>1, <5>3
      <4> QED BY <1>0, <4>2
    \* What every outcome leaves alone.
    <3>2. ASSUME device'.configurations \subseteq device'.surfaces,
                 device'.surfaces \subseteq device.surfaces,
                 \A v \in Windows \ {w} :
                   v \in device'.configurations <=> v \in device.configurations,
                 device.lost => device'.lost,
                 DOMAIN surface' = SurfaceFields,
                 surface'.created = device'.surfaces,
                 \A v \in Windows \ {w} : v \in surface'.configured <=> v \in surface.configured,
                 pool'.closing = pool.closing,
                 pool.unconfigured \subseteq pool'.unconfigured,
                 pool'.unconfigured \subseteq pool.unconfigured \cup {w},
                 pool'.lost \subseteq pool.lost,
                 \/ w \notin device'.configurations
                 \/ w \in surface'.configured \/ w \in pool'.unconfigured,
                 device'.configurations \subseteq Windows
          PROVE  SurfacesInv'
      <4>1. Linked'
        BY <2>1, <3>2 DEF SurfacesInv, Linked
      <4>2. StaleConfigurationsMarked'
        BY <2>1, <3>2 DEF SurfacesInv, StaleConfigurationsMarked
      <4>3. Forgotten'
        BY <2>1, <2>3, <3>2 DEF SurfacesInv, Forgotten, Nothing
      <4> QED BY <4>1, <4>2, <4>3 DEF SurfacesInv
    <3> DEFINE forgotten == IF w \in pool.lost THEN device.configurations \ {w}
                            ELSE device.configurations
    <3>p. /\ DOMAIN pool = PoolFields /\ DOMAIN device = {"lost", "retry", "surfaces", "configurations"}
          /\ device.surfaces \subseteq Windows /\ device.configurations \subseteq Windows
          /\ device.configurations \subseteq device.surfaces
          /\ surface.created = device.surfaces
      BY DEF PoolTyped, DeviceTyped, Devices, SurfacesInv, Linked
    <3>3. ASSUME pool' = [pool EXCEPT !.lost = @ \ {w}],
                 device' = [device EXCEPT !.surfaces = @ \ {w}, !.configurations = forgotten],
                 surface' = releasedSurface(surface, w), w \in pool.lost
          PROVE  SurfacesInv'
      <4>1. /\ DOMAIN surface' = SurfaceFields
            /\ surface'.created = device.surfaces \ {w}
            /\ surface'.configured = surface.configured \ {w}
        BY <1>0, <3>3, <3>p, SurfaceCalls
      <4>2. /\ device'.surfaces = device.surfaces \ {w}
            /\ device'.configurations = device.configurations \ {w}
            /\ device'.lost = device.lost
        BY <3>3, <3>p
      <4>3. /\ pool'.closing = pool.closing /\ pool'.lost = pool.lost \ {w}
            /\ pool'.unconfigured = pool.unconfigured
        BY <3>3, <3>p DEF PoolFields
      <4> QED BY <3>2, <3>p, <4>1, <4>2, <4>3
    <3>4. ASSUME pool' = [pool EXCEPT !.lost = @ \ {w}, !.unconfigured = @ \cup {w}],
                 device' = [device EXCEPT !.configurations = forgotten],
                 surface' = remade
          PROVE  SurfacesInv'
      <4>1. /\ device'.surfaces = device.surfaces
            /\ device'.configurations = forgotten
            /\ device'.lost = device.lost
        BY <3>4, <3>p
      <4>2. /\ pool'.closing = pool.closing /\ pool'.lost = pool.lost \ {w}
            /\ pool'.unconfigured = pool.unconfigured \cup {w}
        BY <3>4, <3>p DEF PoolFields
      <4>3. /\ forgotten \subseteq device.configurations
            /\ \A v \in Windows \ {w} : v \in forgotten <=> v \in device.configurations
        OBVIOUS
      <4> HIDE DEF forgotten, remade
      <4> QED BY <3>1, <3>2, <3>4, <3>p, <4>1, <4>2, <4>3
    <3>5. ASSUME pool' = [pool EXCEPT !.lost = @ \ {w}],
                 device' = [device EXCEPT !.configurations = @ \cup {w}],
                 surface' = configuredSurface(remade, w)
          PROVE  SurfacesInv'
      <4>1. /\ device'.surfaces = device.surfaces
            /\ device'.configurations = device.configurations \cup {w}
            /\ device'.lost = device.lost
        BY <3>5, <3>p
      <4>2. /\ pool'.closing = pool.closing /\ pool'.lost = pool.lost \ {w}
            /\ pool'.unconfigured = pool.unconfigured
        BY <3>5, <3>p DEF PoolFields
      <4> HIDE DEF forgotten, remade
      <4>3. /\ DOMAIN surface' = SurfaceFields
            /\ surface'.created = device.surfaces
            /\ surface'.configured = remade.configured \cup {w}
        BY <3>1, <3>5, <3>p, SurfaceCalls
      <4> QED BY <2>3, <3>1, <3>2, <3>p, <4>1, <4>2, <4>3
    <3>6. ASSUME pool' = [pool EXCEPT !.lost = @ \ {w}],
                 \/ device' = [device EXCEPT !.configurations = @ \ {w}]
                 \/ device' = lose([device EXCEPT !.configurations = @ \ {w}]),
                 surface' = [turned(remade, w) EXCEPT !.configured = @ \ {w}]
          PROVE  SurfacesInv'
      <4>1. /\ device'.surfaces = device.surfaces
            /\ device'.configurations = device.configurations \ {w}
            /\ device.lost => device'.lost
        BY <3>6, <3>p DEF lose
      <4>2. /\ pool'.closing = pool.closing /\ pool'.lost = pool.lost \ {w}
            /\ pool'.unconfigured = pool.unconfigured
        BY <3>6, <3>p DEF PoolFields
      <4> HIDE DEF forgotten, remade
      <4>a. /\ DOMAIN turned(remade, w) = SurfaceFields
            /\ turned(remade, w).created = remade.created
            /\ turned(remade, w).configured = remade.configured
        BY <3>1, SurfaceCalls
      <4>3. /\ DOMAIN surface' = SurfaceFields
            /\ surface'.created = device.surfaces
            /\ surface'.configured = remade.configured \ {w}
        BY <3>1, <3>6, <3>p, <4>a DEF SurfaceFields
      <4> QED BY <2>3, <3>1, <3>2, <3>p, <4>1, <4>2, <4>3
    <3> QED BY <1>3, <2>3, <3>3, <3>4, <3>5, <3>6 DEF ConfigureOne
  <2> QED BY <2>2, <2>3
<1> QED BY <1>1, <1>2, <1>3

\* recoverDevice: a new device has no surface configured, and is marked with
\* every surface before another job runs.
LEMMA RecoverSurfaces ==
  ASSUME SurfacesInv, RunTyped, PoolTyped, DeviceTyped,
         RecoverMark \/ \E n \in 1..MaxBeats : RecoverBegin(n)
  PROVE  SurfacesInv'
<1> USE DEF window_, chain, graphics, counters
<1>f. ASSUME NEW j, jobs' = finish(j) \/ UNCHANGED jobs, j[1] = "recover"
      PROVE  SurfaceJobsKept
  <2>1. \A k \in {"create", "release"}, w \in Windows : <<k, w>> # j
    BY <1>f
  <2> QED BY <1>f, <2>1, Finished DEF SurfaceJobsKept
<1>1. CASE RecoverMark
  <2>1. /\ run.job[1] = "recover" /\ run' = notRunning /\ jobs' = finish(run.job)
        /\ pool'.unconfigured = pool.unconfigured \cup device.surfaces
        /\ pool'.closing = pool.closing /\ pool'.lost = pool.lost
        /\ UNCHANGED <<window, device, surface, late>>
    BY <1>1 DEF RecoverMark, step, PoolTyped, PoolFields
  <2>2. SurfaceJobsKept
    BY <1>f, <2>1
  <2>3. Linked'
    BY <2>1, <2>2 DEF SurfacesInv, Linked, SurfaceJobsKept
  <2>4. StaleConfigurationsMarked'
    BY <2>1 DEF SurfacesInv, Linked, StaleConfigurationsMarked
  <2>5. Forgotten'
    BY <2>1, <2>2 DEF SurfacesInv, Forgotten, Nothing, SurfaceJobsKept
  <2> QED BY <2>3, <2>4, <2>5 DEF SurfacesInv
<1>2. ASSUME NEW n \in 1..MaxBeats, RecoverBegin(n)
      PROVE  SurfacesInv'
  <2>1. /\ run = notRunning /\ UNCHANGED <<window, pool, late>>
        /\ jobs' = finish(<<"recover", n>>) \/ UNCHANGED jobs
    BY <1>2 DEF RecoverBegin, ready
  <2>2. SurfaceJobsKept
    BY <1>f, <2>1
  <2>3. CASE UNCHANGED <<run, device, surface>>
    BY <2>1, <2>2, <2>3, SurfacesLeftAlone
  <2>4. CASE ~UNCHANGED <<run, device, surface>>
    <3>1. /\ surface' = unconfiguredSurfaces
          /\ \/ device' = [device EXCEPT !.retry = TRUE] /\ UNCHANGED run
             \/ /\ device' = [device EXCEPT !.lost = FALSE, !.retry = FALSE]
                /\ run'.job[1] = "recover"
          /\ device.lost
      BY <1>2, <2>4 DEF RecoverBegin
    <3>2. /\ device'.surfaces = device.surfaces
          /\ device'.configurations = device.configurations
          /\ device'.lost \/ run'.job[1] = "recover"
      BY <3>1 DEF DeviceTyped, Devices
    <3>3. DOMAIN surface' = SurfaceFields /\ surface'.created = surface.created
      BY <3>1 DEF unconfiguredSurfaces, SurfacesInv, Linked, SurfaceFields
    <3>4. Linked'
      BY <2>1, <2>2, <3>2, <3>3 DEF SurfacesInv, Linked, SurfaceJobsKept
    <3>5. StaleConfigurationsMarked'
      BY <3>2 DEF StaleConfigurationsMarked
    <3>6. Forgotten'
      BY <2>1, <2>2, <3>2 DEF SurfacesInv, Forgotten, Nothing, SurfaceJobsKept
    <3> QED BY <3>4, <3>5, <3>6 DEF SurfacesInv
  <2> QED BY <2>3, <2>4
<1> QED BY <1>1, <1>2

\* The invariant of the surfaces holds in every reachable state.
THEOREM SurfacesHold == Spec => []SurfacesInv
<1>1. Init => SurfacesInv
  BY DEF Init, SurfacesInv, Linked, SurfaceFields, StaleConfigurationsMarked, Forgotten, Nothing
<1>2. ASSUME RunTyped, DeviceTyped, PoolTyped, SurfacesInv, [Next]_vars
      PROVE  SurfacesInv'
  BY <1>2, OthersSurfaces, WindowSurfaces, CreateReleaseSurfaces, ConfigureSurfaces,
     RecoverSurfaces DEF Next, Over
<1> QED BY <1>1, <1>2, TypesHold, PTL DEF Spec

\* A configuration the backend lost or never made is marked to be made again,
\* through every order of resizes, losses, recoveries and failures
\* (configureSurfaces, recoverDevice).
THEOREM StaleMarked == Spec => []StaleConfigurationsMarked
<1>1. SurfacesInv => StaleConfigurationsMarked
  BY DEF SurfacesInv
<1> QED BY <1>1, SurfacesHold, PTL

\* Once the release of a closed window has run, and the creation of its surface
\* too, nothing of it is left in the pool, the device or the backend
\* (releaseSurface).
THEOREM ClosedForgotten == Spec => []ClosedWindowsForgotten
<1>1. SurfacesInv => ClosedWindowsForgotten
  BY DEF SurfacesInv, Linked, Forgotten, Nothing, ClosedWindowsForgotten
<1> QED BY <1>1, SurfacesHold, PTL

-----------------------------------------------------------------------------
(* The slots of the pool *)

Encoders == [beat : Nat, order : Orders, done : BOOLEAN]
Slots == [generation : Nat, beat : Nat, framebuffers : SUBSET Windows,
          encoders : SUBSET Encoders, flushed : BOOLEAN]

\* The types of what draw and the pool keep of the frames.
SlotsTyped ==
  /\ pool.slots \in Seq(Slots)
  /\ pool.freeSlots \in Seq(1..Len(pool.slots))
  /\ handler \in [pc : {"idle", "lost", "acquired", "checked"}, beat : 0..MaxBeats,
                  slot : Nat, configure : BOOLEAN]
  /\ beats \in 0..MaxBeats
  /\ DOMAIN frames \subseteq 1..beats
  /\ \A n \in DOMAIN frames :
       frames[n].slot \in 1..Len(pool.slots) /\ frames[n].generation \in Nat

In(s, x) == \E i \in 1..Len(s) : s[i] = x
Free(s) == In(pool.freeSlots, s)

\* The Frame of beat n is one that addEncoder still accepts the slot of.
CurrentIn(f, slots, n) == n \in DOMAIN f /\ f[n].generation = slots[f[n].slot].generation
Current(n) == CurrentIn(frames, pool.slots, n)

\* A slot is free once, and the generation of a Frame, never ahead of its
\* slot's, is its slot's only while the slot is that beat's and not free.
Generations ==
  /\ \A i, j \in 1..Len(pool.freeSlots) : pool.freeSlots[i] = pool.freeSlots[j] => i = j
  /\ \A n \in DOMAIN frames :
       /\ frames[n].generation <= pool.slots[frames[n].slot].generation
       /\ Current(n) => pool.slots[frames[n].slot].beat = n /\ ~Free(frames[n].slot)

\* A beat's Frame stays current from draw until its present has run; the jobs
\* of a beat are scheduled once its draw is over, and one that runs is not
\* finished.
BeatsCurrent ==
  /\ handler.pc # "idle" =>
       /\ handler.beat = beats /\ beats > 0
       /\ \A k \in Kinds : <<k, beats>> \notin DOMAIN jobs
  /\ handler.pc \in {"acquired", "checked"} => Current(beats)
  /\ \A n \in 1..MaxBeats :
       /\ \A k \in Kinds : <<k, n>> \in DOMAIN jobs => n <= beats
       /\ \A k \in Kinds \ {"recover"} : <<k, n>> \in DOMAIN jobs => n \in DOMAIN frames
       /\ <<"present", n>> \in DOMAIN jobs => Current(n)
  /\ run.job # none => run.job \in DOMAIN jobs

\* EncodersInTheirFrame, with Free for the members of freeSlots.
EncodersKept ==
  \A s \in 1..Len(pool.slots) : \A e \in pool.slots[s].encoders :
    /\ e.beat = pool.slots[s].beat
    /\ ~Free(s)
    /\ e.done <=> pool.slots[s].flushed

\* The inductive invariant of the slots.
SlotsInv == SlotsTyped /\ Generations /\ BeatsCurrent /\ EncodersKept

\* A step that leaves the slots, the Frames and draw alone, and only finishes
\* jobs of beats.
LEMMA SlotsLeftAlone ==
  ASSUME SlotsInv,
         pool'.slots = pool.slots, pool'.freeSlots = pool.freeSlots,
         UNCHANGED <<handler, beats, frames>>,
         \A k \in Kinds, n \in 1..MaxBeats : <<k, n>> \in DOMAIN jobs' => <<k, n>> \in DOMAIN jobs,
         run'.job # none => run'.job \in DOMAIN jobs'
  PROVE  SlotsInv'
<1>1. SlotsTyped'
  BY DEF SlotsInv, SlotsTyped
<1>2. /\ \A n : Current(n)' <=> Current(n)
      /\ \A s : Free(s)' <=> Free(s)
  BY DEF Current, Free
<1>3. Generations'
  BY <1>2 DEF SlotsInv, Generations
<1>4. BeatsCurrent'
  <2>1. handler.pc # "idle" => /\ handler.beat = beats /\ beats > 0
                               /\ \A k \in Kinds : <<k, beats>> \notin DOMAIN jobs'
    BY DEF SlotsInv, BeatsCurrent, SlotsTyped
  <2> QED BY <1>2, <2>1 DEF SlotsInv, BeatsCurrent, Kinds
<1>5. EncodersKept'
  BY <1>2 DEF SlotsInv, EncodersKept
<1> QED BY <1>1, <1>3, <1>4, <1>5 DEF SlotsInv

\* One slot changes.
LEMMA SlotChanged ==
  ASSUME SlotsTyped, NEW i \in 1..Len(pool.slots), NEW v \in Slots
  PROVE  /\ [pool.slots EXCEPT ![i] = v] \in Seq(Slots)
         /\ Len([pool.slots EXCEPT ![i] = v]) = Len(pool.slots)
         /\ \A s \in 1..Len(pool.slots) :
              [pool.slots EXCEPT ![i] = v][s] = IF s = i THEN v ELSE pool.slots[s]
BY ExceptSeq DEF SlotsTyped

\* The job that runs is that of a beat, or it creates or releases a surface.
LEMMA JobOfBeat ==
  ASSUME RunTyped, run.job[1] \in Kinds
  PROVE  run.job = <<run.job[1], run.job[2]>> /\ run.job[2] \in 1..MaxBeats
BY DEF RunTyped, Runs, Jobs, Kinds, none

\* A step that changes one slot and neither its generation nor its beat.
LEMMA SlotFilled ==
  ASSUME SlotsInv, NEW i \in 1..Len(pool.slots), NEW v \in Slots,
         pool'.slots = [pool.slots EXCEPT ![i] = v], pool'.freeSlots = pool.freeSlots,
         v.generation = pool.slots[i].generation, v.beat = pool.slots[i].beat,
         \A e \in v.encoders : /\ e.beat = v.beat /\ ~Free(i)
                               /\ e.done <=> v.flushed,
         UNCHANGED <<handler, beats, frames, jobs>>,
         run'.job = run.job
  PROVE  SlotsInv'
<1>1. /\ pool'.slots \in Seq(Slots) /\ Len(pool'.slots) = Len(pool.slots)
      /\ \A s \in 1..Len(pool.slots) : pool'.slots[s] = IF s = i THEN v ELSE pool.slots[s]
  BY SlotChanged DEF SlotsInv
<1>2. SlotsTyped'
  BY <1>1 DEF SlotsInv, SlotsTyped
<1>3. /\ \A n : Current(n)' <=> Current(n)
      /\ \A s : Free(s)' <=> Free(s)
  <2>1. \A n \in DOMAIN frames :
          pool'.slots[frames[n].slot].generation = pool.slots[frames[n].slot].generation
    BY <1>1 DEF SlotsInv, SlotsTyped
  <2> QED BY <2>1 DEF Current, CurrentIn, Free
<1>4. Generations'
  BY <1>1, <1>3 DEF SlotsInv, SlotsTyped, Generations
<1>5. BeatsCurrent'
  BY <1>3 DEF SlotsInv, BeatsCurrent
<1>6. EncodersKept'
  BY <1>1, <1>3 DEF SlotsInv, EncodersKept
<1> QED BY <1>2, <1>4, <1>5, <1>6 DEF SlotsInv

\* draw takes a free slot, or a new one, for its beat.
LEMMA TakeSlot ==
  ASSUME SlotsInv, PoolTyped, takeSlot
  PROVE  /\ handler' = [pc |-> "acquired", beat |-> beats + 1, slot |-> handler'.slot,
                        configure |-> FALSE]
         /\ handler'.slot \in 1..Len(pool'.slots)
         /\ pool'.slots \in Seq(Slots) /\ Len(pool.slots) <= Len(pool'.slots)
         /\ \A i \in 1..Len(pool'.slots) :
              i # handler'.slot => i \in 1..Len(pool.slots) /\ pool'.slots[i] = pool.slots[i]
         /\ pool'.slots[handler'.slot].beat = beats + 1
         /\ pool'.slots[handler'.slot].encoders = {}
         /\ pool'.slots[handler'.slot].framebuffers =
              IF handler'.slot \in 1..Len(pool.slots)
              THEN pool.slots[handler'.slot].framebuffers ELSE {}
         /\ handler'.slot \in 1..Len(pool.slots) =>
              /\ Free(handler'.slot)
              /\ pool'.slots[handler'.slot].generation = pool.slots[handler'.slot].generation
         /\ pool'.freeSlots \in Seq(1..Len(pool'.slots))
         /\ \A i, j \in 1..Len(pool'.freeSlots) : pool'.freeSlots[i] = pool'.freeSlots[j] => i = j
         /\ \A i \in 1..Len(pool'.freeSlots) :
              Free(pool'.freeSlots[i]) /\ pool'.freeSlots[i] # handler'.slot
         /\ DOMAIN frames' = DOMAIN frames \cup {beats + 1}
         /\ \A n \in DOMAIN frames : frames'[n] = frames[n]
         /\ beats + 1 \notin DOMAIN frames
         /\ frames'[beats + 1].slot = handler'.slot
         /\ frames'[beats + 1].generation = pool'.slots[handler'.slot].generation
<1>0. /\ pool.slots \in Seq(Slots) /\ pool.freeSlots \in Seq(1..Len(pool.slots))
      /\ Len(pool.slots) \in Nat /\ Len(pool.freeSlots) \in Nat
      /\ beats \in Nat /\ DOMAIN frames \subseteq 1..beats
  BY FramesAssumption, LenProperties DEF SlotsInv, SlotsTyped
<1>1. PICK b \in Nat : b = beats + 1
  BY <1>0
\* The slots before one is given its beat.
<1>2. ASSUME NEW s \in Nat, NEW slots \in Seq(Slots), s \in 1..Len(slots),
             pool' = [pool EXCEPT !.slots = [slots EXCEPT ![s].beat = b],
                                  !.freeSlots = pool'.freeSlots]
      PROVE  /\ pool'.slots \in Seq(Slots) /\ Len(pool'.slots) = Len(slots)
             /\ \A i \in 1..Len(slots) : i # s => pool'.slots[i] = slots[i]
             /\ pool'.slots[s].beat = b
             /\ pool'.slots[s].encoders = slots[s].encoders
             /\ pool'.slots[s].framebuffers = slots[s].framebuffers
             /\ pool'.slots[s].generation = slots[s].generation
  <2> DEFINE v == [slots[s] EXCEPT !.beat = b]
  <2>1. slots[s] \in Slots
    BY <1>2, ElementOfSeq
  <2>2. /\ v \in Slots /\ v.beat = b /\ v.encoders = slots[s].encoders
        /\ v.framebuffers = slots[s].framebuffers /\ v.generation = slots[s].generation
    BY <2>1 DEF Slots
  <2>3. pool'.slots = [slots EXCEPT ![s] = v]
    BY <1>2 DEF PoolTyped, PoolFields
  <2> HIDE DEF v
  <2>4. /\ pool'.slots \in Seq(Slots) /\ Len(pool'.slots) = Len(slots)
        /\ \A i \in 1..Len(slots) : pool'.slots[i] = IF i = s THEN v ELSE slots[i]
    BY <1>2, <2>2, <2>3, ExceptSeq
  <2> QED BY <1>2, <2>2, <2>4
<1>3. ASSUME NEW s \in Nat, NEW slots \in Seq(Slots),
             frames' = [n \in DOMAIN frames \cup {b} |->
                          IF n \in DOMAIN frames THEN frames[n]
                          ELSE [slot |-> s, generation |-> slots[s].generation]]
      PROVE  /\ DOMAIN frames' = DOMAIN frames \cup {b}
             /\ \A n \in DOMAIN frames : frames'[n] = frames[n]
             /\ b \notin DOMAIN frames
             /\ frames'[b].slot = s
             /\ frames'[b].generation = slots[s].generation
  BY <1>0, <1>1, <1>3
<1>4. CASE pool.freeSlots = <<>>
  <2>1. PICK s \in Nat : s = Len(pool.slots) + 1
    BY <1>0
  <2>2. PICK slots \in Seq(Slots) : slots = Append(pool.slots, newSlot)
    <3>1. newSlot \in Slots
      BY DEF newSlot, Slots
    <3> QED BY <1>0, <3>1, AppendProperties
  <2>3. /\ Len(slots) = s /\ slots[s] = newSlot
        /\ \A i \in 1..Len(pool.slots) : slots[i] = pool.slots[i]
    <3>1. newSlot \in Slots
      BY DEF newSlot, Slots
    <3> QED BY <1>0, <2>1, <2>2, <3>1, AppendProperties
  <2>4. /\ pool' = [pool EXCEPT !.slots = [slots EXCEPT ![s].beat = b], !.freeSlots = <<>>]
        /\ handler' = [pc |-> "acquired", beat |-> b, slot |-> s, configure |-> FALSE]
        /\ frames' = [n \in DOMAIN frames \cup {b} |->
                        IF n \in DOMAIN frames THEN frames[n]
                        ELSE [slot |-> s, generation |-> slots[s].generation]]
    BY <1>1, <1>4, <2>1, <2>2 DEF takeSlot
  <2>5. pool'.freeSlots = <<>> /\ handler'.slot = s
    BY <2>4 DEF PoolTyped, PoolFields
  <2>6. s \in 1..Len(slots) /\ s \notin 1..Len(pool.slots) /\ 1..Len(slots) = 1..Len(pool.slots) \cup {s}
    BY <1>0, <2>1, <2>3
  <2>7. /\ pool'.slots \in Seq(Slots) /\ Len(pool'.slots) = Len(slots)
        /\ \A i \in 1..Len(slots) : i # s => pool'.slots[i] = slots[i]
        /\ pool'.slots[s].beat = b
        /\ pool'.slots[s].encoders = slots[s].encoders
        /\ pool'.slots[s].framebuffers = slots[s].framebuffers
        /\ pool'.slots[s].generation = slots[s].generation
    BY <1>2, <2>4, <2>5, <2>6
  <2>8. newSlot.encoders = {} /\ newSlot.framebuffers = {}
    BY DEF newSlot
  <2>9. <<>> \in Seq(1..Len(slots)) /\ Len(<<>>) = 0
    BY EmptySeq
  <2>10. /\ DOMAIN frames' = DOMAIN frames \cup {b}
         /\ \A n \in DOMAIN frames : frames'[n] = frames[n]
         /\ b \notin DOMAIN frames
         /\ frames'[b].slot = s
         /\ frames'[b].generation = slots[s].generation
    BY <1>3, <2>4
  <2>11. handler' = [pc |-> "acquired", beat |-> beats + 1, slot |-> handler'.slot,
                     configure |-> FALSE]
    BY <1>1, <2>4, <2>5
  <2>12. \A i \in 1..Len(pool'.slots) :
           i # s => i \in 1..Len(pool.slots) /\ pool'.slots[i] = pool.slots[i]
    BY <2>3, <2>6, <2>7
  <2>13. Len(pool.slots) <= Len(pool'.slots)
    BY <1>0, <2>1, <2>3, <2>7
  <2> QED BY <1>1, <2>3, <2>5, <2>6, <2>7, <2>8, <2>9, <2>10, <2>11, <2>12, <2>13
<1>5. CASE pool.freeSlots # <<>>
  <2>1. PICK k \in Nat \ {0} : k = Len(pool.freeSlots)
    BY <1>0, <1>5, EmptySeq
  <2>2. \A i \in 1..k : pool.freeSlots[i] \in 1..Len(pool.slots)
    BY <1>0, <2>1, ElementOfSeq
  <2>3. PICK s \in 1..Len(pool.slots) : s = pool.freeSlots[k]
    BY <2>1, <2>2
  <2>4. PICK free : free = SubSeq(pool.freeSlots, 1, k - 1)
    OBVIOUS
  <2>5. /\ free \in Seq(1..Len(pool.slots)) /\ Len(free) = k - 1
        /\ \A i \in 1..(k - 1) : free[i] = pool.freeSlots[i]
    <3>1. /\ 1 \in Int /\ k - 1 \in Int
          /\ \A i \in 1..(k - 1) : pool.freeSlots[i] \in 1..Len(pool.slots)
      BY <2>1, <2>2
    <3>2. /\ free \in Seq(1..Len(pool.slots))
          /\ Len(free) = IF 1 <= k - 1 THEN k - 1 - 1 + 1 ELSE 0
          /\ \A i \in 1..(k - 1 - 1 + 1) : free[i] = pool.freeSlots[1 + i - 1]
      BY <2>4, <3>1, SubSeqProperties
    <3> QED BY <2>1, <3>2
  <2>6. Last(pool.freeSlots) = s /\ Front(pool.freeSlots) = free
    BY <2>1, <2>3, <2>4 DEF Last, Front
  <2>7. /\ pool' = [pool EXCEPT !.slots = [pool.slots EXCEPT ![s].beat = b], !.freeSlots = free]
        /\ handler' = [pc |-> "acquired", beat |-> b, slot |-> s, configure |-> FALSE]
        /\ frames' = [n \in DOMAIN frames \cup {b} |->
                        IF n \in DOMAIN frames THEN frames[n]
                        ELSE [slot |-> s, generation |-> pool.slots[s].generation]]
    BY <1>1, <1>5, <2>6 DEF takeSlot
  <2>8. pool'.freeSlots = free /\ handler'.slot = s
    BY <2>7 DEF PoolTyped, PoolFields
  <2>9. s \in Nat /\ Free(s)
    BY <1>0, <2>1, <2>3 DEF Free, In
  <2>10. /\ pool'.slots \in Seq(Slots) /\ Len(pool'.slots) = Len(pool.slots)
         /\ \A i \in 1..Len(pool.slots) : i # s => pool'.slots[i] = pool.slots[i]
         /\ pool'.slots[s].beat = b
         /\ pool'.slots[s].encoders = pool.slots[s].encoders
         /\ pool'.slots[s].framebuffers = pool.slots[s].framebuffers
         /\ pool'.slots[s].generation = pool.slots[s].generation
    <3>1. pool' = [pool EXCEPT !.slots = [pool.slots EXCEPT ![s].beat = b],
                               !.freeSlots = pool'.freeSlots]
      BY <2>7, <2>8
    <3> QED BY <1>0, <1>2, <2>9, <3>1
  <2>11. pool.slots[s].encoders = {}
    BY <2>9 DEF SlotsInv, EncodersKept
  <2>12. /\ DOMAIN frames' = DOMAIN frames \cup {b}
         /\ \A n \in DOMAIN frames : frames'[n] = frames[n]
         /\ b \notin DOMAIN frames
         /\ frames'[b].slot = s
         /\ frames'[b].generation = pool.slots[s].generation
    BY <1>0, <1>3, <2>7, <2>9
  <2>13. \A i, j \in 1..k : pool.freeSlots[i] = pool.freeSlots[j] => i = j
    BY <2>1 DEF SlotsInv, Generations
  <2>14. \A i \in 1..(k - 1) : i \in 1..k /\ i # k /\ k \in 1..k
    BY <2>1
  <2>15. \A i, j \in 1..Len(free) : free[i] = free[j] => i = j
    BY <2>5, <2>13, <2>14
  <2>16. \A i \in 1..Len(free) : Free(free[i]) /\ free[i] # s
    BY <2>1, <2>3, <2>5, <2>13, <2>14 DEF Free, In
  <2>17. handler' = [pc |-> "acquired", beat |-> beats + 1, slot |-> handler'.slot,
                     configure |-> FALSE]
    BY <1>1, <2>7, <2>8
  <2> QED BY <1>0, <1>1, <2>5, <2>8, <2>9, <2>10, <2>11, <2>12, <2>15, <2>16, <2>17
<1> QED BY <1>4, <1>5

\* A beat begins.
LEMMA DrawBeginSlots ==
  ASSUME SlotsInv, PoolTyped, DrawBegin
  PROVE  SlotsInv'
<1> USE DEF window_, chain, graphics, counters
<1>0. /\ Len(pool.slots) \in Nat
      /\ beats \in 0..MaxBeats /\ MaxBeats \in Nat /\ DOMAIN frames \subseteq 1..beats
  BY FramesAssumption, LenProperties DEF SlotsInv, SlotsTyped
<1>1. PICK b \in 1..MaxBeats : b = beats + 1
  BY <1>0 DEF DrawBegin
<1>2. handler.pc = "idle" /\ beats' = b /\ UNCHANGED <<jobs, run>>
  BY <1>1 DEF DrawBegin, resting
<1>3. \A k \in Kinds, n \in 1..MaxBeats : <<k, n>> \in DOMAIN jobs => n <= beats /\ n < b /\ n # b
  <2>1. \A k \in Kinds, n \in 1..MaxBeats : <<k, n>> \in DOMAIN jobs => n <= beats
    BY DEF SlotsInv, BeatsCurrent
  <2> QED BY <1>0, <1>1, <2>1
<1>4. run.job # none => run.job \in DOMAIN jobs
  BY DEF SlotsInv, BeatsCurrent
<1>5. CASE device.lost
  <2>1. /\ handler' = [pc |-> "lost", beat |-> b, slot |-> 0, configure |-> FALSE]
        /\ UNCHANGED <<pool, frames>>
    BY <1>1, <1>5 DEF DrawBegin, resting
  <2>2. SlotsTyped'
    BY <1>0, <1>1, <1>2, <2>1 DEF SlotsInv, SlotsTyped
  <2>3. Generations' /\ EncodersKept'
    BY <2>1 DEF SlotsInv, Generations, EncodersKept, Free, Current
  <2>4. \A n \in 1..MaxBeats :
          /\ \A k \in Kinds \ {"recover"} : <<k, n>> \in DOMAIN jobs => n \in DOMAIN frames
          /\ <<"present", n>> \in DOMAIN jobs => CurrentIn(frames, pool.slots, n)
    BY DEF SlotsInv, BeatsCurrent, Current
  <2>5. BeatsCurrent'
    BY <1>1, <1>2, <1>3, <1>4, <2>1, <2>4 DEF BeatsCurrent, Current
  <2> QED BY <2>2, <2>3, <2>5 DEF SlotsInv
<1>6. CASE ~device.lost
  <2>0. takeSlot
    BY <1>6 DEF DrawBegin
  <2>1. PICK s : s = handler'.slot
    OBVIOUS
  <2>2. /\ handler' = [pc |-> "acquired", beat |-> b, slot |-> s, configure |-> FALSE]
        /\ s \in 1..Len(pool'.slots)
        /\ pool'.slots \in Seq(Slots) /\ Len(pool.slots) <= Len(pool'.slots)
        /\ \A i \in 1..Len(pool'.slots) :
             i # s => i \in 1..Len(pool.slots) /\ pool'.slots[i] = pool.slots[i]
        /\ pool'.slots[s].beat = b
        /\ pool'.slots[s].encoders = {}
        /\ s \in 1..Len(pool.slots) =>
             Free(s) /\ pool'.slots[s].generation = pool.slots[s].generation
    BY <1>1, <2>0, <2>1, TakeSlot
  <2>3. /\ pool'.freeSlots \in Seq(1..Len(pool'.slots))
        /\ \A i, j \in 1..Len(pool'.freeSlots) : pool'.freeSlots[i] = pool'.freeSlots[j] => i = j
        /\ \A i \in 1..Len(pool'.freeSlots) : Free(pool'.freeSlots[i]) /\ pool'.freeSlots[i] # s
    BY <2>0, <2>1, TakeSlot
  <2>4. /\ DOMAIN frames' = DOMAIN frames \cup {b}
        /\ \A n \in DOMAIN frames : frames'[n] = frames[n]
        /\ b \notin DOMAIN frames
        /\ frames'[b].slot = s
        /\ frames'[b].generation = pool'.slots[s].generation
    BY <1>1, <2>0, <2>1, TakeSlot
  <2>5. Len(pool'.slots) \in Nat /\ pool'.slots[s].generation \in Nat /\ s \in Nat
    <3>1. pool'.slots[s] \in Slots
      BY <2>2, ElementOfSeq
    <3> QED BY <2>2, <3>1, LenProperties DEF Slots
  <2>6. \A n \in DOMAIN frames :
          /\ frames[n].slot \in 1..Len(pool.slots) /\ frames[n].slot \in 1..Len(pool'.slots)
          /\ frames[n].generation \in Nat
    <3>1. \A n \in DOMAIN frames : frames[n].slot \in 1..Len(pool.slots) /\ frames[n].generation \in Nat
      BY <1>0 DEF SlotsInv, SlotsTyped
    <3>2. 1..Len(pool.slots) \subseteq 1..Len(pool'.slots)
      BY <1>0, <2>2, <2>5
    <3> QED BY <3>1, <3>2
  <2>7. handler' \in [pc : {"idle", "lost", "acquired", "checked"}, beat : 0..MaxBeats,
                      slot : Nat, configure : BOOLEAN]
    BY <1>0, <1>1, <2>2, <2>5
  <2>8. SlotsTyped'
    <3>1. DOMAIN frames' \subseteq 1..b
      BY <1>0, <1>1, <2>4
    <3>2. \A n \in DOMAIN frames' :
            frames'[n].slot \in 1..Len(pool'.slots) /\ frames'[n].generation \in Nat
      BY <2>2, <2>4, <2>5, <2>6
    <3>3. b \in 0..MaxBeats
      BY <1>0, <1>1
    <3> QED BY <1>2, <2>2, <2>3, <2>7, <3>1, <3>2, <3>3 DEF SlotsTyped
  <2>9. \A i : In(pool'.freeSlots, i) => Free(i) /\ i # s
    BY <2>3 DEF In
  <2>10. \A n \in DOMAIN frames :
           pool'.slots[frames[n].slot].generation = pool.slots[frames[n].slot].generation
    BY <2>2, <2>6
  <2>11. \A n \in DOMAIN frames : CurrentIn(frames', pool'.slots, n) <=> Current(n)
    BY <2>4, <2>10 DEF Current, CurrentIn
  <2>12. CurrentIn(frames', pool'.slots, b)
    BY <2>4 DEF CurrentIn
  <2>13. \A n \in DOMAIN frames : Current(n) => frames[n].slot # s
    BY <2>2, <2>6 DEF SlotsInv, Generations
  <2>14. Generations'
    <3>1. ASSUME NEW n \in DOMAIN frames
          PROVE  /\ frames'[n].generation <= pool'.slots[frames'[n].slot].generation
                 /\ CurrentIn(frames', pool'.slots, n)
                      => /\ pool'.slots[frames'[n].slot].beat = n
                         /\ ~In(pool'.freeSlots, frames'[n].slot)
      <4>1. /\ frames[n].generation <= pool.slots[frames[n].slot].generation
            /\ Current(n) => pool.slots[frames[n].slot].beat = n /\ ~Free(frames[n].slot)
        BY DEF SlotsInv, Generations
      <4>2. Current(n) => pool'.slots[frames[n].slot] = pool.slots[frames[n].slot]
        BY <2>2, <2>6, <2>13
      <4> QED BY <2>4, <2>9, <2>10, <2>11, <4>1, <4>2
    <3>2. /\ frames'[b].generation <= pool'.slots[frames'[b].slot].generation
          /\ pool'.slots[frames'[b].slot].beat = b
          /\ ~In(pool'.freeSlots, frames'[b].slot)
      BY <2>2, <2>4, <2>5, <2>9
    <3> QED BY <2>3, <2>4, <3>1, <3>2 DEF Generations, Current, Free
  <2>15. BeatsCurrent'
    <3>1. \A n \in 1..MaxBeats :
            /\ \A k \in Kinds \ {"recover"} : <<k, n>> \in DOMAIN jobs => n \in DOMAIN frames'
            /\ <<"present", n>> \in DOMAIN jobs => CurrentIn(frames', pool'.slots, n)
      <4>1. \A n \in 1..MaxBeats :
              /\ \A k \in Kinds \ {"recover"} : <<k, n>> \in DOMAIN jobs => n \in DOMAIN frames
              /\ <<"present", n>> \in DOMAIN jobs => n \in DOMAIN frames /\ Current(n)
        BY DEF SlotsInv, BeatsCurrent, Current, CurrentIn
      <4> QED BY <2>4, <2>11, <4>1
    <3>2. handler'.pc = "acquired" /\ handler'.beat = b /\ b > 0
      BY <2>2
    <3> QED BY <1>2, <1>3, <1>4, <2>12, <3>1, <3>2 DEF BeatsCurrent, Current
  <2>16. EncodersKept'
    <3>1. ASSUME NEW i \in 1..Len(pool'.slots), NEW e \in pool'.slots[i].encoders
          PROVE  /\ e.beat = pool'.slots[i].beat /\ ~In(pool'.freeSlots, i)
                 /\ e.done <=> pool'.slots[i].flushed
      <4>1. i # s
        BY <2>2, <3>1
      <4>2. i \in 1..Len(pool.slots) /\ pool'.slots[i] = pool.slots[i]
        BY <2>2, <4>1
      <4>3. /\ e.beat = pool.slots[i].beat /\ ~Free(i)
            /\ e.done <=> pool.slots[i].flushed
        BY <3>1, <4>2 DEF SlotsInv, EncodersKept
      <4> QED BY <2>9, <4>2, <4>3
    <3> QED BY <3>1 DEF EncodersKept, Free
  <2> QED BY <2>8, <2>14, <2>15, <2>16 DEF SlotsInv
<1> QED BY <1>5, <1>6

\* draw schedules the recovery, or looks at the marks and then schedules the
\* jobs of its frame.
LEMMA DrawEndSlots ==
  ASSUME SlotsInv, PoolTyped, DrawRecovery \/ DrawCheck \/ DrawSubmit
  PROVE  SlotsInv'
<1> USE DEF window_, chain, graphics, counters
<1>0. /\ beats \in 0..MaxBeats /\ MaxBeats \in Nat
      /\ handler \in [pc : {"idle", "lost", "acquired", "checked"}, beat : 0..MaxBeats,
                      slot : Nat, configure : BOOLEAN]
  BY FramesAssumption DEF SlotsInv, SlotsTyped
<1>1. /\ handler.pc # "idle" /\ UNCHANGED <<beats, run, frames>>
      /\ pool'.slots = pool.slots /\ pool'.freeSlots = pool.freeSlots
  BY DEF DrawRecovery, DrawCheck, DrawSubmit, PoolTyped, PoolFields
<1>2. handler.beat = beats /\ beats > 0 /\ beats \in 1..MaxBeats
  BY <1>0, <1>1 DEF SlotsInv, BeatsCurrent
<1>3. /\ \A n : Current(n)' <=> Current(n)
      /\ \A s : Free(s)' <=> Free(s)
  BY <1>1 DEF Current, Free
<1>4. Generations' /\ EncodersKept'
  BY <1>1, <1>3 DEF SlotsInv, Generations, EncodersKept
<1>5. handler' \in [pc : {"idle", "lost", "acquired", "checked"}, beat : 0..MaxBeats,
                    slot : Nat, configure : BOOLEAN]
  <2>1. \/ handler' = resting
        \/ handler' = [handler EXCEPT !.pc = "checked", !.configure = pool.unconfigured # {}]
    BY DEF DrawRecovery, DrawCheck, DrawSubmit
  <2>2. resting \in [pc : {"idle", "lost", "acquired", "checked"}, beat : 0..MaxBeats,
                     slot : Nat, configure : BOOLEAN]
    BY <1>0 DEF resting
  <2> QED BY <1>0, <2>1, <2>2
<1>6. SlotsTyped'
  BY <1>1, <1>5 DEF SlotsInv, SlotsTyped
<1>7. CASE DrawCheck
  <2>1. UNCHANGED jobs /\ handler.pc = "acquired" /\ handler'.beat = beats /\ handler'.pc = "checked"
    BY <1>0, <1>2, <1>7 DEF DrawCheck
  <2>2. BeatsCurrent'
    BY <1>1, <1>3, <2>1 DEF SlotsInv, BeatsCurrent
  <2> QED BY <1>4, <1>6, <2>2 DEF SlotsInv
<1>8. ASSUME handler' = resting, NEW new, jobs' = schedule(new),
             \A j \in DOMAIN new : \E k \in Kinds :
               /\ j = <<k, beats>>
               /\ k # "recover" => Current(beats)
      PROVE  SlotsInv'
  <2>1. DOMAIN jobs' = DOMAIN jobs \cup DOMAIN new /\ handler'.pc = "idle"
    BY <1>8, Scheduled DEF resting
  <2>2. \A k \in Kinds, n \in 1..MaxBeats :
          <<k, n>> \in DOMAIN jobs' =>
            \/ <<k, n>> \in DOMAIN jobs
            \/ n = beats /\ (k # "recover" => Current(beats))
    BY <1>8, <2>1
  <2>3. \A k \in Kinds, n \in 1..MaxBeats :
          /\ <<k, n>> \in DOMAIN jobs' => n <= beats
          /\ k # "recover" /\ <<k, n>> \in DOMAIN jobs' => n \in DOMAIN frames
    <3>1. \A k \in Kinds, n \in 1..MaxBeats :
            /\ <<k, n>> \in DOMAIN jobs => n <= beats
            /\ k # "recover" /\ <<k, n>> \in DOMAIN jobs => n \in DOMAIN frames
      BY DEF SlotsInv, BeatsCurrent
    <3>2. Current(beats) => beats \in DOMAIN frames
      BY DEF Current, CurrentIn
    <3>3. beats <= beats
      BY <1>0
    <3> QED BY <2>2, <3>1, <3>2, <3>3
  <2>4. \A n \in 1..MaxBeats : <<"present", n>> \in DOMAIN jobs' => Current(n)
    BY <2>2 DEF SlotsInv, BeatsCurrent, Kinds
  <2>5. run.job # none => run.job \in DOMAIN jobs'
    BY <2>1 DEF SlotsInv, BeatsCurrent
  <2>6. BeatsCurrent'
    BY <1>1, <1>3, <2>1, <2>3, <2>4, <2>5 DEF BeatsCurrent
  <2> QED BY <1>4, <1>6, <2>6 DEF SlotsInv
<1>9. CASE DrawRecovery
  <2> DEFINE new == [j \in {<<"recover", handler.beat>>} |-> {pool.lastPresent}]
  <2>1. handler' = resting /\ jobs' = schedule(new)
    BY <1>9 DEF DrawRecovery
  <2>2. \A j \in DOMAIN new : j = <<"recover", beats>>
    BY <1>2
  <2>3. \A j \in DOMAIN new : \E k \in Kinds :
          j = <<k, beats>> /\ (k # "recover" => Current(beats))
    BY <2>2 DEF Kinds
  <2> HIDE DEF new
  <2> QED BY <1>8, <2>1, <2>3
<1>10. CASE DrawSubmit
  <2> DEFINE new == frameJobs(handler.beat, handler.configure, pool.lastPresent)
  <2>1. handler' = resting /\ jobs' = schedule(new) /\ handler.pc = "checked"
    BY <1>10 DEF DrawSubmit
  <2>2. Current(beats)
    BY <2>1 DEF SlotsInv, BeatsCurrent
  <2>3. \A j \in DOMAIN new : \E k \in Kinds : j = <<k, beats>>
    BY <1>2 DEF frameJobs, Kinds
  <2> HIDE DEF new
  <2> QED BY <1>8, <2>1, <2>2, <2>3
<1> QED BY <1>7, <1>9, <1>10

\* Framebuffers are acquired into the slot, its encoders are flushed or one is
\* added to it.
LEMMA FillSlots ==
  ASSUME SlotsInv, RunTyped, PoolTyped,
         \/ \E w \in Windows, status \in Statuses : AcquireOne(w, status)
         \/ FlushEncoders
         \/ \E n \in 1..MaxBeats, order \in Orders : Encoder(n, order)
  PROVE  SlotsInv'
<1> USE DEF window_, chain, graphics, counters
<1>t. /\ pool.slots \in Seq(Slots)
      /\ \A i \in 1..Len(pool.slots) : pool.slots[i] \in Slots
  BY ElementOfSeq DEF SlotsInv, SlotsTyped
<1>e. \A i \in 1..Len(pool.slots) : \A e \in pool.slots[i].encoders :
        /\ e.beat = pool.slots[i].beat /\ ~Free(i)
        /\ e.done <=> pool.slots[i].flushed
        /\ e \in Encoders
  BY <1>t DEF SlotsInv, EncodersKept, Slots
<1>r. ASSUME run.job[1] \in {"acquire", "flush"}
      PROVE  frameOf(run.job) \in 1..Len(pool.slots)
  <2>1. run.job = <<run.job[1], run.job[2]>> /\ run.job[2] \in 1..MaxBeats
    BY <1>r, JobOfBeat DEF Kinds
  <2>2. run.job \in DOMAIN jobs
    BY <1>r DEF SlotsInv, BeatsCurrent, none
  <2>3. run.job[2] \in DOMAIN frames
    BY <1>r, <2>1, <2>2 DEF SlotsInv, BeatsCurrent, Kinds
  <2> QED BY <2>3 DEF SlotsInv, SlotsTyped, frameOf
<1>1. ASSUME NEW w \in Windows, NEW status \in Statuses, AcquireOne(w, status)
      PROVE  SlotsInv'
  <2>1. run.job[1] = "acquire" /\ run'.job = run.job /\ UNCHANGED <<handler, beats, frames, jobs>>
    BY <1>1 DEF AcquireOne, step, RunTyped, Runs
  <2>2. PICK i \in 1..Len(pool.slots) : i = frameOf(run.job)
    BY <1>r, <2>1
  <2> DEFINE drawn == status \in {"Acquired", "Suboptimal"}
             v == [pool.slots[i] EXCEPT !.framebuffers = IF drawn THEN @ \cup {w} ELSE @]
  <2>3. pool'.slots = [pool.slots EXCEPT ![i] = v] /\ pool'.freeSlots = pool.freeSlots
    BY <1>1, <2>2 DEF AcquireOne, PoolTyped, PoolFields
  <2>4. pool.slots[i] \in Slots
    BY <1>t
  <2>5. /\ v \in Slots /\ v.generation = pool.slots[i].generation
        /\ v.beat = pool.slots[i].beat /\ v.encoders = pool.slots[i].encoders
        /\ v.flushed = pool.slots[i].flushed
    BY <2>4 DEF Slots
  <2> HIDE DEF v
  <2> QED BY <1>e, <2>1, <2>3, <2>5, SlotFilled
<1>2. CASE FlushEncoders
  <2>1. run.job[1] = "flush" /\ run'.job = run.job /\ UNCHANGED <<handler, beats, frames, jobs>>
    BY <1>2 DEF FlushEncoders, step, RunTyped, Runs
  <2>2. PICK i \in 1..Len(pool.slots) : i = frameOf(run.job)
    BY <1>r, <2>1
  <2> DEFINE v == flushed(pool.slots[i])
  <2>3. pool'.slots = [pool.slots EXCEPT ![i] = v] /\ pool'.freeSlots = pool.freeSlots
    BY <1>2, <2>2 DEF FlushEncoders, PoolTyped, PoolFields
  <2>4. pool.slots[i] \in Slots
    BY <1>t
  <2>5. \A e \in pool.slots[i].encoders :
          /\ [e EXCEPT !.done = TRUE] \in Encoders
          /\ [e EXCEPT !.done = TRUE].beat = pool.slots[i].beat
          /\ [e EXCEPT !.done = TRUE].done
          /\ ~Free(i)
    <3>1. ASSUME NEW e \in pool.slots[i].encoders
          PROVE  e \in Encoders /\ e.beat = pool.slots[i].beat /\ ~Free(i)
      BY <1>e
    <3>2. ASSUME NEW e \in Encoders
          PROVE  /\ [e EXCEPT !.done = TRUE] \in Encoders
                 /\ [e EXCEPT !.done = TRUE].beat = e.beat /\ [e EXCEPT !.done = TRUE].done
      BY DEF Encoders
    <3> QED BY <3>1, <3>2
  <2>a. PICK encoders : encoders = {[e EXCEPT !.done = TRUE] : e \in pool.slots[i].encoders}
    OBVIOUS
  <2>b. encoders \in SUBSET Encoders /\ \A e \in encoders : e.beat = pool.slots[i].beat /\ e.done /\ ~Free(i)
    BY <2>5, <2>a
  <2>c. v = [pool.slots[i] EXCEPT !.flushed = TRUE, !.encoders = encoders]
    BY <2>a DEF flushed
  <2>6. /\ v.generation = pool.slots[i].generation
        /\ v.beat = pool.slots[i].beat
        /\ v.encoders = encoders
        /\ v.flushed = TRUE
    BY <2>4, <2>c DEF Slots
  <2>7. v \in Slots
    BY <2>4, <2>b, <2>c DEF Slots
  <2>8. \A e \in v.encoders : e.beat = v.beat /\ ~Free(i) /\ (e.done <=> v.flushed)
    BY <2>b, <2>6
  <2> HIDE DEF v
  <2> QED BY <2>1, <2>3, <2>6, <2>7, <2>8, SlotFilled
<1>3. ASSUME NEW n \in 1..MaxBeats, NEW order \in Orders, Encoder(n, order)
      PROVE  SlotsInv'
  <2>1. UNCHANGED <<handler, beats, frames, jobs, run>> /\ n \in DOMAIN frames /\ accepts(frames[n], order)
    BY <1>3 DEF Encoder
  <2>2. PICK i \in 1..Len(pool.slots) : i = frames[n].slot
    BY <2>1 DEF SlotsInv, SlotsTyped
  <2>3. Current(n) /\ pool.slots[i].beat = n /\ ~Free(i) /\ ~pool.slots[i].flushed
    BY <2>1, <2>2 DEF accepts, Current, CurrentIn, SlotsInv, Generations
  <2> DEFINE new == [beat |-> n, order |-> order, done |-> FALSE]
             v == [pool.slots[i] EXCEPT !.encoders = @ \cup {new}]
  <2>4. pool'.slots = [pool.slots EXCEPT ![i] = v] /\ pool'.freeSlots = pool.freeSlots
    BY <1>3, <2>2 DEF Encoder, PoolTyped, PoolFields
  <2>5. pool.slots[i] \in Slots
    BY <1>t
  <2>6. new \in Encoders /\ new.beat = n /\ ~new.done
    BY DEF Encoders
  <2> HIDE DEF new
  <2>7. /\ v \in Slots /\ v.generation = pool.slots[i].generation
        /\ v.beat = pool.slots[i].beat /\ v.encoders = pool.slots[i].encoders \cup {new}
        /\ v.flushed = pool.slots[i].flushed
    BY <2>5, <2>6 DEF Slots
  <2> HIDE DEF v
  <2>8. \A e \in v.encoders : e.beat = v.beat /\ ~Free(i) /\ (e.done <=> v.flushed)
    BY <1>e, <2>3, <2>6, <2>7
  <2> QED BY <2>1, <2>4, <2>7, <2>8, SlotFilled
<1> QED BY <1>1, <1>2, <1>3

\* framePool.release: the slot is free, of the next generation, and no Frame is
\* current that has it.
LEMMA ReleaseFrameSlots ==
  ASSUME SlotsInv, RunTyped, PoolTyped, ReleaseFrame
  PROVE  SlotsInv'
<1> USE DEF window_, chain, graphics, counters
<1>1. PICK m \in 1..MaxBeats : run.job = <<"present", m>> /\ run.job[2] = m
  BY JobOfBeat DEF ReleaseFrame, step, Kinds
<1>2. Current(m) /\ <<"present", m>> \in DOMAIN jobs
  <2>1. run.job \in DOMAIN jobs
    BY <1>1 DEF SlotsInv, BeatsCurrent, none
  <2> QED BY <1>1, <2>1 DEF SlotsInv, BeatsCurrent
<1>3. PICK s \in 1..Len(pool.slots) : s = frames[m].slot
  BY <1>2 DEF SlotsInv, SlotsTyped, Current, CurrentIn
<1>4. frameOf(run.job) = s
  BY <1>1, <1>3 DEF frameOf
<1>5. pool.slots[s] \in Slots
  BY ElementOfSeq DEF SlotsInv, SlotsTyped
<1>6. PICK v : v = released(pool.slots[s])
  OBVIOUS
<1>7. /\ v \in Slots /\ v.generation = pool.slots[s].generation + 1
      /\ v.encoders = {} /\ pool.slots[s].generation \in Nat
  <2>1. pool.slots[s].generation \in Nat /\ pool.slots[s].generation + 1 \in Nat
    BY <1>5 DEF Slots
  <2> HIDE DEF Slots
  <2>2. v = [pool.slots[s] EXCEPT !.generation = pool.slots[s].generation + 1,
                                  !.framebuffers = {}, !.encoders = {}, !.flushed = FALSE]
    BY <1>6 DEF released
  <2>3. v.generation = pool.slots[s].generation + 1 /\ v.encoders = {}
    BY <1>5, <2>2 DEF Slots
  <2>4. v \in Slots
    BY <1>5, <2>1, <2>2 DEF Slots
  <2> QED BY <2>1, <2>3, <2>4
<1>8. /\ pool'.slots = [pool.slots EXCEPT ![s] = v]
      /\ pool'.freeSlots = Append(pool.freeSlots, s)
      /\ run' = notRunning /\ jobs' = finish(run.job)
      /\ UNCHANGED <<handler, beats, frames>>
  BY <1>4, <1>6 DEF ReleaseFrame, PoolTyped, PoolFields
<1>9. /\ pool'.slots \in Seq(Slots) /\ Len(pool'.slots) = Len(pool.slots)
      /\ \A i \in 1..Len(pool.slots) : pool'.slots[i] = IF i = s THEN v ELSE pool.slots[i]
  BY <1>7, <1>8, SlotChanged DEF SlotsInv
<1>10. /\ pool'.freeSlots \in Seq(1..Len(pool.slots))
       /\ Len(pool.freeSlots) \in Nat
       /\ Len(pool'.freeSlots) = Len(pool.freeSlots) + 1
       /\ \A i \in 1..Len(pool.freeSlots) : pool'.freeSlots[i] = pool.freeSlots[i]
       /\ pool'.freeSlots[Len(pool.freeSlots) + 1] = s
  BY <1>3, <1>8, AppendProperties, LenProperties DEF SlotsInv, SlotsTyped
<1>11. SlotsTyped'
  BY <1>8, <1>9, <1>10 DEF SlotsInv, SlotsTyped
<1>12. 1..Len(pool'.freeSlots) = 1..Len(pool.freeSlots) \cup {Len(pool.freeSlots) + 1}
  BY <1>10
<1>13. \A i : In(pool'.freeSlots, i) <=> Free(i) \/ i = s
  BY <1>10, <1>12 DEF Free, In
<1>14. ~Free(s) /\ pool.slots[s].beat = m
  BY <1>2, <1>3 DEF SlotsInv, Generations, Current, CurrentIn
<1>15. \A n \in DOMAIN frames :
         /\ frames[n].slot \in 1..Len(pool.slots) /\ frames[n].generation \in Nat
         /\ frames[n].generation <= pool.slots[frames[n].slot].generation
  BY DEF SlotsInv, SlotsTyped, Generations
<1>16. \A n : CurrentIn(frames, pool'.slots, n) <=> Current(n) /\ frames[n].slot # s
  <2>1. ASSUME NEW n \in DOMAIN frames
        PROVE  CurrentIn(frames, pool'.slots, n) <=> Current(n) /\ frames[n].slot # s
    <3>1. CASE frames[n].slot = s
      BY <1>7, <1>9, <1>15, <3>1 DEF CurrentIn
    <3>2. CASE frames[n].slot # s
      BY <1>9, <1>15, <3>2 DEF Current, CurrentIn
    <3> QED BY <3>1, <3>2
  <2> QED BY <2>1 DEF Current, CurrentIn
<1>17. Generations'
  <2>1. \A i, j \in 1..Len(pool'.freeSlots) : pool'.freeSlots[i] = pool'.freeSlots[j] => i = j
    BY <1>10, <1>12, <1>14 DEF SlotsInv, Generations, Free, In
  <2>2. ASSUME NEW n \in DOMAIN frames
        PROVE  /\ frames[n].generation <= pool'.slots[frames[n].slot].generation
               /\ CurrentIn(frames, pool'.slots, n)
                    => pool'.slots[frames[n].slot].beat = n /\ ~In(pool'.freeSlots, frames[n].slot)
    <3>1. frames[n].generation <= pool'.slots[frames[n].slot].generation
      <4>1. CASE frames[n].slot = s
        <5>1. pool'.slots[s] = v /\ frames[n].generation <= pool.slots[s].generation
          BY <1>9, <1>15, <4>1
        <5> QED BY <1>7, <1>15, <4>1, <5>1
      <4>2. CASE frames[n].slot # s
        BY <1>9, <1>15, <4>2
      <4> QED BY <4>1, <4>2
    <3>2. ASSUME CurrentIn(frames, pool'.slots, n)
          PROVE  pool'.slots[frames[n].slot].beat = n /\ ~In(pool'.freeSlots, frames[n].slot)
      <4>1. Current(n) /\ frames[n].slot # s
        BY <1>16, <3>2
      <4>2. pool.slots[frames[n].slot].beat = n /\ ~Free(frames[n].slot)
        BY <4>1 DEF SlotsInv, Generations
      <4> QED BY <1>9, <1>13, <1>15, <4>1, <4>2
    <3> QED BY <3>1, <3>2
  <2> QED BY <1>8, <2>1, <2>2 DEF Generations, Current, Free
<1>18. BeatsCurrent'
  <2>1. DOMAIN jobs' = DOMAIN jobs \ {<<"present", m>>}
    BY <1>1, <1>8, Finished
  <2>2. \A n \in DOMAIN frames : Current(n) /\ n # m => frames[n].slot # s
    BY <1>14 DEF SlotsInv, Generations
  <2>3. \A n \in 1..MaxBeats : <<"present", n>> \in DOMAIN jobs' => CurrentIn(frames, pool'.slots, n)
    <3>1. \A n \in 1..MaxBeats :
            <<"present", n>> \in DOMAIN jobs => Current(n) /\ n \in DOMAIN frames
      BY DEF SlotsInv, BeatsCurrent, Current, CurrentIn
    <3>2. \A n : <<"present", n>> \in DOMAIN jobs' => <<"present", n>> \in DOMAIN jobs /\ n # m
      BY <2>1
    <3> QED BY <1>16, <2>2, <3>1, <3>2
  <2>4. handler.pc \in {"acquired", "checked"} => CurrentIn(frames, pool'.slots, beats)
    <3>1. handler.pc # "idle" => beats # m
      BY <1>2 DEF SlotsInv, BeatsCurrent, Kinds
    <3>2. handler.pc \in {"acquired", "checked"} => Current(beats) /\ beats \in DOMAIN frames
      BY DEF SlotsInv, BeatsCurrent, Current, CurrentIn
    <3> QED BY <1>16, <2>2, <3>1, <3>2
  <2>5. /\ handler.pc # "idle" =>
             /\ handler.beat = beats /\ beats > 0
             /\ \A k \in Kinds : <<k, beats>> \notin DOMAIN jobs'
        /\ \A n \in 1..MaxBeats :
             /\ \A k \in Kinds : <<k, n>> \in DOMAIN jobs' => n <= beats
             /\ \A k \in Kinds \ {"recover"} : <<k, n>> \in DOMAIN jobs' => n \in DOMAIN frames
    BY <2>1 DEF SlotsInv, BeatsCurrent
  <2>6. run'.job = none
    BY <1>8 DEF notRunning
  <2> QED BY <1>8, <2>3, <2>4, <2>5, <2>6 DEF BeatsCurrent, Current
<1>19. EncodersKept'
  <2>1. ASSUME NEW i \in 1..Len(pool'.slots), NEW e \in pool'.slots[i].encoders
        PROVE  /\ e.beat = pool'.slots[i].beat /\ ~In(pool'.freeSlots, i)
               /\ e.done <=> pool'.slots[i].flushed
    <3>1. i # s /\ i \in 1..Len(pool.slots) /\ pool'.slots[i] = pool.slots[i]
      BY <1>7, <1>9, <2>1
    <3>2. /\ e.beat = pool.slots[i].beat /\ ~Free(i)
          /\ e.done <=> pool.slots[i].flushed
      BY <2>1, <3>1 DEF SlotsInv, EncodersKept
    <3> QED BY <1>13, <3>1, <3>2
  <2> QED BY <2>1 DEF EncodersKept, Free
<1> QED BY <1>11, <1>17, <1>18, <1>19 DEF SlotsInv

\* The other steps.
LEMMA OtherSlots ==
  ASSUME SlotsInv, RunTyped, PoolTyped,
         \/ FindLoss \/ FailPendingMaps \/ RequestSurface \/ PollMaps
         \/ ConfigureEnd \/ AcquireEnd \/ FlushCopy \/ FlushSubmit \/ FlushKeep
         \/ FlushPoll \/ FlushCheck \/ FlushEnd \/ PresentFrame \/ RecoverMark
         \/ \E w \in Windows : \/ Opened(w) \/ Resized(w) \/ SetHidden(w) \/ Closed(w)
                               \/ CreateSurface(w) \/ ReleaseSurface(w) \/ ConfigureOne(w)
                               \/ FlushMap(w) \/ RequestCapture(w)
         \/ Begins \/ UNCHANGED vars
  PROVE  SlotsInv'
<1> USE DEF vars, window_, chain, graphics, counters
<1> DEFINE Alone == /\ pool'.slots = pool.slots /\ pool'.freeSlots = pool.freeSlots
                    /\ UNCHANGED <<handler, beats, frames>>
           Fewer == \A k \in Kinds, n \in 1..MaxBeats :
                      <<k, n>> \in DOMAIN jobs' => <<k, n>> \in DOMAIN jobs
<1>0. run.job # none => run.job \in DOMAIN jobs
  BY DEF SlotsInv, BeatsCurrent
<1>1. CASE \/ FindLoss \/ FailPendingMaps \/ RequestSurface \/ PollMaps \/ FlushKeep \/ UNCHANGED vars
           \/ \E w \in Windows : Resized(w) \/ SetHidden(w) \/ FlushMap(w) \/ RequestCapture(w)
  <2>1. Alone /\ UNCHANGED <<jobs, run>>
    BY <1>1 DEF FindLoss, FailPendingMaps, RequestSurface, PollMaps, FlushKeep, Resized,
                SetHidden, FlushMap, RequestCapture, PoolTyped, PoolFields
  <2> QED BY <1>0, <2>1, SlotsLeftAlone
<1>2. CASE \/ FlushCopy \/ FlushSubmit \/ FlushPoll \/ FlushCheck \/ PresentFrame
           \/ \E w \in Windows : ConfigureOne(w)
  <2>1. Alone /\ UNCHANGED jobs
    BY <1>2 DEF FlushCopy, FlushSubmit, FlushPoll, FlushCheck, PresentFrame, ConfigureOne,
                PoolTyped, PoolFields
  <2>2. run'.job = run.job
    BY <1>2 DEF FlushCopy, FlushSubmit, FlushPoll, FlushCheck, PresentFrame, ConfigureOne,
                RunTyped, Runs
  <2> QED BY <1>0, <2>1, <2>2, SlotsLeftAlone
<1>3. CASE ConfigureEnd \/ AcquireEnd \/ FlushEnd \/ RecoverMark
  <2>1. Alone /\ run' = notRunning /\ jobs' = finish(run.job)
    BY <1>3 DEF ConfigureEnd, AcquireEnd, FlushEnd, RecoverMark, PoolTyped, PoolFields
  <2>2. Fewer /\ run'.job = none
    BY <2>1, Finished DEF notRunning
  <2> QED BY <2>1, <2>2, SlotsLeftAlone
<1>4. ASSUME NEW w \in Windows, Opened(w) \/ Closed(w)
      PROVE  SlotsInv'
  <2>1. Alone /\ UNCHANGED run
    BY <1>4 DEF Opened, Closed, PoolTyped, PoolFields
  <2>2. \/ DOMAIN jobs' = DOMAIN jobs \cup {<<"create", w>>}
        \/ DOMAIN jobs' = DOMAIN jobs \cup {<<"release", w>>}
    <3>1. ASSUME Opened(w)
          PROVE  DOMAIN jobs' = DOMAIN jobs \cup {<<"create", w>>}
      <4> DEFINE new == [j \in {<<"create", w>>} |-> {}]
      <4>1. jobs' = schedule(new) /\ DOMAIN new = {<<"create", w>>}
        BY <3>1 DEF Opened
      <4> QED BY <4>1, Scheduled
    <3>2. ASSUME Closed(w)
          PROVE  DOMAIN jobs' = DOMAIN jobs \cup {<<"release", w>>}
      <4> DEFINE new == [j \in {<<"release", w>>} |-> {pool.lastPresent}]
      <4>1. jobs' = schedule(new) /\ DOMAIN new = {<<"release", w>>}
        BY <3>2 DEF Closed
      <4> QED BY <4>1, Scheduled
    <3> QED BY <1>4, <3>1, <3>2
  <2>3. Fewer
    BY <2>2 DEF Kinds
  <2>4. run'.job # none => run'.job \in DOMAIN jobs'
    BY <1>0, <2>1, <2>2
  <2> QED BY <2>1, <2>3, <2>4, SlotsLeftAlone
<1>5. ASSUME NEW w \in Windows, CreateSurface(w) \/ ReleaseSurface(w)
      PROVE  SlotsInv'
  <2>1. Alone /\ run' = notRunning
    BY <1>5 DEF CreateSurface, ReleaseSurface, ready, PoolTyped, PoolFields
  <2>2. Fewer
    BY <1>5, Finished DEF CreateSurface, ReleaseSurface
  <2>3. run'.job = none
    BY <2>1 DEF notRunning
  <2> QED BY <2>1, <2>2, <2>3, SlotsLeftAlone
<1>6. CASE Begins
  <2>1. Alone
    BY <1>6 DEF Begins, ConfigureBegin, AcquireBegin, FlushBegin, PresentBegin, RecoverBegin,
                Begin, PoolTyped, PoolFields
  <2>2. Fewer
    BY <1>6, Finished DEF Begins, ConfigureBegin, AcquireBegin, FlushBegin, PresentBegin,
                          RecoverBegin, Begin
  <2>3. run'.job # none => run'.job \in DOMAIN jobs'
    <3>1. \/ run' = notRunning
          \/ run'.job \in DOMAIN jobs /\ jobs' = jobs
      BY <1>6 DEF Begins, ConfigureBegin, AcquireBegin, FlushBegin, PresentBegin, RecoverBegin,
                  Begin, ready
    <3> QED BY <3>1 DEF notRunning
  <2> QED BY <2>1, <2>2, <2>3, SlotsLeftAlone
<1> QED BY <1>1, <1>2, <1>3, <1>4, <1>5, <1>6

\* The invariant of the slots holds in every reachable state.
THEOREM SlotsHold == Spec => []SlotsInv
<1>1. Init => SlotsInv
  <2> SUFFICES ASSUME Init PROVE SlotsInv
    OBVIOUS
  <2>1. /\ pool.slots = <<>> /\ pool.freeSlots = <<>> /\ Len(<<>>) = 0
        /\ DOMAIN frames = {} /\ DOMAIN jobs = {} /\ beats = 0
        /\ \A S : <<>> \in Seq(S)
    BY EmptySeq DEF Init
  <2>2. SlotsTyped
    BY <2>1, FramesAssumption DEF Init, SlotsTyped, resting
  <2>3. Generations /\ EncodersKept
    BY <2>1 DEF Generations, EncodersKept
  <2>4. BeatsCurrent
    BY <2>1 DEF Init, BeatsCurrent, resting, notRunning
  <2> QED BY <2>2, <2>3, <2>4 DEF SlotsInv
<1>2. ASSUME RunTyped, PoolTyped, SlotsInv, [Next]_vars
      PROVE  SlotsInv'
  BY <1>2, DrawBeginSlots, DrawEndSlots, FillSlots, ReleaseFrameSlots, OtherSlots
     DEF Next, Over, Begins
<1> QED BY <1>1, <1>2, TypesHold, PTL DEF Spec

\* An encoder is kept only in the slot of the beat it was asked for, while that
\* is not free, and is finished exactly when the flush went through the slot
\* (addEncoder, flushFrame, framePool.release).
THEOREM EncodersStay == Spec => []EncodersInTheirFrame
<1>1. SlotsInv => EncodersInTheirFrame
  <2> SUFFICES ASSUME SlotsInv PROVE EncodersInTheirFrame
    OBVIOUS
  <2>1. DOMAIN pool.slots = 1..Len(pool.slots) /\ DOMAIN pool.freeSlots = 1..Len(pool.freeSlots)
    BY LenProperties DEF SlotsInv, SlotsTyped
  <2>2. \A s : s \in ToSet(pool.freeSlots) => Free(s)
    BY <2>1 DEF ToSet, Free, In
  <2> QED BY <2>1, <2>2 DEF SlotsInv, EncodersKept, EncodersInTheirFrame
<1> QED BY <1>1, SlotsHold, PTL

=============================================================================
