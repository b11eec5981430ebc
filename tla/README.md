# A verification project for cog

cog is a game engine in Go: a concurrent kernel and four plugins on top of it
(`metronome`, `ecs`, `gfx`, `platform`). This directory holds TLA+ models of
its core, model-checked with TLC on small instances, and TLAPS proofs of what
matters most for instances of any size. `PROJECT.json` lists, for every
definition, the source lines it models, and for every property the run that
checks it.

## The system

| Part | State | Operations | Talks to |
|---|---|---|---|
| **lock combiner, lock state** (`kernel/combiner.go`, `lockstate.go`) | two request queues, a try-lock mutex, the waiting list, masks of held and reserved resources, reader counts | `arrive`, `release`, `combine` | job graph hands it jobs; it hands them to the runner |
| **job graph** (`kernel/job.go`, `signal.go`) | slots with generation-stamped list words, waiting counts, successor and signal edges in pools | `acquireJob`, `submit`, `finishJob`, `armSignal` | executors, workers, anyone who calls `Notify` |
| **executor, tasks** (`kernel/executor.go`, `task.go`) | the batch of one publication, arg pools | `Schedule`, `ScheduleAfter`, `Join`, `submit`, `runJob` | job graph, runner |
| **runner** (`kernel/runner.go`) | ready queue, idle count, wake tokens, outstanding count, closed flag | `add`, `settle`, `makeReady`, `work`, `drain` | supervisor's pinned queue |
| **supervisor, lifecycle** (`kernel/supervisor.go`, `lifecycle.go`, `kernel.go`) | live kernels and their order, quitting, done, pinned jobs; per kernel its plugins | `Spawn`, `GetKernel`, `Broadcast`, `Destroy`, `Quit`, `WaitMainThread`, `TickMainThread`; `Init`, `Start`, `Stop`, `Destroy` of plugins | everything |
| **containers** (`kernel/container`) | free lists, rings | `Acquire`/`Release`, `Push`/`Pop`/`Drain` | used everywhere |
| **registration, dispatch** (`configurator.go`, `access.go`, `dispatcher.go`, `socket.go`) | tables filled before the kernel runs | registration, handler sorting, socket resolution | kernel |
| **metronome** | per track: tick, step count, deadline, beats in flight; timers; clock | a track's loop, `Advance`, `Jump`, `Wait`, `Reset` | publishes beats, arms signals |
| **ecs entities, commands** (`entitytable.go`, `commands.go`) | slots with generations, free list, reservation count, windows; lanes of records | `reserve`, `spawn`, `despawn`, `endWindow`, `Commit` | tasks under read locks reserve and record; the barrier commits |
| **ecs stores, refs, observation** (`store.go`, `refs.go`, `keyedrefs.go`, `delta.go`) | rows, shadows, change states and listings | add, remove, write, release, reset | worlds, delta queries |
| **gfx frames, surfaces** (`framepool.go`, `surface.go`, `readback.go`, `table.go`) | frame slots, last present, closing, unconfigured and lost windows | draw, acquire, flush, present, recover | a chain of jobs per frame, platform's windows |
| **platform windows, input** (`windowmanager.go`, `eventprocessor.go`, `inputstate.go`) | requested, applied and known windows, keys, pointers | `Open`, `Change`, `Close`, `processEvents` | the operating system through sockets |
| **platform file systems** | files under keys | write, append, rename | local storage |

Jobs flow in one direction: a publication's handlers schedule a batch in the
job graph; submitted jobs that wait for nothing *arrive* at the lock combiner;
granted jobs are made ready; a worker, or the main thread for a pinned job,
runs the body; completing it releases its locks, feeds and releases its
successors, sends its signals, and settles it.

Where this is hard: nothing in that flow takes a lock across two components.
The combiner is whoever gets a mutex nobody waits for; the job graph links by
compare-and-swap against slots that may be reused; workers park between two
looks at a queue; a drain and a publication check each other's flag and counter
in opposite order; kernels are spawned, published into, destroyed and quit from
any goroutine. The plugins run as jobs under the kernel's locks, so what is hard
there is what outlives a job: reservations and rows across the windows of an
observation, surfaces and captures across frames and a lost device, windows and
keys across runs of the pump. The hazards in `PROJECT.json` name the lines.

What makes each part correct:

- lock combiner: conflicting jobs never run together; the lock state is exact;
  no request is forgotten; waiting writers are neither overtaken nor starved;
- job graph: a job starts after its dependencies and its submit, with the right
  arg; signals are neither early nor lost; pools neither leak nor hand out
  twice;
- runner: no lost wakeup, every job finishes, drain returns and not too early;
- supervisor: only running kernels are reachable, plugins nest, no job runs
  while plugins are destroyed, `Quit` ends;
- metronome: beats in order, never more in flight than allowed, an `Advance`
  that returns finds every track settled;
- ecs: an entity is never alive twice nor again after its end, distinct
  reservations are distinct entities, deltas say exactly what changed;
- gfx: a framebuffer is presented before its surface is touched again, encoders
  stay in their frame, no capture, mark or surface is forgotten;
- platform: the four lists of windows agree after every run, the events tell
  all of the state, held keys are those pressed and not released.

## The modules

`ResourceLocks` is the abstract lock service: jobs *ask*, are *granted* all
their locks at once, and *give them back*. Its safety is one line, `Exclusion`.

`LockCombiner` is the code's lock combiner. A goroutine's program counter walks
through `combine`: `TryLock`, `DrainReleases`, `UnlockNext` per release,
`DrainArrivals` (which starts a pass by clearing the reservations), `GrantNext`
or `KeepNext` per request, `Unlock`, and the two looks `LookReleases` and
`LookArrivals` that decide whether to try again. `stillWaiting`, which the code
keeps in the front of the same slice, is the variable `kept`. Masks are sets of
resources. A job stands for a use of a slot with its task, and may arrive again
once its release was unlocked. `ahead` is a history variable: the jobs that
arrived earlier and still ask.

`JobGraph` is the lock-free job graph with the goroutines that drive it. One
step is one atomic access: `LoadWord` and `SwapWord` are the halves of `link`,
and a compare-and-swap fails if the word changed in between. A list word is a
record of generation and head; a slot keeps its generation when it is given
back, so handles of finished jobs stay meaningful. The combiner and the runner
are reduced to a set of arrived jobs that any worker may start. `log` is a
history variable by handle.

`Runner` is the runner with the main thread's loop. The job graph is reduced to
`DependsOn`: a job is made ready by its publication or by the completion of the
job it waits for. Every atomic, queue and channel access is a step, so the
order of counting, checking and waking is the code's. Two looks are one step with
the send that depends on them, of `idle` before a wake token and of `closed` before
the drain's: the sends do not block, `closed` is never cleared, and a token for a
worker that is idle no more only makes it look again. The main thread ends once the
drain is done, which is so of a kernel that `Quit` takes; one whose `Destroy` had
begun before may find nobody ticking its pinned jobs, which is what `Supervisor`'s
`KernelsGoAway` leaves out. Plugins' goroutines
publish until the drain begins (their `Stop` has returned by then); outsiders
may publish at any time. The jobs a goroutine is about to make ready are a set
(`hand`), taken in any order: the order in which a batch or the successors of a
job are walked does not matter to the runner. `crossed` is a history variable that records the race
of finding F1 below.

`Supervisor` is the supervisor with the lifecycle of its kernels. What happens
under `kernelsMu` is one step, a call of a plugin is one step in which it may
publish. Each kernel's goroutine, whether it is a `Spawn`, a `Destroy` or
`Quit`'s, is in a phase: init, start, live, stop, drain, await, join, destroy, gone.
Of the runner it keeps what the drain depends on. Whoever reached a kernel by
`GetKernel` or `Broadcast` publishes in steps: counted (`PublishNext`), checked
(`CheckOpen`), its handlers run and their jobs counted, and settled (`Submit`). A
goroutine that settles the last outstanding one is in `last` until it has looked
whether the kernel is closed (`settleLast`). The drain closes the kernel
(`BeginDrain`), looks at the count (`CheckOutstanding`), waits for the token
(`AwaitDrained`) and for the workers (`AwaitWorkers`), which end with nothing ready
to run but do not wait for the main thread. So the race of finding F1 is there:
`crossed` is a history of the kernels where work was let through past a goroutine in
`last`, until all of these have looked while the kernel was open.

`Metronome` is metronome on a `ManualClock`. A track's goroutine is a program
counter: the three arms of the select (`Fired`, `Finished`, `Stopped`), then
`publishDue` from `Lock` to `Notify`, with every atomic access of the published
tick a step of its own, since a track reads it under the plugin's mutex while
another stores it without. `Stamp` is everything from the read of the clock to
the unlock: `rearm`, dropped steps, the clamp, the ring of signals. The driver
is one goroutine that calls `Advance`, `Jump` and `Wait`; a `Wait` parks on the
condition variable and is woken by broadcasts only. A channel of capacity one
is a token. The kernel is reduced to beats that finish in any order. As in the
code, the first deadline of a fixed-step track is one step plus its
`MinInterval`, though that setting is documented for variable tracks only.

`EntityTable` and `Store` are the entity table and one store of a world as
operators on a record, one per method: what `reserve`, `spawn`,
`spawnReserved`, `place`, `despawn` and `endWindow` make of a table, and `add`,
`write`, `remove`, `swap` and the two ends of a window of a store, with its tail
of removed rows, the shadows, the row states and the list of changes that stops
at its limit. An entity is a pair of index and generation; a reservation is only
counted until the table is settled, as in the code.

`World` composes them with the command lanes. Its actions are the methods of
`World` under the barrier, `Reserve` and the records of a command buffer, which
need no barrier and interleave with each other, `Commit`, and the reset of the
observation that ends a window. A world has two ends of a window that differ:
the first starts the observation and takes no reservation back, as nobody could
have known of it. Histories: `fate` (what became of each entity), `truth` (what
was last given), `base` (`truth` at the last end of a window). What jobs may do
is the chosen `workload`: which entities they name, whether they write at once
or record, and which records they make.

`Frames` is gfx's frame pool with the jobs of a frame, the surfaces' jobs, the
recovery, and the readers of the device beside them. `draw` is a handler and
takes no lock: its look at `lost`, its `acquire`, its look at the marks and its
`setLastPresent` are steps. The jobs that write the device run alone. The jobs
of a frame read it and are split where another reader, a handler or a loss can
come between: one window at a time, submit from map, map from keeping it
pending. `failing` is the goroutine that set `lost` and has yet to fail the maps
pending. The backend is external: which windows have a surface and which
surfaces are configured; every call may fail, and any may find the device lost.

`Windows` is platform's window manager, event processor and input state. Jobs
edit the request between runs of `processEvents`; a run is `Apply`, the changes
the operating system reports, `Pumped`, one fold per change and `Publish`. The
run holds its resources alone: it is split only so that the changes are chosen
one by one. The operating system is external: which windows exist, which has the
focus, which cursor mode is in force. It may fail an `Open`, a `Change`, a
`SetCursor` or a `SetCursorPosition`, which the code logs, records as applied and
does not try again, and it may lack a cursor mode: `inForce` is the set of modes
that setting a cursor may leave, the one before, Normal, and in the focused window
the one asked for. `changed` and `granted` are histories of what became of the last
attempt; `reader` is one of what somebody who follows only the events believes.

The modules `MC...` give the constants their values, the modules `...Proofs`
hold the proofs.

`TypeOK` says in each module what the state looks like. Only `LockCombiner`'s is
an invariant of a run; of the others, the part that the proofs need is part of
what they prove (`TypesHold`, the `Types` of each invariant).

## The runs

| Run | Instance | Checks |
|---|---|---|
| `lock_combiner` | 3 goroutines, 2 resources, 4 jobs: reader, writer of both, reader of one and writer of the other, no locks | `MutualExclusion`, `LockStateExact`, `NoRequestLeftBehind`, `QuietWaitersAreBlocked`, `WriterNotOvertaken`, `ImplementsResourceLocks`, `EveryRequestGranted` |
| `job_graph` | 2 publications (one's jobs panic), 2 workers, 1 notifier, 3 jobs over 3 slots and 4 edges, up to one dependency besides the feeding job | `StartsAfterDependencies`, `RunsWithFedResult`, `SignalNotEarly`, `PoolsConserved`, `NothingStranded` |
| `runner` | 2 workers, main, a plugin publishing a pinned job and its successor, an outsider publishing a job that publishes | `DrainWaitsUnlessCrossed`, `NoLostWakeup`, `EveryJobFinishes`, `DrainReturns` |
| `supervisor` | kernels of 2 plugins; three workloads: two kernels and a caller, two kernels whose plugins publish pinned jobs, one kernel of two workers with two callers and one job of each kind at a time | `LiveKernelsAreUp`, `PluginsNest`, `NoJobAfterPlugins`, `QuitEnds`, `KernelsGoAway` |
| `metronome` | a fixed-step and a variable track under two kinds of settings, two moves of 1 or 3 up to time 4, waits in between, `Start` and `Stop` at any time | `StepsAddUp`, `InterpolationMatches`, `SignalsTellTheirBeat`, `AdvanceKeepsPace`, `CallsReturn` |
| `world` | two indices, from 0 as by default, one component; four workloads: three entities with changing values, three rows of which one is a mirror's, two entities written by commits of two lanes, one entity with up to three records | `ReservationsHonoured`, `IndicesAccounted`, `ValuesKept`, `DeltasExact`, `CommitInOrder` |
| `frames` | one window, three beats of which two in flight, one loss of the device, two resizes, hides or requests | `SurfaceHeldUntilPresent`, `EncodersInTheirFrame`, `CapturesAccounted`, `StaleConfigurationsMarked`, `ClosedWindowsForgotten` |
| `windows` | two windows, one key, two positions, three changes and two edits with one window opened, two and one with two | `ListsAgree`, `ReadersAgree`, `KeysReleased` |
| `lock_combiner_oldest_first`, `job_graph_only_batch_feeds`, `runner_late_publication`, `frames_acquires_configured` | smaller | the findings |

Bounds. Three goroutines are what a lost request takes: one that combines, one
that fails to, one that releases meanwhile. Three jobs let one depend on a job
and be fed by another, or a slot be reused while a stale handle is about to be
linked; `MaxJobs`, `Slots`, `EdgeSlots` and `MaxDeps` are bounds of the model,
the code's pools grow. In `Runner` each job and publisher publishes at most
once. In `Supervisor` a behaviour has one of the `Workloads`, which bound the
jobs of a kind a kernel has at a time, not how many it ever runs: two kernels meet
in the supervisor's lists and on the main thread, and what is hard about one drain
needs one kernel, two goroutines that publish into it and two that run its jobs. In `Metronome`, `MaxCalls` and `MaxTime` bound
the driver: time 4 holds two steps of length 2, of which a debt cap of one
drops one, and four steps of length 1, which make an unlimited track's ring of
signals grow while it is turned. In `World` two generations of an index make a
stale reservation and a reused row, three rows make a swap that moves a row of
somebody else, and `ChangedEntitiesShift` is 0 instead of the code's 3, so that
the listing of changes stops within three rows and not within twenty-four. In
`Frames` the slots, surfaces and captures of two windows do not meet, so one
window is enough; three beats put a recovery between two frames or a third frame
behind two in flight. In `Windows` a window opens, is focused, gets a key and
loses the focus within one run or over several, since the runs are not bounded;
`MaxEdits` bounds the edits of entries and cursors, not openings and closings; two
edits lock a cursor and free it again, with the second refused.
The largest runs have 7.2 million (`windows`), 1.7 million (`frames`), 326,000 (`world`) and 193,000
(`supervisor`, with liveness) distinct states.
`supervisor` allows deadlock, since a system
after `Quit` has nothing left to do; in the others the state in which all is
over is a stuttering step.

Fairness. Go runs every runnable goroutine, so goroutines go on with what they
are in the middle of (weak fairness per goroutine). Task bodies and plugin
calls return, and main ticks until `Done` is closed: both are what
`Supervisor.TickMainThread` asks of its caller. In `Supervisor` the main thread
runs the pinned jobs of all kernels in the order they came, hence strong fairness
for each kernel's. In `LockCombiner` a ready job
is released by whichever goroutine is free, hence strong fairness: the ready
queue is first in, first out. Nothing is assumed of arrivals, publications,
spawns, destroys, quits, moves of the clock and the metronome's `Start` and
`Stop`: they may come at any time or never. In `Metronome` the kernel finishes
every beat, which `EveryJobFinishes` says of the runner. `JobGraph`
states safety only; `NothingStranded` says what liveness would need, without
fairness.

`EveryRequestGranted` is checked for jobs that read at most one of the
resources others write. A reader of two is not protected (finding F3).

## Findings

- **F1**, `kernel/runner.go:66`. `settle` takes the count to zero and then
  loads `closed`. A publication let through in between, followed by the drain,
  makes the late load see `closed` and send the token while that publication's
  job is outstanding, and `drain` goes on. The workers still run what is theirs
  before they end, but nobody waits for the main thread: with a pinned job `drain`
  returns, the plugins are destroyed and the job runs afterwards.
  `runner_late_publication` shows it; `DrainWaitsUnlessCrossed` shows that
  without this crossing `drain` always waits for all, and `Supervisor`'s
  `NoJobAfterPlugins` that no job then outlives its plugins.
- **F2**, `kernel/executor.go:43`. A job scheduled after one of another batch
  that has not finished runs with its result; the comment says the zero arg.
- **F3**, `kernel/combiner.go:17`. Conflicting jobs are not always granted
  oldest first: a waiting reader reserves nothing.
- **F4**, `gfx/device.go:907`. A recovery keeps the configurations of the device
  that is gone. A window not drawable when its surface should be configured again
  keeps its stale one and, shown before the acquire of that frame, is acquired
  unconfigured; with two frames in flight a draw between `lost.Store(false)` and
  the marks has the same effect. `frames_acquires_configured` shows it;
  `StaleConfigurationsMarked` shows that such a window stays marked, so one later
  frame puts it right.

Smaller disagreements, which the models make explicit and no run is about:

- `gfx/surface.go:110`: `createSurface` also reads the WindowManager, which
  `processEvents` holds, and `releaseSurface` does not, so a window that opens and
  closes at once may have its surface created after its release; it then leaks and
  stays marked. `ClosedWindowsForgotten` leaves out just these (`late`).
- `gfx/device.go:682`: a map made while somebody else finds the device lost may be
  kept pending after the pending ones were failed; it is delivered by no one until
  the next loss or poll. `CapturesAccounted` still holds.
- `platform/events.go:34`, "Losing focus releases every held key": a focused
  window that closes loses the focus without a change that says so, and its keys
  stay held until another window loses it (`orphaned` in `KeysReleased`).
- `platform/eventprocessor.go:178` says focus loss is *followed* by the releases;
  the releases are published before it.
- `platform/inputchange.go:52` says a change that names a window reported closed
  panics; within the batch that reports it closed it does not.
- `ecs/commands.go:289`: a recorded `Spawn` of an entity that is no reservation is
  dropped only if its generation is not the next of its index; the model records
  only entities that were handed out.

Where a model's step is coarser than the code's, without a difference to what is
checked: `JobGraph.Schedule` draws the dependencies from the handles other than the
feeding job and keeps a job's arg with its slot instead of in a pool of its own;
`Metronome.Start` starts all tracks at once; `Frames.Encoder` and `RequestCapture`
look at `lost` and add in one step.

## Proofs

Each `...Proofs` module extends the module it is about and proves its theorems
for every value of the constants that satisfies that module's assumption: first
the invariant and the lemmas that say when its parts survive, then a lemma per
action, then the theorems.

**`LockCombinerProofs`**, for every set of goroutines and resources, every
finite set of jobs and all masks in which no resource is both read and written
(`CombinerAssumption`; `kernel/access.go` builds the masks so):

- `Invariance`: the inductive invariant `IInv`. `MutualExclusion` alone is not
  inductive: a pass grants by looking at the masks only, so the masks must be
  exact (`LockStateExact`); they stay exact under `unlock` only if a release is
  unlocked once and no job is in two lists (`NothingTwice`), and that holds
  across steps of several goroutines only if one of them at a time is inside
  (`Ownership`). The heart are `GrantLocks` and `ReleaseLocks`, which say what
  `canLock`, `lock` and `unlock` do to an exact lock state, the latter by
  counting the readers of each resource.
- `TypeCorrect`, `Exclusive`, `LockStateIsExact`: its parts.
- `NothingLeftBehind`: with the mutex's owner inside the critical part, whoever
  fails to become combiner leaves somebody who will look.
- `Implementation`: every step asks, grants, gives back or stutters, so the
  combiner implements `ResourceLocks`.
- `LineIsOrdered` and `NoOvertaking`: `LineOrdered` says that what is ahead of
  a job stands before it in `kept`, `waiting` and `arrivals` taken together,
  and that a pass has reserved what the jobs it kept write. So when a pass
  grants a job, everything ahead of it was kept by the same pass, and `canLock`
  refuses what is reserved. It cannot rest on the reservations alone: they are
  cleared by every pass.
- `QuietWaiters`: `WaitersBlocked` says of every job in the list, outside of a
  pass, and of every one kept so far within it, that a holder conflicts with it
  or a job before it in the list writes what it needs. Only a release can end
  that, and the goroutine that releases goes on to `combine`.

**`JobGraphProofs`**, for any publications, workers and Notifiers, any sizes of
the pools and any number of dependencies (`JobGraphAssumption`; a goroutine that
publishes is not one that calls `Notify`):

- `Invariance`: the inductive invariant `IInv`. What a job waits for is spread
  over the lists of the jobs it depends on, which other goroutines link to, close
  and walk, so `StartsAfterDependencies` needs nearly everything the graph keeps:
  - `SlotsInv`: a handle whose generation is not its slot's names a job that has
    finished; a list of successors is closed just when its job has finished, one
    of signals no sooner. So a link that finds either is right to give up
    (`linkRefuses`).
  - `RunInv`, `PubInv`, `LinkInv`: which job each worker, publication and linking
    goroutine is at, and that no two are at the same job or edge.
  - `WaitInv`: a job's waiting count is one for the hold of its batch and one for
    each edge taken for it; at zero it has been handed to the combiner, once.
  - `SignalsInv`, `SuccessorsInv`: an edge that is neither free nor being linked
    has one owner, the job whose list it is in or whose list a worker walks
    (`Chained`). The owners are an existentially quantified function: the code
    keeps no such record, and a list alone says what is linked only by following
    it. Every dependency that has not finished is still to be linked, being
    linked, or the owner of an edge (`Pending`), and within a batch so is the one
    that feeds (`Feeding`).
  - `SuccessorsReached`, `SignalsReached`: an edge that is neither free nor being
    linked is reached from the head of some list or from what a worker still has
    to walk; stated as: every set of edges that holds the heads and, with an edge,
    the next one holds it. So no induction over lists is needed, and the code's
    pushes, swaps and steps of a walk change what is reached by one edge.
  - `FlowInv`: whoever owes a job something is still there: a worker has the job
    that was started, a publication the one not submitted, an edge the Signal
    armed; and no job depends on itself, however indirectly (`OrderInv`).
- `StartsLate`, `FedRight` and `SignalsWait` follow: a started job's count is
  zero, so it has no edge left and nothing it depends on is unfinished.
- `PoolsHold`: no slot and no edge leaks, and none is handed out twice.
- `NobodyStranded`: of the jobs left unfinished when all goroutines have come to
  rest, one would depend on none of the others (`OrderInv`); it was submitted, so
  its count is not zero for an edge alone, and the owner of that edge has
  finished, so its list is closed and somebody would still be walking it.

The compare-and-swap is where this is decided (`SuccessorPushed`,
`SignalPushed`): that it finds the word it loaded means that the slot still has
that job and the list is still open, so a finish that takes the list takes the
new edge with it.

**`RunnerProofs`**, for any finite sets of workers and publishers and any jobs,
batches and dependencies within a batch (`RunnerAssumption`;
`DistinctAssumption`: goroutines are distinct, a job belongs to one batch):

- `Accounting`: there is a place for every job (waiting, in a queue, in the hand
  of a goroutine, run, settled), each queue and hand holds just the jobs at its
  place, and `outstanding` is the number of jobs counted and not settled plus
  that of the publications running. The places are an existentially quantified
  function of the invariant: the code keeps no such record.
- `DrainWaits`: with that, a count of zero means that nothing is left, and the
  goroutine that took it to zero is the only one between its decrement and its
  look at `closed` unless a publication crossed it (finding F1).
- `Wakeups`, from an invariant of its own (`PInv`): `idle` is the number of
  workers between `CountIdle` and the end of their wait, so a push that finds it
  zero has a worker left that will look at the queue.

**`SupervisorProofs`**, for any finite set of kernels, any number of plugins and
any workloads:

- `Invariance` (`IInv`) says for each plugin which calls it has had, from the phase
  of its kernel and the plugin the kernel's goroutine is at; `LiveKernels` and
  `Nesting` follow from it.
- `JobsBetween` rests on a second invariant beside it, `WInv`. That the drain found
  the count zero, or got its token, says something of an earlier moment; `WorkInv`
  carries it on: where nothing crossed, a kernel with a goroutine in `last`, with its
  token sent or past its drain has no work, and a closed kernel gets none but from
  work it has.

**`MetronomeProofs`**, for every set of tracks and all settings that `NewTrack`
lets through (`MetronomeAssumption`):

- `TimeAddsUp` (`TimeInv`): the deadlines a fixed-step track stands at are its
  steps taken and dropped times their length, and a variable track's last beat
  is not after the clock.
- `ReadsMatch` (`ReadInv`): what a reader has loaded so far is what the
  publication it began with stored, or the version has moved on and the final
  check sends it back.
- `SignalsTell` (`RingInv`): the signals from the oldest on are those of the
  beats in flight, in order. That a beat which is not the first never looks
  finished takes the distinctness of the signals in the ring, also after
  `growSignals` turned it. `SlotsFreed` is the consequence for the receive: it
  frees the place of a beat that has finished. Where an argument runs over the
  steps of a sequence it takes the least one that fails (`Least`).

**`FramesProofs`**, for any windows, submit orders and bounds
(`FramesAssumption`): the three invariants are independent of each other.

- `CapturesAreAccounted` (`CapturesInv`): which captures the running flush has
  copied and mapped, at each of its steps.
- `StaleMarked`, `ClosedForgotten` (`SurfacesInv`): besides them, that the jobs
  which create and release a window's surface are there while they should be,
  the one before the other.
- `EncodersStay` (`SlotsInv`): the generations of the slots, and that a slot's
  beat is that of the jobs which still name it.

**`WorldProofs`**, for any allocation range, from 0 or later, and mirrored indices, any components
and values, any limit of the change list, any lanes and workloads
(`EntityTableAssumption`, `StoreAssumption`, `WorldAssumption`). `WorldHolds` is
the inductive invariant `IInv`; the four properties follow from it.

- `TableInv` is about the table and the fates. The code finds out only when it
  settles what became of a reservation, so the invariant speaks of what is still
  to be handed out (`toHandOut`, the untaken free entities and the untouched
  indices) and of what was handed out since (`handedOut`, the rest of both). An
  index to be handed out is nowhere else, at the generation after its last
  (`FreshInv`); what was handed out is waiting or has been spawned, and in a world
  that observes nothing else waits (`TakenInv`): that makes it right for the end of
  a window to burn all it finds unspawned. `FatesInv` and `SlotsInv` tie fates,
  slots and the despawned indices together, `PlacesInv` says that no index is
  missing. `ReservationsHold` and `IndicesHold` follow.
- `StoreInv` is about one store. `LinksInv` and `BoundsInv` shape its rows: links
  and rows name each other, through every swap of a row with the last live one or
  into the tail. With that a store is the set of its live rows and the set of its
  tail (`LiveRows`, `TailRows`), of which the other parts speak: live rows have the
  values last given (`ValuesInv`), a state says how the value at the last end of a
  window became today's (`StatesInv`), and unless the listing stopped, just the
  rows not unchanged are listed, once (`ListInv`). `OwnersInv` and `MasksInv` tie
  the store to the table: without them an index used again within a window would
  find the row of its predecessor. `ValuesHold` and `DeltasHold` follow.
- `Spawnable` says of a recorded spawn that its entity was handed out; a commit may
  come when that entity has long been burned.

A commit, the end of a window and the settling are folds, and a fold is a recursive
function underneath; `FoldExists` shows that there is one. It passes through a
sequence of states, each made of the one before (`BurnPath`, `FreePath`,
`VisitPath`, one for each loop of the code, from `BurnFolded`, `FreeFolded` and
`VisitFolded`); that all of them keep the invariant is induction over their
positions in first-order form, by the least position that fails (`LeastNat`,
`UpTo`). `burn` and `visit` are operators of their own for this reason: one
turn of a loop is what the invariant is proved for.

**`WindowsProofs`**, for every set of keys and of positions on the line and any
number of windows, changes and edits (`WindowsAssumption`). The properties are
about the moments at which nothing is left to fold, and none is inductive: in
the middle of a run the window state says what was the case some changes ago.
The invariant `IInv` (`WindowsHold`) says how far behind it is, in terms of what
is still to fold:

- `ListsInv`: the lists are in the order of opening and name the same windows;
  between runs the request may differ, and what it has in addition comes after
  what there was. Two lists in order that name the same windows name them at the
  same places (`SameNames`).
- `WindowsInv`: `Agree` relates a list of changes to what exists and to the states.
  A window exists if its state says so or its opening is to fold, and its closing
  is not; it has the focus if the last change of its focus to fold says so, or
  there is none and its state does; its cursor has the mode applied unless it was
  refused or the focus it gained is still to fold, which applies it again. `ChangesInv` gives the
  order: openings first, each window opens and closes once, and only what exists
  reports anything but its closing. `Agree` is proved to survive one lemma at a
  time (`AgreeFocus`, `AgreeBlur`, `AgreeClose`, ..., one per change reported and
  per change folded, `AgreeApplied` for a request with any windows added, removed
  or refused). `ListsHold` is what it says when nothing is to fold.
- `KeysInv`: while no window has the focus, the loss of the focus is to fold after
  any key pressed and, if one is held and no focused window closed, at all. That
  is `KeysHold` when nothing is to fold.
- `ReaderInv`: `now` is what the reader would know if told the events so far; it
  agrees with the state after every single fold. `MovesInv` says the same of the
  moves: one event for each window that has any, with its motion. `ReadersHold`
  needs both, and that a coalesced move can be taken out of the middle of the
  events without a difference to the reader (`ToldWithout`).

What the reader makes of a list of events is a fold, and so is `without`. As in
`WorldProofs` they pass through a sequence of values (`KeepPath`, `TellPath`) of
which facts are shown by the least position that fails: what is left of a list
(`Without`), what a reader knows after one event more, after two lists of them,
after the releases of all keys and the closings of all windows (`ToldMore`,
`ToldBoth`, `ToldReleases`, `ToldClosings`).

The inductive invariants were checked by TLC on the instances of the runs before
they were proved.

Only model-checked, and why:

- the liveness properties (`EveryRequestGranted`, `EveryJobFinishes`,
  `DrainReturns`, `QuitEnds`, `KernelsGoAway`, `AdvanceKeepsPace`,
  `CallsReturn`): fairness is out of the prover's reach;
- `CommitInOrder` of `World`, which says what a whole commit does to an entity in
  terms of the first and last records about it in all lanes, not turn by turn: the
  folds would have to be described by more than what they keep;
- `TypeOK`'s conjunct on `spawnOrder` in `Supervisor`: `withoutKernel` filters with
  `SelectSeq`, of which the library states nothing;
- `Frames`' `SurfaceHeldUntilPresent`, which reads the dependencies of jobs
  transitively.

No safety property rests on fairness; `World`, `Frames` and `Windows` state none.

## Plan

1. `WallTimer`: the wall clock's timer, whose callback, reset and delivery are
   separate atomic steps.
2. `Refs`: refs and keyed refs through an observation window, beside `Store`.

## Not modelled

`_legacy` is the previous version of the engine, most of the repository's lines,
and not part of the program: nothing outside it imports it.
In metronome, the wall clock, stopwatches and the value of `Alpha` (a quotient of
floats; that its numerator is not negative is part of `InterpolationMatches`)
are left out. Registration, socket resolution and handler sorting run once before any
concurrency. The logger, the generators, value types, the recording backend and
the shader preprocessor hold no state that steps of several actors share.
In ecs, refs, queries, raw values, `Shrink`, the schema and the byte format are
left out. In gfx, the objects and their tables, buffers that jobs map (whose maps
pend and fail as the captures' do), uploads and the timing signals are. In
platform, resizes, text, scroll, labels and modifiers are, and the file systems; a
`Close` that fails is taken to close the window all the same.
The 32-bit generations of jobs, entities and frames wrap only after 2^32 uses of
one slot and are modelled as naturals; the ring of `container.Queue` and the
chunks of the pools are sequences.
