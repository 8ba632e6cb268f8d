# Verification of OBS MultiReplay

TLA+ models of obs-multireplay (sources in `src/src/`), TLC configurations that check them,
and TLAPS proofs about them. The plugin records several cameras through Branch Output, keeps
the last seconds of every camera's encoded packets in RAM, places the recorded files on the
same clock, and plays events back into two OBS inputs, "Replay A" and "Replay B".

`PROJECT.json` lists the components, the runs, the code lines each definition models, the
mutants, the hazards, the findings and the theorems. This file explains them.

## 1. The system

| Component | State it keeps | Operations | Talks to |
| --- | --- | --- | --- |
| `PacketRing` + `MasterTimeline` | deque of packets, bytes, live edge, eviction count; one clock offset per track | `push` (with `evict`), `clear`, `setLimits`, `resolveRange`; `normalize` | called by `PacketTap` under `ringMutex` |
| `PacketTap` | per camera: attached / disposing / detachRequested, the outputs and encoders it holds, the ring | `armAsync`, `armLoop`, `attachLocked`, `detachLocked`, `dispose`, `detachAll`, `unload`, `resolveRange` | Branch Output's output and encoder (libobs), `ReplayCore`, `ReplayChannel` |
| `PlaybackCoordinator` (one per bay) | queue, position, active, generation, program scene to return to, dip | `playEvents`, `playRanges`, `stopEvents`, `skipToNext`, loop, `onClipFinished`, dip timers, scene tasks | `ReplayChannel`, OBS's UI task queue |
| `ReplayChannel` (one per bay, and previews) | the clip, a playing thread, the pacing clock, a clip cache, a prefetch thread | `play`, `stop`, `reset`, `prefetch`, `setPaused`, `releaseSource`; `playbackLoop`, `playReverse` | `PacketTap::resolveRange`, `segment_reader`, the decoder |
| `SegmentIndex` | per camera: recorded files, their anchor on the master clock, their length; `anchors.json` | `start`, `stop`, the watching thread: scan, anchor, save, measure, recompute | the ring's packets, the session folder |
| `EventStore` | events, lists, running order; a pending write; `events.json` and its backups | marks, edits, `save`, the writing thread, `flushWrites`, `setSessionFolder`, `shutdown` | dock, hotkeys, coordinator |
| `ReplayCore`, `branch_output` | configuration, project, recording flag, each camera's status; the filters in the scene collection; `settings.json` | `startRecording`, `stopRecording`, `setConfig`, `newProject`, `openProject`, `reapplyFilterSettings`, `disarmPersistedFilters` | everything above, Branch Output |
| `Export` | a queue of jobs; one reel | `exportEvent`, `exportSequence`, their threads, `shutdown` | the index, FFmpeg |
| `HealthMonitor` | lag window, findings, disk speed | `takeStarted`, `takeStopped`, the sampler, `probeDiskAsync` | `ReplayCore`, the dock's badge |
| `Updater` | status, staged archive; a helper script that outlives OBS | `checkAsync`, `downloadAsync`, `installStaged`, `collectInstallResult` | network, the plugin's folder |
| Dock, hotkeys | live or review, the playhead, the selected row, the armed free review, what the last tick saw | play, review, scrub, step, cue, angle, stop, NOW; `poll()` 30 times a second | the coordinators, the channels straight (steps, cues), `ReplayCore` |
| Plugin entry | - | load, unload, front-end events | all of them |

What is hard here:

* **Threads.** Two encoder threads per camera, the arm thread, one thread per disposal, the
  playing, decoding-ahead and prefetch threads, the index's watcher, the events' writer, the
  sampler, exports, downloads, the UI thread, the keys' thread, and libobs threads that call
  back. Locks are let go between the steps of one operation nearly everywhere.
* **An environment that changes underneath.** Branch Output stops and replaces its output
  and encoder whenever it likes; `obs_output_stop()` was measured not to return; sources are
  renamed, scene collections switched; files are read while they are still being flushed.
* **Sampling.** The dock hears of nothing: `poll()` compares what it sees with what it saw a
  tick ago, and the keys act in between.
* **Order.** Pictures are reordered, tracks interleave, end-of-clip callbacks arrive after
  the queue they belong to is gone, scene switches are posted and not waited for, Branch
  Output's dock hears of filters after they have come or gone, reverse playback decodes one pass while it shows another.
* **Time limits and retries.** The attach retry loop, the silence test, the bounded attempts
  at anchoring and measuring, the 3 s wait for a write, the helper's hour.
* **Persistence.** `anchors.json`, `events.json`, `settings.json`, the scene collection's
  filters and the plugin's own folder, across crashes and changes of project.

## 2. Modules

| Module | Models | State and actions against the code |
| --- | --- | --- |
| `CapturedFootage` | what the live history promises: the footage of the session, and a point that only moves forward, onto keyframes | abstract, no code |
| `PacketRing` | `packet-ring.cpp` fed by `tapEncodedPacket()` | `Normalize`, `Stamp`, `Push` are the three steps of an encoder thread (only the last holds a lock); `Restart` is an encoder replaced or a clock jump; `Rearm` is what `armAsync()` does to a channel; `log` is a history of what was pushed |
| `ClipCopy` (extends `PacketRing`) | `PacketTap::resolveRange()` | `Locate` and `CopyChunk`/`Refuse` are its critical sections; the ring's actions interleave between them |
| `PacketTap` | one camera's lifecycle | `arm` is the arm thread's place in `attachLocked()`, which holds `mutex_` throughout (`MutexFree`) while Branch Output, which takes no lock of ours, moves; `doomed` are the disposal threads |
| `PlaybackCoordinator` | both bays' queues, OBS's UI task queue, the program scene, the dip timers | one action per command, per UI task, per timer tick and for the end of a clip |
| `Dock` (extends `PlaybackCoordinator`) | the keys, hotkeys and gestures of `multireplay-dock.cpp`, `dock-build.cpp` and `replay-core.cpp` that play, and `poll()` | a gesture is one step of the UI thread and contains what it asks of bay A's queue; `Tick` is `poll()`; the queue's own steps go on `Beneath`; `still` is a step or a cue played past the queue; `parked` is a history of where the operator has put the bar |
| `AudioStretch` | `audio-stretch.hpp`, as lengths | `Lay` is one block with the fraction it leaves, `PushFrames`, `TakeAll`, `Flush` are `push()`, `take()`, `flush()`; functions of a stretcher, without a state of their own |
| `PlaybackRun` (extends `AudioStretch`) | one run of `playbackLoop()` / `playReverse()` with its decoding thread, pictures and sound | `Plan` is `reverse_plan::plan()` as a set of passes and their order; `SendNext`/`Receive`/`Emit`/`Tail_` is the forward loop around a decoder that holds pictures back, `Pumped`/`Heard`/`Flushed` the sound on its way through its own decoder and the stretcher, `HearRest` what is let out of both at the end; `DecodePass`/`HandOver` and `TakePass`/`ShowBack`/`FreePass` are the two threads of reverse playback |
| `ReplayChannel` | a replay input's commands, its cache and its threads | a command is a sequence of steps (`ui`), split where another thread can come between: a fetch, a join, a store before a lock. What a run shows is `PlaybackRun`'s business |
| `SegmentIndex` | `segment-index.cpp`, and which files `readRange()` serves | `w` is the watching thread's place in a pass; `ui` the UI thread inside `start()` or `stop()`; `epoch` what the master clock of this process makes of the wall clock; `Crash` starts a process with another one |
| `EventStore` | `event-store.cpp` | each change is one step under `mutex_` that ends in `Save` (a payload queued for the writer); `Take`/`Write` the writer; `Switch`, `FlushDone`/`FlushTimeout`, `LoadFolder` the three parts of `setSessionFolder()` |
| `ReplayCore` | `replay-core.cpp`, `branch-output-control.cpp` | an operation is a list of steps (`todo`) of the UI thread or of the keys' thread: the core's lock is held within a step and not between two; `tasks` is what the event loop has still to deliver: the notices of Branch Output's status dock, and the timer that prunes behind them |
| `Export`, `HealthMonitor`, `Updater` | `export.cpp`; `health.cpp`; `updater.cpp` and the script in `update-installer.hpp` | actions over their own variables, without a `Next` of their own |
| `Plugin` | composes those three from one start of OBS to the next, with the unload | `obs` is up, gone, or how far `obs_module_unload()` has come; commands and unload share the UI thread |
| `PacketRingProofs` (on `ClipCopy`, so on both), `PacketTapProofs`, `PluginProofs`, `PlaybackProofs` (on `Dock` and `PlaybackRun`), `EventStoreProofs`, `ReplayCoreProofs`, `ReplayChannelProofs`, `SegmentIndexProofs` | theorems | section 5 |
| `MC*` | values for TLC | |

Compositions: `ClipCopy` runs on `PacketRing`; `PlaybackRun` plays through `AudioStretch`; `Dock` on `PlaybackCoordinator`; `Plugin` on the three modules it extends;
`PacketRing` implements `CapturedFootage`. The others meet at interfaces: the end of a clip
(`PlaybackCoordinator.ClipEnds`) is what `ReplayChannel.Tell` does, and that a run ends is
`PlaybackRun`'s `RunEnds`, which `ReplayChannel` assumes as fairness of `EndRun`.

Next to the definitions stand small operators marked *Mutant*: plausible mistakes in the
same code. Each property fails when one of them replaces the definition it stands next to.

### What is abstracted

* A packet is its track, keyframe flag, instant and generation, and weighs one unit. Time
  is counted in frames. The rescaling of pts and dts and the tolerance of the drift test are
  reduced to: a track's offset is unlearned, fits, or has moved.
* The eviction loop is one step that ends at the keyframe where the loop ends.
* One camera in `PacketTap`: cameras share `mutex_` and the arm thread, nothing else.
* A queue item is the event it belongs to; which items the engine refuses is
  nondeterministic; a dip takes any number of ticks. The UI task queue is FIFO, which is what
  the comments in `switchToReplayScene()` rely on; OBS's own implementation is external. A switch the UI
  thread posts may in OBS run on the spot; nothing but the switches touches the program scene and
  what it comes back to, and they run in the order they were posted in either case.
* `Dock`: the bar stands at the live edge, in an event, or in a stretch nobody marked; a step
  stays where it is. The ring has captured something, so that there is a live edge. A take is
  fed as long as it records. "In output" is chosen at each press.
* `PlaybackRun` has no wall clock: a picture that no pause holds is shown sooner or later.
  The decoder accepts every packet, or refuses one for good: in the run, the last one. Sound is counted in frames: where a
  block joins best, and how it sounds, is left out. The speed does not change during a run.
* `ReplayChannel` treats a clip as its cache key with a size; whether the ring or the files
  serve it is nondeterministic.
* `SegmentIndex`: comparing packet sizes against the ring finds a file's place or, when
  pictures repeat, does not; it never finds a wrong one. A take that is stopped has closed its
  files before the thread measures again, a beat later. An unreadable file has no length.
* `EventStore`: notes, angles, speeds and list names are one tag.
* `ReplayCore`: a configuration is the source of each slot, the project, and one number for
  everything else a filter is given. The pre-flight passes or refuses. What the UI thread gives to
  `obs_queue_task()` runs on the spot, as measured (`replay-core.cpp:767-769`), so that
  `reapplyFilterSettings()` prunes and adds in one step. What was posted to the event loop is
  delivered before the next click.
* `Plugin`: which packets a file holds, what a server answers and whether a file operation
  works is up to the environment; one newer release exists, and the run has room for one installation.
  Of the plugin's threads it has those of exports, reel, sampler, probe and updater.

## 3. Runs

| Run | Result | Question | Distinct states |
| --- | --- | --- | --- |
| `ring` | passes | Do eviction, reordering, restarts and two threads leave the ring within budget and every accepted range exact? Is a clip copied in chunks the range that was located, or a refusal? Does it all implement `CapturedFootage`? | 1,761,654 |
| `tap` | passes | Does the tap find every capture it stops, balance its references, let go of an encoder that is going away, and does exit end? | 116,098 |
| `dock` | passes | Under every key and gesture: does a queue always wait for exactly one thing, end, stay ended, and give program and picture back; does the panel return to live when a replay ends, and stay put when the operator has parked it? | 361,825 |
| `dock_air` | violated | Can an off-air review reach Program by an angle key? | |
| `coord_bays` | violated | Do the bays share nothing? | |
| `reverse` | passes | Are the pictures asked for shown, in order, all of them, exactly as many as a step asks, does the sound last as long as the pictures at every speed, and does a run always end? | 91,956 |
| `channel` | passes | Do cache limits and projects hold, is no pause lost, does every command return, does the queue hear of every end? | 204,596 |
| `segments` | passes | Are files placed where they were recorded, in every later process too; are lengths true, ranges whole, anchors on the disk in time; does the thread come to rest? | 510,913 |
| `store` | passes | Do running order, ids and instants hold; do marks stay in their project; is there a readable backup; does the file catch up? | 608,356 |
| `session` | passes | Does only REC record; is a take what is configured; does the collection carry exactly the rig the open project was last given; is a filter there until Branch Output's dock has heard that it came? | 3,462,554 |
| `session_rows` | violated | Has the dock heard of the removals before the additions are made? | |
| `plugin` | passes | Is every export answered, does a take judge only itself, is there always a plugin to go back to, does no thread outlive the module? | 559,904 |

### Findings

* `coord_bays`: `finishedTask()` reports the end of a clip to bay A's coordinator, whichever
  bay played it.
* `dock_air`: a scrub arms another unmarked stretch (`freeReviewInNs_`) and leaves
  `freeReviewOnAir_` as the review before had it. Scrub, air the review with Play events, scrub
  elsewhere (off air), press an angle key with "In output" unlit: the new review takes Program.
* `session_rows`: when `reapplyFilterSettings()` has taken a filter away it gives the additions to
  `obs_queue_task()`, so that Branch Output's status dock hears of the removals first
  (`replay-core.cpp:1081-1082`). Its callers are on the UI thread, where such a task does not wait
  for the event loop: additions and removals happen in one turn, which the same comment gives as
  what crashes OBS. At load, where it was measured, the code uses a timer instead
  (`plugin-main.cpp:72-85`), and `HeardWhileThere` holds of it. What the dock does with the
  notices is Branch Output's; the run shows the order of events, not the crash.

### Known divergences that no run shows

Seen while modelling; each is in the models as the code has it, and the properties exclude
it by name, with a history variable, or do not speak of it:

* an OUT in the hole between two generations is accepted and served short
  (`packet-ring.cpp:114` against `packet-ring.hpp:63-67`);
* `clear()` does not count what it drops in `evicted_`, so a copy that spans `armAsync()`
  goes on with the new session's packets (`packet-ring.cpp:35`; `rearmed`);
* the back-off of `attachLocked()` stops an output under `mutex_` (`packet-tap.cpp:636`;
  `BackOffReturns`);
* `detachRequested` survives the re-attach it caused (`packet-tap.cpp:349`): detach, attach,
  detach for the rest of the take;
* `dispose()` tests `moduleGone` before it takes the lock (`packet-tap.cpp:735`); an encoder
  thread of the old capture may still be in `tapEncodedPacket()` when `armAsync()` rewrites its
  timeline (`:326`); `config` is replaced at re-attach while the ring holds older packets (`:574`);
* a refused play request cancels the callback of the queue in progress and nothing else
  (`playback-coordinator.cpp:370`; `orphaned`); an on-air queue replaced by an off-air one never
  gives program back (`:1156`; `strayed`); the second ramp of a dip is stale at its first tick;
* `prevSequenceActive_` is one for both bays: choosing the other bay while one plays reads as
  the end of a sequence, and `setActiveChannel()` polls at once (`dock-poll.cpp:776`,
  `multireplay-dock.cpp:4510`); the hotkey NOW and `clearBothBays()` leave a free review armed
  (`replay-core.cpp:355`, `dock-settings.cpp:1792`, against `multireplay-dock.hpp:1634`), and so do
  the keys that play the last event, whose end then does not hand back to live; a play whose
  clips the engine all refuses leaves the panel in review;
* forwards, the pictures a decoder held back are shown past `maxFrames`
  (`replay-channel.cpp:1251`); the budget of reverse playback counts two passes, and a third
  can be in memory for a moment (`:1419`);
* below a quarter of the speed (the overlap over what is left of a block) a block of sound
  advances the input by the overlap and not by the stretched distance (`audio-stretch.hpp:300`,
  against the LENGTH promise of `:25-28`): at 10 %, which the engine accepts, the sound is 2.5
  times too short (`TooSlow`). A speed changed during a run reaches the pictures and not the
  sound, which keeps the speed it began with (`replay-channel.cpp:1066`);
* `releaseSource()` on the cleanup of a scene collection aborts a run and tells nobody (`:985`);
* a changed `anchors.json` entry whose camera is no longer configured is dropped at load and
  the next save writes the index without it (`segment-index.cpp:745`, `:825`); `coversAnyCamera()`
  trusts `endMasterNs` where `readRange()` uses `coveredEndNs()` (`:678`);
* a mark made between the flush and the load of another project is lost
  (`event-store.cpp:40`; `slipped`);
* overlapping lag windows make "sustained" true after seconds, not ten
  (`health-rules.hpp:109-111` against `health.cpp:463`); a folder changed while the disk probe
  runs is never measured (`health.cpp:557`);
* two reels of the same selection share a file name (`export.cpp:293`); a failed export
  removes the earlier good file of that name (`:909`); a failed reel leaves its partial file;
* a helper that gave up after its hour still counts as waiting (`updater.cpp:988`); after a
  restart of OBS a second helper can be armed for another release (`updater.hpp:152`). The
  model starts OBS only when no helper is at work;
* settings saved during a take reach the filters at the next change only; a collection
  switched brings filters with the folder of then; a project folder that cannot be made leaves
  the project's name set; a source renamed in a take is not found by STOP; an unreadable
  `settings.json` is overwritten; New Project over an existing name overwrites its
  `settings.json` (`replay-core.cpp:1186`) (`strayed`). REC from a key begins a take after
  `setConfig()` has written new settings and before they have reached the filters, or a project
  is changed while the REC that armed is still pointing index and marks (`crossed`). A STOP in that
  last window leaves an index running without a take; nothing says it should not;
* a remote request that timed out is still carried out later (`remote-control.cpp:78-84`).

### Bounds, and why they are enough

* `ring`: four packets, pictures reordered by one, jumps of the clock by -1 and +2, a budget of
  three packets and two instants. Four packets make two GOPs with reordered pictures, several
  one-picture GOPs dropped by one push, and a range on each side of a restart with a hole. Chunks
  of two: a clip takes two critical sections and what it spans can be evicted between them. While
  an answered clip lies with its caller the ring is not followed: it does not depend on it.
* `tap`: three Branch Output outputs, two attempts, two takes: a replacement within a take and
  across two, a camera that gives up, a disposal still running when REC is pressed.
* `dock`: bay A alone (`coord_bays` shows what B's clips do to it), queues of up to two items
  from two events, a stretch nobody marked, three presses of any key with any number of ticks and
  callbacks between them, loops followed up to generation three (`MaxRounds`): a press into a dip,
  a press between the end of a clip and its callback, a press between the end and the tick that
  sees it. `dock_air` needs four presses, one event and one stretch.
* `reverse`: a clip of a GOP of three with reordered pictures, one of two and a lone keyframe;
  passes of two pictures, so that a GOP takes two passes; whole runs, steps of two, stills;
  a decoder that holds back one picture and one that holds back more than the clip. Blocks and
  buffers of sound in the proportions of the code (40, 8, 15 and 21 ms), speeds of 10, 45, 100 and
  250 %: below a quarter, a fraction left by every block, 1x, and a fast one.
* `channel`: four clips with room for two, of which two are over the byte limit together and
  one is alone; four commands: replace while fetching, forget while prefetching, pause before
  the first picture, release while a run ends.
* `segments`: two cameras, two files, a ring of two instants, two attempts and two probes, two
  takes or reopenings, one crash, four instants: a file anchored in one process and read in the
  next, a hole between two takes, a file that never answers.
* `store`: two projects, two lists, three edits, two changes of project and one fault
  (a crash or a spoilt file).
* `session`: two slots and two names (shared, missing, renamed), two projects, one save, one
  new or opened project, one mishap, any number of takes: overlapping callers of REC and STOP, a
  rig saved, left and come back to over a crash. `session_rows` needs two saves and no mishap.
  Names and projects are interchangeable: symmetry, with invariants only.
* `plugin`: two jobs, windows of two seconds of ten frames, two takes, four commands of the
  operator, any number of starts of OBS.

### Fairness

* `PacketTap`: our own threads run. Steps that wait for `mutex_` are strongly fair, because
  the arm thread sleeps with it released. Nothing is assumed of Branch Output, of the operator,
  or of a disposal's `obs_output_stop()`; run `tap` adds that the one in the back-off returns.
* `PlaybackCoordinator`: the UI thread runs its tasks, a ramp has finitely many ticks, a clip
  that is not paused ends. `Dock` asks for less: as long as a task, the end of a clip, the end of a
  ramp or a tick that changes something is due, one of them happens (`Goes`). Nobody has to press a key.
* `PlaybackRun`: the playing and the decoding thread run; all their waits are timed. Nobody
  has to resume or abort.
* `ReplayChannel`: each thread runs, a read ends, and so does a run that is not paused.
* `SegmentIndex`: both threads run and a flush ends. `EventStore`: the writer and the wait for
  it go on. `ReplayCore`: both threads go on with what they began and the event loop turns.
* `Plugin`: the export threads run on and their files are finite; an unload that has begun
  reaches the join of the exports.
* Deadlock checking is off where the system may stop: after unload, when a bound on the
  operator's commands is reached and he does nothing more.

## 4. Hazards

`PROJECT.json` lists what a test of this code would hardly reach, at its line, with the
properties that cover it. Those without a property are divergences kept in the model (above).

## 5. Proofs

All theorems hold for every value of the constants, under the named assumptions of the
modules. They type the constants and relate them to each other; three say more: `Dock` is about one bay (`OneBay`), the
clips of `PlaybackRun` are ones a decoder can play (`ClipsAssumption`, below), and there are finitely many
clips to export (`ClipsAssumption` of `Export`: the events and angles of a project).

**`PacketRingProofs`**: `TypeCorrect`, `HeadIsDecodable`, `BudgetIsKept`, `LiveEdgeIsCovered`,
`RingIsWhole`, and `RingImplementsFootage`, the refinement of `CapturedFootage`. The inductive
invariant `IInv` joins them. That the head is a keyframe needs to know which keyframes the loop
may stop at; that the ring is the end of what was captured is carried position by position
(`EndOf`), because an equation between `SubSeq`s does not survive `Append` in one step for the
provers; the budget needs the live edge. `CutFacts` and `PushFacts` say what an eviction and a
push do to positions and lengths, once.

The second half is about `ClipCopy`. `RangesAreExact` needs to know what the encoder threads can
have left in a ring (`InEras`): a first picture of a generation is a keyframe and nothing of it
comes before, a keyframe is later than every picture before it in its generation, and what still
waits to be pushed keeps to that. Only then is the keyframe `resolveRange()` looks for, the last
one at or before the IN, also the place from which nothing of the range is missed. `ServesExactly`
says it of any ring; `EarliestIs` and `LatestIs` say that the bounds the code folds over exist.
`ClipsAreWhole` needs `Copied`: within a session, what was located stays where it was captured, and
the clip is what the copy has passed of it; an eviction that reaches into it is seen, because the
count of evicted packets is compared at every chunk. `CopyIsRing`: under a copy the ring does what
`PacketRing` allows, so the theorems of the first half hold there too.

**`PacketTapProofs`**: `StopsFindTheirCapture`, `RefsStayBalanced`, `OnlyOneCaptures`,
`StopSticks`. The invariant is `Owned`: the types; an output of ours belongs to the channel, to the
arm thread's attempt or to one disposal (`OneOwner`); the owner's captures are its own
(`OwnerCaptures`); and the references held are exactly the owners' (`OwnerHolds`). Balance alone
is not inductive: whether a release is the last one depends on who else may still hold it.

**`PluginProofs`**: `FindingsAreOfThisTake` (invariant `ThisTake`: what the sampler copied when
it woke is of the take in progress as long as there is one, because REC and STOP join it),
`UnloadWaits` (`WaitedFor`: each stage of the unload knows the threads joined before it, and no
thread starts another), `NeverWithoutAPlugin` (`WayBack`: what is in the backup when the folder
is being filled or removed), `ClipsAreAttended` (`Attended`: `workerRunning_` is down only when no
thread is left to look at the queue, the abort is up from the unload on, and past the join every clip
has its result). The last is the safety half of `JobsAreAnswered`: a clip that waits is never forgotten,
whichever of the worker's last look and the next request comes first (`export.cpp:141`, `:681`); that the
thread then gets to it is fairness.

**`PlaybackProofs`**, first half: every safety property of the run `dock`, over any presses, events and bounds.
`ParkedStays` (invariant `Parked`: while the bar is parked and nothing is armed, an idle queue
is one `poll()` has already seen idle, or one whose end a gesture took from under it).
`OneThing` and `NothingStartsByItself` share `QueueInv`: no callback or timer on its way carries
a generation to come, exactly one that is current is left while a queue is in progress
(`Waits`), and none when it is over or was cancelled (`Quiet`). The second half is what makes it
inductive: a start would otherwise meet a leftover of its own generation. `Starts` and
`Advances` say once what `startNext()` and `onEventFinished()` need of their callers.

`ComesBack` adds a third. Its invariant `AirInv` looks at where the FIFO leads
(`BoundForReplay`: its last scene task, or program when there is none) rather than at program,
which the posted tasks have yet to reach; it needs `QueueInv` to know that a dip's bottom and a
clip's end find the queue they started from.

`NeverLeftDark` is the safety half of `DipEnds`: the bay's input is below full opacity only while a ramp
is under way (`Lit`); every step that takes the last ramp away lights it.

The second half is about `PlaybackRun`, first its pictures: `PicturesComeInOrder` and
`CompletedRunsAreWhole`. Backwards, `PlanIsSchedule` comes first: the passes `plan()` makes keep nothing
that was not asked for, each is newer than all that follow it, and together they miss no picture.
It counts: a pass's place in the plan is the number of passes that come sooner (`Ranks`), and its
slice the number of newer pictures of its GOP divided by the pictures a pass may keep (`SlicesGo`).
Then the invariant `Back` follows the passes from hand to hand: what was shown is newer than what
is being shown, that than the pass that waits, that than the one being decoded (`BackOrder`), and until
the run is cut short nothing decoded has been lost between them (`BackWhole`); a refused packet is
remembered in `decodeFailed` for the thread that will say `completed`. Forwards, the invariant `Forw`
does the same for shown, waiting, held by the decoder and still to be sent; it is inductive
because of `Ripe`: a picture the decoder gives back before the end of the clip is older than any that
is still to be sent.

That is where `Playable` is needed, which is what encoder and decoder grant and the code relies
on: every packet has an instant of its own in its track (the decoders' output is sorted and kept by it), a
keyframe begins the clip's first GOP and every GOP is closed (the code empties the decoder before a
pass and decodes no packet outside it), and the decoder holds back at least as many pictures as
the stream moves ahead of one (it gives them back by instant). `Playable` is stated about the
packets, and TLC evaluates it on the clip of the run `reverse`, whose first GOP is reordered.

Then its sound: `SoundLastsAsLong`, for every clip, size of block and buffer, decoder and speed. `Process`, the
loop of `push()` over the blocks of a buffer, is a recursive function. What it returns is not computed by
induction but caught: the states reached from a stretcher block after block are the least set closed
under `Lay` (`Course`), one of them is short of another block because a block consumes input (`Short`),
and it is the only one, and what `Process` returns (`Processed`). So what every block keeps is kept by a
buffer. That is `InStep`: what was made so far, and the tail that waits for the next block, are what
the input consumed so far comes to at this speed, the fraction carried from block to block counted in.
At a quarter of the speed and more it is an equation, below (`TooSlow`) only an inequality, which is the
divergence of section 3 told as a proof. `FlushFits` says what the silence of `flush()` adds: enough that
nothing of the clip is left inside, and the sound is cut to the clip's length. `SoundOK` counts: what went
into the stretcher is one buffer for each packet sent, not before the IN, that its decoder no longer holds
(`Sounded`); and a whole run has sent them all (`SoundInv`).

Then its end: `RunsAreFinite`. Three numbers, how many packets or passes are still to be taken up
(`Unsent`), how many pictures and buffers are inside (`Inside`) and where the two threads stand (`Standing`), of
which every step of a run lowers the first it changes, and which neither abort nor pause touch. This is the part
of `RunEnds` a proof can reach: a run that keeps stepping ends. That the step it needs is always enabled,
and taken, is what TLC adds.

**`EventStoreProofs`**: every safety property of the run `store`. The invariant joins four parts:
what lies in memory (`Kept`), in the writer's hand (`InHand`), under way between flush and load
(`Under`) and on the disk with its backups (`OnDisk`); each list is numbered without repetition
and each id is its own, wherever the list lies, so that a crash, a load or a late write meets
nothing worse than what an edit leaves behind. `Normalized` says that `normalizeOrder()` gives
distinct places, once; `SavedIsWritten`, `ReadIsSound` and `EditsAreProper` what a save, a load and an
edit hand on. New ids and places are one past the greatest: that a finite set of integers has a
greatest is proved from the least finite subset that has none (`Greatest`), as the library's
induction theorems cannot be instantiated. Assumed: instants and the roll are integers
(`IntegersAssumption`), and no project folder is the empty name (`FoldersAssumption`).

`NothingIsLeftUnwritten` is the safety half of `FileCatchesUp`. Its invariant `Carried` follows the newest payload of
the open folder, queued, in the writer's hand or on the disk (`Newest`): it is the store as it was saved, or what the
store was read from. That the load then finds the same list again needs `normalizeOrder()` to leave alone what
it made (`NormalizedStays`), and the way to the wall clock and back to be the identity (`ReadBack`), which it is
for instants after the wall clock's zero (`OnTheClock`; the file takes a negative OUT for an open end).
The theorem excludes by name what section 3 lists: a change between flush and load, or a flush
that gave up waiting (`slipped`).

**`ReplayCoreProofs`**: every safety property of the run `session`. `Settings` says that a readable file
of a project is the rig last saved in it, and carries its name. `FiltersRecordForTakes` needs `Armoury`:
filters sit on sources that are there; one that is on was armed by the take in progress, and sits
where STOP will look for it. `RigIsDeclared` and `TakesAreWhole` add `Rigged`: what each of
the two threads still has to do is one of a few lists (`Lists`); no take has its filters taken from under
it (`NotInTake`); who is about to point index and marks has the open project in hand (`Aimed`); the
filters are those of the configuration unless a reapply is still to come (`Declared`); and within a take
every camera that is there is on, and index and marks are of its folder (`InTake`). That the configuration
is in its turn the rig the open project was last given is `AsGiven`, which has to know that a project
whose folder could not be made has nothing on its way to the filters.

`NoticesAreOfFiltersThere` proves `HeardWhileThere` (invariant `Heard`): while a notice of a filter that came is
on its way nothing can make pruning take it. The UI thread begins nothing new before its queue is
empty; the operations that prune twice in one turn have the same slots both times (`AtWork`); and
the timer set at load stands behind the notices of all that was loaded, and what is announced behind
it sits where its slot says (`AfterPruning`).

**`ReplayChannelProofs`**: `PausesReachTheClock`, `WaitsAreAnswered`, `OneThreadDraws`. The invariant:
the clock follows the button except within the pause command (`ClockFollows`); the abort is up
during a join and nowhere else (`AbortIsForJoins`), which is why a run that keeps silent is one whose
replacement or cancellation is already under way; a start finds its thread joined (`Joined`).
`CacheAlwaysHolds`: the cache's limits, one entry per clip, nothing forgotten. That dropping the entry
of the clip being put, and then the oldest ones until it fits, ends within the limits is proved over
positions (`Without`, `Place`); the bytes held are a recursive function, unfolded one entry at a time.
`WaitsEnd` and `CommandsAreFinite` are the safety half of `CommandsComeBack`: a join comes after the abort, so
that a paused clip ends under it; and one number (`ToGo`) counts down with every step of any thread
until the command is back.

**`SegmentIndexProofs`**: `AlwaysPlacedTruly`, `AlwaysOnDisk`, `AlwaysFinalIsTrue`,
`AlwaysServedIsWhole`: every safety property of the run `segments`, for any cameras, files, ring and
clocks. The invariant: entries and the thread's copies are of files that exist and agree with them
(`OfFiles`); the list of a camera is in the order of its anchors, two files apart (`InOrder`); a file
waits to be placed at most once (`WaitsOnce`); what the UI thread in `stop()` is waiting for
(`StopsWithUi`); which places are not yet in `anchors.json`, and that only the pass that placed them
may hold those (`WrittenDown`); where a length comes from (`LengthsKnown`); and the newest file of a
camera has no end (`NewestIsOpen`), without which a range could run past it into nothing.
`AlwaysServedIsWhole` also goes by the number of files of a camera: of the files that begin after the
IN the code joins each to the one before, and the gap, if there was one, was at the first that begins
after a missing instant.

The library's theorems of induction cannot be used here, because none of the installed provers can
instantiate their operator. Where a proof goes by the size of a set or the length of a list, a lemma of
first order (`ByInduction`, `LeastOf`, `Greatest`) says that a set of numbers which is not empty has a
least element, or a finite one a greatest, and the proof takes the least counterexample.

Not proved: the coordinator with two bays, of which finding `coord_bays` is one, and all liveness, which is out of the
prover's reach together with `ENABLED`. Of `DipEnds`, `JobsAreAnswered`, `RunEnds`, `EveryRunIsReported`,
`CommandsComeBack` and `FileCatchesUp` the part that is safety is proved (`NeverLeftDark`, `ClipsAreAttended`,
`RunsAreFinite`, `WaitsAreAnswered`, `WaitsEnd` with `CommandsAreFinite`, `NothingIsLeftUnwritten`): who waits has
somebody to wait for, and what counts down does so at every step. That the steps are taken stays with TLC.

## 6. Not modelled, and what could follow

* The Qt dock beyond its playing keys, `poll()`'s transport and what its dialogs ask of the engine:
  widgets, layout and drawing, a third of the code's lines, carry no protocol of their own. The in-process self test, another
  sixth, is a test. These two are why the map covers a modest share of all lines.
* Branch Output's installer: the worker pattern of `Updater` again. Remote control: posts to the
  UI thread. Timeline and angle layout: pure functions on data.
* The music bed and the OBS transition borrowed for a scene switch; live speed changes.
* Next: `PacketTap` composed with `PacketRing`, so that an encoder thread of an old capture meets
  `armAsync()`; two bays, with the A|B selector, in `Dock` once finding
  `coord_bays` is fixed.
