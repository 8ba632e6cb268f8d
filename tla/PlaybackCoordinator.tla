------------------------ MODULE PlaybackCoordinator ------------------------
(***************************************************************************)
(* The replay queues (src/playback-coordinator.cpp): one per bay, each     *)
(* playing clips into its own OBS input, both sharing OBS's FIFO of UI     *)
(* tasks and the program scene.                                            *)
(*                                                                         *)
(* Every command, every UI task and every tick of a dip's timer runs on    *)
(* OBS's UI thread (hotkeys and remote requests are posted to it) and is   *)
(* one step, taken under the bay's mutex_.  They interleave with each      *)
(* other, and with the playback thread reaching the end of its clip.       *)
(*                                                                         *)
(* Data kept: an item of a queue is the event it belongs to (two angles of *)
(* one event are cut, two events are dipped when eventFadeMs > 0, which    *)
(* is read at each boundary).  Whether the engine serves an item is its    *)
(* own business: ReplayChannel::play() may refuse any.  Pausing is left    *)
(* out: a paused clip is one that has not ended yet.                       *)
(*                                                                         *)
(* Scene switches are posted by the UI thread itself, and OBS may run them *)
(* on the spot.  Here they wait their turn in the FIFO: nothing but they   *)
(* read or write `program` and `previous`, they run in the order they were *)
(* posted either way, and the properties look when all have run.           *)
(***************************************************************************)
EXTENDS Naturals, Sequences, FiniteSets

CONSTANTS
    Bays,         \* "A", or both
    Events,       \* the events that may be queued
    MaxItems,     \* bound: items in a queue
    MaxCommands,  \* bound: commands given
    MaxRounds     \* bound: clips a looping queue is followed for

ASSUME BaysAssumption == Bays \subseteq {"A", "B"} /\ "A" \in Bays
ASSUME BoundsAssumption == {MaxItems, MaxCommands, MaxRounds} \subseteq Nat

NoClip == 0   \* generations count from 1
Home   == "live"
Replay(b) == IF b = "A" THEN "replay A" ELSE "replay B"   \* Config::outputSceneName(B)
Nowhere == "nowhere"
Queues == UNION {[1..n -> Events] : n \in 1..MaxItems}

VARIABLES
    queue,     \* queue_, per bay
    pos,       \* queuePos_
    active,    \* active_
    toOutput,  \* toOutput_
    gen,       \* playGen_
    loop,      \* loop_
    clip,      \* the generation whose clip the playback thread plays, or NoClip
    previous,  \* previousSceneName_
    dark,      \* the bay's input is held below full opacity by a dip
    ramps,     \* the dip timers that are running
    tasks,     \* OBS's UI task queue
    program,   \* the scene in program
    orphaned,  \* history: a refused request has cancelled the queue in progress
    strayed,   \* history: a queue on air was replaced by one that is not
    commands   \* history: commands given

bayVars == <<queue, pos, active, toOutput, gen, loop, clip>>
dipVars == <<dark, ramps>>
obsVars == <<tasks, program, previous>>
history == <<orphaned, strayed, commands>>
vars    == <<bayVars, dipVars, obsVars, history>>

-----------------------------------------------------------------------------
(* Starting and ending.                                                    *)

Restore(b, out, ts) == IF out THEN Append(ts, [kind |-> "restore", bay |-> b]) ELSE ts

\* startNext(): every item is given a generation and tried; the ones the engine refuses
\* are passed over.  `q`, `from`, `g`, `out` and `ts` are the queue, the position, the
\* generation, toOutput_ and the task queue it starts from.
StartNext(b, q, from, g, out, ts) ==
    \/ \E k \in from..Len(q) :
        /\ pos' = [pos EXCEPT ![b] = k]
        /\ gen' = [gen EXCEPT ![b] = g + (k - from + 1)]
        /\ clip' = [clip EXCEPT ![b] = g + (k - from + 1)]
        /\ active' = [active EXCEPT ![b] = TRUE]
        /\ tasks' = ts
    \/  /\ pos' = [pos EXCEPT ![b] = Len(q) + 1]
        /\ gen' = [gen EXCEPT ![b] = g + (Len(q) - from + 1)]
        /\ clip' = [clip EXCEPT ![b] = NoClip]
        /\ active' = [active EXCEPT ![b] = FALSE]
        /\ tasks' = Restore(b, out, ts)

Ramp(b, kind, g) == [bay |-> b, kind |-> kind, gen |-> g]

\* onEventFinished(), with the generation, the clip and the task queue its caller has left
\* (it stops no clip itself, except through play()): the next item (cut to, or dipped to
\* when it is another event), the first one again when looping, or the end.
Advance(b, g, playing, ts) ==
    LET q == queue[b]
        next == pos[b] + 1
        again == loop[b] /\ q # <<>> /\ g < MaxRounds
    IN
    \/  /\ next <= Len(q)
        /\ StartNext(b, q, next, g, toOutput[b], ts)
        /\ UNCHANGED ramps
    \/  /\ next <= Len(q) /\ q[next] # q[pos[b]]
        /\ ramps' = ramps \cup {Ramp(b, "out", g)}
        /\ pos' = [pos EXCEPT ![b] = next]
        /\ gen' = [gen EXCEPT ![b] = g]
        /\ clip' = [clip EXCEPT ![b] = playing]
        /\ tasks' = ts
        /\ UNCHANGED active
    \/  /\ next > Len(q) /\ again
        /\ StartNext(b, q, 1, g, toOutput[b], ts)
        /\ UNCHANGED ramps
    \/  /\ next > Len(q) /\ ~again
        /\ active' = [active EXCEPT ![b] = FALSE]
        /\ tasks' = Restore(b, toOutput[b], ts)
        /\ pos' = [pos EXCEPT ![b] = next]
        /\ gen' = [gen EXCEPT ![b] = g]
        /\ clip' = [clip EXCEPT ![b] = playing]
        /\ UNCHANGED ramps

-----------------------------------------------------------------------------
(* Commands.                                                               *)

Command == commands < MaxCommands /\ commands' = commands + 1

\* playEvents(), playRanges(): the old queue dies first, then the new one is written,
\* the switch to the replay scene is queued, and the first servable item starts.
Play(b, q, out) ==
    /\ Command
    /\ queue' = [queue EXCEPT ![b] = q]
    /\ toOutput' = [toOutput EXCEPT ![b] = out]
    /\ StartNext(b, q, 1, gen[b] + 1, out,
                 IF out THEN Append(tasks, [kind |-> "switch", bay |-> b]) ELSE tasks)
    /\ orphaned' = [orphaned EXCEPT ![b] = FALSE]
    /\ strayed' = [strayed EXCEPT ![b] = ~out /\ (@ \/ (active[b] /\ toOutput[b]))]
    /\ UNCHANGED <<loop, dipVars, program, previous>>

\* A request with nothing to play: playEvents() returns after the bump, playRanges()
\* after clearing the queue as well.  Neither stops what is playing.
PlayRefused(b) ==
    /\ Command
    /\ gen' = [gen EXCEPT ![b] = @ + 1]
    /\ \E q \in {queue[b], <<>>} : queue' = [queue EXCEPT ![b] = q]
    /\ orphaned' = [orphaned EXCEPT ![b] = active[b]]
    /\ UNCHANGED <<pos, active, toOutput, loop, clip, dipVars, obsVars, strayed>>

\* Mutant: a stop that stops the engine only.
StopEngineOnly(b) ==
    /\ Command
    /\ clip' = [clip EXCEPT ![b] = NoClip]
    /\ tasks' = Restore(b, active[b] /\ toOutput[b], tasks)
    /\ active' = [active EXCEPT ![b] = FALSE]
    /\ UNCHANGED <<queue, pos, gen, toOutput, loop, dipVars, program, previous, orphaned, strayed>>

\* stopEvents()
Stop(b) ==
    /\ Command
    /\ clip' = [clip EXCEPT ![b] = NoClip]
    /\ gen' = [gen EXCEPT ![b] = @ + 1]
    /\ queue' = [queue EXCEPT ![b] = <<>>]
    /\ pos' = [pos EXCEPT ![b] = 1]
    /\ tasks' = Restore(b, active[b] /\ toOutput[b], tasks)
    /\ dark' = [dark EXCEPT ![b] = FALSE]
    /\ active' = [active EXCEPT ![b] = FALSE]
    /\ orphaned' = [orphaned EXCEPT ![b] = FALSE]
    /\ UNCHANGED <<toOutput, loop, ramps, program, previous, strayed>>

\* skipToNext(): the generation moves before the clip is stopped.
Skip(b) ==
    /\ active[b]
    /\ Command
    /\ Advance(b, gen[b] + 1, NoClip, tasks)
    /\ orphaned' = [orphaned EXCEPT ![b] = FALSE]
    /\ UNCHANGED <<queue, toOutput, loop, dark, program, previous, strayed>>

\* setLoop()
ToggleLoop(b) ==
    /\ Command
    /\ loop' = [loop EXCEPT ![b] = ~@]
    /\ UNCHANGED <<queue, pos, active, toOutput, gen, clip, dipVars, obsVars, orphaned, strayed>>

-----------------------------------------------------------------------------
(* The playback thread, and the UI thread's tasks and timers.              *)

\* The clip ends by itself: its callback queues finishedTask with the generation it was
\* installed with.  (The task carries `gen` only; `bay` is kept for the properties.)
ClipEnds(b) ==
    /\ clip[b] # NoClip
    /\ clip' = [clip EXCEPT ![b] = NoClip]
    /\ tasks' = Append(tasks, [kind |-> "finished", bay |-> b, gen |-> clip[b]])
    /\ UNCHANGED <<queue, pos, active, toOutput, gen, loop, dipVars, program, previous, history>>

Due(kind) == tasks # <<>> /\ Head(tasks).kind = kind

\* finishedTask() asks for the default instance, which is bay A's.
FinishedBay(task) == "A"

\* Mutant: any clip's end counts.
FinishWhenIdle(b, g) == ~active[b]

\* onClipFinished()
StaleFinish(b, g) == ~active[b] \/ g # gen[b]

RunFinished ==
    /\ Due("finished")
    /\ LET b == FinishedBay(Head(tasks)) IN
        \/  /\ ~StaleFinish(b, Head(tasks).gen)
            /\ Advance(b, gen[b], clip[b], Tail(tasks))
        \/  /\ StaleFinish(b, Head(tasks).gen)
            /\ tasks' = Tail(tasks)
            /\ UNCHANGED <<pos, active, gen, clip, ramps>>
    /\ UNCHANGED <<queue, toOutput, loop, dark, program, previous, history>>

\* Mutant: the replay scene itself is remembered.
RememberedAlways(b) == program

\* switchSceneTask(), to the replay scene: what program leaves is what it comes back to.
Remembered(b) == IF program = Replay(b) THEN previous[b] ELSE program

RunSwitch ==
    /\ Due("switch")
    /\ LET b == Head(tasks).bay IN
        /\ previous' = [previous EXCEPT ![b] = Remembered(b)]
        /\ program' = Replay(b)
    /\ tasks' = Tail(tasks)
    /\ UNCHANGED <<bayVars, dipVars, history>>

\* switchSceneTask(), back: takePreviousScene() empties the name.
RunRestore ==
    /\ Due("restore")
    /\ LET b == Head(tasks).bay IN
        /\ previous' = [previous EXCEPT ![b] = Nowhere]
        /\ program' = IF previous[b] = Nowhere THEN program ELSE previous[b]
    /\ tasks' = Tail(tasks)
    /\ UNCHANGED <<bayVars, dipVars, history>>

\* Mutant: the input is left as dark as the dip had made it.
StayDark(b) == UNCHANGED dark

Light(b) == dark' = [dark EXCEPT ![b] = FALSE]
Darken(b) == dark' = [dark EXCEPT ![b] = TRUE]

\* rampDip(): a tick that finds its queue gone leaves the input fully opaque.
RampIsStale(r) == r.gen # gen[r.bay]

\* Mutant: a dip that starts nothing.
BottomAlone(r) ==
    /\ r.kind = "out"
    /\ Darken(r.bay)
    /\ ramps' = ramps \ {r}
    /\ UNCHANGED <<pos, active, gen, clip, tasks>>

\* The bottom of the dip: startNextDipped() starts the next clip there and lets a second
\* ramp, of the same generation, bring the picture back.
Bottom(r) ==
    /\ r.kind = "out"
    /\ Darken(r.bay)
    /\ StartNext(r.bay, queue[r.bay], pos[r.bay], gen[r.bay], toOutput[r.bay], tasks)
    /\ ramps' = (ramps \ {r}) \cup {Ramp(r.bay, "in", r.gen)}

RampTick(r) ==
    /\  \/ RampIsStale(r) /\ Light(r.bay) /\ ramps' = ramps \ {r}
                          /\ UNCHANGED <<pos, active, gen, clip, tasks>>
        \/ ~RampIsStale(r) /\ Darken(r.bay) /\ UNCHANGED <<ramps, pos, active, gen, clip, tasks>>
        \/ ~RampIsStale(r) /\ Bottom(r)
        \/ ~RampIsStale(r) /\ r.kind = "in" /\ Light(r.bay) /\ ramps' = ramps \ {r}
                           /\ UNCHANGED <<pos, active, gen, clip, tasks>>
    /\ UNCHANGED <<queue, toOutput, loop, program, previous, history>>

-----------------------------------------------------------------------------
Init ==
    /\ queue = [b \in Bays |-> <<>>]
    /\ pos = [b \in Bays |-> 1]
    /\ active = [b \in Bays |-> FALSE]
    /\ toOutput = [b \in Bays |-> FALSE]
    /\ gen = [b \in Bays |-> 0]
    /\ loop = [b \in Bays |-> FALSE]
    /\ clip = [b \in Bays |-> NoClip]
    /\ previous = [b \in Bays |-> Nowhere]
    /\ dark = [b \in Bays |-> FALSE]
    /\ ramps = {}
    /\ tasks = <<>>
    /\ program = Home
    /\ orphaned = [b \in Bays |-> FALSE]
    /\ strayed = [b \in Bays |-> FALSE]
    /\ commands = 0

UiTask == RunFinished \/ RunSwitch \/ RunRestore

Next ==
    \/ \E b \in Bays, q \in Queues, out \in BOOLEAN : Play(b, q, out)
    \/ \E b \in Bays : PlayRefused(b) \/ Stop(b) \/ Skip(b) \/ ToggleLoop(b) \/ ClipEnds(b)
    \/ UiTask
    \/ \E r \in ramps : RampTick(r)

\* The UI thread runs what is queued on it, a timer that is due fires until its ramp is
\* over (a ramp has finitely many steps), and a clip that is not paused comes to its end.
RampOver(r) == RampTick(r) /\ r \notin ramps'

Fairness ==
    /\ WF_vars(UiTask)
    /\ \A b \in Bays : WF_vars(ClipEnds(b))
    /\ \A b \in Bays : WF_vars(\E r \in ramps : r.bay = b /\ RampOver(r))

Spec == Init /\ [][Next]_vars /\ Fairness

-----------------------------------------------------------------------------
(* Properties.                                                             *)

\* What can still move bay b's queue on: its clip, the end of that clip on its way, or a
\* dip on its way down; each only while it carries the current generation.
Awaited(b) ==
    {<<"clip", c>> : c \in ({clip[b]} \cap {gen[b]}) \ {NoClip}}
    \cup {<<"finished", i>> : i \in {j \in DOMAIN tasks : /\ tasks[j].kind = "finished"
                                                        /\ tasks[j].bay = b
                                                        /\ tasks[j].gen = gen[b]}}
    \cup {<<"dip", r>> : r \in ramps \cap {Ramp(b, "out", gen[b])}}

\* A queue in progress waits for exactly one thing: with none it would hold program for
\* ever, with two one clip's end would be counted twice and an item passed over.  The
\* queue a refused request has cancelled waits for nothing.
WaitsForOneThing ==
    \A b \in Bays : active[b] /\ ~orphaned[b] => Cardinality(Awaited(b)) = 1

\* Only the operator starts a queue: what an ended or stopped one left behind never does.
OnlyACommandStarts ==
    [][\A b \in Bays : ~active[b] /\ active'[b] => commands' # commands]_vars

\* Once everything posted has run and no queue is on air, program is off the replay scene,
\* however short the clips and however often a replay was re-triggered on top of another.
\* (A queue on air replaced by one that is not is never given its restore: `strayed`.)
ProgramComesBack ==
    (tasks = <<>> /\ \A b \in Bays : ~(active[b] /\ toOutput[b]) /\ ~strayed[b])
    => program = Home

\* A queue comes to its end unless it loops, or a refused request has cancelled it.
QueueEnds ==
    \A b \in Bays : active[b] ~> (~active[b] \/ loop[b] \/ orphaned[b])

\* The picture is never left dark: however a dip is overtaken by a stop, a skip, another
\* queue or another dip, the input comes back to full opacity.
DipEnds ==
    \A b \in Bays : dark[b] ~> ~dark[b]

\* VIOLATED.  instance(): "They share nothing: A finishing a clip must not advance B".
\* The end of a clip of B's is delivered to A.
BaysShareNothing ==
    [][\A b \in Bays : RunFinished /\ Head(tasks).bay # b
        => pos'[b] = pos[b] /\ clip'[b] = clip[b] /\ active'[b] = active[b]]_vars
=============================================================================
