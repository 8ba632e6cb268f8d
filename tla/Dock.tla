-------------------------------- MODULE Dock --------------------------------
(***************************************************************************)
(* The operator's keys and the dock's 30 Hz poll(), on top of bay A's      *)
(* queue: src/multireplay-dock.cpp, dock-poll.cpp, dock-build.cpp and the  *)
(* hotkeys of replay-core.cpp that reach the same queue past the dock.     *)
(*                                                                         *)
(* A gesture is one step of the UI thread; what it asks of the coordinator *)
(* is part of it.  poll() only samples: it tells that a sequence ended     *)
(* from what it saw a tick ago, and a gesture that ends one on purpose     *)
(* must take that back.                                                    *)
(*                                                                         *)
(* Data kept: the bar stands at the live edge, in an event, or in one of   *)
(* the stretches nobody marked; an item of a queue is such a place (the    *)
(* code's ranges have eventId 0, so a review is always cut, never dipped). *)
(* A step stays in its place, and something has been captured, so that     *)
(* there is a live edge.  "In output" is a parameter of the keys that read *)
(* it.  One bay: the configuration with enableChannelB off.                *)
(***************************************************************************)
EXTENDS PlaybackCoordinator

CONSTANTS
    Stretches,   \* footage nobody marked
    NewestEvent  \* the newest event: EventStore::lastEventId()

ASSUME OneBay == Bays = {"A"}
ASSUME StretchesAssumption == Stretches \cap Events = {} /\ NewestEvent \in Events

A      == "A"
Edge   == "edge"
None   == "none"      \* kNoInstant
Places == Events \cup Stretches
Reviews(p) == {<<p>>, <<p, p>>}   \* spansFrom(): one range, or two across a seam

VARIABLES
    followLive,      \* ReplayCore::followLive_
    prevSequence,    \* prevSequenceActive_: what the last tick saw
    playhead,        \* playheadNs_
    selected,        \* the selected row, or the last event when none is
    armed,           \* freeReviewInNs_
    armedOnAir,      \* freeReviewOnAir_
    still,           \* a step's or a cue's pictures are being played, past the queue
    recording,       \* ReplayCore::recording_, and so liveFrontFed
    prevRecording,   \* prevRecording_
    parked           \* history: the place the operator has put the bar on, or None

liveVars  == <<followLive, prevSequence, playhead>>
armedVars == <<armed, armedOnAir>>
takeVars  == <<recording, prevRecording>>
dockVars  == <<liveVars, selected, armedVars, still, takeVars, parked>>
allVars   == <<vars, dockVars>>

-----------------------------------------------------------------------------
(* What the gestures share.                                                *)

\* stopEvents() and then playRanges() or playEvents(), in one gesture.
StopThenPlay(q, out) ==
    /\ Command
    /\ queue' = [queue EXCEPT ![A] = q]
    /\ toOutput' = [toOutput EXCEPT ![A] = out]
    /\ dark' = [dark EXCEPT ![A] = FALSE]
    /\ LET ts == Restore(A, active[A] /\ toOutput[A], tasks)
       IN  StartNext(A, q, 1, gen[A] + 2, out,
                     IF out THEN Append(ts, [kind |-> "switch", bay |-> A]) ELSE ts)
    /\ orphaned' = [orphaned EXCEPT ![A] = FALSE]
    /\ strayed' = [strayed EXCEPT ![A] = @ /\ ~out]
    /\ UNCHANGED <<loop, ramps, program, previous>>

\* A gesture that ends a sequence on purpose: the stop is taken from under poll().
Review(place) ==
    /\ prevSequence' = FALSE
    /\ followLive' = FALSE
    /\ playhead' = place
    /\ parked' = place

ClearFreeReview == armed' = None /\ armedOnAir' = FALSE

Playing == clip[A] # NoClip \/ still

\* playheadIsFreeFootage(): asked of the selection, not of the whole list.  At the edge
\* there is nothing left to review.
IsFree(place) == place \notin {Edge, None, selected}

\* playFreeReview()
PlayFree(place, out) ==
    /\ \E q \in Reviews(place) : StopThenPlay(q, out)
    /\ Review(place)
    /\ armed' = place
    /\ armedOnAir' = out
    /\ still' = FALSE

\* playEvents() from the dock or from a key: served by the engine or not, the panel reviews.
PlayQueue(q, out) ==
    /\ Play(A, q, out)
    /\ followLive' = FALSE
    /\ parked' = None
    /\ still' = FALSE
    /\ UNCHANGED <<prevSequence, playhead>>

\* playEvents() with nothing playable returns before it touches the queue or the panel.
Refused ==
    /\ PlayRefused(A)
    /\ queue' = queue
    /\ parked' = None
    /\ UNCHANGED <<prevSequence, playhead, still>>
PlayNothing == Refused /\ UNCHANGED followLive

\* replayCurrentOn(): an armed review again, on air or not as it was; else the row.
ReplayCurrent(out) ==
    \/ armed # None /\ PlayFree(armed, armedOnAir)
    \/  /\ armed = None
        /\ PlayQueue(<<selected>>, out)
        /\ UNCHANGED armedVars

-----------------------------------------------------------------------------
(* The keys.                                                               *)

\* seekToFraction(): armedOnAir is left as it was when the new place is free as well.
Scrub(place) ==
    /\ \E q \in Reviews(place) : StopThenPlay(q, FALSE)
    /\ Review(place)
    /\ IF IsFree(place) THEN armed' = place /\ UNCHANGED armedOnAir ELSE ClearFreeReview
    /\ still' = FALSE
    /\ UNCHANGED <<selected, takeVars>>

\* Mutant: a step that leaves its own stop to poll().
StepUnconsumed ==
    /\ playhead # None
    /\ Stop(A)
    /\ followLive' = FALSE
    /\ playhead' \in (IF playhead = Edge THEN Places ELSE {playhead})
    /\ parked' = playhead'
    /\ still' \in BOOLEAN
    /\ UNCHANGED <<prevSequence, selected, armedVars, takeVars>>

\* stepFrameForward(), stepFrameBackward(): a step back from the live edge stands where
\* the footage is; the pictures are played straight at the channel, which may refuse.
Step ==
    /\ playhead # None
    /\ Stop(A)
    /\ \E place \in (IF playhead = Edge THEN Places ELSE {playhead}) : Review(place)
    /\ still' \in BOOLEAN
    /\ UNCHANGED <<selected, armedVars, takeVars>>

\* cueSelected(): a bay with a queue in progress is left alone.
Cue(e) ==
    /\ Command
    /\ selected' = e
    /\ Review(e)
    /\ ClearFreeReview
    /\ IF active[A] THEN UNCHANGED <<still, clip>>
       ELSE still' \in BOOLEAN /\ clip' = [clip EXCEPT ![A] = NoClip]
    /\ UNCHANGED <<queue, pos, active, toOutput, gen, loop, dipVars, obsVars,
                   orphaned, strayed, takeVars>>

\* "Play events" with a review armed, playSelected(): its second function.
PlayKey(out) ==
    /\ armed # None
    /\ PlayFree(armed, out)
    /\ UNCHANGED <<selected, takeVars>>

\* "Play events" with none, reverse play and the menu's "Play to output": the events.
PlayEventsKey(out) ==
    /\ PlayNothing \/ \E q \in Queues : PlayQueue(q, out)
    /\ ClearFreeReview
    /\ UNCHANGED <<selected, takeVars>>

\* The play/pause key with nothing playing (with something playing it pauses): what the
\* bar stands on when nobody marked it, and off air; else the row.
PlayPauseKey(out) ==
    /\ ~Playing
    /\  \/ ~followLive /\ IsFree(playhead) /\ PlayFree(playhead, FALSE)
        \/ (followLive \/ ~IsFree(playhead)) /\ ReplayCurrent(out)
        \/  /\ (followLive \/ ~IsFree(playhead)) /\ armed = None
            /\ Refused /\ followLive' = FALSE
            /\ UNCHANGED armedVars
    /\ UNCHANGED <<selected, takeVars>>

\* An angle key, setAngleOn(): what plays, again on another camera.
AngleKey(out) ==
    /\ Playing \/ active[A]
    /\ ~followLive
    /\ ReplayCurrent(out) \/ (armed = None /\ PlayNothing /\ UNCHANGED armedVars)
    /\ UNCHANGED <<selected, takeVars>>

\* A review that ends with nothing armed gives the bar up.
GivesUp == parked' = IF active[A] /\ ~active'[A] /\ armed = None THEN None ELSE parked

\* Stop, the key and the hotkey.
StopKey ==
    /\ Stop(A)
    /\ still' = FALSE
    /\ GivesUp
    /\ UNCHANGED <<liveVars, selected, armedVars, takeVars>>

BackToLive ==
    /\ Stop(A)
    /\ still' = FALSE
    /\ followLive' = TRUE
    /\ parked' = None

\* NOW and Live; the hotkey NOW, which knows nothing of the dock's review.
NowKey ==
    /\ BackToLive
    /\ ClearFreeReview
    /\ UNCHANGED <<prevSequence, playhead, selected, takeVars>>

NowHotkey ==
    /\ BackToLive
    /\ UNCHANGED <<prevSequence, playhead, selected, armedVars, takeVars>>

\* The keys that play the last event, straight at the coordinator.
PlayHotkey(out) ==
    /\ PlayNothing \/ PlayQueue(<<NewestEvent>>, out)
    /\ UNCHANGED <<selected, armedVars, takeVars>>

\* clearBothBays(), when a project is made or opened.
NewProject ==
    /\ BackToLive
    /\ prevSequence' = FALSE
    /\ playhead' = None
    /\ selected' = NewestEvent
    /\ UNCHANGED <<armedVars, takeVars>>

\* refreshEvents(): a rebuilt table selects the newest mark, and cues nothing.
Reselect ==
    /\ selected' = NewestEvent
    /\ UNCHANGED <<vars, liveVars, armedVars, still, takeVars, parked>>

\* startRecording() puts the panel on the live edge at once, the rest is poll()'s.
Rec ==
    /\ ~recording
    /\ Command
    /\ recording' = TRUE
    /\ followLive' = TRUE
    /\ parked' = None
    /\ UNCHANGED <<bayVars, dipVars, obsVars, orphaned, strayed,
                   prevSequence, playhead, selected, armedVars, still, prevRecording>>

StopRec ==
    /\ recording
    /\ Command
    /\ recording' = FALSE
    /\ UNCHANGED <<bayVars, dipVars, obsVars, orphaned, strayed,
                   liveVars, selected, armedVars, still, prevRecording, parked>>

-----------------------------------------------------------------------------
(* poll(), and what goes on beneath it.                                    *)

\* The place of the clip that plays.
OnScreen == IF clip[A] # NoClip /\ pos[A] \in DOMAIN queue[A] THEN queue[A][pos[A]] ELSE None

NewTake == recording /\ ~prevRecording

\* Mutant: poll() remembers the clip, not the sequence.
SawTheClip == clip[A] # NoClip

Sees == active[A]

\* The end of a sequence, unless what ended is a review the operator has armed.
SequenceOver == prevSequence /\ ~active[A] /\ armed = None

\* Where the bar is shown.  A sequence that shows nothing keeps it from the live edge for
\* a grace period only.
Shown ==
    IF OnScreen # None THEN {OnScreen}
    ELSE IF SequenceOver \/ (followLive /\ ~still /\ ~active[A]) THEN {Edge}
    ELSE IF followLive /\ ~still THEN {Edge, playhead}
    ELSE {playhead}

Tick ==
    /\ prevSequence' = Sees
    /\ prevRecording' = recording
    /\ followLive' = (followLive \/ NewTake \/ (SequenceOver /\ recording))
    /\ playhead' \in Shown
    /\ IF NewTake THEN ClearFreeReview ELSE UNCHANGED armedVars
    /\ parked' = IF NewTake \/ OnScreen \notin {None, parked} THEN None ELSE parked
    /\ UNCHANGED <<vars, selected, still, recording>>

StillEnds ==
    /\ still
    /\ still' = FALSE
    /\ UNCHANGED <<vars, liveVars, selected, armedVars, takeVars, parked>>

\* The coordinator's own steps.
Beneath(Act) ==
    /\ Act
    /\ GivesUp
    /\ UNCHANGED <<liveVars, selected, armedVars, still, takeVars>>

-----------------------------------------------------------------------------
DockInit ==
    /\ Init
    /\ followLive = TRUE /\ prevSequence = FALSE /\ playhead = None
    /\ selected = NewestEvent
    /\ armed = None /\ armedOnAir = FALSE
    /\ still = FALSE
    /\ recording = FALSE /\ prevRecording = FALSE
    /\ parked = None

Key(out) == PlayKey(out) \/ PlayEventsKey(out) \/ PlayPauseKey(out) \/ AngleKey(out) \/ PlayHotkey(out)

DockNext ==
    \/ \E out \in BOOLEAN : Key(out)
    \/ \E place \in Places : Scrub(place)
    \/ \E e \in Events : Cue(e)
    \/ Step \/ StopKey \/ NowKey \/ NowHotkey \/ NewProject \/ Reselect
    \/ Rec \/ StopRec
    \/ Tick \/ StillEnds
    \/ Beneath(Skip(A)) \/ Beneath(ToggleLoop(A)) \/ Beneath(ClipEnds(A)) \/ Beneath(UiTask)
    \/ \E r \in ramps : Beneath(RampTick(r))

\* The UI thread, the dips' timers, poll()'s timer and the playback thread do not all stop
\* while one of them has something due.  Between two gestures only finitely much falls due,
\* so this one assumption is all that is asked of the scheduling.
Goes ==
    \/ Beneath(UiTask) \/ Beneath(ClipEnds(A))
    \/ \E r \in ramps : Beneath(RampOver(r))
    \/ Tick

DockSpec == DockInit /\ [][DockNext]_allVars /\ WF_allVars(Goes)

-----------------------------------------------------------------------------
(* Properties.                                                             *)

\* poll() never drags the operator off the place he put the bar on: after a scrub, a step,
\* a cue or a free review the panel stays in review and the bar stays there, whatever
\* sequence his gesture ended and however its end reaches poll() (dock-poll.cpp:446-449).
StaysWhereParked == parked # None => ~followLive /\ playhead = parked

\* When a sequence that poll() has seen ends in a take, the operator is back on the live
\* edge without pressing NOW, unless he has meanwhile put the bar somewhere, armed a
\* review, or the queue never ends.
EndHandsBack ==
    (prevSequence /\ active[A] /\ recording) ~>
        (followLive \/ parked # None \/ armed # None \/ ~recording \/ loop[A] \/ orphaned[A])

\* VIOLATED.  multireplay-dock.hpp:1637-1640, freeReviewOnAir_: an angle key re-cues the
\* review "and doing that to a review that is ON AIR must not quietly drop it off air - nor
\* put an off-air one up".  A scrub arms another stretch and leaves the flag as it was.
OnAir == active[A] /\ toOutput[A]

ReviewStaysOffAir ==
    [][active[A] /\ ~OnAir /\ parked = armed /\ AngleKey(FALSE) => ~OnAir']_allVars
=============================================================================
