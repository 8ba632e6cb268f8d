----------------------------- MODULE PacketTap -----------------------------
(***************************************************************************)
(* How one camera's tap is hung on Branch Output's recording encoder and   *)
(* taken off again (src/packet-tap.cpp), while Branch Output starts, stops *)
(* and replaces that encoder on its own.                                   *)
(*                                                                         *)
(* Threads: the arm thread (armLoop, one pass every kArmPollMs), the UI    *)
(* thread (REC, STOP, unload), one detached thread per detachment that     *)
(* waits for obs_output_stop(), libobs threads that emit packets and the   *)
(* "stopping" signal.  mutex_ serialises the arm thread, the UI thread and *)
(* the end of a disposal; Branch Output and libobs take no lock of ours,   *)
(* so attachLocked() is split wherever the encoder can change under it.    *)
(*                                                                         *)
(* One camera: the cameras share mutex_ and the arm thread and nothing     *)
(* else.  obs_output_stop() is the one call that may never return.         *)
(***************************************************************************)
EXTENDS Naturals, FiniteSets

CONSTANTS
    MaxBo,        \* bound: encoders Branch Output creates in a behaviour
    MaxAttempts,  \* kArmMaxAttempts (160 in the code)
    MaxTakes      \* bound: times REC is pressed

ASSUME TapBoundsAssumption ==
    MaxBo \in Nat \ {0} /\ MaxAttempts \in Nat \ {0} /\ MaxTakes \in Nat

None    == 0
Bo      == 1..MaxBo   \* Branch Output's outputs, each with its encoder, in order of creation
Outputs == 1..2       \* our tap outputs: at most one is stopping while another starts

VARIABLES
    named,      \* Branch Output: the output that answers to this camera's name
    phase,      \* Branch Output: "unborn", "running", "ending" (active but silent), "gone"
    capture,    \* libobs: which encoder feeds each tap output
    wanted,     \* wanted_[cam]
    attached,   \* Channel::attached
    boOutput,   \* Channel::boOutput, also who onBoOutputStopping is connected to
    tapOutput,  \* Channel::tapOutput
    detachRequested,  \* Channel::detachRequested
    disposing,  \* Channel::disposing
    heard,      \* Channel::videoPackets > 0
    overdue,    \* more than kSilentAttachMs since Channel::armWallNs
    refs,       \* references held on Branch Output's output and its encoders
    arm,        \* the arm thread: "off", "waiting", or a step of attachLocked()
    trying,     \* what attachLocked() is attaching: an encoder and a tap output
    attempts,   \* armLoop's attempts[cam]
    doomed,     \* detached tap outputs whose disposal thread has not finished
    ui,         \* the UI thread: "idle", "arming", "stopping", "unloading", ...
    recording,  \* ReplayCore::recording_
    takes,      \* history: takes started
    moduleGone  \* DisposalState::moduleGone

boVars   == <<named, phase>>
chanVars == <<attached, boOutput, tapOutput, detachRequested, disposing, heard, overdue>>
armVars  == <<arm, trying, attempts>>
uiVars   == <<ui, recording, takes, moduleGone>>
vars     == <<boVars, capture, wanted, chanVars, refs, armVars, doomed, uiVars>>

\* attachLocked() holds mutex_ from its lookup to its return; everything else that
\* takes it is one step here.
MutexFree == arm \in {"off", "waiting"}

Running == {n \in Bo : phase[n] = "running"}
Active  == {n \in Bo : phase[n] \in {"running", "ending"}}   \* obs_output_active()

-----------------------------------------------------------------------------
(* Branch Output and libobs.                                               *)

\* Branch Output starts recording, or replaces an output it has stopped; the old one
\* may still be there, active and silent.
BoStart(n) ==
    /\ recording
    /\ phase[n] = "unborn" /\ \A m \in 1..(n - 1) : phase[m] # "unborn"
    /\ named \notin Running
    /\ phase' = [phase EXCEPT ![n] = "running"]
    /\ named' = n
    /\ UNCHANGED <<capture, wanted, chanVars, refs, armVars, doomed, uiVars>>

\* It stops one: the encoder falls silent, and onBoOutputStopping raises the flag if it
\* is connected to it.
BoStop(n) ==
    /\ phase[n] = "running"
    /\ phase' = [phase EXCEPT ![n] = "ending"]
    /\ detachRequested' = (detachRequested \/ boOutput = n)
    /\ UNCHANGED <<named, capture, wanted, attached, boOutput, tapOutput, disposing, heard,
                   overdue, refs, armVars, doomed, uiVars>>

\* The stopped output is no longer active, and may give up its name.
BoGone(n) ==
    /\ phase[n] = "ending"
    /\ phase' = [phase EXCEPT ![n] = "gone"]
    /\ named' \in {named, IF named = n THEN None ELSE named}
    /\ UNCHANGED <<capture, wanted, chanVars, refs, armVars, doomed, uiVars>>

\* tapEncodedPacket counts a packet.
Packet(o) ==
    /\ capture[o] \in Running
    /\ ~heard /\ heard' = TRUE
    /\ UNCHANGED <<boVars, capture, wanted, attached, boOutput, tapOutput, detachRequested,
                   disposing, overdue, refs, armVars, doomed, uiVars>>

\* kSilentAttachMs go by.
SilenceElapses ==
    /\ attached /\ ~overdue /\ overdue' = TRUE
    /\ UNCHANGED <<boVars, capture, wanted, attached, boOutput, tapOutput, detachRequested,
                   disposing, heard, refs, armVars, doomed, uiVars>>

-----------------------------------------------------------------------------
(* Detaching.                                                              *)

\* detachLocked() unhooks the channel and dispose() hands its tap output to a thread of
\* its own.  The references go with it; tapOutput stays, the stop callback needs it.
Detach ==
    /\ attached' = FALSE
    /\ boOutput' = None
    /\ disposing' = TRUE
    /\ doomed' = doomed \cup {[tap |-> tapOutput, at |-> "stopping"]}
    /\ UNCHANGED <<tapOutput, detachRequested, heard, overdue, refs, capture>>

DetachIfAttached ==
    \/ attached /\ Detach
    \/ ~attached /\ UNCHANGED <<chanVars, doomed, refs, capture>>

\* obs_output_stop() calls tapStop(), which ends the capture of Channel::tapOutput; it
\* returns once its own output captures no more, and the references are released.
StopReturns(d) ==
    /\ d \in doomed /\ d.at = "stopping"
    /\ tapOutput = d.tap
    /\ capture' = [capture EXCEPT ![d.tap] = None]
    /\ refs' = refs - 1
    /\ doomed' = (doomed \ {d}) \cup {[d EXCEPT !.at = "stopped"]}
    /\ UNCHANGED <<boVars, wanted, chanVars, armVars, uiVars>>

\* The rest of the thread is ours, and is skipped once the module is gone.
Disposed(d) ==
    /\ d \in doomed /\ d.at = "stopped" /\ MutexFree
    /\ IF moduleGone THEN UNCHANGED <<tapOutput, disposing>>
       ELSE /\ tapOutput' = IF tapOutput = d.tap THEN None ELSE tapOutput
            /\ disposing' = FALSE
    /\ doomed' = doomed \ {d}
    /\ UNCHANGED <<boVars, capture, wanted, attached, boOutput, detachRequested, heard,
                   overdue, refs, armVars, uiVars>>

-----------------------------------------------------------------------------
(* The arm thread.                                                         *)

\* Mutant: a signal believed only of a silent output.
DetachAskedOfSilent ==
    /\ arm = "waiting" /\ attached /\ detachRequested /\ ~heard
    /\ Detach
    /\ UNCHANGED <<boVars, wanted, armVars, uiVars>>

DetachAsked ==
    /\ arm = "waiting" /\ attached /\ detachRequested
    /\ Detach
    /\ UNCHANGED <<boVars, wanted, armVars, uiVars>>

\* Whoever answers to the name now is not who we hang off, or ours is no longer active.
Stale == named # boOutput \/ boOutput \notin Active

DetachSilent ==
    /\ arm = "waiting" /\ attached /\ ~detachRequested
    /\ ~heard /\ overdue /\ Stale
    /\ Detach
    /\ attempts' = 0
    /\ UNCHANGED <<boVars, wanted, arm, trying, uiVars>>

Due == arm = "waiting" /\ wanted /\ ~attached /\ attempts < MaxAttempts

\* Mutant: attach though the previous tap output is still being let go of.
CannotAttachYet == named \notin Active

\* Nobody to hang off, or the previous tap output is still being let go of.
CannotAttach == disposing \/ named \notin Active

AttachFails ==
    /\ Due /\ CannotAttach
    /\ attempts' = attempts + 1
    /\ UNCHANGED <<boVars, capture, wanted, chanVars, refs, arm, trying, doomed, uiVars>>

\* Look the output up, take the references, create our own output: tapCreate() points
\* the channel at it.
AttachBegins(o) ==
    /\ Due /\ ~CannotAttach
    /\ capture[o] = None /\ \A d \in doomed : d.tap # o
    /\ attempts' = attempts + 1
    /\ refs' = refs + 1
    /\ trying' = [bo |-> named, tap |-> o]
    /\ tapOutput' = o
    /\ arm' = "starting"
    /\ UNCHANGED <<boVars, capture, wanted, attached, boOutput, detachRequested, disposing,
                   heard, overdue, doomed, uiVars>>

NotTrying == [bo |-> None, tap |-> None]

\* Mutant: the references are leaked.
GiveUpHolding ==
    /\ tapOutput' = None
    /\ trying' = NotTrying
    /\ arm' = "waiting"
    /\ UNCHANGED refs

\* Every failure after the creation lets go of the output and the references.
GiveUp ==
    /\ tapOutput' = None
    /\ refs' = refs - 1
    /\ trying' = NotTrying
    /\ arm' = "waiting"

StartFails ==
    /\ arm = "starting" /\ GiveUp
    /\ overdue' = FALSE
    /\ UNCHANGED <<boVars, capture, wanted, attached, boOutput, detachRequested, disposing,
                   heard, attempts, doomed, uiVars>>

StartSucceeds ==
    /\ arm = "starting"
    /\ capture' = [capture EXCEPT ![trying.tap] = trying.bo]
    /\ overdue' = FALSE   \* armWallNs is stored before the start
    /\ arm' = "checking"
    /\ UNCHANGED <<boVars, wanted, attached, boOutput, tapOutput, detachRequested, disposing,
                   heard, refs, trying, attempts, doomed, uiVars>>

\* Has Branch Output torn its pipeline down since the lookup?
Check ==
    /\ arm = "checking"
    /\ arm' = IF trying.bo \in Active THEN "connecting" ELSE "backing off"
    /\ UNCHANGED <<boVars, capture, wanted, chanVars, refs, trying, attempts, doomed, uiVars>>

\* obs_output_stop() again, this time with mutex_ held.
BackOff ==
    /\ arm = "backing off" /\ GiveUp
    /\ capture' = [capture EXCEPT ![trying.tap] = None]
    /\ UNCHANGED <<boVars, wanted, attached, boOutput, detachRequested, disposing, heard,
                   overdue, attempts, doomed, uiVars>>

\* Connect the "stopping" signal and publish the attachment.
Attach ==
    /\ arm = "connecting"
    /\ attached' = TRUE
    /\ boOutput' = trying.bo
    /\ attempts' = 0
    /\ trying' = NotTrying
    /\ arm' = "waiting"
    /\ UNCHANGED <<boVars, capture, wanted, tapOutput, detachRequested, disposing, heard,
                   overdue, refs, doomed, uiVars>>

AttachSteps == StartFails \/ StartSucceeds \/ Check \/ Attach

\* armLoop() leaves as soon as unload() has cleared armRunning_.
ArmPass ==
    /\ ui # "joining"
    /\ \/ DetachAsked \/ DetachSilent \/ AttachFails
       \/ \E o \in Outputs : AttachBegins(o)

-----------------------------------------------------------------------------
(* The UI thread.                                                          *)

\* REC: the filters are enabled, then armAsync() is called.
PressRec ==
    /\ ui = "idle" /\ ~recording /\ takes < MaxTakes
    /\ recording' = TRUE /\ takes' = takes + 1 /\ ui' = "arming"
    /\ UNCHANGED <<boVars, capture, wanted, chanVars, refs, armVars, doomed, moduleGone>>

\* armAsync(): a channel that is not attached starts a fresh session; the arm thread is
\* started, with new attempt counters, only if it is not running.
ArmAsync ==
    /\ ui = "arming" /\ MutexFree
    /\ wanted' = TRUE
    /\ IF attached THEN UNCHANGED <<heard, detachRequested, overdue>>
       ELSE heard' = FALSE /\ detachRequested' = FALSE /\ overdue' = FALSE
    /\ arm' = "waiting"
    /\ attempts' = IF arm = "off" THEN 0 ELSE attempts
    /\ ui' = "idle"
    /\ UNCHANGED <<boVars, capture, attached, boOutput, tapOutput, disposing, refs, trying,
                   doomed, recording, takes, moduleGone>>

PressStop ==
    /\ ui = "idle" /\ recording
    /\ ui' = "stopping"
    /\ UNCHANGED <<boVars, capture, wanted, chanVars, refs, armVars, doomed, recording, takes,
                   moduleGone>>

\* stopRecording(): detachAll() under mutex_, then the filters are disabled.
StopRecording ==
    /\ ui = "stopping" /\ MutexFree
    /\ wanted' = FALSE
    /\ DetachIfAttached
    /\ recording' = FALSE
    /\ ui' = "idle"
    /\ UNCHANGED <<boVars, armVars, takes, moduleGone>>

\* OBS exits: unload() stops the arm thread and joins it, detaches, then waits for the
\* disposals, 3 s at most.
PressQuit ==
    /\ ui = "idle"
    /\ ui' = "joining"
    /\ UNCHANGED <<boVars, capture, wanted, chanVars, refs, armVars, doomed, recording, takes,
                   moduleGone>>

Join ==
    /\ ui = "joining" /\ MutexFree
    /\ arm' = "off"
    /\ wanted' = FALSE
    /\ DetachIfAttached
    /\ ui' = "waiting"
    /\ UNCHANGED <<boVars, trying, attempts, recording, takes, moduleGone>>

\* Mutant: wait for every disposal.
AllDisposed == doomed = {}

MayUnload == TRUE   \* the disposals are done, or 30 polls of 100 ms have gone by

Unload ==
    /\ ui = "waiting" /\ MayUnload
    /\ moduleGone' = TRUE
    /\ ui' = "unloaded"
    /\ UNCHANGED <<boVars, capture, wanted, chanVars, refs, armVars, doomed, recording, takes>>

UiSteps == ArmAsync \/ StopRecording \/ Join \/ Unload

-----------------------------------------------------------------------------
Init ==
    /\ named = None /\ phase = [n \in Bo |-> "unborn"]
    /\ capture = [o \in Outputs |-> None]
    /\ wanted = FALSE /\ attached = FALSE
    /\ boOutput = None /\ tapOutput = None
    /\ detachRequested = FALSE /\ disposing = FALSE /\ heard = FALSE /\ overdue = FALSE
    /\ refs = 0
    /\ arm = "off" /\ trying = NotTrying /\ attempts = 0
    /\ doomed = {}
    /\ ui = "idle" /\ recording = FALSE /\ takes = 0 /\ moduleGone = FALSE

World ==
    \/ \E n \in Bo : BoStart(n) \/ BoStop(n) \/ BoGone(n)
    \/ \E o \in Outputs : Packet(o)
    \/ SilenceElapses

Disposals == \E d \in doomed : StopReturns(d) \/ Disposed(d)

Next ==
    \/ World
    \/ Disposals
    \/ ArmPass \/ AttachSteps \/ BackOff
    \/ PressRec \/ PressStop \/ PressQuit \/ UiSteps

\* Our own threads run, and get mutex_ in the end: the arm thread sleeps with it
\* released.  Nothing is assumed of Branch Output, of the operator, or of
\* obs_output_stop(), which was measured not to return.
OurThreadsRun ==
    /\ WF_vars(ArmPass) /\ WF_vars(AttachSteps)
    /\ SF_vars(UiSteps) /\ SF_vars(\E d \in doomed : Disposed(d))
    /\ WF_vars(SilenceElapses)

Spec == Init /\ [][Next]_vars /\ OurThreadsRun

\* obs_output_stop() returns when it is called with mutex_ held.
BackOffReturns == WF_vars(BackOff)
-----------------------------------------------------------------------------
(* Properties.                                                             *)

Attempt == [bo : Bo \cup {None}, tap : Outputs \cup {None}]
Disposal == [tap : Outputs, at : {"stopping", "stopped"}]
Phases == {"unborn", "running", "ending", "gone"}
AtUi == {"idle", "arming", "stopping", "joining", "waiting", "unloaded"}
AtArm == {"off", "waiting", "starting", "checking", "backing off", "connecting"}

TypeOK ==
    /\ named \in Bo \cup {None}
    /\ phase \in [Bo -> Phases]
    /\ capture \in [Outputs -> Bo \cup {None}]
    /\ wanted \in BOOLEAN /\ attached \in BOOLEAN /\ detachRequested \in BOOLEAN
    /\ disposing \in BOOLEAN /\ heard \in BOOLEAN /\ overdue \in BOOLEAN
    /\ recording \in BOOLEAN /\ moduleGone \in BOOLEAN
    /\ boOutput \in Bo \cup {None} /\ tapOutput \in Outputs \cup {None}
    /\ refs \in Nat
    /\ arm \in AtArm /\ trying \in Attempt
    /\ attempts \in 0..MaxAttempts
    /\ doomed \subseteq Disposal
    /\ ui \in AtUi
    /\ takes \in 0..MaxTakes

\* While an obs_output_stop() is running for a detached tap output, the channel still
\* points at that output: tapStop() finds it, and the stop can end (packet-tap.cpp:688-
\* 693, "the stop waits for a capture nobody will ever end").
StopFindsItsCapture == \A d \in doomed : d.at = "stopping" => tapOutput = d.tap

\* Never two captures at once on one channel: a second one would push every packet into
\* the ring twice.
OneCapture == Cardinality({o \in Outputs : capture[o] # None}) <= 1

\* The references taken for an attachment are held exactly as long as it is being made,
\* stands, or is being stopped: none leaks when an attempt fails half way.
RefsBalanced ==
    refs = Cardinality({d \in doomed : d.at = "stopping"})
           + (IF attached THEN 1 ELSE 0)
           + (IF arm \in {"off", "waiting"} THEN 0 ELSE 1)

\* STOP sticks: the arm thread never hangs a camera back on once detachAll() has run.
AttachedOnlyIfWanted == attached => wanted

\* A camera is let go of when its encoder goes: after a "stopping" signal that reached
\* the channel, and, where none did, once Branch Output has replaced the output and
\* nothing has been received from the old one.  It never stays armed to record air.
LetsGo ==
    /\ (attached /\ detachRequested) ~> ~attached
    /\ (attached /\ ~heard /\ named # boOutput) ~> (~attached \/ heard \/ named = boOutput)

\* unload() ends, though a disposal may be stuck in obs_output_stop() for good.
UnloadEnds == ui = "joining" ~> ui = "unloaded"

=============================================================================
