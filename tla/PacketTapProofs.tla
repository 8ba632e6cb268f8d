--------------------------- MODULE PacketTapProofs ---------------------------
(***************************************************************************)
(* What PacketTap's run checks on two of Branch Output's encoders, proved  *)
(* for any number of encoders, attempts and takes: a tap output has one    *)
(* owner at a time - the attempt that made it, the attachment, or the      *)
(* thread that disposes of it - and everything else follows from who.      *)
(***************************************************************************)
EXTENDS PacketTap, FiniteSetTheorems, TLAPS

Attaching == arm \in {"starting", "checking", "backing off", "connecting"}

Stopping == \E d \in doomed : d.at = "stopping"

\* One owner at a time, and the channel points at its tap output.
OneOwner ==
    /\ \A d, e \in doomed : d = e
    /\ doomed # {} => disposing /\ ~attached /\ ~Attaching
    /\ attached => wanted /\ ~Attaching /\ tapOutput \in Outputs
    /\ Attaching => wanted /\ trying.tap \in Outputs /\ trying.bo \in Bo
                      /\ tapOutput = trying.tap
    /\ StopFindsItsCapture

\* Only the owner's tap output captures.
OwnerCaptures ==
    /\ \A o \in Outputs : capture[o] # None => o = tapOutput
    /\ (\E o \in Outputs : capture[o] # None) =>
          attached \/ (Attaching /\ arm # "starting") \/ Stopping

\* The owner holds the references.
OwnerHolds ==
    refs = (IF Stopping THEN 1 ELSE 0) + (IF attached THEN 1 ELSE 0)
           + (IF Attaching THEN 1 ELSE 0)

Owned == TypeOK /\ OneOwner /\ OwnerCaptures /\ OwnerHolds

-----------------------------------------------------------------------------
\* Nothing is owned at the start.
LEMMA InitOwned == Init => Owned
<1> SUFFICES ASSUME Init PROVE Owned
  OBVIOUS
<1> USE TapBoundsAssumption
<1>1. TypeOK
  <2>1. NotTrying \in Attempt
    BY DEF NotTrying, Attempt
  <2>2. phase \in [Bo -> Phases]
    BY DEF Init, Phases
  <2>3. capture \in [Outputs -> Bo \cup {None}]
    BY DEF Init
  <2>4. attempts \in 0..MaxAttempts /\ takes \in 0..MaxTakes /\ refs \in Nat
    BY DEF Init
  <2>5. trying \in Attempt
    BY <2>1 DEF Init
  <2> QED
    BY <2>2, <2>3, <2>4, <2>5 DEF Init, TypeOK, AtUi, AtArm
<1>2. OneOwner /\ OwnerCaptures /\ OwnerHolds
  BY DEF Init, OneOwner, OwnerCaptures, OwnerHolds, Attaching, Stopping,
         StopFindsItsCapture, None
<1> QED
  BY <1>1, <1>2 DEF Owned

\* A detachment hands the tap output, its capture and its references to a thread.
LEMMA DetachOwned ==
    ASSUME Owned, DetachIfAttached, named' \in Bo \cup {None}, phase' \in [Bo -> Phases],
           UNCHANGED <<trying, takes>>, attempts' \in 0..MaxAttempts, ~Attaching, arm' \in {"off", "waiting"}, attached => wanted' = wanted \/ wanted' = FALSE,
           wanted' \in BOOLEAN, recording' \in BOOLEAN, moduleGone' \in BOOLEAN,
           ui' \in AtUi
    PROVE  Owned' /\ ~attached'
<1> USE DEF Owned
<1>1. CASE attached /\ Detach
  <2> USE <1>1
  <2>1. TypeOK'
    <3>1. tapOutput \in Outputs
      BY DEF OneOwner
    <3>a. [tap |-> tapOutput, at |-> "stopping"] \in Disposal
      BY <3>1 DEF Disposal
    <3>2. doomed' \subseteq Disposal
      BY <3>a DEF TypeOK, Detach
    <3> QED
      BY <3>2 DEF TypeOK, Detach, AtArm
  <2>2. doomed = {} /\ doomed' = {[tap |-> tapOutput, at |-> "stopping"]}
    BY DEF OneOwner, Detach
  <2>3. OneOwner'
    <3>1. \A d, e \in doomed' : d = e
      BY <2>2
    <3>2. disposing' /\ ~attached' /\ ~Attaching'
      BY DEF Detach, Attaching
    <3>3. StopFindsItsCapture'
      BY <2>2 DEF Detach, StopFindsItsCapture
    <3> QED
      BY <3>1, <3>2, <3>3 DEF OneOwner
  <2>4. Stopping' /\ ~Stopping
    BY <2>2 DEF Stopping
  <2>5. OwnerCaptures'
    BY <2>4 DEF OwnerCaptures, Detach
  <2>6. ~Attaching' /\ attached' = FALSE /\ refs' = refs
    BY DEF Detach, Attaching
  <2>7. OwnerHolds'
    BY <2>4, <2>6 DEF OwnerHolds
  <2> QED
    BY <2>1, <2>3, <2>5, <2>7 DEF Detach
<1>2. CASE ~attached /\ UNCHANGED <<chanVars, doomed, refs, capture>>
  <2> USE <1>2 DEF chanVars
  <2>1. TypeOK'
    BY DEF TypeOK, AtArm
  <2>2. OneOwner'
    BY DEF OneOwner, Attaching, StopFindsItsCapture
  <2>3. OwnerCaptures' /\ OwnerHolds'
    BY DEF OwnerCaptures, OwnerHolds, Attaching, Stopping
  <2> QED
    BY <2>1, <2>2, <2>3
<1> QED
  BY <1>1, <1>2 DEF DetachIfAttached

\* A step that moves nothing an owner owns.
LEMMA FrameOwned ==
    ASSUME Owned, TypeOK', UNCHANGED <<capture, attached, tapOutput, disposing, refs, trying, doomed>>,
           arm' = arm \/ (~Attaching /\ ~Attaching'),
           wanted => wanted'
    PROVE  Owned'
<1>1. Attaching' <=> Attaching
  BY DEF Attaching
<1>2. Stopping' <=> Stopping
  BY DEF Stopping
<1>3. OneOwner'
  BY <1>1 DEF Owned, OneOwner, StopFindsItsCapture
<1>4. OwnerCaptures'
  <2>1. CASE arm' = arm
    BY <1>1, <1>2, <2>1 DEF Owned, OwnerCaptures
  <2>2. CASE ~Attaching /\ ~Attaching'
    BY <1>2, <2>2 DEF Owned, OwnerCaptures
  <2> QED
    BY <2>1, <2>2
<1>5. OwnerHolds'
  BY <1>1, <1>2 DEF Owned, OwnerHolds
<1> QED
  BY <1>3, <1>4, <1>5 DEF Owned

\* Branch Output changes nothing of ours but the flag its signal raises.
LEMMA WorldOwned == ASSUME Owned, World PROVE Owned'
<1>1. ASSUME NEW n \in Bo, BoStart(n) \/ BoStop(n) \/ BoGone(n) PROVE Owned'
  <2>1. phase' \in [Bo -> Phases]
    BY <1>1 DEF Owned, TypeOK, Phases, BoStart, BoStop, BoGone
  <2>2. named' \in Bo \cup {None}
    BY <1>1 DEF Owned, TypeOK, BoStart, BoStop, BoGone
  <2>3. detachRequested' \in BOOLEAN
    BY <1>1 DEF Owned, TypeOK, BoStart, BoStop, BoGone, chanVars
  <2>4. UNCHANGED <<capture, wanted, attached, boOutput, tapOutput, disposing, heard,
                    overdue, refs, arm, trying, attempts, doomed, ui, recording, takes,
                    moduleGone>>
    BY <1>1 DEF BoStart, BoStop, BoGone, chanVars, armVars, uiVars
  <2>5. TypeOK'
    BY <2>1, <2>2, <2>3, <2>4 DEF Owned, TypeOK
  <2> QED
    BY <2>4, <2>5, FrameOwned
<1>2. ASSUME (\E o \in Outputs : Packet(o)) \/ SilenceElapses PROVE Owned'
  <2>1. heard' \in BOOLEAN /\ overdue' \in BOOLEAN
    BY <1>2 DEF Owned, TypeOK, Packet, SilenceElapses
  <2>2. UNCHANGED <<named, phase, capture, wanted, attached, boOutput, tapOutput,
                    detachRequested, disposing, refs, arm, trying, attempts, doomed, ui,
                    recording, takes, moduleGone>>
    BY <1>2 DEF Packet, SilenceElapses, boVars, armVars, uiVars
  <2>3. TypeOK'
    BY <2>1, <2>2 DEF Owned, TypeOK
  <2> QED
    BY <2>2, <2>3, FrameOwned
<1> QED
  BY <1>1, <1>2 DEF World

\* The disposing thread ends the capture and releases the references, once; the channel
\* is free for the next attachment only when it has.
LEMMA DisposalsOwned == ASSUME Owned, Disposals PROVE Owned'
<1>1. ASSUME NEW d \in doomed, StopReturns(d) PROVE Owned'
  <2> DEFINE s == [d EXCEPT !.at = "stopped"]
  <2>1. d \in Disposal /\ doomed = {d}
        /\ d.at = "stopping" /\ tapOutput = d.tap
    BY <1>1 DEF Owned, TypeOK, OneOwner, StopReturns
  <2>2. s.at = "stopped" /\ s.tap = d.tap
        /\ s \in Disposal
    BY <2>1 DEF Disposal
  <2>3. doomed' = {s}
    BY <1>1, <2>1 DEF StopReturns
  <2> HIDE DEF s
  <2>4. UNCHANGED <<named, phase, wanted, attached, boOutput, tapOutput, detachRequested,
                    disposing, heard, overdue, arm, trying, attempts, ui, recording, takes,
                    moduleGone>>
    BY <1>1 DEF StopReturns, boVars, chanVars, armVars, uiVars
  <2>5. Stopping /\ ~Stopping' /\ ~attached /\ ~attached' /\ ~Attaching /\ ~Attaching' /\ disposing'
    BY <2>1, <2>2, <2>3, <2>4 DEF Owned, Stopping, OneOwner, Attaching
  <2>6. refs = 1 /\ refs' = 0
    BY <1>1, <2>5 DEF Owned, OwnerHolds, StopReturns
  <2>7. capture' = [capture EXCEPT ![d.tap] = None] /\ capture \in [Outputs -> Bo \cup {None}]
    BY <1>1 DEF StopReturns, Owned, TypeOK
  <2>8. TypeOK'
    <3>1. doomed' \subseteq Disposal
      BY <2>2, <2>3
    <3>2. capture' \in [Outputs -> Bo \cup {None}]
      BY <2>7
    <3> QED
      BY <2>4, <2>6, <3>1, <3>2 DEF Owned, TypeOK
  <2>9. OneOwner'
    BY <2>2, <2>3, <2>5 DEF OneOwner, StopFindsItsCapture
  <2>10. OwnerCaptures'
    <3>1. \A o \in Outputs : capture[o] # None => o = d.tap
      BY <2>1 DEF Owned, OwnerCaptures
    <3>2. \A o \in Outputs : capture'[o] = None
      BY <2>7, <3>1
    <3> QED
      BY <3>2 DEF OwnerCaptures
  <2>11. OwnerHolds'
    BY <2>5, <2>6 DEF OwnerHolds
  <2> QED
    BY <2>8, <2>9, <2>10, <2>11 DEF Owned
<1>2. ASSUME NEW d \in doomed, Disposed(d) PROVE Owned'
  <2>1. doomed = {d} /\ doomed' = {} /\ d.at = "stopped"
    BY <1>2 DEF Owned, OneOwner, Disposed
  <2>2. UNCHANGED <<named, phase, capture, wanted, attached, boOutput, detachRequested,
                    heard, overdue, refs, arm, trying, attempts, ui, recording, takes,
                    moduleGone>>
    BY <1>2 DEF Disposed, boVars, armVars, uiVars
  <2>3. ~Stopping /\ ~Stopping' /\ ~attached /\ ~Attaching /\ ~Attaching' /\ ~attached'
    BY <2>1, <2>2 DEF Owned, Stopping, OneOwner, Attaching
  <2>4. tapOutput' \in Outputs \cup {None} /\ disposing' \in BOOLEAN
    BY <1>2 DEF Disposed, Owned, TypeOK
  <2>5. TypeOK'
    BY <2>1, <2>2, <2>4 DEF Owned, TypeOK
  <2>6. OneOwner'
    BY <2>1, <2>3 DEF OneOwner, StopFindsItsCapture
  <2>7. OwnerCaptures'
    BY <2>2, <2>3 DEF Owned, OwnerCaptures
  <2>8. OwnerHolds'
    BY <2>2, <2>3 DEF Owned, OwnerHolds
  <2> QED
    BY <2>5, <2>6, <2>7, <2>8 DEF Owned
<1> QED
  BY <1>1, <1>2 DEF Disposals

\* A pass of the arm thread lets go, fails, or becomes the owner of a new tap output.
LEMMA ArmPassOwned == ASSUME Owned, ArmPass PROVE Owned'
<1>1. CASE DetachAsked
  <2>1. Detach /\ attached /\ arm = "waiting"
    BY <1>1 DEF DetachAsked
  <2>2. UNCHANGED <<named, phase, wanted, arm, trying, attempts, ui, recording, takes, moduleGone>>
    BY <1>1 DEF DetachAsked, boVars, armVars, uiVars
  <2> QED
    BY <2>1, <2>2, DetachOwned DEF Owned, TypeOK, DetachIfAttached, Attaching
<1>2. CASE DetachSilent
  <2>1. Detach /\ attached /\ arm = "waiting" /\ attempts' = 0
    BY <1>2 DEF DetachSilent
  <2>2. UNCHANGED <<named, phase, wanted, arm, trying, ui, recording, takes, moduleGone>>
    BY <1>2 DEF DetachSilent, boVars, uiVars
  <2>3. attempts' \in 0..MaxAttempts
    BY <2>1, TapBoundsAssumption
  <2> QED
    BY <2>1, <2>2, <2>3, DetachOwned DEF Owned, TypeOK, DetachIfAttached, Attaching
<1>3. CASE AttachFails
  <2>1. UNCHANGED <<named, phase, capture, wanted, attached, boOutput, tapOutput,
                    detachRequested, disposing, heard, overdue, refs, arm, trying, doomed, ui,
                    recording, takes, moduleGone>>
    BY <1>3 DEF AttachFails, boVars, chanVars, uiVars
  <2>2. attempts' \in 0..MaxAttempts
    BY <1>3, TapBoundsAssumption DEF AttachFails, Due, Owned, TypeOK
  <2>3. TypeOK'
    BY <2>1, <2>2 DEF Owned, TypeOK
  <2> QED
    BY <2>1, <2>3, FrameOwned
<1>4. ASSUME NEW o \in Outputs, AttachBegins(o) PROVE Owned'
  <2>1. UNCHANGED <<named, phase, capture, wanted, attached, boOutput, detachRequested,
                    disposing, heard, overdue, doomed, ui, recording, takes, moduleGone>>
    BY <1>4 DEF AttachBegins, boVars, uiVars
  <2>2. wanted /\ ~attached /\ ~disposing /\ arm = "waiting" /\ attempts < MaxAttempts
    BY <1>4 DEF AttachBegins, Due, CannotAttach
  <2>3. doomed = {} /\ ~Stopping /\ ~Stopping' /\ ~Attaching /\ Attaching' /\ arm' = "starting"
    BY <1>4, <2>1, <2>2 DEF AttachBegins, Owned, OneOwner, Stopping, Attaching
  <2>4. refs = 0 /\ refs' = 1
    BY <1>4, <2>2, <2>3 DEF AttachBegins, Owned, OwnerHolds
  <2>5. named \in Bo
    BY <1>4 DEF AttachBegins, CannotAttach, Active
  <2>6. trying' = [bo |-> named, tap |-> o] /\ tapOutput' = o
    BY <1>4 DEF AttachBegins
  <2>7. trying' \in Attempt /\ trying'.bo \in Bo /\ trying'.tap = o
    BY <2>5, <2>6 DEF Attempt
  <2>8. attempts' \in 0..MaxAttempts
    BY <1>4, <2>2, TapBoundsAssumption DEF AttachBegins, Owned, TypeOK
  <2>9. TypeOK'
    BY <2>1, <2>3, <2>4, <2>6, <2>7, <2>8 DEF Owned, TypeOK, AtArm
  <2>10. OneOwner'
    BY <2>1, <2>2, <2>3, <2>6, <2>7 DEF OneOwner, StopFindsItsCapture
  <2>11. OwnerCaptures'
    BY <2>1, <2>2, <2>3 DEF Owned, OwnerCaptures
  <2>12. OwnerHolds'
    BY <2>1, <2>2, <2>3, <2>4 DEF OwnerHolds
  <2> QED
    BY <2>9, <2>10, <2>11, <2>12 DEF Owned
<1> QED
  BY <1>1, <1>2, <1>3, <1>4 DEF ArmPass

\* Letting go half way: nothing captures and nothing is held.
LEMMA GiveUpOwned ==
    ASSUME Owned, GiveUp, Attaching, capture' \in [Outputs -> Bo \cup {None}],
           \A o \in Outputs : capture'[o] = None, overdue' \in BOOLEAN,
           UNCHANGED <<named, phase, wanted, attached, boOutput, detachRequested, disposing,
                       heard, attempts, doomed, ui, recording, takes, moduleGone>>
    PROVE  Owned'
<1>1. doomed = {} /\ ~attached /\ ~Stopping
  BY DEF Owned, OneOwner, Stopping
<1>2. refs = 1 /\ refs' = 0 /\ tapOutput' = None /\ trying' = NotTrying /\ arm' = "waiting"
  BY <1>1 DEF Owned, OwnerHolds, GiveUp
<1>3. ~Attaching' /\ ~Stopping' /\ ~attached' /\ doomed' = {}
  BY <1>1, <1>2 DEF Attaching, Stopping
<1>4. NotTrying \in Attempt
  BY DEF NotTrying, Attempt
<1>5. TypeOK'
  BY <1>2, <1>4 DEF Owned, TypeOK, AtArm
<1>6. OneOwner'
  BY <1>3 DEF OneOwner, StopFindsItsCapture
<1>7. OwnerCaptures'
  BY DEF OwnerCaptures
<1>8. OwnerHolds'
  BY <1>2, <1>3 DEF OwnerHolds
<1> QED
  BY <1>5, <1>6, <1>7, <1>8 DEF Owned

\* What attachLocked() does between its lookup and its return.
LEMMA AttachStepsOwned == ASSUME Owned, AttachSteps \/ BackOff PROVE Owned'
<1>1. CASE StartFails
  <2>1. \A o \in Outputs : capture[o] = None
    BY <1>1 DEF StartFails, Owned, OwnerCaptures, OneOwner, Attaching, Stopping
  <2>2. UNCHANGED <<named, phase, capture, wanted, attached, boOutput, detachRequested,
                    disposing, heard, attempts, doomed, ui, recording, takes, moduleGone>>
    BY <1>1 DEF StartFails, boVars, uiVars
  <2>3. overdue' = FALSE /\ Attaching /\ GiveUp
    BY <1>1 DEF StartFails, Attaching
  <2>4. capture' \in [Outputs -> Bo \cup {None}]
    BY <2>2 DEF Owned, TypeOK
  <2> QED
    BY <2>1, <2>2, <2>3, <2>4, GiveUpOwned
<1>2. CASE BackOff
  <2>1. Attaching /\ GiveUp /\ tapOutput = trying.tap
    BY <1>2 DEF BackOff, Attaching, Owned, OneOwner
  <2>2. capture' = [capture EXCEPT ![trying.tap] = None] /\ capture \in [Outputs -> Bo \cup {None}]
    BY <1>2 DEF BackOff, Owned, TypeOK
  <2>3. \A o \in Outputs : capture[o] # None => o = trying.tap
    BY <2>1 DEF Owned, OwnerCaptures
  <2>4. \A o \in Outputs : capture'[o] = None
    BY <2>2, <2>3
  <2>5. UNCHANGED <<named, phase, wanted, attached, boOutput, detachRequested, disposing,
                    heard, overdue, attempts, doomed, ui, recording, takes, moduleGone>>
    BY <1>2 DEF BackOff, boVars, uiVars
  <2>6. capture' \in [Outputs -> Bo \cup {None}] /\ overdue' \in BOOLEAN
    BY <2>2, <2>5 DEF Owned, TypeOK
  <2> QED
    BY <2>1, <2>4, <2>5, <2>6, GiveUpOwned
<1>3. CASE StartSucceeds
  <2>1. UNCHANGED <<named, phase, wanted, attached, boOutput, tapOutput, detachRequested,
                    disposing, heard, refs, trying, attempts, doomed, ui, recording, takes,
                    moduleGone>>
    BY <1>3 DEF StartSucceeds, boVars, uiVars
  <2>2. Attaching /\ arm' = "checking" /\ overdue' = FALSE
    BY <1>3 DEF StartSucceeds, Attaching
  <2>3. Attaching' /\ (Stopping' <=> Stopping)
    BY <2>1, <2>2 DEF Attaching, Stopping
  <2>4. trying.tap \in Outputs /\ trying.bo \in Bo /\ tapOutput = trying.tap
    BY <2>2 DEF Owned, OneOwner
  <2>5. capture' = [capture EXCEPT ![trying.tap] = trying.bo] /\ capture \in [Outputs -> Bo \cup {None}]
    BY <1>3 DEF StartSucceeds, Owned, TypeOK
  <2>6. capture' \in [Outputs -> Bo \cup {None}]
    BY <2>4, <2>5
  <2>7. TypeOK'
    <3>1. arm' \in AtArm /\ overdue' \in BOOLEAN
      BY <2>2 DEF AtArm
    <3>2. TypeOK
      BY DEF Owned
    <3> QED
      BY <2>1, <2>6, <3>1, <3>2 DEF TypeOK
  <2>8. OneOwner'
    BY <2>1, <2>2, <2>3 DEF Owned, OneOwner, StopFindsItsCapture
  <2>9. OwnerCaptures'
    <3>1. \A o \in Outputs : capture'[o] # None => o = tapOutput
      BY <2>4, <2>5 DEF Owned, OwnerCaptures
    <3> QED
      BY <2>1, <2>2, <2>3, <3>1 DEF OwnerCaptures
  <2>10. OwnerHolds'
    BY <2>1, <2>2, <2>3 DEF Owned, OwnerHolds
  <2> QED
    BY <2>7, <2>8, <2>9, <2>10 DEF Owned
<1>4. CASE Check
  <2>1. UNCHANGED <<named, phase, capture, wanted, attached, boOutput, tapOutput,
                    detachRequested, disposing, heard, overdue, refs, trying, attempts, doomed,
                    ui, recording, takes, moduleGone>>
    BY <1>4 DEF Check, boVars, chanVars, uiVars
  <2>2. Attaching /\ arm # "starting" /\ arm' \in {"connecting", "backing off"}
    BY <1>4 DEF Check, Attaching
  <2>3. Attaching' /\ arm' # "starting" /\ (Stopping' <=> Stopping)
    BY <2>1, <2>2 DEF Attaching, Stopping
  <2>a. arm' \in AtArm
    BY <2>2 DEF AtArm
  <2>4. TypeOK'
    BY <2>1, <2>a DEF Owned, TypeOK
  <2>5. OneOwner'
    BY <2>1, <2>2, <2>3 DEF Owned, OneOwner, StopFindsItsCapture
  <2>6. OwnerCaptures'
    BY <2>1, <2>2, <2>3 DEF Owned, OwnerCaptures
  <2>7. OwnerHolds'
    BY <2>1, <2>2, <2>3 DEF Owned, OwnerHolds
  <2> QED
    BY <2>4, <2>5, <2>6, <2>7 DEF Owned
<1>5. CASE Attach
  <2>1. UNCHANGED <<named, phase, capture, wanted, tapOutput, detachRequested, disposing,
                    heard, overdue, refs, doomed, ui, recording, takes, moduleGone>>
    BY <1>5 DEF Attach, boVars, uiVars
  <2>2. Attaching /\ arm' = "waiting" /\ attached' = TRUE /\ attempts' = 0
        /\ trying' = NotTrying /\ boOutput' = trying.bo
    BY <1>5 DEF Attach, Attaching
  <2>3. trying.bo \in Bo /\ tapOutput \in Outputs /\ wanted /\ doomed = {} /\ ~attached
    BY <2>2 DEF Owned, OneOwner
  <2>b. TypeOK
    BY DEF Owned
  <2>4. ~Attaching' /\ ~Stopping /\ ~Stopping'
    BY <2>1, <2>2, <2>3 DEF Attaching, Stopping
  <2>5. trying' \in Attempt /\ attempts' \in 0..MaxAttempts /\ boOutput' \in Bo \cup {None}
    BY <2>2, <2>3, TapBoundsAssumption DEF NotTrying, Attempt
  <2>a. attached' \in BOOLEAN /\ arm' \in AtArm
    BY <2>2 DEF AtArm
  <2>6. TypeOK'
    BY <2>1, <2>5, <2>a, <2>b DEF TypeOK
  <2>7. OneOwner'
    BY <2>1, <2>2, <2>3, <2>4 DEF OneOwner, StopFindsItsCapture
  <2>8. OwnerCaptures'
    BY <2>1, <2>2 DEF Owned, OwnerCaptures
  <2>9. OwnerHolds'
    BY <2>1, <2>2, <2>3, <2>4 DEF Owned, OwnerHolds
  <2> QED
    BY <2>6, <2>7, <2>8, <2>9 DEF Owned
<1> QED
  BY <1>1, <1>2, <1>3, <1>4, <1>5 DEF AttachSteps

\* The UI thread lets go of whatever is attached, and waits for mutex_ to do it.
LEMMA UiOwned == ASSUME Owned, PressRec \/ PressStop \/ PressQuit \/ UiSteps PROVE Owned'
<1>1. CASE PressRec \/ PressStop \/ PressQuit \/ Unload
  <2>1. UNCHANGED <<named, phase, capture, wanted, attached, boOutput, tapOutput,
                    detachRequested, disposing, heard, overdue, refs, arm, trying, attempts,
                    doomed>>
    BY <1>1 DEF PressRec, PressStop, PressQuit, Unload, boVars, chanVars, armVars
  <2>2. ui' \in AtUi /\ recording' \in BOOLEAN /\ moduleGone' \in BOOLEAN
    BY <1>1 DEF PressRec, PressStop, PressQuit, Unload, AtUi, Owned, TypeOK
  <2>a. takes' \in 0..MaxTakes
    BY <1>1, TapBoundsAssumption DEF PressRec, PressStop, PressQuit, Unload, Owned, TypeOK
  <2>3. TypeOK'
    BY <2>1, <2>2, <2>a DEF Owned, TypeOK
  <2> QED
    BY <2>1, <2>3, FrameOwned
<1>2. CASE ArmAsync
  <2>1. UNCHANGED <<named, phase, capture, attached, boOutput, tapOutput, disposing, refs,
                    trying, doomed, recording, takes, moduleGone>>
    BY <1>2 DEF ArmAsync, boVars
  <2>2. wanted' = TRUE /\ arm' = "waiting" /\ ui' = "idle" /\ ~Attaching /\ ~Attaching'
    BY <1>2 DEF ArmAsync, MutexFree, Attaching
  <2>3. heard' \in BOOLEAN /\ detachRequested' \in BOOLEAN /\ overdue' \in BOOLEAN
    BY <1>2 DEF ArmAsync, Owned, TypeOK
  <2>4. attempts' \in 0..MaxAttempts
    BY <1>2, TapBoundsAssumption DEF ArmAsync, Owned, TypeOK
  <2>5. TypeOK'
    BY <2>1, <2>2, <2>3, <2>4 DEF Owned, TypeOK, AtArm, AtUi
  <2> QED
    BY <2>1, <2>2, <2>5, FrameOwned
<1>3. CASE StopRecording
  <2>1. DetachIfAttached /\ wanted' = FALSE /\ recording' = FALSE /\ ui' = "idle"
    BY <1>3 DEF StopRecording
  <2>2. UNCHANGED <<named, phase, arm, trying, attempts, takes, moduleGone>>
    BY <1>3 DEF StopRecording, boVars, armVars
  <2>3. ~Attaching /\ arm' \in {"off", "waiting"}
    BY <1>3, <2>2 DEF StopRecording, MutexFree, Attaching
  <2> QED
    BY <2>1, <2>2, <2>3, DetachOwned DEF Owned, TypeOK, AtUi
<1>4. CASE Join
  <2>1. DetachIfAttached /\ wanted' = FALSE /\ ui' = "waiting" /\ arm' = "off"
    BY <1>4 DEF Join
  <2>2. UNCHANGED <<named, phase, trying, attempts, recording, takes, moduleGone>>
    BY <1>4 DEF Join, boVars
  <2>3. ~Attaching
    BY <1>4 DEF Join, MutexFree, Attaching
  <2> QED
    BY <2>1, <2>2, <2>3, DetachOwned DEF Owned, TypeOK, AtUi
<1> QED
  BY <1>1, <1>2, <1>3, <1>4 DEF UiSteps

LEMMA StepOwned == Owned /\ [Next]_vars => Owned'
<1> SUFFICES ASSUME Owned, [Next]_vars PROVE Owned'
  OBVIOUS
<1>1. CASE Next
  BY <1>1, WorldOwned, DisposalsOwned, ArmPassOwned, AttachStepsOwned, UiOwned DEF Next
<1>2. CASE UNCHANGED vars
  <2>1. UNCHANGED <<named, phase, capture, wanted, attached, boOutput, tapOutput,
                    detachRequested, disposing, heard, overdue, refs, arm, trying, attempts,
                    doomed, ui, recording, takes, moduleGone>>
    BY <1>2 DEF vars, boVars, chanVars, armVars, uiVars
  <2>2. TypeOK'
    BY <2>1 DEF Owned, TypeOK
  <2> QED
    BY <2>1, <2>2, FrameOwned
<1> QED
  BY <1>1, <1>2

-----------------------------------------------------------------------------
(* The theorems.                                                           *)

LEMMA OwnedAlways == Spec => []Owned
<1>1. Init => Owned
  BY InitOwned
<1>2. Owned /\ [Next]_vars => Owned'
  BY StepOwned
<1> QED
  BY <1>1, <1>2, PTL DEF Spec

\* An obs_output_stop() that is running for a detached tap output always finds the
\* channel still pointing at it, however often Branch Output replaces its encoders and
\* however many takes come and go.
THEOREM StopsFindTheirCapture == Spec => []StopFindsItsCapture
<1>1. Owned => StopFindsItsCapture
  BY DEF Owned, OneOwner
<1> QED
  BY <1>1, OwnedAlways, PTL

\* STOP sticks.
THEOREM StopSticks == Spec => []AttachedOnlyIfWanted
<1>1. Owned => AttachedOnlyIfWanted
  BY DEF Owned, OneOwner, AttachedOnlyIfWanted
<1> QED
  BY <1>1, OwnedAlways, PTL

\* A packet reaches a camera's ring once.
THEOREM OnlyOneCaptures == Spec => []OneCapture
<1>1. ASSUME Owned PROVE OneCapture
  <2> DEFINE fed == {o \in Outputs : capture[o] # None}
  <2>1. \A o \in fed : o = tapOutput
    BY <1>1 DEF Owned, OwnerCaptures
  <2>2. fed = {} \/ fed = {tapOutput}
    BY <2>1
  <2> HIDE DEF fed
  <2>3. Cardinality(fed) = 0 \/ Cardinality(fed) = 1
    BY <2>2, FS_EmptySet, FS_Singleton
  <2>4. Cardinality(fed) <= 1
    BY <2>3
  <2> QED
    BY <2>4 DEF OneCapture, fed
<1> QED
  BY <1>1, OwnedAlways, PTL

\* Every reference taken is held by an owner, and let go of with it.
THEOREM RefsStayBalanced == Spec => []RefsBalanced
<1>1. ASSUME Owned PROVE RefsBalanced
  <2> DEFINE stopping == {d \in doomed : d.at = "stopping"}
  <2>1. Cardinality(stopping) = IF Stopping THEN 1 ELSE 0
    <3>1. CASE Stopping
      <4>1. PICK d \in doomed : d.at = "stopping"
        BY <3>1 DEF Stopping
      <4>2. stopping = {d}
        BY <1>1, <4>1 DEF Owned, OneOwner
      <4> QED
        BY <3>1, <4>2, FS_Singleton
    <3>2. CASE ~Stopping
      <4>1. stopping = {}
        BY <3>2 DEF Stopping
      <4> QED
        BY <3>2, <4>1, FS_EmptySet
    <3> QED
      BY <3>1, <3>2
  <2>2. Attaching <=> arm \notin {"off", "waiting"}
    BY <1>1 DEF Owned, TypeOK, AtArm, Attaching
  <2> HIDE DEF stopping
  <2>3. refs = Cardinality(stopping) + (IF attached THEN 1 ELSE 0)
               + (IF arm \in {"off", "waiting"} THEN 0 ELSE 1)
    BY <1>1, <2>1, <2>2 DEF Owned, OwnerHolds
  <2> QED
    BY <2>3 DEF RefsBalanced, stopping
<1> QED
  BY <1>1, OwnedAlways, PTL

=============================================================================
