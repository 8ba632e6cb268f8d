----------------------------- MODULE PlaybackRun -----------------------------
(***************************************************************************)
(* One run of the playback thread (src/replay-channel.cpp, playbackLoop()  *)
(* and playReverse(), with src/reverse-plan.hpp): the pictures of a clip,  *)
(* forwards as they come out of the decoder, or backwards one decode pass  *)
(* at a time, with a second thread decoding ahead.  The UI thread pauses,  *)
(* resumes and aborts it whenever it likes.                                *)
(*                                                                         *)
(* Data kept: a packet is its track, its presentation instant and whether  *)
(* it opens a GOP; a picture is its instant, sound is its length.  Pixels, *)
(* samples and the wall clock are left out: a picture that is not held by  *)
(* a pause is shown sooner or later.  Every packet sent is accepted,       *)
(* because the decoder is emptied before the next one, or refused for good *)
(* (`bad`, a picture).                                                     *)
(***************************************************************************)
EXTENDS AudioStretch, FiniteSets, SequencesExt

CONSTANTS
    Clips,        \* the packet sequences a run may be given, in decode order
    Ranges,       \* the <<presentIn, presentOut>> pairs
    Caps,         \* maxFrames: 0 for all
    PerPass,      \* reverse_plan::framesPerChunk(): pictures a pass may keep
    Delays,       \* pictures the decoder holds back (its reordering and its threads)
    Speeds,       \* per cent, 5 to 400
    Buffer,       \* frames of sound in a packet
    SoundDelay    \* packets the audio decoder holds back

ASSUME PerPassAssumption == PerPass \in Nat \ {0}
ASSUME GivenAssumption == Ranges \subseteq Int \X Int /\ {Caps, Delays} \subseteq SUBSET Nat
ASSUME SoundAssumption == Speeds \subseteq 5..400 /\ {Buffer, SoundDelay} \subseteq Nat

Packet == [kind : {"video", "audio"}, at : Int, key : BOOLEAN]

\* The pictures sent before packet j that are shown after it.
Overtaken(c, j) == {c[i].at : i \in {i \in 1..(j - 1) : c[i].kind = "video" /\ c[i].at > c[j].at}}

\* What resolveRange() gives and a decoder can play: every packet has an instant of its own
\* in its track, every picture belongs to a GOP that is closed, and no decoder holds back
\* less than what the stream reorders.
Playable(c) ==
    LET Video == {j \in DOMAIN c : c[j].kind = "video"}
        Opens == {k \in Video : c[k].key}
    IN  /\ c \in Seq(Packet)
        /\ \A j \in DOMAIN c : c[j].key => j \in Video
        /\ \A j \in Video : \E k \in Opens : k <= j
        /\ \A i, j \in DOMAIN c : c[i].kind = c[j].kind /\ c[i].at = c[j].at => i = j
        /\ \A k \in Opens : \A i, j \in Video : i < k /\ k <= j => c[i].at < c[j].at
        /\ \A j \in Video, d \in Delays : Cardinality(Overtaken(c, j)) <= d

ASSUME ClipsAssumption == \A c \in Clips : Playable(c)

VARIABLES
    span, lo, hi, cap, delay, bad, backwards,   \* what the run was given; never change
    speed, format,   \* likewise: per cent, and what the samples are ("none": no decoder; "other": not planar)
    abort,       \* abort_
    paused,      \* pacing_.paused
    phase,       \* where the playback thread is
    shown,       \* the pictures handed to OBS
    completed,   \* the run reached the end of what it was asked to show
    next,        \* forwards: the packet to send next
    dec,         \* forwards: pictures inside the decoder
    frame,       \* forwards: the picture waiting for its instant, or none
    capped,      \* hitFrameCap
    draining,    \* forwards: the decoder has been told there is no more
    sound,       \* forwards: packets inside the audio decoder, the stretcher, what OBS got
    producer,    \* backwards: where the decoding thread is
    passes,      \* what the run intends to show, as decode passes; never changes
    pass,        \* passes taken up
    chunk,       \* the pictures of the pass being decoded
    ready,       \* finished passes waiting to be shown (at most one)
    showing,     \* the pictures of the pass being shown, not shown yet
    held,        \* pictures counted in heldBytes
    stopDecoding, decodeFailed

given    == <<span, lo, hi, cap, delay, bad, backwards, speed, format, passes>>
outside  == <<abort, paused>>
pictures == <<next, dec, frame, capped, draining>>
forward  == <<pictures, sound>>
consumer == <<phase, shown, completed>>
handoff  == <<ready, held>>
decoder  == <<producer, pass, chunk, decodeFailed>>
reverse  == <<decoder, handoff, showing, stopDecoding>>
runVars  == <<given, outside, consumer, forward, reverse>>

NoFrame == -1
NoBad == 0

-----------------------------------------------------------------------------
(* reverse_plan.                                                           *)

Keyframes == {i \in DOMAIN span : span[i].key}

\* Packets of the GOP opened at i: up to the next keyframe.
Gop(i) == {j \in DOMAIN span : j >= i /\ \A k \in Keyframes : k <= i \/ j < k}

Instants(js) == {span[j].at : j \in {k \in js : span[k].kind = "video"}}

Wanted(i) == {m \in Instants(Gop(i)) : lo <= m /\ m <= hi}

\* Presentation order, whatever order the packets sit in: slices of PerPass pictures, counted
\* from the newest of the GOP.
SliceOf(i, m) == Cardinality({x \in Wanted(i) : x > m}) \div PerPass

\* The pass that keeps m and what else is in its slice.
PassOf(i, m) ==
    LET slice == {x \in Wanted(i) : SliceOf(i, x) = SliceOf(i, m)}
    IN  [gop |-> i, from |-> Min(slice), to |-> Max(slice)]

Passes == UNION {{PassOf(i, m) : m \in Wanted(i)} : i \in Keyframes}

\* Newest GOP first, each from its newest slice to its oldest.
Sooner(p, q) == p.gop > q.gop \/ (p.gop = q.gop /\ p.from > q.from)

\* plan()
Plan ==
    [n \in 1..Cardinality(Passes) |->
        CHOOSE p \in Passes : Cardinality({q \in Passes : Sooner(q, p)}) = n - 1]

\* The pictures of a pass; those decoded only for their sake are dropped.
Kept(p) == {m \in Instants(Gop(p.gop)) : p.from <= m /\ m <= p.to}

-----------------------------------------------------------------------------
(* Forwards.                                                               *)

\* emitAudio(): what lies before the IN is dropped; at 1x the decoder's buffers go to OBS
\* as they are; at any other speed only planar samples can be stretched.
Heard(s, at) ==
    IF at < lo THEN s
    ELSE IF speed = 100 THEN [s EXCEPT !.heard = @ + Buffer]
    ELSE IF format # "planar" THEN s
    ELSE LET st == PushFrames(s.stretch, speed, Buffer)
         IN  [s EXCEPT !.stretch = TakeAll(st), !.heard = @ + st.ready]

\* pumpAudio()
Pumped(s, at) ==
    LET inside == s.dec \cup {at} IN
    IF format = "none" THEN s
    ELSE IF Cardinality(inside) <= SoundDelay THEN [s EXCEPT !.dec = inside]
    ELSE Heard([s EXCEPT !.dec = inside \ {Min(inside)}], Min(inside))

\* The block the stretcher holds back; a stretcher that was never fed was never set up.
Flushed(s) ==
    LET st == Flush(s.stretch, speed)
    IN  IF s.stretch = Fresh THEN s
        ELSE [s EXCEPT !.stretch = TakeAll(st), !.heard = @ + st.ready]

CapReached(n) == cap > 0 /\ n >= cap

\* waitForFrame(): a paused frame waits, an aborted one is dropped.
MayShow == abort \/ ~paused

\* The outer loop's test, then the next packet.  The pictures it gives back are received
\* before anything else is sent.
SendNext ==
    /\ phase = "loop"
    /\ IF next > Len(span) \/ abort \/ capped
       THEN /\ phase' = "tail"
            /\ completed' = IF next <= Len(span) THEN ~abort ELSE completed
            /\ UNCHANGED <<next, dec, sound>>
       ELSE IF next = bad
       THEN /\ phase' = "tail"
            /\ completed' = FALSE
            /\ UNCHANGED <<next, dec, sound>>
       ELSE /\ phase' = "receive"
            /\ IF span[next].kind = "video"
               THEN dec' = dec \cup {span[next].at} /\ UNCHANGED sound
               ELSE sound' = Pumped(sound, span[next].at) /\ UNCHANGED dec
            /\ next' = next + 1
            /\ UNCHANGED completed
    /\ UNCHANGED <<given, outside, shown, frame, capped, draining, reverse>>

HasPicture == dec # {} /\ (draining \/ Cardinality(dec) > delay)

\* What follows a picture, shown, skipped or dropped: the abort and the frame cap are
\* looked at in the loop over packets, the abort alone in the tail.
AfterEmit(n) ==
    IF draining
    THEN phase' = "receive" /\ UNCHANGED <<completed, capped>>
    ELSE /\ phase' = IF abort \/ CapReached(n) THEN "loop" ELSE "receive"
         /\ completed' = (completed /\ ~abort)
         /\ capped' = (~abort /\ CapReached(n))

Preroll(m) == m < lo

\* receive(), then emit(): what comes before the IN only primed the decoder.
Receive ==
    /\ phase = "receive"
    /\ IF ~HasPicture
       THEN /\ phase' = IF draining THEN "report" ELSE "loop"
            /\ UNCHANGED <<dec, frame, completed, capped>>
       ELSE LET m == Min(dec) IN
            /\ dec' = dec \ {m}
            /\ IF draining /\ abort
               THEN phase' = "report" /\ UNCHANGED <<frame, completed, capped>>
               ELSE IF Preroll(m)
               THEN AfterEmit(Len(shown)) /\ UNCHANGED frame
               ELSE phase' = "wait" /\ frame' = m /\ UNCHANGED <<completed, capped>>
    /\ UNCHANGED <<given, outside, shown, next, draining, sound, reverse>>

Emit ==
    /\ phase = "wait"
    /\ MayShow
    /\ LET then == IF abort THEN shown ELSE Append(shown, frame) IN
        /\ shown' = then
        /\ AfterEmit(Len(then))
    /\ frame' = NoFrame
    /\ UNCHANGED <<given, outside, next, dec, draining, sound, reverse>>

\* Mutant: no tail.
NoTail ==
    /\ phase = "tail"
    /\ phase' = "report"
    /\ UNCHANGED <<given, outside, shown, completed, forward, reverse>>

\* Not cut short: what the decoders still hold belongs to it.
Whole == completed /\ ~capped

\* The pictures the decoder still holds, unless the run was cut short.
Tail_ ==
    /\ phase = "tail"
    /\ draining' = Whole
    /\ phase' = IF Whole THEN "receive" ELSE "report"
    /\ UNCHANGED <<given, outside, shown, completed, next, dec, frame, capped, sound, reverse>>

\* The sound the audio decoder still holds, one buffer after another; an abort is not looked
\* at between them.
HearRest ==
    /\ phase = "report" /\ ~backwards
    /\ Whole /\ sound.dec # {}
    /\ LET at == Min(sound.dec) IN sound' = Heard([sound EXCEPT !.dec = @ \ {at}], at)
    /\ UNCHANGED <<given, outside, consumer, pictures, reverse>>

\* Both directions: the source is released and the thread ends.  Forwards the sound ends
\* first: a run cut short drops what is in the audio decoder, not what is in the stretcher.
Report ==
    /\ phase = "report"
    /\ ~backwards /\ Whole => sound.dec = {}
    /\ phase' = "done"
    /\ sound' = IF backwards THEN sound ELSE Flushed(sound)
    /\ UNCHANGED <<given, outside, shown, completed, pictures, reverse>>

-----------------------------------------------------------------------------
(* Backwards, the decoding thread.                                         *)

Called == abort \/ stopDecoding

\* A pass starts from a keyframe with an emptied decoder; a packet refused ends the thread.
DecodePass ==
    /\ producer = "decode"
    /\ ~Called /\ pass < Len(passes)
    /\ LET p == passes[pass + 1] IN
        IF bad \in Gop(p.gop)
        THEN /\ producer' = "done" /\ decodeFailed' = TRUE
             /\ UNCHANGED <<pass, chunk>>
        ELSE /\ producer' = "hand"
             /\ pass' = pass + 1
             /\ chunk' = Kept(p)
             /\ UNCHANGED decodeFailed
    /\ UNCHANGED <<given, outside, consumer, forward, handoff, showing, stopDecoding>>

\* ~Announce: however the thread ends, the one that waits for it is told.
EndDecoding ==
    /\ \/ producer = "decode" /\ (Called \/ pass = Len(passes))
       \/ producer = "hand" /\ Called
    /\ producer' = "done"
    /\ chunk' = {}
    /\ UNCHANGED <<given, outside, consumer, forward, pass, decodeFailed, handoff, showing,
                   stopDecoding>>

Room == ready = <<>>

\* Depth one: a finished pass is kept until there is room for it.
HandOver ==
    /\ producer = "hand"
    /\ ~Called /\ Room
    /\ ready' = Append(ready, chunk)
    /\ held' = held + Cardinality(chunk)
    /\ chunk' = {}
    /\ producer' = "decode"
    /\ UNCHANGED <<given, outside, consumer, forward, pass, decodeFailed, showing, stopDecoding>>

-----------------------------------------------------------------------------
(* Backwards, the playback thread.                                         *)

\* The wait for a pass.  An empty queue ends the run only when the other thread is done.
TakePass ==
    /\ phase = "take"
    /\ \/ /\ abort
          /\ phase' = "join" /\ completed' = FALSE
          /\ UNCHANGED <<ready, showing>>
       \/ /\ ~abort /\ ready = <<>> /\ producer = "done"
          /\ phase' = "join" /\ completed' = (completed /\ ~decodeFailed)
          /\ UNCHANGED <<ready, showing>>
       \/ /\ ~abort /\ ready # <<>>
          /\ phase' = "show"
          /\ showing' = Head(ready)
          /\ ready' = Tail(ready)
          /\ UNCHANGED completed
    /\ UNCHANGED <<given, outside, shown, forward, decoder, held, stopDecoding>>

\* Mutant: a pass is shown in the order it was decoded in.
OldestFirst(S) == Min(S)

NextBack(S) == Max(S)

ShowBack ==
    /\ phase = "show"
    /\ showing # {}
    /\ MayShow
    /\ IF abort
       THEN phase' = "free" /\ completed' = FALSE /\ UNCHANGED <<shown, showing>>
       ELSE /\ shown' = Append(shown, NextBack(showing))
            /\ showing' = showing \ {NextBack(showing)}
            /\ phase' = IF CapReached(Len(shown')) THEN "free" ELSE "show"
            /\ UNCHANGED completed
    /\ UNCHANGED <<given, outside, forward, decoder, handoff, stopDecoding>>

\* Shown: the pass gives its budget back.  `held` less the queued pass is the one shown.
FreePass ==
    /\ phase = "free" \/ (phase = "show" /\ showing = {})
    /\ held' = IF ready = <<>> THEN 0 ELSE Cardinality(Head(ready))
    /\ showing' = {}
    /\ phase' = IF phase = "free" THEN "join" ELSE "take"
    /\ UNCHANGED <<given, outside, shown, completed, forward, decoder, ready, stopDecoding>>

\* Mutant: the thread is joined without being told to stop.
JoinUntold ==
    /\ phase = "join"
    /\ producer = "done"
    /\ phase' = "report"
    /\ UNCHANGED <<given, outside, shown, completed, forward, reverse>>

\* The decoding thread is told, and joined.
JoinDecoding ==
    /\ phase = "join"
    /\ stopDecoding' = TRUE
    /\ phase' = IF producer = "done" THEN "report" ELSE "join"
    /\ UNCHANGED <<given, outside, shown, completed, forward, decoder, handoff, showing>>

-----------------------------------------------------------------------------
\* joinWorker() on another thread; setPaused().
Abort ==
    /\ ~abort /\ phase # "done"
    /\ abort' = TRUE
    /\ UNCHANGED <<given, paused, consumer, forward, reverse>>

SetPaused ==
    /\ phase # "done"
    /\ paused' = ~paused
    /\ UNCHANGED <<given, abort, consumer, forward, reverse>>

Finished == phase = "done" /\ UNCHANGED runVars

\* A plan with nothing to show ends the run at once.
RunInit ==
    /\ span \in Clips
    /\ \E r \in Ranges : lo = r[1] /\ hi = r[2]
    /\ cap \in Caps
    /\ delay \in Delays
    /\ bad \in {NoBad, Max({i \in DOMAIN span : span[i].kind = "video"})}
    /\ backwards \in BOOLEAN
    /\ speed \in Speeds /\ format \in {"planar", "other", "none"}
    /\ backwards => speed = 100 /\ format = "none"
    /\ abort = FALSE /\ paused = FALSE
    /\ passes = IF backwards THEN Plan ELSE <<>>
    /\ phase = IF ~backwards THEN "loop" ELSE IF passes = <<>> THEN "report" ELSE "take"
    /\ completed = (backwards => passes # <<>>)
    /\ shown = <<>> /\ next = 1 /\ dec = {} /\ frame = NoFrame
    /\ capped = FALSE /\ draining = FALSE
    /\ sound = [dec |-> {}, stretch |-> Fresh, heard |-> 0]
    /\ producer = IF phase = "take" THEN "decode" ELSE "done"
    /\ pass = 0 /\ chunk = {} /\ ready = <<>> /\ showing = {} /\ held = 0
    /\ stopDecoding = FALSE /\ decodeFailed = FALSE

Forwards  == SendNext \/ Receive \/ Emit \/ Tail_ \/ HearRest \/ Report
Backwards == TakePass \/ ShowBack \/ FreePass \/ JoinDecoding
Decoding  == DecodePass \/ EndDecoding \/ HandOver

RunNext == Forwards \/ Backwards \/ Decoding \/ Abort \/ SetPaused \/ Finished

\* Two running threads, whose waits are all timed.  Nobody has to resume or to abort.
RunFairness == WF_runVars(Forwards \/ Backwards) /\ WF_runVars(Decoding)

RunSpec == RunInit /\ [][RunNext]_runVars /\ RunFairness

-----------------------------------------------------------------------------
(* Properties.                                                             *)

\* What a whole run shows: going back, the pictures of the range; forwards everything the
\* clip holds from the IN on, since a resolved clip ends at the OUT.
Asked == {m \in Instants(DOMAIN span) : lo <= m /\ (backwards => m <= hi)}

ShownBefore(a, b) == IF backwards THEN a > b ELSE a < b

\* Pictures come in the order of the direction, each once: no slice of a GOP is shown
\* out of turn or twice, nothing of the preroll is ever seen, and a run that goes back
\* stops on its cap exactly: a step back is two pictures.
ShownInOrder ==
    /\ ToSet(shown) \subseteq Asked
    /\ \A i \in 1..(Len(shown) - 1) : ShownBefore(shown[i], shown[i + 1])
    /\ backwards /\ cap > 0 => Len(shown) <= cap

\* A run that says it completed, and was not cut short by its cap, has shown everything
\* it was asked for: no pass and no picture inside the decoder is lost on the way.  (An
\* abort during the tail leaves completed set: see EveryRunIsReported in ReplayChannel.)
CompletedShowedAll ==
    phase = "done" /\ completed /\ cap = 0 /\ ~(draining /\ abort) => ToSet(shown) = Asked

\* The sound of the packets from the IN on.
SoundFrames == Buffer * Cardinality({i \in DOMAIN span : span[i].kind = "audio" /\ span[i].at >= lo})

\* Below this speed a block advances the input by its tail and not by the stretched
\* distance, and the sound comes out too short.
TooSlow == NominalSkip(speed) < 100 * OverlapLen

\* The sound of a whole run lasts as long as its pictures: whatever the speed, the packets
\* and the blocks, it is never longer than the stretched clip and never shorter by more than
\* one cross-fade, so that it neither runs out from under the picture nor loses its end.
SoundFitsPictures ==
    phase = "done" /\ ~backwards /\ Whole =>
        IF format = "none" \/ (speed # 100 /\ format # "planar") THEN sound.heard = 0
        ELSE IF speed = 100 THEN sound.heard = SoundFrames
        ELSE LET whole == Stretched(SoundFrames, speed) IN
            sound.heard \in (IF TooSlow THEN 0 ELSE whole - OverlapLen)..whole

\* A run ends, told to or left alone, wherever its two threads were and whatever each waits
\* for, unless it is left paused: stop() joins it from the UI thread.
RunEnds == <>[]~paused => <>(phase = "done")

=============================================================================
