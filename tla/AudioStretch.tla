---------------------------- MODULE AudioStretch ----------------------------
(***************************************************************************)
(* Slow motion with sound (src/audio-stretch.hpp): blocks of the input are *)
(* laid down at another spacing, each slid within a window to where it     *)
(* joins what was written, and faded into it.  How well it joins is a      *)
(* question of samples; how long the sound becomes is one of lengths, and  *)
(* lengths are all that is kept here, in frames.  A speed is a percentage, *)
(* and the fraction of a frame carried from block to block is counted in   *)
(* hundredths.                                                             *)
(***************************************************************************)
EXTENDS Integers, FiniteSetsExt

CONSTANTS
    SeqLen,      \* kSequenceMs: a block
    SeekLen,     \* kSeekWindowMs: how far it may be slid
    OverlapLen   \* kOverlapMs: what fades from one block into the next

ASSUME GeometryAssumption ==
    /\ {SeqLen, SeekLen, OverlapLen} \subseteq Nat \ {0}
    /\ SeqLen >= 2 * OverlapLen

\* Hundredths of a frame the input advances for each block.
NominalSkip(speed) == speed * (SeqLen - OverlapLen)

\* llround()
Rounded(hundredths) == (hundredths + 50) \div 100

\* What must be there before a block is laid.
SampleReq(speed) ==
    Max({(NominalSkip(speed) + 99) \div 100 + OverlapLen + SeekLen, SeqLen + SeekLen})

\* `error` is skipError_, what rounding leaves of a frame.
Stretcher ==
    [held : Nat, pushed : Nat, made : Nat, ready : Nat, error : -50..49, primed : BOOLEAN]

\* reset(): `held` is inAvailable(), `made` outFrames_, `ready` available().
Fresh == [held |-> 0, pushed |-> 0, made |-> 0, ready |-> 0, error |-> 0, primed |-> FALSE]

\* Mutant: the fraction is rounded away at every block.
LayRoughly(s, speed) ==
    LET advance == Rounded(NominalSkip(speed))
        laid    == SeqLen - 2 * OverlapLen + (IF s.primed THEN OverlapLen ELSE 0)
    IN  [s EXCEPT !.held = @ - Max({advance, OverlapLen}), !.primed = TRUE,
                  !.made = @ + laid, !.ready = @ + laid]

\* One block.  Its tail is kept for the next one to fade into, and the first has nothing
\* to fade from; the input never advances by less than that tail.
Lay(s, speed) ==
    LET skip    == NominalSkip(speed) + s.error
        advance == Rounded(skip)
        laid    == SeqLen - 2 * OverlapLen + (IF s.primed THEN OverlapLen ELSE 0)
    IN  [s EXCEPT !.held = @ - Max({advance, OverlapLen}), !.primed = TRUE,
                  !.error = skip - 100 * advance,
                  !.made = @ + laid, !.ready = @ + laid]

\* process(): as many blocks as the input allows.
Process(s, speed) ==
    LET after[t \in Stretcher] ==
            IF t.held >= SampleReq(speed) THEN after[Lay(t, speed)] ELSE t
    IN  after[s]

PushFrames(s, speed, frames) ==
    Process([s EXCEPT !.held = @ + frames, !.pushed = @ + frames], speed)

TakeAll(s) == [s EXCEPT !.ready = 0]

\* How long the sound of `frames` frames becomes, to the nearest frame.
Stretched(frames, speed) == (200 * frames + speed) \div (2 * speed)

\* The end of the clip: the rest is laid down on a block of silence, and what the silence
\* added is cut off again, as far as nobody has taken it yet.
Flush(s, speed) ==
    LET padded == IF s.held > 0 THEN Process([s EXCEPT !.held = @ + SampleReq(speed)], speed)
                  ELSE s
        excess == padded.made - Stretched(s.pushed, speed)
        drop   == Max({0, Min({excess, padded.ready})})
    IN  [padded EXCEPT !.made = @ - drop, !.ready = @ - drop]

=============================================================================
