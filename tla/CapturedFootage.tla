-------------------------- MODULE CapturedFootage --------------------------
(***************************************************************************)
(* What one camera's live history promises to whoever replays from it,     *)
(* with no budget, no eviction loop and no threads in it: the packets the  *)
(* encoder handed over since the session began, and the point from which   *)
(* they can still be replayed.  That point only moves forward, and only    *)
(* ever onto a keyframe; nothing between it and the live edge is missing.  *)
(* PacketRing implements this specification.                               *)
(***************************************************************************)
EXTENDS Naturals, Sequences

CONSTANTS Packet,        \* the packets an encoder can hand over
          IsKeyframe(_)  \* those a decoder can start from

VARIABLES footage,  \* every packet captured since the session began
          from      \* the footage from here on is still held

vars == <<footage, from>>

Init == footage = <<>> /\ from = 1

\* A packet arrives; the history may be cut, but only back to a keyframe.
Capture ==
    /\ Len(footage') = Len(footage) + 1
    /\ SubSeq(footage', 1, Len(footage)) = footage
    /\ footage'[Len(footage')] \in Packet
    /\ from' \in {from} \cup {i \in (from + 1)..Len(footage') : IsKeyframe(footage'[i])}

\* A new session keeps nothing of the previous one.
Forget == footage' = <<>> /\ from' = 1

Next == Capture \/ Forget

Spec == Init /\ [][Next]_vars

=============================================================================
