---------------------------- MODULE MCPlaybackRun ----------------------------
(* A GOP of three pictures out of presentation order, then one of two, then a keyframe alone;
   seen whole, from a mark inside two of them, and past its end; whole runs, steps of two
   pictures and stills; a decoder that holds back one picture, and one with more threads than
   the clip has packets.  Blocks and buffers of sound in the proportions of the code at 48 kHz;
   a speed below a quarter, one that leaves a fraction at every block, 1x, and a fast one. *)
EXTENDS PlaybackRun

P(at, key) == [kind |-> "video", at |-> at, key |-> key]
A(at) == [kind |-> "audio", at |-> at, key |-> FALSE]
Gops == <<P(1, TRUE), A(1), A(2), P(3, FALSE), P(2, FALSE), A(3), P(4, TRUE), A(4), P(5, FALSE),
          A(5), P(6, TRUE), A(6)>>
MCClips == {Gops}
MCRanges == {<<1, 6>>, <<2, 5>>, <<7, 7>>}
MCCaps == {0, 1, 2}
MCDelays == {1, 6}
MCSpeeds == {10, 45, 100, 250}
=============================================================================
