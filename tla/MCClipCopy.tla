----------------------------- MODULE MCClipCopy -----------------------------
(* A small ring, and clips copied out of it, for TLC.  Three packets of budget: a range *)
(* may span an encoder restart, and chunks are smaller than a clip, so that eviction can *)
(* overtake the copy.  Two instants of budget: one push after a jump of the clock can    *)
(* drop several GOPs.  A restart may leave a hole in time or make the clock step back.   *)
EXTENDS ClipCopy

MCBudgets == {[maxBytes |-> 3, maxDurationNs |-> 2]}
MCGaps == {-1, 2}
=============================================================================
