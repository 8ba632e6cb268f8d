--------------------------- MODULE MCSegmentIndex ---------------------------
(* Two cameras, two files, two takes or reopenings and one crash. *)
EXTENDS SegmentIndex
=============================================================================
