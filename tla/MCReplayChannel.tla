--------------------------- MODULE MCReplayChannel ---------------------------
(* Three clips, two of them together over the byte limit and one larger than all of it,
   and room for two entries. *)
EXTENDS ReplayChannel

MCKeys == {"a", "b", "c", "big"}
MCSize == [k \in MCKeys |-> CASE k = "big" -> 5 [] k = "c" -> 3 [] OTHER -> 1]
=============================================================================
