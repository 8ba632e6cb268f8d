---------------------------- MODULE MCReplayCore ----------------------------
(* Two slots and two names, so that slots may share a source, name one that  *)
(* is not there, or lose it to a rename; two projects, one take after        *)
(* another, and one mishap.  Names and projects are alike.                   *)
EXTENDS ReplayCore, TLC

CONSTANTS a, b, p, q
MCSources == {a, b}
MCProjects == {p, q}
Alike == Permutations(MCSources) \cup Permutations(MCProjects)
=============================================================================
