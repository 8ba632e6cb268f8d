---------------------------- MODULE MCEventStore ----------------------------
(* Two projects, two lists, three edits, two changes of project and one fault. *)
EXTENDS EventStore
=============================================================================
