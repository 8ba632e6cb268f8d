----------------------- MODULE MCPlaybackCoordinator -----------------------
(* Both bays, with two events to choose from: enough to let the end of a clip of one bay
   meet a queue of the other. *)
EXTENDS PlaybackCoordinator

MCTwoBays == {"A", "B"}
=============================================================================
