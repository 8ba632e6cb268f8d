------------------------------ MODULE MCPlugin ------------------------------
(* Two clips and up to two takes, with windows of two seconds of ten frames, *)
(* between a start of OBS, its end and the start after it.                  *)
EXTENDS Plugin

MCClips == {"cam1", "cam2"}
MCLagged == {0, 8}
MCAngles == {"fed", "dead"}

=============================================================================
