---------------------------- MODULE MCPacketTap ----------------------------
(* Three encoders and two takes: enough for an encoder to be replaced while  *)
(* the tap hangs on it, within a take and across two of them.                *)
EXTENDS PacketTap

\* obs_output_stop() may hang a disposal thread for ever, but not the arm thread.
TapSpec == Spec /\ BackOffReturns
=============================================================================
