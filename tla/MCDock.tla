------------------------------- MODULE MCDock -------------------------------
(* One bay, two events and a stretch nobody marked: a boundary between items is a cut or
   a dip, and a place is the selected event, another one, or free. *)
EXTENDS Dock

MCBays == {"A"}
=============================================================================
