-------------------------------- MODULE MCTbd --------------------------------
(* Small instances of Motion: the association under its cadence, with stamps
   that stand still, skip a frame or stall for longer than dt can tell. *)
EXTENDS Motion
=============================================================================
