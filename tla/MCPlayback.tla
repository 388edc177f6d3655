----------------------------- MODULE MCPlayback -----------------------------
(* Small instances of Playback without a view. *)
EXTENDS Playback
=============================================================================
