----------------------------- MODULE MCPipeline -----------------------------
(* Small instances of Overlay: player, tracker and view in one process. *)
EXTENDS Overlay
=============================================================================
