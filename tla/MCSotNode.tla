------------------------------ MODULE MCSotNode ------------------------------
(* Small instances of SotNode: two boxes tell the last request from the one
   before it. *)
EXTENDS SotNode

CONSTANTS left, right

MCBoxes == {left, right}
=============================================================================
