---------------------------- MODULE MCSotTracker ----------------------------
(* Small instances of SotTracker under the dual template of NanoTemplate:
   three looks of which tgt and alien differ while each resembles dim, as a
   chain of re-locks would need. *)
EXTENDS NanoTemplate, SotPick

CONSTANTS tgt, dim, alien

MCLook == {tgt, dim, alien}

MCSim == [x \in MCLook |-> [y \in MCLook |->
            IF x = y THEN 10 ELSE IF dim \in {x, y} THEN 6 ELSE 2]]

MCPos == {0, 3}
=============================================================================
