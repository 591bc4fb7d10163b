------------------------- MODULE MCPausableEnforcer -------------------------
(* Instances of PausableEnforcer for TLC.                                    *)
EXTENDS PausableEnforcer
=============================================================================
