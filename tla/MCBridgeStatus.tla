--------------------------- MODULE MCBridgeStatus ---------------------------
(* A bridge that is up, hiccups and starts again.                            *)
EXTENDS BridgeStatus

MCReported == {"connected", "degraded", "starting"}
=============================================================================
