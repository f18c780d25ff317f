------------------------- MODULE MCExternalEndpoint -------------------------
(* One client and the heartbeat: their calls overlap in every way.           *)
EXTENDS ExternalEndpoint

CONSTANTS p1, heartbeat
=============================================================================
