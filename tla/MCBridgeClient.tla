--------------------------- MODULE MCBridgeClient ---------------------------
(***************************************************************************)
(* Instance of BridgeClient for TLC.                                       *)
(***************************************************************************)
EXTENDS BridgeClient, TLC

CONSTANTS t1, t2
=============================================================================
