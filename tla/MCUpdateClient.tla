--------------------------- MODULE MCUpdateClient ---------------------------
(***************************************************************************)
(* Instances of UpdateClient for TLC.                                      *)
(***************************************************************************)
EXTENDS UpdateClient, TLC
=============================================================================
