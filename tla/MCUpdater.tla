----------------------------- MODULE MCUpdater -----------------------------
(***************************************************************************)
(* Instances of Updater for TLC, its invariants, action properties and     *)
(* liveness properties.                                                    *)
(***************************************************************************)
EXTENDS Updater, TLC

AllFaults == FaultKinds
TidyFaults == {"package", "probe", "spawn"}
=============================================================================
