--------------------------- MODULE MCMosaicoFetch ---------------------------
(***************************************************************************)
(* Instances of MosaicoFetch for TLC.                                      *)
(***************************************************************************)
EXTENDS MosaicoFetch, TLC

CONSTANTS t1, t2

\* The series of t2 start with the name of t1, as /imu and /imu2
T1ShadowsT2 == (t1 :> {t1, t2}) @@ (t2 :> {t2})
=============================================================================
