---------------------------- MODULE MCTransforms ----------------------------
(***************************************************************************)
(* Transforms with a function of the base series and a function of that    *)
(* function.                                                               *)
(***************************************************************************)
EXTENDS Transforms, TLC

CONSTANTS base, f1, f2

Chain == f1 :> base @@ f2 :> f1

\* One with two samples at the same time, one with a long way between them
MCFiles == {<<2, 2>>, <<1, 4>>}
MCTimes == {1, 2, 4}
MCLowest == -100
MCHighest == 100
MCLimits == {1, 100}
=============================================================================
