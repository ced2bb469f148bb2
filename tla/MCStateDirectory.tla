-------------------------- MODULE MCStateDirectory --------------------------
(* Instances of StateDirectory for TLC.                                     *)
EXTENDS StateDirectory, TLC

CONSTANTS P1, P2, P3, t1, t2, t3

\* Every process runs one activity at a time.
OneTaskEach == (t1 :> P1) @@ (t2 :> P2) @@ (t3 :> P3)
\* P1 runs two activities that may overlap.
TwoTasksInP1 == (t1 :> P1) @@ (t2 :> P1) @@ (t3 :> P2)
=============================================================================
