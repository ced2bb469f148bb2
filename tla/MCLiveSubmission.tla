-------------------------- MODULE MCLiveSubmission --------------------------
(* Instances of LiveSubmission for TLC.                                     *)
EXTENDS LiveSubmission, TLC

CONSTANTS P1, P2, t1, t2, o1, o2

\* Two engine processes on one state directory, one cycle at a time in each.
TwoProcesses == (t1 :> P1) @@ (t2 :> P2)
\* One engine whose timer starts a cycle while the previous one is still running.
OverlappingCycles == (t1 :> P1) @@ (t2 :> P1)
\* The two cycles of one engine, and two BUY orders, are interchangeable.
AllAlike == Permutations({t1, t2}) \cup Permutations({o1, o2})
=============================================================================
