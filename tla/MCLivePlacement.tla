--------------------------- MODULE MCLivePlacement ---------------------------
(* Instances of LivePlacement for TLC: an engine's cycle c beside a           *)
(* supervised command k; the managed book before and after a unit was bought. *)
EXTENDS LivePlacement, TLC

CONSTANTS c, k

Places == (c :> Eng) @@ (k :> Cmd)
Books  == {[pos |-> 0, cash |-> 2], [pos |-> 1, cash |-> 1]}
=============================================================================
