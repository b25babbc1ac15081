--------------------------- MODULE MCModelRegistry ---------------------------
(***************************************************************************)
(* Values of the constants of ModelRegistry for TLC: two jobs of a         *)
(* developer, and an admin to whom the model can be transferred.           *)
(***************************************************************************)
EXTENDS ModelRegistry, TLC

CONSTANTS j1, j2, dev, adm, q1, q2

TwoJobs == {j1, j2}
MakerOfTwo == [j \in TwoJobs |-> dev]
RoleOfTwo == [u \in {dev, adm} |-> IF u = adm THEN "admin" ELSE "developer"]
=============================================================================
