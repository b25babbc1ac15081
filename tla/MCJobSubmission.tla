--------------------------- MODULE MCJobSubmission ---------------------------
(***************************************************************************)
(* Values of the constants of JobSubmission for TLC: two users, a version, *)
(* and a dataset of the first user.                                        *)
(***************************************************************************)
EXTENDS JobSubmission, TLC

CONSTANTS v1, d1, d2, ann, bob, q1, q2, plain, reserved

OneName == {<<1>>}

\* Places for requests are alike.
Places == Permutations({q1, q2})
=============================================================================
