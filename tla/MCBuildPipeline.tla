--------------------------- MODULE MCBuildPipeline ---------------------------
(***************************************************************************)
(* Values of the constants of BuildPipeline for TLC: two builds, which may *)
(* be of the same tag or of two, and of an image each or a common one.     *)
(***************************************************************************)
EXTENDS BuildPipeline, TLC

CONSTANTS d1, d2, d3, t1, t2

TwoBuilds == {1, 2}
OneBuild == {1}
=============================================================================
