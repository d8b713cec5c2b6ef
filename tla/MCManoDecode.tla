---------------------------- MODULE MCManoDecode -----------------------------
(* Values for model checking ManoDecode: the error limits of the codec      *)
(* (30 mm) and of the artifacts the two fitting scripts write (15 and       *)
(* 80 mm), and an error on either side of each.                             *)
EXTENDS ManoDecode

Errors == {10, 20, 50, 90}
ArtifactLimits == {15, 80}
=============================================================================
