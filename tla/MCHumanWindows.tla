---------------------------- MODULE MCHumanWindows ----------------------------
(* Samples of one episode on their own, for the claims that the comments of  *)
(* the human data set make and its code does not keep.                       *)
EXTENDS HumanWindows

\* No clip, one in the middle, and two after each other.
MCClipSets == {<<>>, <<<<1, 3>>>>, <<<<0, 2>>, <<2, 4>>>>}
MCKeptSets == {0..3, {0, 1, 3}}
=============================================================================
