------------------------------ MODULE MCServing ------------------------------
(* What happens around one policy server, for TLC: environments are          *)
(* interchangeable, and so are contents of files.                            *)
EXTENDS Serving, TLC

Symmetry == Permutations(Envs) \cup Permutations(Contents)
=============================================================================
