--------------------------- MODULE MCPolicyServer ---------------------------
(* Model values and symmetry for model checking PolicyServer.              *)
EXTENDS PolicyServer, TLC

Symmetry ==
  Permutations(Attempts) \cup Permutations(Requests) \cup Permutations(Conns)
=============================================================================
