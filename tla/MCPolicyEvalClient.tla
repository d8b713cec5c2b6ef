-------------------------- MODULE MCPolicyEvalClient --------------------------
(* PolicyEvalClient for TLC: connections are interchangeable, and so are the  *)
(* requests of the caller.                                                    *)
EXTENDS PolicyEvalClient, TLC

Symmetry == Permutations(Conns) \cup Permutations(Requests)
=============================================================================
