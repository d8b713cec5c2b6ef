---------------------------- MODULE MCServerLoad ----------------------------
(* Two loads on one server.  Frames of every type and results that cannot be *)
(* encoded are mixed in behaviours of at most MixedFrames frames; behaviours *)
(* of more frames have calls only, which the model answers.                  *)
EXTENDS MCPolicyServer

CONSTANT MixedFrames

VARIABLE load

MixedLoad ==
  load = "mixed" /\ Cardinality({a \in Attempts : pc'[a] # "unsent"}) <= MixedFrames

CallsLoad ==
  /\ load = "calls"
  /\ \A a \in Attempts : frame'[a] # None => frame'[a].type = "CALL"
  /\ \A a \in Attempts : outcome'[a] \notin {"bad", "error"}

MixInit == Init /\ load \in {"mixed", "calls"}
MixNext == Next /\ UNCHANGED load /\ (MixedLoad \/ CallsLoad)
MixSpec == MixInit /\ [][MixNext]_<<vars, load>>
=============================================================================
