------------------------------- MODULE Serving --------------------------------
(* What happens around one policy server.  The evaluation loop with its      *)
(* session, a session called in any order, the hand conversions in both      *)
(* directions, the decoding of a chunk, the legacy transport, the launch     *)
(* scripts, the selection of the model, the preparation of its camera and    *)
(* the fitted inverses share no state in their modules, so a behaviour       *)
(* exercises one of them, chosen at Init, while the others rest.             *)
EXTENDS EvalLoop

\* As in the modules of the parts.
CONSTANTS SessionEnvs, SessionTicks
CONSTANTS HandEnvs, HandRows, Starts, Gate, MaxRms, MaxFrames, HandModes
CONSTANTS ChunkRows, Rms, Tolerance, GeometryLimits
CONSTANTS NCalls, MaxAttempts, MaxLosses, Failing
CONSTANTS Ports, NoPort, WaitTimeout, Episodes
CONSTANTS Representations, Steps, Contents, MaxChanges
CONSTANTS Sizes, Allowed, PolicySize
CONSTANTS MaxFits, MaxRuns

ASSUME SessionAssumption == SessionTicks \in Nat
ASSUME GateAssumption == Gate \in Nat /\ MaxRms \in Nat
ASSUME RowsAssumption == ChunkRows \in Nat \ {0}
ASSUME CallsAssumption == NCalls \in Nat
ASSUME LaunchAssumption == NoPort \notin Ports /\ WaitTimeout \in Nat
ASSUME StepsAssumption == Steps \subseteq Nat
ASSUME CameraAssumption == PolicySize \in Sizes /\ None \notin Sizes \cup {"sent", "profile"}

VARIABLES part
VARIABLES sTick, sKeys, sFit, sEncoded, sOp, sTodo, sHistory, sSaved, sAnswer, sFailed, sTorn
VARIABLES mode, handOp, handTodo, row, side, handStage, attempt, best, passed, seed,
          snapshot, frame, handServed
VARIABLES inverse, limit, decodeStage, line, hand, rms, tried, candidate, previousQ, current,
          safe, output
VARIABLES listening, caller, call, retried, attempts, sock, opened, losses, closed, inbox,
          outbox, thread, serving, ran, got
VARIABLES shell, port, yamlPort, pidKnown, killed, interrupted, server, listener, probe,
          elapsed, met, client, episode
VARIABLES weights, config, stats, changes, pickStage, plan, movedOn, rewritten
VARIABLES envMode, scope, camera, step, source
VARIABLES invKind, invRun, invHand, forest, file, fits, invSaved, invStage, asked, base,
          loaded, swapped, regrown, exchanged

Session == INSTANCE ManoSession WITH
  Envs <- SessionEnvs, MaxTick <- SessionTicks,
  tick <- sTick, keys <- sKeys, fit <- sFit, encoded <- sEncoded, op <- sOp, todo <- sTodo,
  history <- sHistory, saved <- sSaved, answer <- sAnswer, failed <- sFailed, torn <- sTorn

Hands == INSTANCE HandAdapter WITH
  Envs <- HandEnvs, ChunkLen <- HandRows, Modes <- HandModes,
  op <- handOp, todo <- handTodo, stage <- handStage, served <- handServed

Decode == INSTANCE ManoDecode WITH stage <- decodeStage

Legacy == INSTANCE LegacyTcp WITH client <- caller

Launching == INSTANCE Launch

Setup == INSTANCE ModelSetup WITH stage <- pickStage

ASSUME ConfigAssumption == None \notin Setup!Config

Camera == INSTANCE HeadCamera WITH mode <- envMode

Artifact == INSTANCE InverseArtifact WITH
  kind <- invKind, run <- invRun, hand <- invHand, saved <- invSaved, stage <- invStage

sessVars == <<sTick, sKeys, sFit, sEncoded, sOp, sTodo, sHistory, sSaved, sAnswer, sFailed, sTorn>>
handVars == <<mode, handOp, handTodo, row, side, handStage, attempt, best, passed, seed,
              snapshot, frame, handServed>>
decVars == <<inverse, limit, decodeStage, line, hand, rms, tried, candidate, previousQ, current,
             safe, output>>
tcpVars == <<listening, caller, call, retried, attempts, sock, opened, losses, closed, inbox,
             outbox, thread, serving, ran, got>>
runVars == <<shell, port, yamlPort, pidKnown, killed, interrupted, server, listener, probe,
             elapsed, met, client, episode>>
pickVars == <<weights, config, stats, changes, pickStage, plan, movedOn, rewritten>>
camVars == <<envMode, scope, camera, step, source>>
invVars == <<invKind, invRun, invHand, forest, file, fits, invSaved, invStage, asked, base,
             loaded, swapped, regrown, exchanged>>
servingVars == <<part, vars, sessVars, handVars, decVars, tcpVars, runVars, pickVars, camVars,
                 invVars>>

\* The choices of a part that rests are fixed.
ServingInit ==
  /\ part \in {"loop", "session", "hands", "decode", "legacy", "launch", "setup", "camera", "inverse"}
  /\ Init /\ Session!SessionInit /\ Legacy!Init /\ Setup!SetupInit
  /\ Hands!Init /\ (part # "hands" => mode = CHOOSE m \in HandModes : TRUE)
  /\ Decode!DecodeInit /\ (part # "decode" => /\ inverse = "linear"
                                                  /\ limit = CHOOSE l \in GeometryLimits : TRUE)
  /\ Launching!LaunchInit /\ (part # "launch" => yamlPort = NoPort)
  /\ Camera!CameraInit /\ (part # "camera" => envMode = "sim" /\ scope = "runtime")
  /\ Artifact!InverseInit
  /\ (part # "inverse" => /\ invKind = "mano" /\ invHand = 1
                          /\ invSaved = [mode |-> None, named |-> FALSE, sha |-> None])

LoopStep ==
  /\ part = "loop" /\ Next
  /\ UNCHANGED <<part, sessVars, handVars, decVars, tcpVars, runVars, pickVars, camVars, invVars>>
SessionStep ==
  /\ part = "session" /\ Session!SessionNext
  /\ UNCHANGED <<part, vars, handVars, decVars, tcpVars, runVars, pickVars, camVars, invVars>>
HandStep ==
  /\ part = "hands" /\ Hands!Next
  /\ UNCHANGED <<part, vars, sessVars, decVars, tcpVars, runVars, pickVars, camVars, invVars>>
DecodeStep ==
  /\ part = "decode" /\ Decode!DecodeNext
  /\ UNCHANGED <<part, vars, sessVars, handVars, tcpVars, runVars, pickVars, camVars, invVars>>
LegacyStep ==
  /\ part = "legacy" /\ Legacy!Next
  /\ UNCHANGED <<part, vars, sessVars, handVars, decVars, runVars, pickVars, camVars, invVars>>
LaunchStep ==
  /\ part = "launch" /\ Launching!LaunchNext
  /\ UNCHANGED <<part, vars, sessVars, handVars, decVars, tcpVars, pickVars, camVars, invVars>>
SetupStep ==
  /\ part = "setup" /\ Setup!SetupNext
  /\ UNCHANGED <<part, vars, sessVars, handVars, decVars, tcpVars, runVars, camVars, invVars>>
CameraStep ==
  /\ part = "camera" /\ Camera!CameraNext
  /\ UNCHANGED <<part, vars, sessVars, handVars, decVars, tcpVars, runVars, pickVars, invVars>>

InverseStep ==
  /\ part = "inverse" /\ Artifact!InverseNext
  /\ UNCHANGED <<part, vars, sessVars, handVars, decVars, tcpVars, runVars, pickVars, camVars>>

ServingNext ==
  \/ LoopStep \/ SessionStep \/ HandStep \/ DecodeStep \/ LegacyStep \/ LaunchStep
  \/ SetupStep \/ CameraStep \/ InverseStep

ServingSpec == ServingInit /\ [][ServingNext]_servingVars
-----------------------------------------------------------------------------
\* See ManoSession: seed and waiting key frames are the even ticks in order,
\* and a prediction is of the latest observation.
SessionFollowsTicks == Session!FitFollowsEvenTicks /\ Session!PredictsLatest

\* See HandAdapter: a frame or a chunk is converted whole or leaves no trace,
\* each hand starting from its own last result, and an acceptable fit that was
\* found is served.
HandsTransactional == Hands!HandsTransactional /\ Hands!GoodFitServed

\* See ManoDecode: both hands of a row or none, and the last complete command
\* to the end of the chunk after a failure.
ChunksDecodeWhole == Decode!RowsCommitWhole /\ Decode!StartsFromCommitted

\* See LegacyTcp: at most one repetition, and each caller its own answer.
LegacyCallsAnswered == Legacy!OwnAnswer /\ Legacy!AtMostTwice /\ Legacy!OverlapNeedsLoss

\* See Launch: nothing outlives the evaluation, and the client starts on a port
\* that is listened on.
LaunchIsClean == Launching!NothingLeftBehind /\ Launching!ClientMeetsListener

\* See ModelSetup and HeadCamera: what is loaded is of one run, and the camera
\* the model is given is consistent.
InputsAreConsistent == Setup!ServedIsOneRun /\ Camera!PreparedIsConsistent

\* See InverseArtifact: the inverse that is served is of this hand and run.
InverseFits == Artifact!InverseFits
=============================================================================
