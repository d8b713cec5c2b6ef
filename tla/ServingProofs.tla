---------------------------- MODULE ServingProofs ----------------------------
(***************************************************************************)
(* What happens around one policy server, for every value of the constants *)
(* of its parts: each part's own steps keep its invariant, and the steps of*)
(* the others leave its state alone.                                       *)
(***************************************************************************)
EXTENDS Serving, SequenceTheorems, FiniteSetTheorems, TLAPS

\* The steps of a part are steps of its own specification or stutters.
LEMMA PartSteps ==
  ASSUME [ServingNext]_servingVars
  PROVE  /\ [Session!SessionNext]_(Session!sessionVars)
         /\ [Hands!Next]_(Hands!vars)
         /\ [Decode!DecodeNext]_(Decode!decodeVars)
         /\ [Legacy!Next]_(Legacy!vars)
         /\ [Launching!LaunchNext]_(Launching!launchVars)
         /\ [Setup!SetupNext]_(Setup!setupVars)
         /\ [Camera!CameraNext]_(Camera!cameraVars)
         /\ [Artifact!InverseNext]_(Artifact!inverseVars)
  <1> USE DEF Session!sessionVars, Session!seedVars, Session!callVars, Hands!vars,
        Decode!decodeVars, Legacy!vars, Launching!launchVars, Setup!setupVars,
        Camera!cameraVars, Artifact!inverseVars, Artifact!process, sessVars, handVars, decVars, tcpVars, runVars,
        pickVars, camVars, invVars
  <1>1. CASE LoopStep BY <1>1 DEF LoopStep
  <1>2. CASE SessionStep BY <1>2 DEF SessionStep
  <1>3. CASE HandStep BY <1>3 DEF HandStep
  <1>4. CASE DecodeStep BY <1>4 DEF DecodeStep
  <1>5. CASE LegacyStep BY <1>5 DEF LegacyStep
  <1>6. CASE LaunchStep BY <1>6 DEF LaunchStep
  <1>7. CASE SetupStep BY <1>7 DEF SetupStep
  <1>8. CASE CameraStep BY <1>8 DEF CameraStep
  <1>9. CASE InverseStep BY <1>9 DEF InverseStep
  <1>10. CASE UNCHANGED servingVars BY <1>10 DEF servingVars
  <1> QED BY <1>1, <1>2, <1>3, <1>4, <1>5, <1>6, <1>7, <1>8, <1>9, <1>10 DEF ServingNext

-----------------------------------------------------------------------------
SessionP == INSTANCE ManoSessionProofs WITH
  Envs <- SessionEnvs, MaxTick <- SessionTicks,
  tick <- sTick, keys <- sKeys, fit <- sFit, encoded <- sEncoded, op <- sOp, todo <- sTodo,
  history <- sHistory, saved <- sSaved, answer <- sAnswer, failed <- sFailed, torn <- sTorn

HandsP == INSTANCE HandAdapterProofs WITH
  Envs <- HandEnvs, ChunkLen <- HandRows, Modes <- HandModes,
  op <- handOp, todo <- handTodo, stage <- handStage, served <- handServed

LEMMA SessionNextSame == Session!SessionNext <=> SessionP!SessionNext
  <1> USE DEF Session!Current, Session!Batches, Session!Even, Session!seedVars, Session!callVars, Session!sessionVars, Session!BeginCall, Session!NextEnv, Session!Raise, Session!KeyFrames, Session!Forget, Session!Preceding, Session!Restored, Session!OddQuery,
      SessionP!Current, SessionP!Batches, SessionP!Even, SessionP!seedVars, SessionP!callVars, SessionP!sessionVars, SessionP!BeginCall, SessionP!NextEnv, SessionP!Raise, SessionP!KeyFrames, SessionP!Forget, SessionP!Preceding, SessionP!Restored, SessionP!OddQuery
  <1>1. Session!Reset <=> SessionP!Reset
    BY DEF Session!Reset, SessionP!Reset
  <1>2. Session!Buffer <=> SessionP!Buffer
    BY DEF Session!Buffer, SessionP!Buffer
  <1>3. Session!SnapshotFails <=> SessionP!SnapshotFails
    BY DEF Session!SnapshotFails, SessionP!SnapshotFails
  <1>4. Session!AlreadyEncoded <=> SessionP!AlreadyEncoded
    BY DEF Session!AlreadyEncoded, SessionP!AlreadyEncoded
  <1>5. Session!NothingBuffered <=> SessionP!NothingBuffered
    BY DEF Session!NothingBuffered, SessionP!NothingBuffered
  <1>6. Session!StartReplay <=> SessionP!StartReplay
    BY DEF Session!StartReplay, SessionP!StartReplay
  <1>7. Session!Replay <=> SessionP!Replay
    BY DEF Session!Replay, SessionP!Replay
  <1>8. Session!ReplayFails <=> SessionP!ReplayFails
    BY DEF Session!ReplayFails, SessionP!ReplayFails
  <1>9. Session!Encode <=> SessionP!Encode
    BY DEF Session!Encode, SessionP!Encode
  <1>10. Session!Predict <=> SessionP!Predict
    BY DEF Session!Predict, SessionP!Predict
  <1>11. Session!PredictionFails <=> SessionP!PredictionFails
    BY DEF Session!PredictionFails, SessionP!PredictionFails
  <1>20. ASSUME NEW b \in Session!Batches
         PROVE  /\ Session!UpdateObs(b) <=> SessionP!UpdateObs(b)
                /\ Session!ConversionFails(b) <=> SessionP!ConversionFails(b)
                /\ Session!GetAction(b) <=> SessionP!GetAction(b)
    BY DEF Session!UpdateObs, SessionP!UpdateObs, Session!ConversionFails, SessionP!ConversionFails,
           Session!GetAction, SessionP!GetAction
  <1>21. Session!Batches = SessionP!Batches
    BY DEF Session!Cardinality, SessionP!Cardinality
  <1> HIDE DEF Session!Current, Session!Batches, Session!Even, Session!seedVars, Session!callVars, Session!sessionVars, Session!BeginCall, Session!NextEnv, Session!Raise, Session!KeyFrames, Session!Forget, Session!Preceding, Session!Restored, Session!OddQuery,
      SessionP!Current, SessionP!Batches, SessionP!Even, SessionP!seedVars, SessionP!callVars, SessionP!sessionVars, SessionP!BeginCall, SessionP!NextEnv, SessionP!Raise, SessionP!KeyFrames, SessionP!Forget, SessionP!Preceding, SessionP!Restored, SessionP!OddQuery
  <1> QED BY <1>1, <1>2, <1>3, <1>4, <1>5, <1>6, <1>7, <1>8, <1>9, <1>10, <1>11, <1>20, <1>21
    DEF Session!SessionNext, SessionP!SessionNext, Session!Work, SessionP!Work

LEMMA HandsNextSame == Hands!Next <=> HandsP!Next
  <1>0. Hands!Batches = HandsP!Batches
    BY DEF Hands!Batches, HandsP!Batches, Hands!Cardinality, HandsP!Cardinality
  <1> USE DEF Hands!vars, Hands!Current, Hands!StartsOf, Hands!Rows, Hands!Sides,
        Hands!Directions, Hands!NaN, Hands!Fits, Hands!NoFit, Hands!Raise, Hands!Restored,
        Hands!Accepted, Hands!LastRow, Hands!Commit, Hands!Finite, Hands!Passes, Hands!Better,
        Hands!Retries, Hands!Serves, HandsP!vars, HandsP!Current, HandsP!StartsOf, HandsP!Rows,
        HandsP!Sides, HandsP!Directions, HandsP!NaN, HandsP!Fits, HandsP!NoFit, HandsP!Raise,
        HandsP!Restored, HandsP!Accepted, HandsP!LastRow, HandsP!Commit, HandsP!Finite,
        HandsP!Passes, HandsP!Better, HandsP!Retries, HandsP!Serves
  <1>1. Hands!Reset <=> HandsP!Reset
    BY DEF Hands!Reset, HandsP!Reset
  <1>2. Hands!Refused <=> HandsP!Refused
    BY DEF Hands!Refused, HandsP!Refused
  <1>3. Hands!GatePassed <=> HandsP!GatePassed
    BY DEF Hands!GatePassed, HandsP!GatePassed
  <1>4. Hands!GateFailed <=> HandsP!GateFailed
    BY DEF Hands!GateFailed, HandsP!GateFailed
  <1>5. Hands!LinearDirect <=> HandsP!LinearDirect
    BY DEF Hands!LinearDirect, HandsP!LinearDirect
  <1>6. ASSUME NEW d \in Hands!Directions, NEW b \in Hands!Batches
        PROVE  Hands!Call(d, b) <=> HandsP!Call(d, b)
    BY DEF Hands!Call, HandsP!Call
  <1>7. ASSUME NEW f \in Hands!Fits
        PROVE  /\ Hands!FirstSolve(f) <=> HandsP!FirstSolve(f)
               /\ Hands!Retry(f) <=> HandsP!Retry(f)
               /\ Hands!LinearFallback(f) <=> HandsP!LinearFallback(f)
    BY DEF Hands!FirstSolve, HandsP!FirstSolve, Hands!Retry, HandsP!Retry,
           Hands!LinearFallback, HandsP!LinearFallback
  <1>8. Hands!Directions = HandsP!Directions /\ Hands!Fits = HandsP!Fits
    OBVIOUS
  <1> HIDE DEF Hands!vars, Hands!Current, Hands!StartsOf, Hands!Rows, Hands!Sides,
        Hands!Directions, Hands!NaN, Hands!Fits, Hands!NoFit, Hands!Raise, Hands!Restored,
        Hands!Accepted, Hands!LastRow, Hands!Commit, Hands!Finite, Hands!Passes, Hands!Better,
        Hands!Retries, Hands!Serves, HandsP!vars, HandsP!Current, HandsP!StartsOf, HandsP!Rows,
        HandsP!Sides, HandsP!Directions, HandsP!NaN, HandsP!Fits, HandsP!NoFit, HandsP!Raise,
        HandsP!Restored, HandsP!Accepted, HandsP!LastRow, HandsP!Commit, HandsP!Finite,
        HandsP!Passes, HandsP!Better, HandsP!Retries, HandsP!Serves
  <1> QED BY <1>0, <1>1, <1>2, <1>3, <1>4, <1>5, <1>6, <1>7, <1>8
    DEF Hands!Next, HandsP!Next, Hands!Convert, HandsP!Convert

LEMMA SessionSpecHolds == ServingSpec => SessionP!SessionSpec
  <1>1. ServingInit => SessionP!SessionInit
    BY DEF ServingInit, Session!SessionInit, SessionP!SessionInit
  <1>2. [ServingNext]_servingVars => [SessionP!SessionNext]_(SessionP!sessionVars)
    BY PartSteps, SessionNextSame
    DEF Session!sessionVars, Session!seedVars, Session!callVars,
        SessionP!sessionVars, SessionP!seedVars, SessionP!callVars
  <1> QED BY <1>1, <1>2, PTL DEF ServingSpec, SessionP!SessionSpec

\* The seed of the solver follows the even ticks, and predictions the latest
\* observation, in whatever order a session is called.
THEOREM SessionAlwaysFollowsTicks == ServingSpec => []SessionFollowsTicks
  <1>1. SessionP!FitFollowsEvenTicks /\ SessionP!PredictsLatest => SessionFollowsTicks
    BY DEF SessionFollowsTicks, Session!FitFollowsEvenTicks, SessionP!FitFollowsEvenTicks,
           Session!PredictsLatest, SessionP!PredictsLatest, Session!ListsEvens,
           SessionP!ListsEvens, Session!Current, SessionP!Current
  <1>2. SessionP!SessionSpec => []SessionP!FitFollowsEvenTicks
    BY NoneAssumption, SessionAssumption, SessionP!AlwaysFollowsEvenTicks
  <1>3. SessionP!SessionSpec => []SessionP!PredictsLatest
    BY NoneAssumption, SessionAssumption, SessionP!AlwaysPredictsLatest
  <1> QED BY SessionSpecHolds, <1>1, <1>2, <1>3, PTL

LEMMA HandsSpecHolds == ServingSpec => HandsP!Spec
  <1>1. ServingInit => HandsP!Init
    BY DEF ServingInit, Hands!Init, HandsP!Init, Hands!NoFit, HandsP!NoFit, Hands!NaN, HandsP!NaN,
           Hands!Directions, HandsP!Directions, Hands!Sides, HandsP!Sides
  <1>2. [ServingNext]_servingVars => [HandsP!Next]_(HandsP!vars)
    BY PartSteps, HandsNextSame DEF Hands!vars, HandsP!vars
  <1> QED BY <1>1, <1>2, PTL DEF ServingSpec, HandsP!Spec

\* Whatever fails in an observation or in a chunk, and in whichever hand, row or
\* retry: both hands of an environment go on from the last frame that was
\* converted whole, and inside a chunk from the row before; and a fit that
\* passed the gate is not given up.
THEOREM HandsAlwaysTransactional == ServingSpec => []HandsTransactional
  <1>1. HandsP!HandsTransactional /\ HandsP!GoodFitServed => HandsTransactional
    BY DEF HandsTransactional, Hands!HandsTransactional, HandsP!HandsTransactional,
           Hands!SeedIsLastServed, HandsP!SeedIsLastServed, Hands!StartsFromRowBefore,
           HandsP!StartsFromRowBefore, Hands!GoodFitServed, HandsP!GoodFitServed, Hands!Passes,
           HandsP!Passes, Hands!Finite, HandsP!Finite, Hands!NaN, HandsP!NaN, Hands!Current,
           HandsP!Current, Hands!Directions, HandsP!Directions, Hands!Sides, HandsP!Sides
  <1>2. HandsP!Spec => []HandsP!HandsTransactional /\ []HandsP!GoodFitServed
    BY HandsP!HandsAlwaysTransactional, HandsP!GoodFitAlwaysServed, GateAssumption, PTL
  <1> QED BY HandsSpecHolds, <1>1, <1>2, PTL

-----------------------------------------------------------------------------
(* The fitted inverses.                                                    *)

Asking == invStage \in {"asked", "hashed", "read", "matched", "grown"}
\* On the way to an artifact it is known that one was asked for by name, and
\* which hand the process has; that is the one that is installed, and was found
\* installed, unless exchanged says that it is not.
AskedFor ==
  Asking =>
    /\ asked.mode = "linear" /\ asked.named /\ DOMAIN base = {"run", "hand", "seen"}
    /\ ~exchanged => invHand = base.hand /\ base.seen \in {None, base.hand}
\* Once its digest was found right, the file is still the one of the digest,
\* unless swapped says that it is not.
DigestHolds ==
  invStage = "hashed" =>
    /\ ~swapped => file.id = asked.sha
    /\ invKind = "h1" => base.seen # None
\* What was read is of the run, and from some point on of the hand and the trees.
ArtifactHolds ==
  invStage \in {"read", "matched", "grown"} =>
    /\ invKind # "h1" /\ DOMAIN loaded = {"art", "trees"}
    /\ invKind # "mano" => loaded.art.run = base.run
    /\ loaded.art.id # 0 /\ (~swapped => loaded.art.id = asked.sha)
    /\ invStage # "read" => base.seen # None /\ loaded.art.hand = base.seen
    /\ invStage = "grown" /\ ~regrown => loaded.art.forest = forest
InverseInv == AskedFor /\ DigestHolds /\ ArtifactHolds /\ InverseFits

\* The files change; what is loaded does not, and what was replaced is noted.
LEMMA FilesKeepInverse ==
  ASSUME InverseInv, UNCHANGED <<invKind, Artifact!process>>,
         UNCHANGED <<file, swapped>> \/ swapped' = (swapped \/ invStage = "hashed"),
         UNCHANGED <<forest, regrown>> \/ regrown' = (regrown \/ invStage = "grown"),
         \/ UNCHANGED <<invHand, exchanged>>
         \/ invStage # "serving" /\ exchanged' = (exchanged \/ invStage # "down"),
         invStage = "serving" => UNCHANGED <<swapped, regrown, exchanged>>
  PROVE  InverseInv'
  <1> USE DEF Artifact!process
  <1>1. AskedFor'
    BY DEF InverseInv, AskedFor, Asking
  <1>2. DigestHolds'
    BY DEF InverseInv, DigestHolds
  <1>3. ArtifactHolds'
    BY DEF InverseInv, ArtifactHolds
  <1>4. InverseFits'
    BY DEF InverseInv, InverseFits, Artifact!InverseFits
  <1> QED BY <1>1, <1>2, <1>3, <1>4 DEF InverseInv

\* Nothing is served where no server is.
LEMMA DownKeepsInverse == ASSUME invStage' = "down" PROVE InverseInv'
  BY DEF InverseInv, AskedFor, Asking, DigestHolds, ArtifactHolds, InverseFits,
         Artifact!InverseFits

\* The deployment's own steps.
LEMMA DeployKeepsInverse ==
  ASSUME NEW d \in Artifact!Settings, Artifact!Deploy(d) PROVE InverseInv'
  <1> DEFINE s == Artifact!Resolved(d)
  <1>1. /\ s.mode = "linear" => s.named
        /\ asked' = s /\ invStage' = IF s.mode = "linear" THEN "asked" ELSE "serving"
        /\ loaded' = None /\ base' = [run |-> invRun, hand |-> invHand, seen |-> None]
        /\ invHand' = invHand
    BY DEF Artifact!Deploy, Artifact!onDisk
  <1> HIDE DEF s
  <1> QED
    BY <1>1
    DEF InverseInv, AskedFor, Asking, DigestHolds, ArtifactHolds, InverseFits,
        Artifact!InverseFits

LEMMA HashHandKeepsInverse == ASSUME InverseInv, Artifact!HashHand PROVE InverseInv'
  <1>1. /\ invStage \in {"asked", "read"} /\ base' = [base EXCEPT !.seen = invHand]
        /\ UNCHANGED <<invStage, asked, loaded, invKind, invHand, file, forest, swapped, regrown,
                       exchanged>>
    BY DEF Artifact!HashHand, Artifact!Keeping, Artifact!onDisk, Artifact!history
  <1>2. DOMAIN base = {"run", "hand", "seen"}
    BY <1>1 DEF InverseInv, AskedFor, Asking
  <1>3. /\ base'.run = base.run /\ base'.hand = base.hand /\ base'.seen = invHand
        /\ DOMAIN base' = {"run", "hand", "seen"}
    BY <1>1, <1>2
  <1> QED
    BY <1>1, <1>3
    DEF InverseInv, AskedFor, Asking, DigestHolds, ArtifactHolds, InverseFits,
        Artifact!InverseFits

LEMMA HashKeepsInverse == ASSUME InverseInv, Artifact!Hash PROVE InverseInv'
  <1>1. CASE file # None /\ file.id = asked.sha
    <2>1. /\ invStage = "asked" /\ (invKind = "h1" => base.seen # None) /\ invStage' = "hashed"
          /\ UNCHANGED <<asked, base, loaded, invKind, invHand, file, swapped, exchanged>>
      BY <1>1 DEF Artifact!Hash, Artifact!Keeping, Artifact!onDisk, Artifact!history
    <2> QED
      BY <1>1, <2>1
      DEF InverseInv, AskedFor, Asking, DigestHolds, ArtifactHolds, InverseFits,
          Artifact!InverseFits
  <1>2. CASE ~(file # None /\ file.id = asked.sha)
    BY <1>2, DownKeepsInverse DEF Artifact!Hash, Artifact!Refuse
  <1> QED BY <1>1, <1>2

LEMMA ReadKeepsInverse == ASSUME InverseInv, Artifact!Read PROVE InverseInv'
  <1> DEFINE fine == /\ file.id # 0 /\ Artifact!SameRun /\ Artifact!Tested
                     /\ invKind = "h1" => Artifact!SameHand(file)
  <1>1. CASE fine
    <2>1. /\ invStage = "hashed" /\ invStage' = (IF invKind = "h1" THEN "serving" ELSE "read")
          /\ loaded' = [art |-> file, trees |-> None]
          /\ UNCHANGED <<asked, base, invKind, invHand, swapped, exchanged>>
      BY <1>1 DEF Artifact!Read, Artifact!Keeping, Artifact!onDisk, Artifact!history
    <2>2. loaded'.art = file /\ DOMAIN loaded' = {"art", "trees"}
      BY <2>1
    <2>3. /\ asked.mode = "linear" /\ asked.named /\ (~swapped => file.id = asked.sha)
          /\ invKind = "h1" => base.seen # None
          /\ ~exchanged => invHand = base.hand /\ base.seen \in {None, base.hand}
          /\ DOMAIN base = {"run", "hand", "seen"}
      BY <2>1 DEF InverseInv, AskedFor, Asking, DigestHolds
    <2>4. CASE invKind = "h1"
      BY <1>1, <2>1, <2>2, <2>3, <2>4
      DEF InverseInv, AskedFor, Asking, DigestHolds, ArtifactHolds, InverseFits,
          Artifact!InverseFits, Artifact!SameRun, Artifact!SameHand, Artifact!Tested
    <2>5. CASE invKind # "h1"
      BY <1>1, <2>1, <2>2, <2>3, <2>5
      DEF InverseInv, AskedFor, Asking, DigestHolds, ArtifactHolds, InverseFits,
          Artifact!InverseFits, Artifact!SameRun
    <2> QED BY <2>4, <2>5
  <1>2. CASE ~fine
    BY <1>2, DownKeepsInverse DEF Artifact!Read, Artifact!Refuse
  <1> QED BY <1>1, <1>2

LEMMA MatchHandKeepsInverse == ASSUME InverseInv, Artifact!MatchHand PROVE InverseInv'
  <1>1. CASE Artifact!SameHand(loaded.art)
    <2>1. /\ invStage = "read" /\ base.seen # None /\ loaded.art.hand = base.seen
          /\ invStage' = (IF invKind = "mano" THEN "serving" ELSE "matched")
          /\ UNCHANGED <<asked, base, loaded, invKind, invHand, forest, swapped, exchanged>>
      BY <1>1
      DEF Artifact!MatchHand, Artifact!SameHand, Artifact!Keeping, Artifact!onDisk,
          Artifact!history
    <2> QED
      BY <2>1
      DEF InverseInv, AskedFor, Asking, DigestHolds, ArtifactHolds, InverseFits,
          Artifact!InverseFits
  <1>2. CASE ~Artifact!SameHand(loaded.art)
    BY <1>2, DownKeepsInverse DEF Artifact!MatchHand, Artifact!Refuse
  <1> QED BY <1>1, <1>2

LEMMA HashForestKeepsInverse == ASSUME InverseInv, Artifact!HashForest PROVE InverseInv'
  <1>1. CASE loaded.art.forest = forest
    <2>1. /\ invStage = "matched" /\ invStage' = "grown"
          /\ UNCHANGED <<asked, base, loaded, invKind, invHand, forest, swapped, exchanged>>
      BY <1>1 DEF Artifact!HashForest, Artifact!Keeping, Artifact!onDisk, Artifact!history
    <2> QED
      BY <1>1, <2>1
      DEF InverseInv, AskedFor, Asking, DigestHolds, ArtifactHolds, InverseFits,
          Artifact!InverseFits
  <1>2. CASE ~(loaded.art.forest = forest)
    BY <1>2, DownKeepsInverse DEF Artifact!HashForest, Artifact!Refuse
  <1> QED BY <1>1, <1>2

LEMMA LoadForestKeepsInverse == ASSUME InverseInv, Artifact!LoadForest PROVE InverseInv'
  <1>1. CASE loaded' = [loaded EXCEPT !.trees = forest] /\ invStage' = "serving"
             /\ UNCHANGED <<asked, base>>
    <2>1. /\ invStage = "grown"
          /\ UNCHANGED <<invKind, invHand, swapped, regrown, exchanged>>
      BY DEF Artifact!LoadForest, Artifact!Keeping, Artifact!onDisk, Artifact!history
    <2>2. loaded'.art = loaded.art /\ loaded'.trees = forest
      BY <1>1, <2>1 DEF InverseInv, ArtifactHolds
    <2> QED
      BY <1>1, <2>1, <2>2
      DEF InverseInv, AskedFor, Asking, DigestHolds, ArtifactHolds, InverseFits,
          Artifact!InverseFits
  <1>2. CASE Artifact!Refuse
    BY <1>2, DownKeepsInverse DEF Artifact!Refuse
  <1> QED BY <1>1, <1>2 DEF Artifact!LoadForest

LEMMA InverseStepInv ==
  ASSUME InverseInv, [Artifact!InverseNext]_(Artifact!inverseVars) PROVE InverseInv'
  <1>1. CASE Artifact!FilesNext
    <2> USE DEF Artifact!history
    <2>1. CASE Artifact!FitForRun \/ Artifact!FitGeneric \/ Artifact!FitH1
      BY <1>1, <2>1, FilesKeepInverse
      DEF Artifact!FilesNext, Artifact!FitForRun, Artifact!FitGeneric, Artifact!FitH1,
          Artifact!Write
    <2>2. CASE Artifact!WriteForest \/ Artifact!Retrain \/ Artifact!InstallHand
      BY <1>1, <2>2, FilesKeepInverse
      DEF Artifact!FilesNext, Artifact!WriteForest, Artifact!Retrain, Artifact!InstallHand
    <2> QED BY <1>1, <2>1, <2>2 DEF Artifact!FilesNext
  <1>3. CASE \E d \in Artifact!Settings : Artifact!Deploy(d)
    BY <1>3, DeployKeepsInverse
  <1>4. CASE Artifact!HashHand \/ Artifact!Hash \/ Artifact!Read
    BY <1>4, HashHandKeepsInverse, HashKeepsInverse, ReadKeepsInverse
  <1>5. CASE Artifact!MatchHand \/ Artifact!HashForest \/ Artifact!LoadForest
    BY <1>5, MatchHandKeepsInverse, HashForestKeepsInverse, LoadForestKeepsInverse
  <1>6. CASE Artifact!Shutdown
    BY <1>6, DownKeepsInverse DEF Artifact!Shutdown
  <1>7. CASE UNCHANGED Artifact!inverseVars
    BY <1>7, FilesKeepInverse DEF Artifact!inverseVars, Artifact!process
  <1> QED BY <1>1, <1>3, <1>4, <1>5, <1>6, <1>7 DEF Artifact!InverseNext

\* A hand is never decoded with an inverse that was not asked for by name, is of
\* another run or half written; nor with one that is not of its digest, of its
\* trees or of the hand of the process, unless just that file was replaced while
\* the process loaded.
THEOREM InverseAlwaysFits == ServingSpec => []InverseFits
  <1>1. ServingInit => InverseInv
    BY DEF ServingInit, Artifact!InverseInit, InverseInv, AskedFor, Asking, DigestHolds,
           ArtifactHolds, InverseFits, Artifact!InverseFits
  <1>2. InverseInv /\ [ServingNext]_servingVars => InverseInv'
    BY PartSteps, InverseStepInv
  <1>3. InverseInv => InverseFits
    BY DEF InverseInv
  <1> QED BY <1>1, <1>2, <1>3, PTL DEF ServingSpec

-----------------------------------------------------------------------------
(* The launch scripts.                                                     *)

\* Until it is started the server has no process and no socket; afterwards it
\* can only listen where it was told to.
ServerBegins ==
  /\ shell = "start" => server = "none"
  /\ server # "none" => port \in Ports
  /\ DOMAIN listener = Ports
  /\ \A p \in Ports : listener[p] = "ours" => p = port /\ server = "serving"
\* The process id is known from the waiting script on.
PidBegins ==
  /\ shell \in {"start", "spawned"} => ~pidKnown
  /\ shell \in {"waiting", "ready", "client"} => pidKnown
\* The client is there while the shell runs it.
ClientBegins ==
  /\ client \in {"none", "episode", "closed"}
  /\ client = "episode" => shell = "client"
  /\ client # "none" => shell \in {"client", "exited"}
\* Nobody is connected before somebody listened.
WaitEnds ==
  /\ elapsed \in Nat /\ elapsed <= WaitTimeout
  /\ shell \in {"ready", "client"} \/ client # "none" => met # "none"
LaunchInv ==
  ServerBegins /\ PidBegins /\ ClientBegins /\ WaitEnds /\ Launching!NothingLeftBehind

LEMMA LaunchStepInv ==
  ASSUME LaunchInv, [Launching!LaunchNext]_(Launching!launchVars) PROVE LaunchInv'
  <1> USE LaunchAssumption
      DEF LaunchInv, ServerBegins, PidBegins, ClientBegins, WaitEnds,
          Launching!NothingLeftBehind, Launching!serverVars, Launching!waitVars,
          Launching!clientVars
  <1>1. ASSUME NEW p \in Ports, Launching!ForeignTakes(p) PROVE LaunchInv'
    BY <1>1 DEF Launching!ForeignTakes
  <1>2. ASSUME NEW p \in Ports, Launching!ForeignLeaves(p) PROVE LaunchInv'
    BY <1>2 DEF Launching!ForeignLeaves
  <1>3. ASSUME NEW p \in Ports, Launching!PickPort(p) PROVE LaunchInv'
    BY <1>3 DEF Launching!PickPort
  <1>4. CASE Launching!ScriptFails
    BY <1>4 DEF Launching!ScriptFails
  <1>5. CASE Launching!ScriptExecs
    BY <1>5 DEF Launching!ScriptExecs
  <1>6. CASE Launching!Serve
    <2>1. port \in Ports /\ Launching!BindPort = port
      BY <1>6 DEF Launching!Serve, Launching!BindPort, Launching!Configured
    <2> QED BY <1>6, <2>1 DEF Launching!Serve
  <1>7. CASE Launching!ServerDies
    BY <1>7 DEF Launching!ServerDies
  <1>8. CASE Launching!RecordPid
    BY <1>8 DEF Launching!RecordPid
  <1>9. CASE Launching!Interrupt
    BY <1>9 DEF Launching!Interrupt
  <1>10. CASE Launching!Interrupted
    BY <1>10 DEF Launching!Interrupted, Launching!Exit, Launching!Kills, Launching!Foreground
  <1>11. CASE Launching!ServerGone
    BY <1>11 DEF Launching!ServerGone, Launching!Exit, Launching!Kills
  <1>12. CASE Launching!ServerAlive
    BY <1>12 DEF Launching!ServerAlive
  <1>13. CASE Launching!Listening
    BY <1>13 DEF Launching!Listening
  <1>14. CASE Launching!NotListening
    <2>1. CASE elapsed < WaitTimeout
      <3>1. elapsed' = elapsed + 1 /\ elapsed + 1 \in Nat /\ elapsed + 1 <= WaitTimeout
        BY <1>14, <2>1 DEF Launching!NotListening
      <3>2. UNCHANGED <<shell, port, yamlPort, pidKnown, killed, interrupted, server, listener,
                        met, client, episode>>
        BY <1>14, <2>1 DEF Launching!NotListening
      <3> QED BY <3>1, <3>2
    <2>2. CASE ~(elapsed < WaitTimeout)
      BY <1>14, <2>2 DEF Launching!NotListening, Launching!Exit, Launching!Kills
    <2> QED BY <2>1, <2>2
  <1>15. CASE Launching!StartClient
    BY <1>15 DEF Launching!StartClient
  <1>16. CASE Launching!RunEpisode
    BY <1>16 DEF Launching!RunEpisode
  <1>17. CASE Launching!EpisodeFails
    BY <1>17 DEF Launching!EpisodeFails
  <1>18. CASE Launching!ClientEnds
    BY <1>18 DEF Launching!ClientEnds, Launching!Exit, Launching!Kills
  <1>19. CASE UNCHANGED Launching!launchVars
    BY <1>19 DEF Launching!launchVars
  <1> QED
    BY <1>1, <1>2, <1>3, <1>4, <1>5, <1>6, <1>7, <1>8, <1>9, <1>10, <1>11, <1>12, <1>13, <1>14,
       <1>15, <1>16, <1>17, <1>18, <1>19
    DEF Launching!LaunchNext

\* However an evaluation ends, and whoever takes and leaves ports meanwhile: the
\* client is gone, the server is dead or told to die unless a signal came before
\* its process id was known, and the client was only started on a port that was
\* listened on.
THEOREM LaunchIsAlwaysClean == ServingSpec => []LaunchIsClean
  <1>1. ServingInit => LaunchInv
    BY LaunchAssumption
    DEF ServingInit, Launching!LaunchInit, LaunchInv, ServerBegins, PidBegins, ClientBegins,
        WaitEnds, Launching!NothingLeftBehind
  <1>2. LaunchInv /\ [ServingNext]_servingVars => LaunchInv'
    BY PartSteps, LaunchStepInv
  <1>3. LaunchInv => LaunchIsClean
    BY DEF LaunchInv, ServerBegins, WaitEnds, LaunchIsClean, Launching!ClientMeetsListener
  <1> QED BY <1>1, <1>2, <1>3, PTL DEF ServingSpec

-----------------------------------------------------------------------------
(* The decoding of a chunk.                                                *)

Deciding == decodeStage \notin {"idle", "held"}
Commands == [Decode!Hands -> [q : Nat, root : Nat, offset : Nat]]
DecodeTypes ==
  /\ line \in 1..ChunkRows /\ hand \in Decode!Hands
  /\ candidate \in Commands /\ safe \in Commands /\ output \in Seq(Commands)
  /\ previousQ \in [Decode!Hands -> Nat] /\ current \in [Decode!Hands -> Nat]
\* What was put out is the rows before this one, and the safe command the last.
RowsBefore ==
  Deciding =>
    /\ Len(output) = line - 1
    /\ \A i \in 1..(line - 1) : Decode!IsRow(output[i], i)
    /\ safe = (IF line = 1 THEN Decode!Observed ELSE output[line - 1])
\* A left hand that was decoded is of this row.
LeftIsOfRow ==
  Deciding /\ hand = "right" => candidate["left"].q = line /\ candidate["left"].root = line
ChunkDone ==
  decodeStage \in {"idle", "held"} => Decode!RowsCommitWhole
DecodeInv ==
  DecodeTypes /\ RowsBefore /\ LeftIsOfRow /\ ChunkDone /\ Decode!StartsFromCommitted

LEMMA ObservedCommand ==
  /\ Decode!Observed \in Commands /\ Decode!IsRow(Decode!Observed, 0)
  BY DEF Decode!Observed, Commands, Decode!IsRow

LEMMA RowsWhileDeciding == ASSUME DecodeInv, Deciding PROVE Decode!RowsCommitWhole
  <1>1. Len(output) = line - 1 /\ \A i \in 1..(line - 1) : Decode!IsRow(output[i], i)
    BY DEF DecodeInv, RowsBefore
  <1>2. line - 1 \in 0..Len(output)
    BY <1>1 DEF DecodeInv, DecodeTypes
  <1> QED BY <1>1, <1>2 DEF Decode!RowsCommitWhole, DecodeInv, DecodeTypes

\* The chunk is put together when a hand cannot be decoded.
LEMMA FitFailsInv == ASSUME DecodeInv, Deciding, Decode!FitFails PROVE DecodeInv'
  <1> DEFINE n == ChunkRows - line + 1
  <1>1. n \in Nat /\ n > 0 /\ line - 1 + n = ChunkRows /\ Len(output) = line - 1
    BY RowsAssumption DEF DecodeInv, DecodeTypes, RowsBefore
  <1>2. output' = output \o [i \in 1..n |-> safe] /\ decodeStage' = "held"
    BY DEF Decode!FitFails, Decode!HeldCommand
  <1>3. /\ output' \in Seq(Commands) /\ Len(output') = ChunkRows
        /\ \A i \in 1..(line - 1) : output'[i] = output[i]
        /\ \A i \in line..ChunkRows : output'[i] = safe
    <2> HIDE DEF n
    <2>1. output \in Seq(Commands) /\ safe \in Commands /\ line \in Nat /\ ChunkRows \in Nat
      BY RowsAssumption DEF DecodeInv, DecodeTypes
    <2> DEFINE t == [i \in 1..n |-> safe]
    <2>2. t \in Seq(Commands) /\ Len(t) = n /\ \A i \in 1..n : t[i] = safe
      <3> HIDE DEF Commands
      <3> QED BY <1>1, <2>1
    <2>3. output' = output \o t
      BY <1>2
    <2> HIDE DEF t, Commands
    <2>4. /\ output \o t \in Seq(Commands) /\ Len(output \o t) = Len(output) + n
          /\ \A i \in 1..Len(output) : (output \o t)[i] = output[i]
          /\ \A i \in (Len(output) + 1)..(Len(output) + n) : (output \o t)[i] = safe
      <3>1. output \o t \in Seq(Commands) /\ Len(output \o t) = Len(output) + n
        BY <1>1, <2>1, <2>2
      <3>2. \A i \in 1..Len(output) : (output \o t)[i] = output[i]
        BY <1>1, <2>1, <2>2
      <3>3. \A i \in (Len(output) + 1)..(Len(output) + n) :
               (output \o t)[i] = t[i - Len(output)] /\ i - Len(output) \in 1..n
        BY <1>1, <2>1, <2>2
      <3> QED BY <2>2, <3>1, <3>2, <3>3
    <2>5. Len(output) + 1 = line /\ Len(output) + n = ChunkRows
      BY <1>1, <2>1
    <2> QED BY <1>1, <2>3, <2>4, <2>5
  <1> HIDE DEF n
  <1>4. Decode!IsRow(safe, line - 1)
    <2>1. CASE line = 1
      BY <2>1, ObservedCommand DEF DecodeInv, RowsBefore
    <2>2. CASE line # 1
      <3>1. line - 1 \in 1..(line - 1)
        BY <2>2 DEF DecodeInv, DecodeTypes
      <3> QED BY <2>2, <3>1 DEF DecodeInv, RowsBefore
    <2> QED BY <2>1, <2>2
  <1>5. Decode!RowsCommitWhole'
    <2>1. line - 1 \in 0..Len(output') /\ line - 1 < Len(output') /\ line - 1 \in Nat
      BY <1>1, <1>3 DEF DecodeInv, DecodeTypes
    <2>2. \A i \in 1..(line - 1) : Decode!IsRow(output'[i], i)
      BY <1>3 DEF DecodeInv, RowsBefore
    <2>3. safe = IF line - 1 = 0 THEN Decode!Observed ELSE output'[line - 1]
      <3>1. CASE line = 1
        BY <3>1 DEF DecodeInv, RowsBefore
      <3>2. CASE line # 1
        <4>1. line - 1 \in 1..(line - 1) /\ line - 1 # 0
          BY <3>2 DEF DecodeInv, DecodeTypes
        <4> QED BY <1>3, <3>2, <4>1 DEF DecodeInv, RowsBefore
      <3> QED BY <3>1, <3>2 DEF DecodeInv, DecodeTypes
    <2>4. \A i \in (line - 1 + 1)..Len(output') :
             Decode!IsRow(output'[i], line - 1)
             /\ output'[i] = (IF line - 1 = 0 THEN Decode!Observed ELSE output'[line - 1])
      BY <1>3, <1>4, <2>3 DEF DecodeInv, DecodeTypes
    <2> QED BY <1>2, <1>3, <2>1, <2>2, <2>4 DEF Decode!RowsCommitWhole, Decode!IsRow
  <1> QED
    BY <1>2, <1>3, <1>5
    DEF DecodeInv, DecodeTypes, RowsBefore, LeftIsOfRow, ChunkDone, Deciding,
        Decode!StartsFromCommitted, Decode!FitFails

\* A step that leaves the row under decoding as it was.
LEMMA SameRowInv ==
  ASSUME DecodeInv, Deciding, Deciding',
         UNCHANGED <<line, hand, candidate, previousQ, current, safe, output>>
  PROVE  DecodeInv'
  BY DEF DecodeInv, DecodeTypes, RowsBefore, LeftIsOfRow, ChunkDone, Deciding,
         Decode!StartsFromCommitted, Decode!IsRow

LEMMA BeginChunkInv == ASSUME DecodeInv, Decode!BeginChunk PROVE DecodeInv'
  <1>1. /\ line' = 1 /\ hand' = "left" /\ output' = <<>> /\ safe' = Decode!Observed
        /\ candidate' = candidate /\ Deciding'
        /\ previousQ' = [h \in Decode!Hands |-> 0] /\ current' = [h \in Decode!Hands |-> 0]
    BY DEF Decode!BeginChunk, Deciding
  <1>2. DecodeTypes'
    BY <1>1, ObservedCommand, RowsAssumption DEF DecodeInv, DecodeTypes, Decode!Hands
  <1>3. RowsBefore' /\ LeftIsOfRow'
    BY <1>1 DEF RowsBefore, LeftIsOfRow
  <1>4. ChunkDone' /\ Decode!StartsFromCommitted'
    BY <1>1 DEF ChunkDone, Decode!StartsFromCommitted, Deciding
  <1> QED BY <1>2, <1>3, <1>4 DEF DecodeInv

LEMMA DecodeRaisesInv == ASSUME DecodeInv, Decode!DecodeRaises PROVE DecodeInv'
  <1>1. /\ decodeStage' = "idle" /\ output' = <<>>
        /\ UNCHANGED <<line, hand, candidate, previousQ, current, safe>>
    BY DEF Decode!DecodeRaises
  <1>2. Decode!RowsCommitWhole'
    BY <1>1 DEF Decode!RowsCommitWhole
  <1> QED
    BY <1>1, <1>2
    DEF DecodeInv, DecodeTypes, RowsBefore, LeftIsOfRow, ChunkDone, Deciding,
        Decode!StartsFromCommitted

\* The decoded hand is one of this row.
LEMMA DecodedIsOfRow ==
  ASSUME DecodeInv, Deciding
  PROVE  /\ Decode!Decoded \in [q : Nat, root : Nat, offset : Nat]
         /\ Decode!Decoded.q = line /\ Decode!Decoded.root = line
  <1>1. /\ line \in Nat /\ current[hand] \in Nat /\ previousQ[hand] \in Nat
        /\ current[hand] = line - 1
    BY RowsAssumption DEF DecodeInv, DecodeTypes, Decode!StartsFromCommitted, Deciding
  <1> QED BY <1>1 DEF Decode!Decoded

LEMMA LeftDoneInv == ASSUME DecodeInv, Decode!LeftDone PROVE DecodeInv'
  <1>1. /\ Deciding /\ Deciding' /\ hand' = "right"
        /\ candidate' = [candidate EXCEPT !["left"] = Decode!Decoded]
        /\ UNCHANGED <<line, previousQ, current, safe, output>>
    BY DEF Decode!LeftDone, Deciding
  <1>2. candidate' \in Commands /\ candidate'["left"] = Decode!Decoded
    BY <1>1, DecodedIsOfRow DEF DecodeInv, DecodeTypes, Commands, Decode!Hands
  <1> QED
    BY <1>1, <1>2, DecodedIsOfRow
    DEF DecodeInv, DecodeTypes, RowsBefore, LeftIsOfRow, ChunkDone, Deciding, Decode!Hands,
        Decode!StartsFromCommitted, Decode!IsRow

LEMMA RowDoneInv == ASSUME DecodeInv, Decode!RowDone PROVE DecodeInv'
  <1>1. PICK command \in Commands :
          /\ command["left"] = candidate["left"] /\ command["right"] = Decode!Decoded
          /\ candidate' = command /\ safe' = command /\ output' = Append(output, command)
    <2>1. [candidate EXCEPT !["right"] = Decode!Decoded] \in Commands
      BY DecodedIsOfRow DEF Decode!RowDone, Deciding, DecodeInv, DecodeTypes, Commands, Decode!Hands
    <2>2. /\ [candidate EXCEPT !["right"] = Decode!Decoded]["left"] = candidate["left"]
          /\ [candidate EXCEPT !["right"] = Decode!Decoded]["right"] = Decode!Decoded
      BY DEF DecodeInv, DecodeTypes, Commands, Decode!Hands
    <2> QED BY <2>1, <2>2 DEF Decode!RowDone
  <1>2. /\ Deciding /\ hand = "right" /\ hand' = "left"
        /\ previousQ' = [h \in Decode!Hands |-> line]
        /\ current' = [h \in Decode!Hands |-> current[h] + 1]
        /\ IF line = ChunkRows THEN decodeStage' = "idle" /\ line' = line
           ELSE decodeStage' = "forward" /\ line' = line + 1
    BY DEF Decode!RowDone, Decode!NextCurrent, Deciding
  <1>3. Decode!IsRow(command, line)
    BY <1>1, <1>2, DecodedIsOfRow DEF DecodeInv, LeftIsOfRow, Decode!IsRow, Decode!Hands
  <1>4. /\ line \in 1..ChunkRows /\ line \in Nat /\ ChunkRows \in Nat /\ Len(output) = line - 1
        /\ output \in Seq(Commands)
        /\ \A i \in 1..(line - 1) : Decode!IsRow(output[i], i)
    BY <1>2, RowsAssumption DEF DecodeInv, DecodeTypes, RowsBefore
  <1>5. /\ output' \in Seq(Commands) /\ Len(output') = line /\ output'[line] = command
        /\ \A i \in 1..(line - 1) : output'[i] = output[i]
    BY <1>1, <1>4
  <1>6. \A i \in 1..line : Decode!IsRow(output'[i], i)
    <2> SUFFICES ASSUME NEW i \in 1..line PROVE Decode!IsRow(output'[i], i)
      OBVIOUS
    <2>1. CASE i = line
      BY <1>3, <1>5, <2>1
    <2>2. CASE i # line
      BY <1>4, <1>5, <2>2
    <2> QED BY <2>1, <2>2
  <1>7. \A h \in Decode!Hands : previousQ'[h] = line /\ current'[h] = line
    BY <1>2, <1>4 DEF DecodeInv, DecodeTypes, Decode!StartsFromCommitted, Deciding
  <1>8. previousQ' \in [Decode!Hands -> Nat] /\ current' \in [Decode!Hands -> Nat]
    BY <1>2, <1>4 DEF DecodeInv, DecodeTypes
  <1>9. CASE line = ChunkRows
    <2>1. line' = line /\ decodeStage' = "idle"
      BY <1>2, <1>9
    <2>2. Decode!RowsCommitWhole'
      <3>1. line \in 0..Len(output') /\ ~(line < Len(output'))
        BY <1>4, <1>5
      <3>2. \A i \in (line + 1)..Len(output') : FALSE
        BY <1>4, <1>5
      <3> QED BY <1>6, <3>1, <3>2 DEF Decode!RowsCommitWhole, Decode!IsRow
    <2> QED
      BY <1>1, <1>2, <1>4, <1>5, <1>8, <2>1, <2>2
      DEF DecodeInv, DecodeTypes, RowsBefore, LeftIsOfRow, ChunkDone, Deciding, Decode!Hands,
          Decode!StartsFromCommitted
  <1>10. CASE line # ChunkRows
    <2>1. /\ line' = line + 1 /\ decodeStage' = "forward" /\ line + 1 \in 1..ChunkRows
          /\ line + 1 # 1 /\ line + 1 - 1 = line
      BY <1>2, <1>4, <1>10
    <2>2. RowsBefore'
      BY <1>1, <1>5, <1>6, <2>1 DEF RowsBefore, Decode!IsRow
    <2> QED
      BY <1>1, <1>2, <1>5, <1>7, <1>8, <2>1, <2>2
      DEF DecodeInv, DecodeTypes, LeftIsOfRow, ChunkDone, Deciding, Decode!Hands,
          Decode!StartsFromCommitted
  <1> QED BY <1>9, <1>10

LEMMA DecodeStepInv ==
  ASSUME DecodeInv, [Decode!DecodeNext]_(Decode!decodeVars) PROVE DecodeInv'
  <1>1. CASE Decode!BeginChunk
    BY <1>1, BeginChunkInv
  <1>2. CASE Decode!DecodeRaises
    BY <1>2, DecodeRaisesInv
  <1>3. CASE Decode!ForwardFails \/ Decode!SolveFails \/ Decode!GateFails
    BY <1>3, FitFailsInv DEF Decode!ForwardFails, Decode!SolveFails, Decode!GateFails, Deciding
  <1>4. CASE Decode!Forward \/ Decode!LinearRefuses
    BY <1>4, SameRowInv DEF Decode!Forward, Decode!LinearRefuses, Deciding
  <1>5. ASSUME NEW e \in Rms, Decode!Linear(e) PROVE DecodeInv'
    BY <1>5, SameRowInv DEF Decode!Linear, Deciding
  <1>6. ASSUME NEW e \in Rms, Decode!Solve(e) PROVE DecodeInv'
    <2>1. CASE e <= Tolerance
      BY <1>6, <2>1, SameRowInv DEF Decode!Solve, Deciding
    <2>2. CASE ~(e <= Tolerance)
      BY <1>6, <2>2, FitFailsInv DEF Decode!Solve, Deciding
    <2> QED BY <2>1, <2>2
  <1>7. CASE Decode!LeftDone
    BY <1>7, LeftDoneInv
  <1>8. CASE Decode!RowDone
    BY <1>8, RowDoneInv
  <1>9. CASE UNCHANGED Decode!decodeVars
    BY <1>9
    DEF Decode!decodeVars, DecodeInv, DecodeTypes, RowsBefore, LeftIsOfRow, ChunkDone, Deciding,
        Decode!StartsFromCommitted, Decode!RowsCommitWhole, Decode!IsRow
  <1> QED BY <1>1, <1>2, <1>3, <1>4, <1>5, <1>6, <1>7, <1>8, <1>9 DEF Decode!DecodeNext

\* A chunk of any length, decoded with any inverse and any errors: its commands
\* are whole rows in order and then the last whole one, and every hand starts
\* from the last row that was committed for both.
THEOREM ChunksAlwaysDecodeWhole == ServingSpec => []ChunksDecodeWhole
  <1>1. ServingInit => DecodeInv
    <2> SUFFICES ASSUME ServingInit PROVE DecodeInv
      OBVIOUS
    <2>1. /\ decodeStage = "idle" /\ line = 1 /\ hand = "left" /\ output = <<>>
          /\ candidate = Decode!Observed /\ safe = Decode!Observed
          /\ previousQ = [h \in Decode!Hands |-> 0] /\ current = [h \in Decode!Hands |-> 0]
      BY DEF ServingInit, Decode!DecodeInit
    <2>2. DecodeTypes
      BY <2>1, ObservedCommand, RowsAssumption DEF DecodeTypes, Decode!Hands
    <2>3. Decode!RowsCommitWhole
      BY <2>1 DEF Decode!RowsCommitWhole
    <2> QED
      BY <2>1, <2>2, <2>3
      DEF DecodeInv, RowsBefore, LeftIsOfRow, ChunkDone, Deciding, Decode!StartsFromCommitted
  <1>2. DecodeInv /\ [ServingNext]_servingVars => DecodeInv'
    BY PartSteps, DecodeStepInv
  <1>3. DecodeInv => ChunksDecodeWhole
    <2>1. CASE Deciding
      BY <2>1, RowsWhileDeciding DEF DecodeInv, ChunksDecodeWhole
    <2>2. CASE ~Deciding
      BY <2>2 DEF DecodeInv, ChunkDone, ChunksDecodeWhole, Deciding
    <2> QED BY <2>1, <2>2
  <1> QED BY <1>1, <1>2, <1>3, PTL DEF ServingSpec

-----------------------------------------------------------------------------
(* The selection of the model.                                             *)

\* A run that was never started has no statistics.
SetupTypes ==
  /\ weights \in [Setup!Roots -> SUBSET Nat]
  /\ DOMAIN config = Setup!Roots /\ stats \in [Setup!Places -> Contents \cup {None}]
  /\ \A r \in Setup!Roots : stats[r] # None => config[r] # None
\* Saved checkpoints, when there are any, have a newest one.
HasNewest ==
  \A r \in Setup!Roots :
    weights[r] # {} => \E m \in weights[r] : \A n \in weights[r] : n <= m
\* The root was the first and the checkpoint the newest, until a run moved on.
Selected ==
  pickStage # "down" =>
    /\ DOMAIN plan = {"before", "root", "step", "by", "given", "path", "conf", "rep", "stats"}
    /\ ~movedOn =>
         /\ \A r \in plan.before : config[r] = None
         /\ \A n \in weights[plan.root] : n <= plan.step
\* Statistics that were not named are those of the configuration or of the weights.
Configured ==
  pickStage \in {"configured", "bound", "serving"} =>
    /\ plan.path \in Setup!Places
    /\ pickStage = "configured" /\ ~plan.given => plan.path \in {plan.by, plan.root}
\* What was compared; the statistics still are as they were, or it is noted.
BoundTo ==
  pickStage \in {"bound", "serving"} =>
    /\ ~movedOn => plan.conf = config[plan.by]
    /\ plan.rep = IF plan.conf.rep = None THEN "wuji20" ELSE plan.conf.rep
    /\ plan.conf.sha # None /\ ~rewritten =>
         IF pickStage = "bound" THEN stats[plan.path] = plan.conf.sha
                                ELSE plan.stats = plan.conf.sha
    /\ plan.conf.sha = None => plan.rep # "mano45" /\ plan.path \in {plan.by, plan.root}
SetupInv == SetupTypes /\ HasNewest /\ Selected /\ Configured /\ BoundTo

LEMMA ServedFollows == ASSUME SetupInv PROVE Setup!ServedIsOneRun
  BY DEF SetupInv, Selected, BoundTo, Setup!ServedIsOneRun

\* The largest of the steps that are saved.
LEMMA NewestIsLargest ==
  ASSUME SetupInv, NEW r \in Setup!Roots, weights[r] # {}
  PROVE  \A n \in weights[r] : n <= Setup!Newest(r)
  <1>1. \E m \in weights[r] : \A n \in weights[r] : m >= n
    BY DEF SetupInv, SetupTypes, HasNewest
  <1> QED BY <1>1 DEF Setup!Newest, Setup!Max, SetupInv, SetupTypes

\* What is found in a list is there, and nothing before it is.
LEMMA FirstIsFirst ==
  ASSUME NEW list, DOMAIN list \subseteq 1..3, NEW there, Setup!FirstOf(list, there) # None
  PROVE  \E i \in DOMAIN list :
           /\ list[i] = Setup!FirstOf(list, there) /\ list[i] \in there
           /\ \A j \in DOMAIN list : j < i => list[j] \notin there
  <1> DEFINE found == {i \in DOMAIN list : list[i] \in there}
  <1>1. found # {} /\ Setup!FirstOf(list, there) = list[Setup!Min(found)]
    BY DEF Setup!FirstOf
  <1>2. \E i \in found : \A j \in found : i <= j
    BY <1>1
  <1>3. Setup!Min(found) \in found /\ \A j \in found : Setup!Min(found) <= j
    BY <1>2 DEF Setup!Min
  <1>4. \A j \in DOMAIN list : j < Setup!Min(found) => list[j] \notin there
    BY <1>3
  <1> QED BY <1>1, <1>3, <1>4

LEMMA SelectInv ==
  ASSUME NEW explicit \in BOOLEAN, NEW isPath \in BOOLEAN, SetupInv,
         Setup!Select(explicit, isPath)
  PROVE  SetupInv'
  <1> DEFINE list == Setup!Candidates(explicit, isPath)
             r == Setup!Root(list)
             there == {q \in Setup!Roots : config[q] # None}
             before == {list[i] : i \in {j \in DOMAIN list : \A k \in 1..j : list[k] # r}}
  <1>1. /\ r # None /\ weights[r] # {} /\ pickStage' = "selected"
        /\ plan' = [before |-> before, root |-> r, step |-> Setup!Newest(r), by |-> r,
                    given |-> FALSE, path |-> None, conf |-> None, rep |-> None, stats |-> None]
        /\ UNCHANGED <<weights, config, stats>>
    BY DEF Setup!Select, Setup!disk
  <1>2. DOMAIN list \subseteq 1..3 /\ \A i \in DOMAIN list : list[i] \in Setup!Roots
    BY DEF Setup!Candidates, Setup!Roots
  <1>3. r = Setup!FirstOf(list, there)
    BY DEF Setup!Root
  <1> HIDE DEF list, r, there
  <1>4. PICK i \in DOMAIN list :
          /\ list[i] = r /\ r \in there
          /\ \A j \in DOMAIN list : j < i => list[j] \notin there
    BY <1>1, <1>2, <1>3, FirstIsFirst
  <1>5. \A q \in before : config[q] = None
    <2> SUFFICES ASSUME NEW j \in DOMAIN list, \A k \in 1..j : list[k] # r
                 PROVE  config[list[j]] = None
      OBVIOUS
    <2>1. i \in 1..3 /\ j \in 1..3 /\ i \notin 1..j
      BY <1>2, <1>4
    <2>2. j < i
      BY <2>1
    <2> QED BY <1>2, <1>4, <2>2 DEF there
  <1>6. \A n \in weights[r] : n <= Setup!Newest(r)
    BY <1>1, <1>4, NewestIsLargest DEF there
  <1> HIDE DEF before
  <1>7. /\ plan'.before = before /\ plan'.root = r /\ plan'.step = Setup!Newest(r)
        /\ DOMAIN plan' = {"before", "root", "step", "by", "given", "path", "conf", "rep", "stats"}
    BY <1>1
  <1> QED
    BY <1>1, <1>5, <1>6, <1>7 DEF SetupInv, SetupTypes, HasNewest, Selected, Configured, BoundTo

LEMMA ConfigureInv ==
  ASSUME NEW c, NEW p, SetupInv, Setup!Configure(c, p) PROVE SetupInv'
  <1> DEFINE by == Setup!ConfigOf(c)
             path == Setup!StatsOf(p, by)
             list == <<p, by, plan.root>>
             there == {q \in Setup!Places : stats[q] # None}
  <1>1. /\ pickStage = "selected" /\ pickStage' = "configured" /\ path # None
        /\ plan' = [plan EXCEPT !.by = by, !.given = (p # None), !.path = path]
        /\ UNCHANGED <<weights, config, stats, movedOn, rewritten>>
    BY DEF Setup!Configure, Setup!disk
  <1>2. path = Setup!FirstOf(list, there)
    BY DEF Setup!StatsOf
  <1>3. DOMAIN list \subseteq 1..3 /\ \A i \in DOMAIN list : list[i] \in {p, by, plan.root}
    OBVIOUS
  <1> HIDE DEF by, path, list, there
  <1>4. path \in {p, by, plan.root} /\ path \in Setup!Places
    <2>1. there \subseteq Setup!Places
      BY DEF there
    <2> QED BY <1>1, <1>2, <1>3, <2>1, FirstIsFirst
  <1>5. DOMAIN plan = {"before", "root", "step", "by", "given", "path", "conf", "rep", "stats"}
    BY <1>1 DEF SetupInv, Selected
  <1>6. /\ plan'.before = plan.before /\ plan'.root = plan.root /\ plan'.step = plan.step
        /\ plan'.by = by /\ plan'.given = (p # None) /\ plan'.path = path
        /\ DOMAIN plan' = DOMAIN plan
    BY <1>1, <1>5
  <1>7. /\ plan'.path \in Setup!Places
        /\ ~plan'.given => plan'.path \in {plan'.by, plan'.root}
    <2>1. Setup!Places' = Setup!Places
      BY DEF Setup!Places, Setup!Roots
    <2> QED BY <1>1, <1>4, <1>6, <2>1
  <1> QED
    BY <1>1, <1>5, <1>6, <1>7 DEF SetupInv, SetupTypes, HasNewest, Selected, Configured, BoundTo

LEMMA BindInv == ASSUME NEW rep, NEW sha, SetupInv, Setup!Bind(rep, sha) PROVE SetupInv'
  <1> DEFINE conf == config[plan.by]
             kind == Setup!RepOf(conf, rep)
  <1>1. /\ pickStage = "configured" /\ pickStage' = "bound" /\ stats[plan.path] # None
        /\ kind # None /\ Setup!Identified(conf, kind, sha)
        /\ plan' = [plan EXCEPT !.conf = conf, !.rep = kind, !.given = FALSE]
        /\ UNCHANGED <<weights, config, stats, movedOn, rewritten>>
    BY DEF Setup!Bind, Setup!disk
  <1>2. kind = IF conf.rep = None THEN "wuji20" ELSE conf.rep
    BY <1>1 DEF Setup!RepOf
  <1>3. /\ conf.sha # None => stats[plan.path] = conf.sha
        /\ conf.sha = None => kind # "mano45" /\ plan.path \in {plan.by, plan.root}
    BY <1>1 DEF Setup!Identified, SetupInv, Configured
  <1> HIDE DEF conf, kind
  <1>5. DOMAIN plan = {"before", "root", "step", "by", "given", "path", "conf", "rep", "stats"}
    BY <1>1 DEF SetupInv, Selected
  <1>6. /\ plan'.before = plan.before /\ plan'.root = plan.root /\ plan'.step = plan.step
        /\ plan'.by = plan.by /\ plan'.path = plan.path /\ plan'.conf = conf /\ plan'.rep = kind
        /\ DOMAIN plan' = DOMAIN plan
    BY <1>1, <1>5
  <1>7. conf = config[plan.by]
    BY DEF conf
  <1> QED
    BY <1>1, <1>2, <1>3, <1>5, <1>6, <1>7
    DEF SetupInv, SetupTypes, HasNewest, Selected, Configured, BoundTo

LEMMA LoadInv == ASSUME SetupInv, Setup!Load PROVE SetupInv'
  <1>1. /\ pickStage = "bound" /\ pickStage' = "serving"
        /\ plan' = [plan EXCEPT !.stats = stats[plan.path]]
        /\ UNCHANGED <<weights, config, stats, movedOn, rewritten>>
    BY DEF Setup!Load, Setup!disk
  <1>2. DOMAIN plan = {"before", "root", "step", "by", "given", "path", "conf", "rep", "stats"}
    BY <1>1 DEF SetupInv, Selected
  <1>3. /\ plan'.before = plan.before /\ plan'.root = plan.root /\ plan'.step = plan.step
        /\ plan'.by = plan.by /\ plan'.path = plan.path /\ plan'.conf = plan.conf
        /\ plan'.rep = plan.rep /\ plan'.stats = stats[plan.path] /\ DOMAIN plan' = DOMAIN plan
    BY <1>1, <1>2
  <1> QED
    BY <1>1, <1>2, <1>3 DEF SetupInv, SetupTypes, HasNewest, Selected, Configured, BoundTo

\* The constructor is somewhere before its last reading while the disk changes.
LEMMA DiskInv == ASSUME SetupInv, Setup!DiskNext PROVE SetupInv'
  <1> USE DEF SetupInv, SetupTypes, HasNewest
  <1>0. pickStage # "serving" /\ UNCHANGED <<pickStage, plan>>
    BY DEF Setup!DiskNext
  <1>1. ASSUME NEW r \in Setup!Roots, NEW rep \in Representations \cup {None},
               NEW c \in Contents, Setup!StartRun(r, rep, c)
        PROVE  SetupInv'
    <2>1. /\ config[r] = None /\ stats' = [stats EXCEPT ![r] = c] /\ weights' = weights
          /\ movedOn' = (pickStage # "down") /\ rewritten' = rewritten
          /\ DOMAIN config' = Setup!Roots /\ config'[r] # None
          /\ \A q \in Setup!Roots : q # r => config'[q] = config[q]
      BY <1>1, ConfigAssumption DEF Setup!StartRun, Setup!Config
    <2>2. \A q \in Setup!Places : q # r => stats'[q] = stats[q]
      BY <2>1
    <2>3. SetupTypes' /\ HasNewest'
      BY <2>1, <2>2 DEF Setup!Places
    <2>4. Selected' /\ Configured'
      BY <1>0, <2>1 DEF Selected, Configured
    <2>5. pickStage = "bound" /\ plan.conf.sha # None /\ ~rewritten => plan.path # r
      BY <2>1 DEF BoundTo
    <2>6. pickStage = "bound" /\ plan.path # r => stats'[plan.path] = stats[plan.path]
      BY <2>2 DEF Configured
    <2> QED BY <1>0, <2>1, <2>3, <2>4, <2>5, <2>6 DEF BoundTo
  <1>2. ASSUME NEW r \in Setup!Roots, NEW rep \in Representations, Setup!ResumeRun(r, rep)
        PROVE  SetupInv'
    <2>1. /\ UNCHANGED <<weights, stats, rewritten>> /\ movedOn' = (pickStage # "down")
          /\ DOMAIN config' = Setup!Roots
          /\ \A q \in Setup!Roots : config[q] # None => config'[q] # None
      BY <1>2, ConfigAssumption DEF Setup!ResumeRun, Setup!Config, Setup!Places
    <2> QED BY <1>0, <2>1 DEF Selected, Configured, BoundTo
  <1>3. ASSUME NEW r \in Setup!Roots, NEW n \in Steps, Setup!SaveStep(r, n) PROVE SetupInv'
    <2>1. /\ weights' = [weights EXCEPT ![r] = @ \cup {n}] /\ n \in Nat
          /\ UNCHANGED <<config, stats, rewritten>> /\ movedOn' = (pickStage # "down")
      BY <1>3, StepsAssumption DEF Setup!SaveStep
    <2>2. weights' \in [Setup!Roots -> SUBSET Nat]
      BY <2>1
    <2>3. HasNewest'
      <3> SUFFICES ASSUME NEW q \in Setup!Roots, weights'[q] # {}
                   PROVE  \E m \in weights'[q] : \A k \in weights'[q] : k <= m
        OBVIOUS
      <3>1. CASE q # r
        BY <2>1, <3>1
      <3>2. CASE q = r /\ weights[q] = {}
        BY <2>1, <3>2
      <3>3. CASE q = r /\ weights[q] # {}
        <4>1. PICK m \in weights[q] : \A k \in weights[q] : k <= m
          BY <3>3
        <4>2. weights'[q] = weights[q] \cup {n} /\ weights[q] \subseteq Nat
          BY <2>1, <3>3
        <4>3. CASE n <= m
          BY <4>1, <4>2, <4>3
        <4>4. CASE ~(n <= m)
          BY <2>1, <4>1, <4>2, <4>4
        <4> QED BY <4>3, <4>4
      <3> QED BY <3>1, <3>2, <3>3
    <2> QED BY <1>0, <2>1, <2>2, <2>3 DEF Selected, Configured, BoundTo
  <1>4. ASSUME NEW p \in Setup!Places, NEW c \in Contents \cup {None}, Setup!RewriteStats(p, c)
        PROVE  SetupInv'
    <2>1. /\ p \in Setup!Roots => config[p] # None
          /\ stats' = [stats EXCEPT ![p] = c] /\ UNCHANGED <<weights, config, movedOn>>
          /\ rewritten' = (rewritten \/ (pickStage = "bound" /\ plan.path = p))
      BY <1>4 DEF Setup!RewriteStats
    <2>2. SetupTypes' /\ HasNewest'
      BY <2>1 DEF Setup!Places
    <2>3. Selected' /\ Configured'
      BY <1>0, <2>1 DEF Selected, Configured
    <2>4. pickStage = "bound" /\ ~rewritten' => stats'[plan.path] = stats[plan.path]
      BY <2>1 DEF Configured
    <2> QED BY <1>0, <2>1, <2>2, <2>3, <2>4 DEF BoundTo
  <1> QED BY <1>1, <1>2, <1>3, <1>4 DEF Setup!DiskNext

LEMMA SetupStepInv ==
  ASSUME SetupInv, [Setup!SetupNext]_(Setup!setupVars) PROVE SetupInv'
  <1>1. CASE Setup!DiskNext
    BY <1>1, DiskInv
  <1>2. CASE \E explicit, isPath \in BOOLEAN : Setup!Select(explicit, isPath)
    BY <1>2, SelectInv
  <1>3. CASE \E c \in Setup!Roots \cup {None}, p \in Setup!Places \cup {None} : Setup!Configure(c, p)
    BY <1>3, ConfigureInv
  <1>4. CASE \E rep \in Representations \cup {None}, sha \in Contents \cup {None} :
               Setup!Bind(rep, sha)
    BY <1>4, BindInv
  <1>5. CASE Setup!Load
    BY <1>5, LoadInv
  <1>6. CASE Setup!Raise \/ Setup!StopServing
    BY <1>6
    DEF Setup!Raise, Setup!StopServing, Setup!disk, SetupInv, SetupTypes, HasNewest, Selected,
        Configured, BoundTo
  <1>7. CASE UNCHANGED Setup!setupVars
    BY <1>7
    DEF Setup!setupVars, SetupInv, SetupTypes, HasNewest, Selected, Configured, BoundTo
  <1> QED BY <1>1, <1>2, <1>3, <1>4, <1>5, <1>6, <1>7 DEF Setup!SetupNext

-----------------------------------------------------------------------------
(* The head camera.                                                        *)

\* The image kept its size, or was stretched together with its one matrix.
Kept == camera = source /\ ~(source.size # PolicySize /\ source.size \in Allowed)
Stretched ==
  /\ source.size # PolicySize /\ source.size \in Allowed
  /\ camera.size = PolicySize /\ camera.shape = PolicySize /\ camera.pose = source.pose
  /\ camera.k["intrinsic_matrix"] = source.k["intrinsic_matrix"]
  /\ \/ Camera!Bare(source) /\ camera.k["intrinsics"] = None
     \/ \E s \in Camera!Spellings :
          /\ Camera!Given(source) = {s}
          /\ camera.k["intrinsics"] =
               IF source.k[s] = source.size THEN PolicySize ELSE source.k[s]
CameraInv ==
  /\ camera \in Camera!Camera /\ source \in Camera!Camera
  /\ step \in {"received", "sized"} => source \in Camera!Sent
  /\ step = "received" => camera = source
  /\ step = "sized" => Kept \/ Stretched
  /\ Camera!PreparedIsConsistent

\* One spelling of the matrix.
LEMMA OneSpelling ==
  ASSUME NEW c \in Camera!Camera
  PROVE  Camera!Cardinality(Camera!Given(c)) = 1 <=>
           \E s \in Camera!Spellings : Camera!Given(c) = {s}
  <1>1. Camera!Cardinality(Camera!Given(c)) = Cardinality(Camera!Given(c))
    BY DEF Camera!Cardinality, Cardinality
  <1>2. Camera!Given(c) \subseteq Camera!Spellings
    BY DEF Camera!Given
  <1>3. IsFiniteSet(Camera!Given(c))
    <2>1. Camera!Spellings = {"intrinsics"} \cup {"intrinsic_matrix"}
      BY DEF Camera!Spellings
    <2>2. IsFiniteSet(Camera!Spellings)
      BY <2>1, FS_Singleton, FS_AddElement
    <2> QED BY <1>2, <2>2, FS_Subset
  <1> QED BY <1>1, <1>2, <1>3, FS_Singleton

LEMMA ResizeInv == ASSUME CameraInv, Camera!Resize PROVE CameraInv'
  <1>1. /\ step = "received" /\ camera = source /\ source \in Camera!Sent
        /\ camera.size # PolicySize /\ camera.size \in Allowed
    BY DEF CameraInv, Camera!Resize, Camera!NeedsResize
  <1>2. CASE ~Camera!Bare(camera) /\ ~Camera!Valid(camera)
    BY <1>2 DEF Camera!Resize, Camera!Refuse, CameraInv, Camera!PreparedIsConsistent
  <1>3. CASE ~(~Camera!Bare(camera) /\ ~Camera!Valid(camera))
    <2> DEFINE k == IF Camera!Bare(camera) THEN None
                    ELSE Camera!Rescaled(CHOOSE s \in Camera!Given(camera) : TRUE)
    <2>1. /\ camera' = [camera EXCEPT !.size = PolicySize, !.shape = PolicySize,
                                      !.k["intrinsics"] = k]
          /\ step' = "sized" /\ UNCHANGED source
      BY <1>3 DEF Camera!Resize
    <2>2. k \in Sizes \cup {None} /\
          \/ Camera!Bare(source) /\ k = None
          \/ \E s \in Camera!Spellings :
               /\ Camera!Given(source) = {s}
               /\ k = IF source.k[s] = source.size THEN PolicySize ELSE source.k[s]
      <3>1. CASE Camera!Bare(camera)
        BY <1>1, <3>1
      <3>2. CASE ~Camera!Bare(camera)
        <4>1. PICK t \in Camera!Spellings : Camera!Given(camera) = {t}
          BY <1>3, <3>2, OneSpelling DEF Camera!Valid, CameraInv
        <4>2. (CHOOSE s \in Camera!Given(camera) : TRUE) = t
          BY <4>1
        <4>3. k = IF camera.k[t] = camera.size THEN PolicySize ELSE camera.k[t]
          <5>1. k = Camera!Rescaled(CHOOSE s \in Camera!Given(camera) : TRUE)
            BY <3>2
          <5>2. k = Camera!Rescaled(t)
            BY <4>2, <5>1
          <5> QED BY <5>2 DEF Camera!Rescaled
        <4>4. camera.k[t] \in Sizes \cup {None} /\ PolicySize \in Sizes
          BY CameraAssumption DEF CameraInv, Camera!Camera
        <4> QED BY <1>1, <4>1, <4>3, <4>4
      <3> QED BY <3>1, <3>2
    <2> HIDE DEF k
    <2>3. /\ camera' \in Camera!Camera /\ camera'.size = PolicySize /\ camera'.shape = PolicySize
          /\ camera'.pose = camera.pose /\ camera'.k["intrinsics"] = k
          /\ camera'.k["intrinsic_matrix"] = camera.k["intrinsic_matrix"]
      BY <2>1, <2>2, CameraAssumption DEF CameraInv, Camera!Camera, Camera!Spellings
    <2>4. Stretched'
      BY <1>1, <2>1, <2>2, <2>3 DEF Stretched, Camera!Bare, Camera!Given
    <2> QED BY <1>1, <2>1, <2>3, <2>4 DEF CameraInv, Camera!PreparedIsConsistent
  <1> QED BY <1>2, <1>3

LEMMA PrepareInv == ASSUME CameraInv, Camera!Prepare PROVE CameraInv'
  <1>1. /\ step = "sized" /\ source \in Camera!Sent /\ (Kept \/ Stretched)
        /\ camera \in Camera!Camera /\ source \in Camera!Camera
    BY DEF CameraInv, Camera!Prepare
  <1>2. CASE step' = "refused"
    BY <1>2 DEF Camera!Prepare, Camera!Refuse, CameraInv, Camera!PreparedIsConsistent
  <1>3. camera.size = IF source.size \in Allowed THEN PolicySize ELSE source.size
    BY <1>1 DEF Kept, Stretched
  <1>4. CASE ~Camera!Bare(camera) /\ step' # "refused"
    <2>1. Camera!Valid(camera) /\ step' = "prepared" /\ UNCHANGED <<camera, source, envMode, scope>>
      BY <1>4 DEF Camera!Prepare, Camera!Refuse
    <2>2. PICK t \in Camera!Spellings : Camera!Given(camera) = {t}
      BY <1>1, <2>1, OneSpelling DEF Camera!Valid
    <2>3. (CHOOSE x \in Camera!Given(camera) : TRUE) = t
      BY <2>2
    <2>4. camera.pose # "profile" /\ camera.pose = source.pose
      <3>1. source.pose # "profile"
        BY <1>1 DEF Camera!Sent
      <3>2. camera.pose = source.pose
        BY <1>1 DEF Kept, Stretched
      <3> QED BY <3>1, <3>2
    <2>5. t \in Camera!Given(source)
          /\ (source.k[t] = source.size => camera.k[t] = camera.size)
      <3>1. CASE Kept
        BY <2>2, <3>1 DEF Kept
      <3>2. CASE Stretched
        <4>1. PICK s \in Camera!Spellings :
                /\ Camera!Given(source) = {s}
                /\ camera.k["intrinsics"] =
                     IF source.k[s] = source.size THEN PolicySize ELSE source.k[s]
          BY <1>4, <3>2 DEF Stretched, Camera!Bare, Camera!Given, Camera!Spellings
        <4>2. source.k[s] # None /\ camera.k["intrinsics"] # None
          BY <4>1, CameraAssumption DEF Camera!Given
        <4>3. t = "intrinsics"
          BY <2>2, <4>2 DEF Camera!Given, Camera!Spellings
        <4>4. s # "intrinsic_matrix"
          BY <2>2, <3>2, <4>2, <4>3 DEF Camera!Given, Camera!Spellings, Stretched
        <4>5. s = t
          BY <4>3, <4>4 DEF Camera!Spellings
        <4> QED BY <3>2, <4>1, <4>3, <4>5 DEF Stretched
      <3> QED BY <1>1, <3>1, <3>2
    <2>6. Camera!PreparedIsConsistent'
      <3>1. Camera!Given(camera)' = Camera!Given(camera) /\ Camera!Given(source)' = Camera!Given(source)
        BY <2>1 DEF Camera!Given
      <3>2. /\ Camera!Cardinality(Camera!Given(camera)) = 1 /\ camera.pose # None
            /\ camera.shape \in {None, camera.size}
        BY <2>1 DEF Camera!Valid
      <3> QED BY <1>3, <2>1, <2>3, <2>4, <2>5, <3>1, <3>2 DEF Camera!PreparedIsConsistent
    <2> QED BY <1>1, <2>1, <2>6 DEF CameraInv
  <1>5. CASE Camera!Bare(camera) /\ step' # "refused"
    <2>1. /\ Camera!AllowFallback /\ camera.size \in Allowed
          /\ camera' = [camera EXCEPT !.shape = camera.size, !.pose = "profile",
                                      !.k["intrinsics"] = camera.size]
          /\ step' = "prepared" /\ UNCHANGED <<source, envMode, scope>>
      BY <1>5 DEF Camera!Prepare, Camera!Refuse
    <2>2. camera.size \in Sizes /\ camera.size # None /\ "profile" # None
      BY <1>1, CameraAssumption DEF Camera!Camera
    <2>3. /\ camera' \in Camera!Camera /\ camera'.shape = camera.size /\ camera'.pose = "profile"
          /\ camera'.size = camera.size /\ camera'.k["intrinsics"] = camera.size
          /\ camera'.k["intrinsic_matrix"] = camera.k["intrinsic_matrix"]
      BY <1>1, <2>1, <2>2 DEF Camera!Camera, Camera!Spellings
    <2>4. Camera!Given(camera') = {"intrinsics"}
      BY <1>5, <2>2, <2>3 DEF Camera!Given, Camera!Spellings, Camera!Bare
    <2>5. Camera!Cardinality(Camera!Given(camera')) = 1
      BY <2>3, <2>4, OneSpelling DEF Camera!Spellings
    <2>6. (CHOOSE x \in Camera!Given(camera') : TRUE) = "intrinsics"
      BY <2>4
    <2>7. Camera!Given(source) = {}
      <3>1. CASE Kept
        BY <1>5, <3>1 DEF Kept, Camera!Bare
      <3>2. CASE Stretched
        <4>1. ASSUME NEW s \in Camera!Spellings, Camera!Given(source) = {s},
                     camera.k["intrinsics"] =
                       IF source.k[s] = source.size THEN PolicySize ELSE source.k[s]
              PROVE  FALSE
          <5>1. camera.k["intrinsics"] # None
            BY <4>1, CameraAssumption DEF Camera!Given
          <5> QED BY <1>5, <5>1 DEF Camera!Bare, Camera!Given, Camera!Spellings
        <4> QED BY <3>2, <4>1 DEF Stretched, Camera!Bare
      <3> QED BY <1>1, <3>1, <3>2
    <2>8. Camera!PreparedIsConsistent'
      <3>1. envMode # "real_world" /\ scope # "runtime"
        BY <2>1 DEF Camera!AllowFallback
      <3> QED BY <1>3, <2>1, <2>2, <2>3, <2>5, <2>6, <2>7, <3>1 DEF Camera!PreparedIsConsistent
    <2> QED BY <1>1, <2>1, <2>3, <2>8 DEF CameraInv
  <1> QED BY <1>2, <1>4, <1>5

LEMMA CameraStepInv ==
  ASSUME CameraInv, [Camera!CameraNext]_(Camera!cameraVars) PROVE CameraInv'
  <1>0. Camera!NoCamera \in Camera!Camera
    BY CameraAssumption DEF Camera!NoCamera, Camera!Camera
  <1>1. ASSUME NEW c \in Camera!Sent, Camera!Receive(c) PROVE CameraInv'
    BY <1>1 DEF Camera!Receive, Camera!Sent, CameraInv, Camera!PreparedIsConsistent
  <1>2. CASE Camera!Unusable
    BY <1>2 DEF Camera!Unusable, Camera!Refuse, CameraInv, Camera!PreparedIsConsistent
  <1>3. CASE Camera!Resize
    BY <1>3, ResizeInv
  <1>4. CASE Camera!KeepSize
    BY <1>4
    DEF Camera!KeepSize, Camera!NeedsResize, CameraInv, Kept, Camera!PreparedIsConsistent
  <1>5. CASE Camera!Prepare
    BY <1>5, PrepareInv
  <1>6. CASE Camera!Done
    BY <1>0, <1>6 DEF Camera!Done, CameraInv, Camera!PreparedIsConsistent
  <1>7. CASE UNCHANGED Camera!cameraVars
    BY <1>7
    DEF Camera!cameraVars, CameraInv, Kept, Stretched, Camera!PreparedIsConsistent, Camera!Given,
        Camera!Bare
  <1> QED BY <1>1, <1>2, <1>3, <1>4, <1>5, <1>6, <1>7 DEF Camera!CameraNext

\* Whatever runs are started or go on and whatever statistics are rewritten while
\* a server starts, and whatever its deployment names: the model that is served
\* is of the first root with its newest checkpoint and the configuration it
\* reads, unless a run moved on meanwhile, in the representation that configuration
\* declares, and normalized by the statistics it recorded, unless those were
\* rewritten between their comparison and their reading.  And whatever an
\* observation brings along, its camera is refused or consistent.
THEOREM InputsAlwaysConsistent == ServingSpec => []InputsAreConsistent
  <1>1. ServingInit => SetupInv
    <2> SUFFICES ASSUME ServingInit PROVE SetupInv
      OBVIOUS
    <2>1. /\ weights = [r \in Setup!Roots |-> {}] /\ config = [r \in Setup!Roots |-> None]
          /\ stats = [p \in Setup!Places |-> None] /\ pickStage = "down"
      BY DEF ServingInit, Setup!SetupInit
    <2>2. SetupTypes /\ HasNewest
      BY <2>1 DEF SetupTypes, HasNewest, Setup!Places
    <2>3. Selected /\ Configured /\ BoundTo
      BY <2>1 DEF Selected, Configured, BoundTo
    <2> QED BY <2>2, <2>3 DEF SetupInv
  <1>2. SetupInv /\ [ServingNext]_servingVars => SetupInv'
    BY PartSteps, SetupStepInv
  <1>3. ServingInit => CameraInv
    <2>1. Camera!NoCamera \in Camera!Camera
      BY CameraAssumption DEF Camera!NoCamera, Camera!Camera
    <2> QED BY <2>1 DEF ServingInit, Camera!CameraInit, CameraInv, Camera!PreparedIsConsistent
  <1>4. CameraInv /\ [ServingNext]_servingVars => CameraInv'
    BY PartSteps, CameraStepInv
  <1>5. SetupInv /\ CameraInv => InputsAreConsistent
    BY ServedFollows DEF CameraInv, InputsAreConsistent
  <1> QED BY <1>1, <1>2, <1>3, <1>4, <1>5, PTL DEF ServingSpec

-----------------------------------------------------------------------------
(* The legacy transport.                                                   *)

Connected == sock # 0
\* The connections: one at a time, the client's the latest, the others closed.
LegacyTypes ==
  /\ call \in 0..NCalls /\ opened \in Nat /\ sock \in {0, opened}
  /\ inbox \in [Legacy!Conns -> Seq(Legacy!Calls)]
  /\ outbox \in [Legacy!Conns -> Seq(Legacy!Calls \cup {Legacy!Error})]
  /\ DOMAIN thread = Legacy!Conns /\ serving \in [Legacy!Conns -> Nat]
  /\ ran \in Seq(Legacy!Calls) /\ DOMAIN got = Legacy!Calls
OneSocket ==
  /\ closed = 1..opened \ {sock}
  /\ \A c \in Legacy!Conns :
       c > opened => thread[c] = "none" /\ inbox[c] = <<>> /\ outbox[c] = <<>>
\* A call opens one connection at most.
OnePerCall ==
  /\ opened <= call + 1
  /\ caller = "connecting" => opened <= call /\ sock = 0 /\ (call # 0 => retried)
  /\ caller = "receiving" => sock # 0 /\ call # 0 /\ (~retried => opened <= call)
\* On the client's connection only the call under way is anywhere.
Quiet(c) == inbox[c] = <<>> /\ outbox[c] = <<>> /\ thread[c] \in {"reading", "ended"}
OnTheWay(c) ==
  \/ inbox[c] = <<call>> /\ outbox[c] = <<>> /\ thread[c] \in {"reading", "ended"}
  \/ inbox[c] = <<>> /\ outbox[c] = <<>> /\ thread[c] = "executing" /\ serving[c] = call
  \/ /\ inbox[c] = <<>> /\ outbox[c] \in {<<call>>, <<Legacy!Error>>}
     /\ thread[c] \in {"reading", "ended"}
OneInFlight ==
  /\ caller = "receiving" => OnTheWay(sock)
  /\ caller \in {"idle", "done"} /\ sock # 0 => Quiet(sock)
  /\ caller \in {"connecting", "idle", "receiving", "done"}
\* The requests of k that wait on a connection, and the executions of k.
Waiting(k) == {c \in Legacy!Conns : inbox[c] # <<>> /\ Head(inbox[c]) = k}
Executions(k) == {i \in DOMAIN ran : ran[i] = k}
Requests(k) ==
  IF k > call THEN 0
  ELSE IF k = call /\ (caller = "connecting" \/ (caller = "receiving" /\ ~retried)) THEN 1
  ELSE 2
\* A call runs as often as it was sent, less what still waits.
RunsAreSent ==
  /\ \A c \in Legacy!Conns : Len(inbox[c]) <= 1
  /\ \A k \in Legacy!Calls :
       /\ IsFiniteSet(Waiting(k)) /\ IsFiniteSet(Executions(k))
       /\ Cardinality(Waiting(k)) + Cardinality(Executions(k)) <= Requests(k)
LegacyInv ==
  LegacyTypes /\ OneSocket /\ OnePerCall /\ OneInFlight /\ RunsAreSent /\ Legacy!OwnAnswer

\* A sequence of one element at most that is not empty.
LEMMA OneElement ==
  ASSUME NEW S, NEW s \in Seq(S), s # <<>>, Len(s) <= 1
  PROVE  \E x \in S : s = <<x>>
  <1>1. Len(s) \in Nat /\ Len(s) # 0
    BY EmptySeq
  <1>2. Len(s) = 1
    BY <1>1
  <1>3. 1 \in 1..Len(s)
    BY <1>2
  <1>4. s[1] \in S
    BY <1>3, ElementOfSeq
  <1>5. s = <<s[1]>>
    BY <1>2, <1>4
  <1> QED BY <1>4, <1>5

\* A request that was sent counts once.
LEMMA SentOnce ==
  ASSUME LegacyInv, NEW c \in Legacy!Conns, NEW k \in Legacy!Calls, inbox[c] = <<>>,
         inbox' = [inbox EXCEPT ![c] = Append(@, k)], ran' = ran,
         \A j \in Legacy!Calls :
           Requests(j)' >= IF j = k THEN Requests(j) + 1 ELSE Requests(j)
  PROVE  RunsAreSent'
  <1>1. /\ inbox'[c] = <<k>> /\ \A d \in Legacy!Conns : d # c => inbox'[d] = inbox[d]
    BY DEF LegacyInv, LegacyTypes
  <1>2. \A d \in Legacy!Conns : Len(inbox'[d]) <= 1
    BY <1>1 DEF LegacyInv, RunsAreSent
  <1>3. ASSUME NEW j \in Legacy!Calls
        PROVE  /\ IsFiniteSet(Waiting(j)') /\ IsFiniteSet(Executions(j)')
               /\ Cardinality(Waiting(j)') + Cardinality(Executions(j)') <= Requests(j)'
    <2>1. /\ IsFiniteSet(Waiting(j)) /\ IsFiniteSet(Executions(j))
          /\ Cardinality(Waiting(j)) + Cardinality(Executions(j)) <= Requests(j)
          /\ Requests(j) \in Nat /\ Requests(j)' \in Nat
      BY DEF LegacyInv, RunsAreSent, Requests
    <2>2. Cardinality(Waiting(j)) \in Nat /\ Cardinality(Executions(j)) \in Nat
      BY <2>1, FS_CardinalityType
    <2>3. Executions(j)' = Executions(j)
      BY DEF Executions
    <2>4. CASE j = k
      <3>1. Waiting(j)' = Waiting(j) \cup {c} /\ c \notin Waiting(j)
        BY <1>1, <2>4 DEF Waiting
      <3>2. /\ IsFiniteSet(Waiting(j) \cup {c})
            /\ Cardinality(Waiting(j) \cup {c}) = Cardinality(Waiting(j)) + 1
        BY <2>1, <3>1, FS_AddElement
      <3> QED BY <2>1, <2>2, <2>3, <2>4, <3>1, <3>2
    <2>5. CASE j # k
      <3>1. Waiting(j)' = Waiting(j)
        BY <1>1, <2>5 DEF Waiting
      <3> QED BY <2>1, <2>2, <2>3, <2>5, <3>1
    <2> QED BY <2>4, <2>5
  <1> QED BY <1>2, <1>3 DEF RunsAreSent

LEMMA CountsKept ==
  ASSUME LegacyInv, inbox' = inbox, ran' = ran,
         \A j \in Legacy!Calls : Requests(j)' >= Requests(j)
  PROVE  RunsAreSent'
  <1>1. ASSUME NEW j \in Legacy!Calls
        PROVE  /\ IsFiniteSet(Waiting(j)') /\ IsFiniteSet(Executions(j)')
               /\ Cardinality(Waiting(j)') + Cardinality(Executions(j)') <= Requests(j)'
    <2>1. /\ IsFiniteSet(Waiting(j)) /\ IsFiniteSet(Executions(j))
          /\ Cardinality(Waiting(j)) + Cardinality(Executions(j)) <= Requests(j)
          /\ Requests(j) \in Nat /\ Requests(j)' \in Nat
      BY DEF LegacyInv, RunsAreSent, Requests
    <2>2. Cardinality(Waiting(j)) \in Nat /\ Cardinality(Executions(j)) \in Nat
      BY <2>1, FS_CardinalityType
    <2>3. Executions(j)' = Executions(j) /\ Waiting(j)' = Waiting(j)
      BY DEF Executions, Waiting
    <2> QED BY <2>1, <2>2, <2>3
  <1> QED BY <1>1 DEF RunsAreSent, LegacyInv

\* A request that is executed waits no longer.
LEMMA ExecutedOnce ==
  ASSUME LegacyInv, NEW c \in Legacy!Conns, Legacy!Execute(c)
  PROVE  RunsAreSent'
  <1>1. PICK k \in Legacy!Calls : inbox[c] = <<k>>
    <2>1. inbox[c] \in Seq(Legacy!Calls) /\ inbox[c] # <<>> /\ Len(inbox[c]) <= 1
      BY DEF LegacyInv, LegacyTypes, RunsAreSent, Legacy!Execute
    <2> QED BY <2>1, OneElement
  <1>2. /\ inbox'[c] = <<>> /\ \A d \in Legacy!Conns : d # c => inbox'[d] = inbox[d]
    BY <1>1 DEF Legacy!Execute, LegacyInv, LegacyTypes
  <1>3. ran \in Seq(Legacy!Calls) /\ ran' = Append(ran, k)
    BY <1>1 DEF Legacy!Execute, LegacyInv, LegacyTypes
  <1>4. \A d \in Legacy!Conns : Len(inbox'[d]) <= 1
    BY <1>2 DEF LegacyInv, RunsAreSent
  <1>5. ASSUME NEW j \in Legacy!Calls
        PROVE  /\ IsFiniteSet(Waiting(j)') /\ IsFiniteSet(Executions(j)')
               /\ Cardinality(Waiting(j)') + Cardinality(Executions(j)') <= Requests(j)'
    <2>1. /\ IsFiniteSet(Waiting(j)) /\ IsFiniteSet(Executions(j))
          /\ Cardinality(Waiting(j)) + Cardinality(Executions(j)) <= Requests(j)
          /\ Requests(j) \in Nat /\ Requests(j)' = Requests(j)
      BY DEF LegacyInv, RunsAreSent, Requests, Legacy!Execute
    <2>2. Cardinality(Waiting(j)) \in Nat /\ Cardinality(Executions(j)) \in Nat
      BY <2>1, FS_CardinalityType
    <2>3. CASE j = k
      <3>1. Waiting(j)' = Waiting(j) \ {c} /\ c \in Waiting(j)
        <4>1. inbox[c] # <<>> /\ Head(inbox[c]) = j
          BY <1>1, <2>3
        <4>2. \A d \in Legacy!Conns : d \in Waiting(j)' <=> d \in Waiting(j) /\ d # c
          BY <1>2 DEF Waiting
        <4> QED BY <4>1, <4>2 DEF Waiting
      <3>2. /\ IsFiniteSet(Waiting(j) \ {c})
            /\ Cardinality(Waiting(j) \ {c}) = Cardinality(Waiting(j)) - 1
        BY <2>1, <3>1, FS_RemoveElement
      <3>3. Executions(j)' = Executions(j) \cup {Len(ran) + 1} /\ Len(ran) + 1 \notin Executions(j)
        BY <1>3, <2>3 DEF Executions
      <3>4. /\ IsFiniteSet(Executions(j) \cup {Len(ran) + 1})
            /\ Cardinality(Executions(j) \cup {Len(ran) + 1}) = Cardinality(Executions(j)) + 1
        BY <2>1, <3>3, FS_AddElement
      <3> QED BY <2>1, <2>2, <3>1, <3>2, <3>3, <3>4
    <2>4. CASE j # k
      <3>1. Waiting(j)' = Waiting(j)
        BY <1>1, <1>2, <2>4 DEF Waiting
      <3>2. Executions(j)' = Executions(j)
        BY <1>3, <2>4 DEF Executions
      <3> QED BY <2>1, <2>2, <3>1, <3>2
    <2> QED BY <2>3, <2>4
  <1> QED BY <1>4, <1>5 DEF RunsAreSent

LEMMA ConnectInv == ASSUME LegacyInv, Legacy!Connect PROVE LegacyInv'
  <1> DEFINE c == opened + 1
  <1>1. /\ caller = "connecting" /\ sock = 0 /\ opened \in Nat /\ opened <= call /\ call <= NCalls
        /\ call \in Nat /\ (call # 0 => retried)
    BY CallsAssumption DEF LegacyInv, LegacyTypes, OnePerCall, Legacy!Connect
  <1>2. /\ c \in Legacy!Conns /\ c > opened /\ c \in Nat /\ c # 0
        /\ inbox[c] = <<>> /\ outbox[c] = <<>>
    BY <1>1, CallsAssumption DEF LegacyInv, OneSocket, Legacy!Conns
  <1>3. /\ opened' = c /\ sock' = c /\ thread' = [thread EXCEPT ![c] = "reading"]
        /\ UNCHANGED <<call, retried, closed, outbox, serving, ran, got>>
        /\ IF call = 0 THEN caller' = "idle" /\ inbox' = inbox
           ELSE inbox' = [inbox EXCEPT ![c] = Append(@, call)] /\ caller' = "receiving"
    BY DEF Legacy!Connect, Legacy!Send
  <1> HIDE DEF c
  <1>4. closed' = 1..opened' \ {sock'} /\ closed = 1..opened
    BY <1>1, <1>2, <1>3 DEF LegacyInv, OneSocket, c
  <1>5. /\ thread'[c] = "reading"
        /\ \A d \in Legacy!Conns : d # c => thread'[d] = thread[d] /\ inbox'[d] = inbox[d]
        /\ inbox'[c] = IF call = 0 THEN <<>> ELSE <<call>>
    BY <1>2, <1>3 DEF LegacyInv, LegacyTypes
  <1>6. OneSocket'
    <2>1. \A d \in Legacy!Conns : d > c => d # c /\ d > opened
      BY <1>1, <1>2 DEF Legacy!Conns
    <2> QED BY <1>3, <1>4, <1>5, <2>1 DEF LegacyInv, OneSocket
  <1>7. CASE call = 0
    <2>1. LegacyTypes'
      BY <1>2, <1>3, <1>7 DEF LegacyInv, LegacyTypes
    <2>2. OnePerCall'
      BY <1>1, <1>3, <1>7 DEF OnePerCall, c
    <2>3. OneInFlight'
      BY <1>2, <1>3, <1>5, <1>7 DEF OneInFlight, Quiet
    <2>4. RunsAreSent'
      <3>1. \A j \in Legacy!Calls : Requests(j)' >= Requests(j)
        BY <1>3, <1>7 DEF Requests, Legacy!Calls
      <3> QED BY <1>3, <1>7, <3>1, CountsKept
    <2> QED BY <1>3, <1>6, <2>1, <2>2, <2>3, <2>4 DEF LegacyInv, Legacy!OwnAnswer
  <1>8. CASE call # 0
    <2>0. call \in Legacy!Calls
      BY <1>1, <1>8 DEF Legacy!Calls
    <2>1. LegacyTypes'
      <3>1. inbox' = [inbox EXCEPT ![c] = <<call>>] /\ <<call>> \in Seq(Legacy!Calls)
        BY <1>2, <1>3, <1>8, <2>0
      <3>2. inbox' \in [Legacy!Conns -> Seq(Legacy!Calls)]
        BY <3>1 DEF LegacyInv, LegacyTypes
      <3> QED BY <1>2, <1>3, <3>2 DEF LegacyInv, LegacyTypes
    <2>2. OnePerCall'
      BY <1>1, <1>2, <1>3, <1>8 DEF OnePerCall, c
    <2>3. OneInFlight'
      BY <1>2, <1>3, <1>5, <1>8 DEF OneInFlight, OnTheWay
    <2>4. RunsAreSent'
      <3>1. \A j \in Legacy!Calls :
              Requests(j)' >= IF j = call THEN Requests(j) + 1 ELSE Requests(j)
        BY <1>1, <1>3, <1>8 DEF Requests, Legacy!Calls
      <3> QED BY <1>2, <1>3, <1>8, <2>0, <3>1, SentOnce
    <2> QED BY <1>3, <1>6, <2>1, <2>2, <2>3, <2>4 DEF LegacyInv, Legacy!OwnAnswer
  <1> QED BY <1>7, <1>8

\* The caller is told that its call failed; the connection is gone.
LEMMA GiveUpInv ==
  ASSUME LegacyInv, Legacy!GiveUp, sock' = 0, closed' = closed \cup ({sock} \ {0}),
         UNCHANGED <<call, opened, outbox, thread, serving, ran>>
  PROVE  LegacyInv'
  <1>1. /\ inbox' = inbox /\ got' = [k \in Legacy!Calls |-> IF k = call THEN <<"raised">> ELSE got[k]]
        /\ caller' \in {"idle", "done"}
    BY DEF Legacy!GiveUp
  <1>2. LegacyTypes'
    BY <1>1 DEF LegacyInv, LegacyTypes
  <1>3. OneSocket'
    <2>1. closed' = 1..opened
      BY DEF LegacyInv, OneSocket, LegacyTypes
    <2> QED BY <1>1, <2>1 DEF LegacyInv, OneSocket
  <1>4. OnePerCall' /\ OneInFlight'
    BY <1>1 DEF LegacyInv, OnePerCall, OneInFlight
  <1>5. RunsAreSent'
    <2>1. \A j \in Legacy!Calls : Requests(j)' >= Requests(j)
      BY <1>1 DEF Requests
    <2> QED BY <1>1, <2>1, CountsKept
  <1>6. Legacy!OwnAnswer'
    BY <1>1 DEF LegacyInv, Legacy!OwnAnswer
  <1> QED BY <1>2, <1>3, <1>4, <1>5, <1>6 DEF LegacyInv

LEMMA ConnectFailsInv == ASSUME LegacyInv, Legacy!ConnectFails PROVE LegacyInv'
  <1>1. sock = 0 /\ sock' = 0 /\ closed' = closed
        /\ UNCHANGED <<call, retried, opened, outbox, thread, serving, ran>>
    BY DEF LegacyInv, OnePerCall, Legacy!ConnectFails
  <1>2. CASE UNCHANGED <<caller, got, inbox>>
    BY <1>1, <1>2, CountsKept
    DEF LegacyInv, LegacyTypes, OneSocket, OnePerCall, OneInFlight, Quiet, OnTheWay, Requests,
        Legacy!OwnAnswer, RunsAreSent, Waiting, Executions
  <1>3. CASE Legacy!GiveUp
    BY <1>1, <1>3, GiveUpInv
  <1> QED BY <1>2, <1>3 DEF Legacy!ConnectFails

LEMMA CallInv == ASSUME LegacyInv, Legacy!Call PROVE LegacyInv'
  <1>1. /\ caller = "idle" /\ call \in Nat /\ call < NCalls /\ call' = call + 1
        /\ call + 1 \in Legacy!Calls /\ opened \in Nat /\ opened <= call + 1
        /\ UNCHANGED <<sock, opened, closed, outbox, thread, serving, ran, got>>
    BY CallsAssumption
    DEF LegacyInv, LegacyTypes, OnePerCall, Legacy!Call, Legacy!Calls
  <1>2. CASE sock # 0
    <2>1. /\ inbox' = [inbox EXCEPT ![sock] = Append(@, call + 1)] /\ caller' = "receiving"
          /\ retried' = FALSE
      BY <1>2 DEF Legacy!Call, Legacy!Send
    <2>2. /\ sock = opened /\ sock \in Legacy!Conns /\ Quiet(sock)
      BY <1>1, <1>2, CallsAssumption DEF LegacyInv, LegacyTypes, OneInFlight, Legacy!Conns
    <2>3. /\ inbox'[sock] = <<call + 1>>
          /\ \A d \in Legacy!Conns : d # sock => inbox'[d] = inbox[d]
      BY <2>1, <2>2 DEF LegacyInv, LegacyTypes, Quiet
    <2>4. LegacyTypes'
      <3>1. inbox' \in [Legacy!Conns -> Seq(Legacy!Calls)]
        BY <1>1, <2>1, <2>2 DEF LegacyInv, LegacyTypes
      <3> QED BY <1>1, <3>1, CallsAssumption DEF LegacyInv, LegacyTypes
    <2>5. OneSocket'
      BY <1>1, <2>2, <2>3 DEF LegacyInv, OneSocket
    <2>6. OnePerCall'
      BY <1>1, <1>2, <2>1 DEF OnePerCall
    <2>7. OneInFlight'
      BY <1>1, <2>1, <2>2, <2>3 DEF OneInFlight, Quiet, OnTheWay
    <2>8. RunsAreSent'
      <3>1. \A j \in Legacy!Calls :
              Requests(j)' >= IF j = call + 1 THEN Requests(j) + 1 ELSE Requests(j)
        BY <1>1, <2>1 DEF Requests, Legacy!Calls
      <3>2. inbox[sock] = <<>>
        BY <2>2 DEF Quiet
      <3> QED BY <1>1, <2>1, <2>2, <3>1, <3>2, SentOnce
    <2> QED BY <1>1, <2>4, <2>5, <2>6, <2>7, <2>8 DEF LegacyInv, Legacy!OwnAnswer
  <1>3. CASE sock = 0
    <2>1. caller' = "connecting" /\ retried' = TRUE /\ inbox' = inbox
      BY <1>3 DEF Legacy!Call
    <2>2. LegacyTypes'
      BY <1>1, <2>1, CallsAssumption DEF LegacyInv, LegacyTypes
    <2>3. OneSocket' /\ OneInFlight'
      BY <1>1, <2>1 DEF LegacyInv, OneSocket, OneInFlight
    <2>4. OnePerCall'
      BY <1>1, <1>3, <2>1 DEF OnePerCall
    <2>5. RunsAreSent'
      <3>1. \A j \in Legacy!Calls : Requests(j)' >= Requests(j)
        BY <1>1, <2>1 DEF Requests, Legacy!Calls
      <3> QED BY <1>1, <2>1, <3>1, CountsKept
    <2> QED BY <1>1, <2>2, <2>3, <2>4, <2>5 DEF LegacyInv, Legacy!OwnAnswer
  <1> QED BY <1>2, <1>3

LEMMA ReceiveInv == ASSUME LegacyInv, Legacy!Receive PROVE LegacyInv'
  <1>1. /\ caller = "receiving" /\ outbox[sock] # <<>> /\ caller' = "idle"
        /\ got' = [got EXCEPT ![call] = Legacy!Outcome(Head(outbox[sock]))]
        /\ outbox' = [outbox EXCEPT ![sock] = Tail(@)]
        /\ UNCHANGED <<call, retried, sock, opened, closed, inbox, thread, serving, ran>>
    BY DEF Legacy!Receive
  <1>2. /\ sock = opened /\ sock \in Legacy!Conns /\ sock # 0 /\ call \in Legacy!Calls
        /\ opened <= call + 1
    BY <1>1, CallsAssumption
    DEF LegacyInv, LegacyTypes, OnePerCall, Legacy!Conns, Legacy!Calls
  <1>3. /\ inbox[sock] = <<>> /\ outbox[sock] \in {<<call>>, <<Legacy!Error>>}
        /\ thread[sock] \in {"reading", "ended"}
    BY <1>1 DEF LegacyInv, OneInFlight, OnTheWay
  <1>4. Tail(outbox[sock]) = <<>> /\ Head(outbox[sock]) \in {call, Legacy!Error}
    <2>1. CASE outbox[sock] = <<call>>
      BY <2>1
    <2>2. CASE outbox[sock] = <<Legacy!Error>>
      BY <2>2
    <2> QED BY <1>3, <2>1, <2>2
  <1>5. /\ outbox'[sock] = <<>> /\ \A d \in Legacy!Conns : d # sock => outbox'[d] = outbox[d]
        /\ outbox' \in [Legacy!Conns -> Seq(Legacy!Calls \cup {Legacy!Error})]
    BY <1>1, <1>2, <1>4 DEF LegacyInv, LegacyTypes
  <1>6. LegacyTypes'
    BY <1>1, <1>5 DEF LegacyInv, LegacyTypes
  <1>7. OneSocket'
    BY <1>1, <1>5 DEF LegacyInv, OneSocket
  <1>8. OnePerCall'
    BY <1>1, <1>2 DEF OnePerCall
  <1>9. OneInFlight'
    BY <1>1, <1>3, <1>5 DEF OneInFlight, Quiet
  <1>10. RunsAreSent'
    <2>1. \A j \in Legacy!Calls : Requests(j)' >= Requests(j)
      BY <1>1 DEF Requests
    <2> QED BY <1>1, <2>1, CountsKept
  <1>11. Legacy!OwnAnswer'
    <2>1. got'[call] \in {<<"None">>, <<"result", call>>}
      BY <1>1, <1>2, <1>4 DEF Legacy!Outcome, LegacyInv, LegacyTypes
    <2>2. \A k \in Legacy!Calls : k # call => got'[k] = got[k]
      BY <1>1 DEF LegacyInv, LegacyTypes
    <2> QED BY <2>1, <2>2 DEF LegacyInv, Legacy!OwnAnswer
  <1> QED BY <1>6, <1>7, <1>8, <1>9, <1>10, <1>11 DEF LegacyInv

LEMMA ReceiveFailsInv == ASSUME LegacyInv, Legacy!ReceiveFails PROVE LegacyInv'
  <1>1. /\ caller = "receiving" /\ closed' = closed \cup {sock} /\ sock' = 0
        /\ Legacy!AfterFailure
        /\ UNCHANGED <<call, opened, outbox, thread, serving, ran>>
    BY DEF Legacy!ReceiveFails, Legacy!Failed
  <1>2. sock # 0 /\ sock = opened /\ call # 0 /\ (~retried => opened <= call)
    BY <1>1 DEF LegacyInv, LegacyTypes, OnePerCall
  <1>3. CASE retried
    BY <1>1, <1>2, <1>3, GiveUpInv DEF Legacy!AfterFailure, Legacy!MayRetry
  <1>4. CASE ~retried
    <2>1. caller' = "connecting" /\ retried' = TRUE /\ UNCHANGED <<got, inbox>>
      BY <1>1, <1>4 DEF Legacy!AfterFailure, Legacy!MayRetry
    <2>2. LegacyTypes'
      BY <1>1, <2>1 DEF LegacyInv, LegacyTypes
    <2>3. OneSocket'
      <3>1. closed' = 1..opened
        BY <1>1, <1>2 DEF LegacyInv, OneSocket, LegacyTypes
      <3> QED BY <1>1, <2>1, <3>1 DEF LegacyInv, OneSocket
    <2>4. OnePerCall' /\ OneInFlight'
      BY <1>1, <1>2, <1>4, <2>1 DEF LegacyInv, OnePerCall, OneInFlight
    <2>5. RunsAreSent'
      <3>1. \A j \in Legacy!Calls : Requests(j)' >= Requests(j)
        BY <1>1, <1>4, <2>1 DEF Requests
      <3> QED BY <1>1, <2>1, <3>1, CountsKept
    <2> QED BY <2>1, <2>2, <2>3, <2>4, <2>5 DEF LegacyInv, Legacy!OwnAnswer
  <1> QED BY <1>3, <1>4

\* What a thread does is of its own connection.
LEMMA ExecuteInv ==
  ASSUME LegacyInv, NEW c \in Legacy!Conns, Legacy!Execute(c) PROVE LegacyInv'
  <1>1. /\ thread[c] = "reading" /\ inbox[c] # <<>>
        /\ serving' = [serving EXCEPT ![c] = Head(inbox[c])]
        /\ inbox' = [inbox EXCEPT ![c] = Tail(@)]
        /\ ran' = Append(ran, Head(inbox[c]))
        /\ thread' = [thread EXCEPT ![c] = "executing"]
        /\ UNCHANGED <<caller, call, retried, sock, opened, closed, outbox, got>>
    BY DEF Legacy!Execute
  <1>2. PICK k \in Legacy!Calls : inbox[c] = <<k>>
    <2>1. inbox[c] \in Seq(Legacy!Calls) /\ Len(inbox[c]) <= 1
      BY DEF LegacyInv, LegacyTypes, RunsAreSent
    <2> QED BY <1>1, <2>1, OneElement
  <1>3. Head(inbox[c]) = k /\ Tail(inbox[c]) = <<>>
    BY <1>2
  <1>4. /\ inbox'[c] = <<>> /\ serving'[c] = k /\ thread'[c] = "executing"
        /\ \A d \in Legacy!Conns : d # c =>
             inbox'[d] = inbox[d] /\ serving'[d] = serving[d] /\ thread'[d] = thread[d]
    BY <1>1, <1>3 DEF LegacyInv, LegacyTypes
  <1>5. LegacyTypes'
    <2>1. /\ inbox' \in [Legacy!Conns -> Seq(Legacy!Calls)]
          /\ serving' \in [Legacy!Conns -> Nat]
      BY <1>1, <1>3 DEF LegacyInv, LegacyTypes, Legacy!Calls
    <2>2. ran' \in Seq(Legacy!Calls)
      BY <1>1, <1>3 DEF LegacyInv, LegacyTypes
    <2> QED BY <1>1, <2>1, <2>2 DEF LegacyInv, LegacyTypes
  <1>6. ~(c > opened)
    BY <1>1 DEF LegacyInv, OneSocket
  <1>7. OneSocket' /\ OnePerCall'
    BY <1>1, <1>4, <1>6 DEF LegacyInv, OneSocket, OnePerCall
  <1>8. OneInFlight'
    <2>1. CASE c = sock
      <3>1. caller = "receiving" /\ OnTheWay(sock) /\ sock # 0
        BY <1>1, <2>1 DEF LegacyInv, OneInFlight, OnePerCall, Quiet, Legacy!Conns
      <3>2. k = call /\ outbox[sock] = <<>>
        BY <1>1, <1>2, <2>1, <3>1 DEF OnTheWay
      <3> QED BY <1>1, <1>4, <2>1, <3>1, <3>2 DEF OneInFlight, OnTheWay
    <2>2. CASE c # sock
      <3>1. sock # 0 => sock \in Legacy!Conns
        BY CallsAssumption DEF LegacyInv, LegacyTypes, OnePerCall, Legacy!Conns
      <3> QED BY <1>1, <1>4, <2>2, <3>1 DEF LegacyInv, OneInFlight, OnePerCall, Quiet, OnTheWay
    <2> QED BY <2>1, <2>2
  <1> QED BY <1>1, <1>5, <1>7, <1>8, ExecutedOnce DEF LegacyInv, Legacy!OwnAnswer

LEMMA AnswerInv ==
  ASSUME LegacyInv, NEW c \in Legacy!Conns, Legacy!Answer(c) PROVE LegacyInv'
  <1> DEFINE lost == c \in closed
             told == IF serving[c] \in Failing THEN Legacy!Error ELSE serving[c]
             next == IF serving[c] \in Failing \/ lost THEN "ended" ELSE "reading"
  <1>1. /\ thread[c] = "executing"
        /\ outbox' = IF lost THEN outbox ELSE [outbox EXCEPT ![c] = Append(@, told)]
        /\ thread' = [thread EXCEPT ![c] = next]
        /\ UNCHANGED <<caller, call, retried, sock, opened, closed, inbox, serving, ran, got>>
    BY DEF Legacy!Answer
  <1>2. next \in {"reading", "ended"}
    OBVIOUS
  <1>3. c <= opened /\ c \in 1..opened
    BY <1>1 DEF LegacyInv, OneSocket, LegacyTypes, Legacy!Conns
  <1>4. ~lost => c = sock /\ caller = "receiving" /\ OnTheWay(sock)
    BY <1>1, <1>3 DEF LegacyInv, OneSocket, OneInFlight, OnePerCall, LegacyTypes, Quiet
  <1>5. ~lost => serving[c] = call /\ inbox[c] = <<>> /\ outbox[c] = <<>>
                 /\ call \in Legacy!Calls
    BY <1>1, <1>4 DEF OnTheWay, LegacyInv, LegacyTypes, OnePerCall, Legacy!Calls
  <1>6. ~lost => told \in {call, Legacy!Error}
    BY <1>5
  <1> HIDE DEF told, next
  <1> HIDE DEF lost
  <1>7. /\ thread'[c] = next /\ (~lost => outbox' = [outbox EXCEPT ![c] = <<told>>])
        /\ (~lost => outbox'[c] = <<told>>) /\ (lost => outbox' = outbox)
        /\ \A d \in Legacy!Conns : d # c => outbox'[d] = outbox[d] /\ thread'[d] = thread[d]
    <2>1. thread'[c] = next /\ \A d \in Legacy!Conns : d # c => thread'[d] = thread[d]
      BY <1>1 DEF LegacyInv, LegacyTypes
    <2>2. CASE lost
      BY <1>1, <2>1, <2>2
    <2>3. CASE ~lost
      <3>1. outbox' = [outbox EXCEPT ![c] = Append(@, told)]
        BY <1>1, <2>3
      <3>2. Append(outbox[c], told) = <<told>>
        <4>1. outbox[c] = <<>> /\ told \in Legacy!Calls \cup {Legacy!Error}
          BY <1>5, <1>6, <2>3
        <4>2. Append(<<>>, told) = <<told>>
          BY <4>1
        <4> QED BY <4>1, <4>2
      <3>3. outbox' = [outbox EXCEPT ![c] = <<told>>]
        BY <3>1, <3>2
      <3> QED BY <2>1, <2>3, <3>3 DEF LegacyInv, LegacyTypes
    <2> QED BY <2>2, <2>3
  <1>8. LegacyTypes'
    <2>1. outbox' \in [Legacy!Conns -> Seq(Legacy!Calls \cup {Legacy!Error})]
      <3>1. ~lost => <<told>> \in Seq(Legacy!Calls \cup {Legacy!Error})
        BY <1>5, <1>6
      <3>2. CASE lost
        BY <1>7, <3>2 DEF LegacyInv, LegacyTypes
      <3>3. CASE ~lost
        BY <1>7, <3>1, <3>3 DEF LegacyInv, LegacyTypes
      <3> QED BY <3>2, <3>3
    <2> QED BY <1>1, <2>1 DEF LegacyInv, LegacyTypes
  <1>9. OneSocket' /\ OnePerCall'
    <2>1. \A d \in Legacy!Conns : d > opened => d # c
      BY <1>3 DEF LegacyInv, LegacyTypes, Legacy!Conns
    <2> QED BY <1>1, <1>7, <2>1 DEF LegacyInv, OneSocket, OnePerCall
  <1>10. OneInFlight'
    <2>1. CASE ~lost
      BY <1>1, <1>2, <1>4, <1>5, <1>6, <1>7, <2>1 DEF OneInFlight, OnTheWay
    <2>2. CASE lost
      <3>1. c # sock
        BY <2>2 DEF LegacyInv, OneSocket, lost
      <3>2. sock # 0 => sock \in Legacy!Conns
        BY CallsAssumption DEF LegacyInv, LegacyTypes, OnePerCall, Legacy!Conns
      <3> QED
        BY <1>1, <1>7, <2>2, <3>1, <3>2
        DEF LegacyInv, OneInFlight, OnePerCall, Quiet, OnTheWay
    <2> QED BY <2>1, <2>2
  <1>11. RunsAreSent'
    <2>1. \A j \in Legacy!Calls : Requests(j)' >= Requests(j)
      BY <1>1 DEF Requests
    <2> QED BY <1>1, <2>1, CountsKept
  <1> QED BY <1>1, <1>8, <1>9, <1>10, <1>11 DEF LegacyInv, Legacy!OwnAnswer

LEMMA ThreadEndsInv ==
  ASSUME LegacyInv, NEW c \in Legacy!Conns, Legacy!ThreadEnds(c) PROVE LegacyInv'
  <1>1. /\ thread[c] = "reading" /\ c \in closed /\ thread' = [thread EXCEPT ![c] = "ended"]
        /\ UNCHANGED <<caller, call, retried, sock, opened, closed, inbox, outbox, serving, ran,
                       got>>
    BY DEF Legacy!ThreadEnds
  <1>2. c # sock /\ ~(c > opened)
    BY <1>1 DEF LegacyInv, OneSocket
  <1>3. \A d \in Legacy!Conns : d # c => thread'[d] = thread[d]
    BY <1>1 DEF LegacyInv, LegacyTypes
  <1>4. sock # 0 => sock \in Legacy!Conns
    BY CallsAssumption DEF LegacyInv, LegacyTypes, OnePerCall, Legacy!Conns
  <1>5. OneInFlight'
    BY <1>1, <1>2, <1>3, <1>4 DEF LegacyInv, OneInFlight, OnePerCall, Quiet, OnTheWay
  <1>6. RunsAreSent'
    <2>1. \A j \in Legacy!Calls : Requests(j)' >= Requests(j)
      BY <1>1 DEF Requests
    <2> QED BY <1>1, <2>1, CountsKept
  <1> QED
    BY <1>1, <1>2, <1>3, <1>5, <1>6
    DEF LegacyInv, LegacyTypes, OneSocket, OnePerCall, Legacy!OwnAnswer

LEMMA LegacyStepInv == ASSUME LegacyInv, [Legacy!Next]_(Legacy!vars) PROVE LegacyInv'
  <1>1. CASE Legacy!Listen \/ UNCHANGED Legacy!vars
    <2>1. UNCHANGED <<caller, call, retried, sock, opened, closed, inbox, outbox, thread, serving,
                      ran, got>>
      BY <1>1 DEF Legacy!Listen, Legacy!vars, Legacy!server
    <2>2. RunsAreSent'
      <3>1. \A j \in Legacy!Calls : Requests(j)' >= Requests(j)
        BY <2>1 DEF Requests
      <3> QED BY <2>1, <3>1, CountsKept
    <2> QED
      BY <2>1, <2>2
      DEF LegacyInv, LegacyTypes, OneSocket, OnePerCall, OneInFlight, Quiet, OnTheWay,
          Legacy!OwnAnswer
  <1>2. ASSUME NEW c \in Legacy!Conns, Legacy!ThreadStep(c) PROVE LegacyInv'
    BY <1>2, ExecuteInv, AnswerInv, ThreadEndsInv DEF Legacy!ThreadStep
  <1>3. CASE Legacy!ClientStep
    BY <1>3, ConnectInv, ConnectFailsInv, CallInv, ReceiveInv, ReceiveFailsInv
    DEF Legacy!ClientStep
  <1> QED BY <1>1, <1>2, <1>3 DEF Legacy!Next

\* However connections break and the client repeats its calls, on as many
\* threads as it opened connections: a caller gets its own answer, a call is not
\* executed a third time, and two executions only overlap when the older one was
\* abandoned.
THEOREM LegacyAlwaysAnswered == ServingSpec => []LegacyCallsAnswered
  <1>1. ServingInit => LegacyInv
    <2> SUFFICES ASSUME ServingInit PROVE LegacyInv
      OBVIOUS
    <2>1. /\ caller = "connecting" /\ call = 0 /\ sock = 0 /\ opened = 0 /\ closed = {}
          /\ inbox = [c \in Legacy!Conns |-> <<>>] /\ outbox = [c \in Legacy!Conns |-> <<>>]
          /\ thread = [c \in Legacy!Conns |-> "none"] /\ serving = [c \in Legacy!Conns |-> 0]
          /\ ran = <<>> /\ got = [k \in Legacy!Calls |-> <<>>]
      BY DEF ServingInit, Legacy!Init
    <2>2. LegacyTypes /\ OneSocket /\ OnePerCall /\ OneInFlight /\ Legacy!OwnAnswer
      BY <2>1, CallsAssumption
      DEF LegacyTypes, OneSocket, OnePerCall, OneInFlight, Legacy!OwnAnswer
    <2>3. RunsAreSent
      <3>1. \A k \in Legacy!Calls : Waiting(k) = {} /\ Executions(k) = {} /\ Requests(k) = 0
        BY <2>1 DEF Waiting, Executions, Requests, Legacy!Calls
      <3>2. \A c \in Legacy!Conns : Len(inbox[c]) <= 1
        BY <2>1
      <3>3. IsFiniteSet({}) /\ Cardinality({}) = 0
        BY FS_EmptySet
      <3>4. \A k \in Legacy!Calls :
              /\ IsFiniteSet(Waiting(k)) /\ IsFiniteSet(Executions(k))
              /\ Cardinality(Waiting(k)) = 0 /\ Cardinality(Executions(k)) = 0 /\ Requests(k) = 0
        BY <3>1, <3>3
      <3> QED BY <3>2, <3>4 DEF RunsAreSent
    <2> QED BY <2>2, <2>3 DEF LegacyInv
  <1>2. LegacyInv /\ [ServingNext]_servingVars => LegacyInv'
    BY PartSteps, LegacyStepInv
  <1>3. LegacyInv => LegacyCallsAnswered
    <2> SUFFICES ASSUME LegacyInv PROVE LegacyCallsAnswered
      OBVIOUS
    <2>1. ASSUME NEW k \in Legacy!Calls PROVE Legacy!Runs(k) <= 2
      <3>1. /\ IsFiniteSet(Waiting(k)) /\ IsFiniteSet(Executions(k))
            /\ Cardinality(Waiting(k)) + Cardinality(Executions(k)) <= Requests(k)
            /\ Requests(k) \in 0..2
        BY DEF LegacyInv, RunsAreSent, Requests
      <3>2. Cardinality(Waiting(k)) \in Nat /\ Cardinality(Executions(k)) \in Nat
        BY <3>1, FS_CardinalityType
      <3>3. Legacy!Runs(k) = Cardinality(Executions(k))
        BY DEF Legacy!Runs, Executions, Legacy!Cardinality, Cardinality
      <3> QED BY <3>1, <3>2, <3>3
    <2>2. Legacy!OverlapNeedsLoss
      <3> SUFFICES ASSUME NEW c \in Legacy!Conns, NEW d \in Legacy!Conns, c < d,
                          thread[c] = "executing", thread[d] = "executing"
                   PROVE  c \in closed
        BY DEF Legacy!OverlapNeedsLoss
      <3>1. ~(d > opened)
        BY DEF LegacyInv, OneSocket
      <3>2. c \in 1..opened /\ c # opened /\ c # 0
        BY <3>1 DEF LegacyInv, LegacyTypes, Legacy!Conns
      <3> QED BY <3>2 DEF LegacyInv, LegacyTypes, OneSocket
    <2> QED BY <2>1, <2>2 DEF LegacyInv, LegacyCallsAnswered, Legacy!AtMostTwice
  <1> QED BY <1>1, <1>2, <1>3, PTL DEF ServingSpec

=============================================================================
