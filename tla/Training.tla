------------------------------- MODULE Training --------------------------------
(* One training job.  Its parts - the preparation of its data, saving and    *)
(* resuming, the loop over batches, the sampler of each rank, the learning   *)
(* rates, the samples of robot episodes and of human videos, and the vectors *)
(* they are made of - share no state in their modules, so a behaviour        *)
(* exercises one of them, chosen at Init, while the others rest.             *)
EXTENDS Checkpoint, Integers

\* As in the modules of the parts.
CONSTANTS EpochIters, Accum, SaveInterval, EpochSaves, MaxSteps, MaxLaunches
CONSTANTS Length, SampleSize, BatchSize, Replicas, MaxEpoch
CONSTANTS Types, Warmup, Base
CONSTANTS FileSets, Damages, RobotPast, RobotFuture, ImagePast, ImageFuture, MaxOpen,
          Trainer, Worker
CONSTANTS VideoFrames, HumanPast, HumanFuture, ClipSets, KeptSets
CONSTANTS CodecRecordings, Tables, Mount, Official, Places, ChunkFuture
CONSTANTS Recordings, Expected, MaxStarts

VARIABLES part
VARIABLES running, launches, epoch, pos, trainIdx, pending, globalStep, trained,
          saved
VARIABLES dropLast, rankEpoch, rankStep, yielded
VARIABLES type, lrRunning, lrLaunches, died, lrStep, schedule, rate, resumedAt, used, lrSaved
VARIABLES kind, declared, files, damaged, alive, owner, handles, normal, got
VARIABLES stage, main, clips, kept, frame, clip, wording, rows, attempt, shown, silent,
          todo, mirror, work, workSilent, blind
VARIABLES codecKind, rec, table, sample, seen, answer
VARIABLES pipeline, source, wrappers, tree, manifest, stats, sums, marker, made, prepPc, rep,
          chosen, toPrepare, repair, starts, behind

Loop == INSTANCE TrainingRun WITH NumIters <- EpochIters

Sampler == INSTANCE BatchSampler WITH epoch <- rankEpoch, step <- rankStep

Rates == INSTANCE LrSchedule WITH
  running <- lrRunning, launches <- lrLaunches, globalStep <- lrStep, saved <- lrSaved

Windows == INSTANCE EpisodeWindows WITH
  Past <- RobotPast, Future <- RobotFuture, Procs <- {Trainer, Worker}, last <- got

Human == INSTANCE HumanWindows WITH
  Frames <- VideoFrames, Past <- HumanPast, Future <- HumanFuture

Codec == INSTANCE ActionCodec WITH
  Recordings <- CodecRecordings, Future <- ChunkFuture, kind <- codecKind

Preparation == INSTANCE DataPreparation WITH pc <- prepPc, todo <- toPrepare

\* A schedule is one of the four, and what is counted are numbers.
ASSUME RatesAssumption ==
  Types \subseteq Rates!AllTypes /\ Warmup \in Nat /\ Base \in Nat /\ MaxSteps \in Nat \ {0}

\* A dataset has samples, and every epoch draws from it: where the weight comes
\* to no draw at all, the assertion of create_indices_range ends the job.
ASSUME SamplerAssumption ==
  /\ Length \in Seq(Nat \ {0}) /\ SampleSize \in [DOMAIN Length -> Nat \ {0}]
  /\ BatchSize \in Nat \ {0} /\ Replicas \in Nat \ {0} /\ MaxEpoch \in Nat

\* Nothing is divided by zero.
ASSUME LoopAssumption ==
  {EpochIters, Accum, SaveInterval} \subseteq Nat \ {0} /\ MaxLaunches \in Nat

\* A clip is an interval of frames; windows are counted in frames.
ASSUME HumanAssumption ==
  VideoFrames \in Nat /\ HumanPast \in Nat /\ HumanFuture \in Nat
  /\ ClipSets \subseteq Seq(Nat \X Nat)

\* Windows are counted in frames, and at least one file may be open.
ASSUME RobotAssumption ==
  FileSets \subseteq Seq(Nat) /\ {RobotPast, RobotFuture, ImagePast, ImageFuture} \subseteq Nat
  /\ MaxOpen \in Nat \ {0}

\* Hands and commands of a recording have one number of joints; what is recorded
\* of the hands is a pose, of a rotation that is none but a rotation.
ASSUME CodecAssumption ==
  /\ \A r \in CodecRecordings :
       LET frames == DOMAIN r.camera
           Hands == [Codec!Sides -> [frames -> [1..Len(r.hand["left"][0]) -> Int]]]
       IN  /\ frames = 0..(Cardinality(frames) - 1) /\ Cardinality(frames) \in Nat \ {0}
           /\ r.camera \in [frames -> Codec!Poses]
           /\ r.ee \in [Codec!Sides -> [frames -> Codec!Poses]]
           /\ r.hand \in Hands /\ r.command \in Hands
           /\ Len(r.hand["left"][0]) \in Nat
  /\ Tables \subseteq Seq([place : Int, sign : Int])
  /\ Official \in Codec!Poses /\ Mount \in [Codec!Sides -> Codec!Poses]
  /\ Places = 0..(Cardinality(Places) - 1) /\ Cardinality(Places) \in Nat
  /\ ChunkFuture \in Nat

\* A path names one recording.
ASSUME DataAssumption ==
  /\ IsFiniteSet(Recordings) /\ None \notin Recordings
  /\ \A e \in Recordings : e.id \in Nat
  /\ \A e, f \in Recordings :
       e.root = f.root /\ e.task = f.task /\ e.dir = f.dir /\ e.name = f.name => e = f

saveVars == vars
loopVars == <<running, launches, epoch, pos, trainIdx, pending, globalStep, trained, saved>>
samplerVars == <<dropLast, rankEpoch, rankStep, yielded>>
ratesVars == <<type, lrRunning, lrLaunches, died, lrStep, schedule, rate, resumedAt, used, lrSaved>>
robotVars == <<kind, declared, files, damaged, alive, owner, handles, normal, got>>
humanVars == <<stage, main, clips, kept, frame, clip, wording, rows, attempt, shown, silent,
               todo, mirror, work, workSilent, blind>>
codecVars == <<codecKind, rec, table, sample, seen, answer>>
dataVars == <<pipeline, source, wrappers, tree, manifest, stats, sums, marker, made, prepPc, rep,
              chosen, toPrepare, repair, starts, behind>>
trainVars == <<saveVars, part, loopVars, samplerVars, ratesVars, robotVars, humanVars, codecVars,
               dataVars>>

\* The choices of a part that rests are fixed.
TrainingInit ==
  /\ part \in {"save", "loop", "sampler", "rates", "robot", "human", "codec", "data"}
  /\ Init /\ (part # "save" => launcher = "train.sh")
  /\ Loop!Init
  /\ IF part = "sampler" THEN Sampler!Init ELSE dropLast = TRUE /\ Sampler!StartAt(0, 0)
  /\ Rates!Init /\ (part # "rates" => type = "constant")
  /\ Windows!WindowInit
  /\ (part # "robot" => kind = "wuji20" /\ declared = None
                         /\ files = (CHOOSE f \in FileSets : TRUE))
  /\ Human!HumanInit
  /\ (part # "human" => main = "left" /\ clips = (CHOOSE c \in ClipSets : TRUE)
                         /\ kept = [h \in {"left", "right"} |-> CHOOSE k \in KeptSets : TRUE])
  /\ Codec!CodecInit
  /\ (part # "codec" => codecKind = "mano45"
                         /\ rec = CHOOSE r \in CodecRecordings :
                                    Len(r.hand["left"][0]) = Cardinality(Places))
  /\ Preparation!PrepInit /\ (part # "data" => pipeline = "process" /\ source = {})

SaveStep ==
  /\ part = "save" /\ Next
  /\ UNCHANGED <<part, loopVars, samplerVars, ratesVars, robotVars, humanVars, codecVars, dataVars>>
LoopStep ==
  /\ part = "loop" /\ Loop!Next
  /\ UNCHANGED <<part, saveVars, samplerVars, ratesVars, robotVars, humanVars, codecVars, dataVars>>
SamplerStep ==
  /\ part = "sampler" /\ Sampler!Next
  /\ UNCHANGED <<part, saveVars, loopVars, ratesVars, robotVars, humanVars, codecVars, dataVars>>
RatesStep ==
  /\ part = "rates" /\ Rates!Next
  /\ UNCHANGED <<part, saveVars, loopVars, samplerVars, robotVars, humanVars, codecVars, dataVars>>
RobotStep ==
  /\ part = "robot" /\ Windows!WindowNext
  /\ UNCHANGED <<part, saveVars, loopVars, samplerVars, ratesVars, humanVars, codecVars, dataVars>>
HumanStep ==
  /\ part = "human" /\ Human!HumanNext
  /\ UNCHANGED <<part, saveVars, loopVars, samplerVars, ratesVars, robotVars, codecVars, dataVars>>
CodecStep ==
  /\ part = "codec" /\ Codec!CodecNext
  /\ UNCHANGED <<part, saveVars, loopVars, samplerVars, ratesVars, robotVars, humanVars, dataVars>>

DataStep ==
  /\ part = "data" /\ Preparation!PrepNext
  /\ UNCHANGED <<part, saveVars, loopVars, samplerVars, ratesVars, robotVars, humanVars, codecVars>>

TrainingNext ==
  \/ SaveStep \/ LoopStep \/ SamplerStep \/ RatesStep \/ RobotStep \/ HumanStep \/ CodecStep
  \/ DataStep

\* Only the part that saves makes a claim that needs fairness.
TrainingSpec ==
  /\ TrainingInit /\ [][TrainingNext]_trainVars
  /\ WF_vars(Write) /\ \A r \in Ranks : WF_vars(Save(r))

\* See TrainingRun: no batch is left out or used twice, whatever crashes.
TrainsInOrder == Loop!TrainsInOrder

\* See BatchSampler: the draws are whole permutations, of which each rank takes
\* a share of its own.  While another part is exercised the sampler rests where
\* one of its own behaviours begins.
EpochsAreShared ==
  part = "sampler" =>
    Sampler!DrawsAreRounds /\ Sampler!ShardsDisjoint /\ Sampler!EpochsComplete

\* See LrSchedule: where the rates of each step come from, over all resumes.
RatesFollow ==
  Rates!ActionRateConstant /\ Rates!StepsUseTheirRate /\ Rates!OthersEndAtOnce

\* See EpisodeWindows: the labels, frames and numbers of the samples of robot
\* episodes, and whose file handles they are read with.
RobotSamplesAreRight == Windows!SamplesAreRight

\* See HumanWindows: both hands agree in all parts of a sample, mirrored or
\* not, and its actions are of its clip.
HumanSamplesAreRight == Human!HumanSamplesAreRight

\* See ActionCodec: what was recorded comes back from the network's vectors.
ActionsReturn == Codec!ActionsReturn

\* See DataPreparation: what train.sh accepts is of one piece, unless a run that
\* changed the episodes was broken off before their new statistics.
DataIsConsistent == Preparation!AcceptedIsConsistent
=============================================================================
