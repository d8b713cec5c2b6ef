--------------------------- MODULE InverseArtifact ---------------------------
(***************************************************************************)
(* The fitted inverses that a deployment may decode hands with: the linear *)
(* MANO45 inverse (mano45_linear_inverse.py, and the two scripts that fit  *)
(* it), the calibrated H1 inverse (h1_linear_inverse.py) and the paired    *)
(* H1 decoder (h1_paired12_inverse.py).  Each is a file that is written by *)
(* one program, named with its digest in the configuration of a run or of  *)
(* a deployment, and read by another program after training went on.       *)
(*                                                                         *)
(* A digest is the number of the file it was taken of; 0 is a file that    *)
(* was cut off while it was written.  A hand stands for the bytes of the   *)
(* hand's model and of the sources that convert its joints.                *)
(***************************************************************************)
EXTENDS Naturals

CONSTANTS
  MaxFits,   \* bound: files written
  MaxRuns,   \* bound: training runs
  None

Kinds == {"mano", "h1", "paired12"}
Versions == {1, 2}   \* of the hand; the generic script is pinned to the first
PinnedRun == 1       \* the run whose digests the 0902 script expects

VARIABLES
  kind,     \* which inverse the deployment knows
  run,      \* the run whose checkpoint is served next
  hand,     \* the hand that is installed
  forest,   \* the number of the decoder's trees on disk
  file,     \* the artifact on disk
  fits,     \* files written so far
  saved,    \* what the configuration of the run says of the inverse
  stage,    \* "down", "asked", "hashed", "read", "matched", "grown", "serving"
  asked,    \* the settings that were resolved
  base,     \* run and hand of the process that loads, and the hand it found installed
  loaded,   \* the artifact and the trees in memory; None: the geometric solver alone
  \* history of this loading:
  swapped,  \* the artifact was replaced between its digest and its reading
  regrown,  \* the trees were replaced between their digest and their reading
  exchanged \* another hand was installed

inverseVars == <<kind, run, hand, forest, file, fits, saved, stage, asked, base, loaded,
                 swapped, regrown, exchanged>>
onDisk == <<run, hand, forest, file, fits, saved>>
process == <<stage, asked, base, loaded>>
history == <<swapped, regrown, exchanged>>

Modes == {"geometric", "linear"}
\* What may be written down: the digest of a file that exists, or existed.  The
\* paired decoder has no mode.
Settings ==
  [mode : {None} \cup (IF kind = "paired12" THEN {} ELSE Modes),
   named : BOOLEAN, sha : {None} \cup 1..fits]

InverseInit ==
  /\ kind \in Kinds /\ run = PinnedRun /\ hand \in Versions /\ forest = 1
  /\ file = None /\ fits = 0
  /\ saved \in Settings
  /\ stage = "down" /\ asked = None /\ base = None /\ loaded = None
  /\ swapped = FALSE /\ regrown = FALSE /\ exchanged = FALSE

-----------------------------------------------------------------------------
(* The files.  None of the writers replaces a file in one step.            *)

Write(r, h, ok, trees) ==
  /\ fits < MaxFits
  /\ fits' = fits + 1
  /\ \E id \in {fits + 1, 0} :
       file' = [id |-> id, run |-> r, hand |-> h, passed |-> ok, forest |-> trees]
  /\ swapped' = (swapped \/ stage = "hashed")
  /\ UNCHANGED <<kind, run, hand, forest, saved, process, regrown, exchanged>>

\* fit_mano45_to_wuji20_0902.py: for one run and the installed hand, and only
\* when the held-out episodes are decoded well enough.
FitForRun ==
  /\ kind = "mano" /\ run = PinnedRun
  /\ Write(run, hand, TRUE, None)

\* fit_mano45_linear_inverse.py: from a data set, for the pinned hand; it
\* reports what the held-out episodes say and writes in any case.
FitGeneric ==
  /\ kind = "mano"
  /\ \E ok \in BOOLEAN : Write(None, 1, ok, None)

\* The programs that fit for the H1 hand.
FitH1 ==
  /\ kind \in {"h1", "paired12"}
  /\ \E ok \in BOOLEAN : Write(run, hand, ok, forest)

\* The trees of one side; those of the other are a second file of this kind.
WriteForest ==
  /\ kind = "paired12" /\ forest < MaxFits
  /\ forest' = forest + 1 /\ regrown' = (regrown \/ stage = "grown")
  /\ UNCHANGED <<kind, run, hand, file, fits, saved, process, swapped, exchanged>>

Retrain ==
  /\ run < MaxRuns
  /\ run' = run + 1 /\ saved' \in Settings
  /\ UNCHANGED <<kind, hand, forest, file, fits, process, history>>

InstallHand ==
  /\ hand' \in Versions \ {hand}
  /\ exchanged' = (exchanged \/ stage # "down")
  /\ UNCHANGED <<kind, run, forest, file, fits, saved, process, swapped, regrown>>

\* What happens to the files while a server runs does not concern it.
FilesNext ==
  /\ stage # "serving"
  /\ FitForRun \/ FitGeneric \/ FitH1 \/ WriteForest \/ Retrain \/ InstallHand

-----------------------------------------------------------------------------
(* The deployment.                                                         *)

\* _resolve_mano_inverse_settings, _resolve_h1_inverse_settings: mode, path and
\* digest are each the deployment's, or else the run's.  The paired decoder has
\* no mode: it is used when a path is given.
Resolved(d) ==
  LET named == d.named \/ saved.named
      mode == IF kind = "paired12" THEN IF named THEN "linear" ELSE "geometric"
              ELSE IF d.mode # None THEN d.mode
              ELSE IF saved.mode # None THEN saved.mode ELSE "geometric"
  IN  [mode |-> mode, named |-> named, sha |-> IF d.sha # None THEN d.sha ELSE saved.sha]

\* Refused: linear without a path and a digest.
Deploy(d) ==
  /\ stage = "down"
  /\ LET s == Resolved(d)
     IN  /\ s.mode = "linear" => s.named /\ s.sha # None
         /\ asked' = s
         /\ stage' = IF s.mode = "linear" THEN "asked" ELSE "serving"
  /\ base' = [run |-> run, hand |-> hand, seen |-> None] /\ loaded' = None
  /\ swapped' = FALSE /\ regrown' = FALSE /\ exchanged' = FALSE
  /\ UNCHANGED <<kind, onDisk>>

Refuse == stage' = "down" /\ asked' = None /\ base' = None /\ loaded' = None

Keeping == UNCHANGED <<kind, onDisk, history>>

\* The digests of the hand and of its sources are taken of the files that are
\* installed now, after the process imported its own: for the calibrated H1
\* inverse before the artifact is looked at, for the others afterwards.
HashHand ==
  /\ stage = (IF kind = "h1" THEN "asked" ELSE "read") /\ base.seen = None
  /\ base' = [base EXCEPT !.seen = hand]
  /\ UNCHANGED <<stage, asked, loaded>> /\ Keeping

\* load: the digest of the file, before it is opened again to be read.
Hash ==
  /\ stage = "asked" /\ (kind = "h1" => base.seen # None)
  /\ IF file # None /\ file.id = asked.sha
     THEN stage' = "hashed" /\ UNCHANGED <<asked, base, loaded>>
     ELSE Refuse
  /\ Keeping

\* Mutant of SameRun: the provenance is read and not compared.
AnyRun == TRUE

\* The provenance the H1 inverses record: configuration, statistics, manifest
\* and, for the paired decoder, the checkpoint.  The MANO inverse has no run.
SameRun == kind = "mano" \/ file.run = base.run

\* The held-out test, which is looked at for the calibrated H1 inverse only.
Tested == kind # "h1" \/ file.passed

SameHand(art) == art.hand = base.seen

Read ==
  /\ stage = "hashed"
  /\ IF file.id # 0 /\ SameRun /\ Tested /\ (kind = "h1" => SameHand(file))
     THEN /\ loaded' = [art |-> file, trees |-> None]
          /\ stage' = IF kind = "h1" THEN "serving" ELSE "read"
          /\ UNCHANGED <<asked, base>>
     ELSE Refuse
  /\ Keeping

MatchHand ==
  /\ stage = "read" /\ base.seen # None
  /\ IF SameHand(loaded.art)
     THEN stage' = (IF kind = "mano" THEN "serving" ELSE "matched") /\ UNCHANGED <<asked, base, loaded>>
     ELSE Refuse
  /\ Keeping

\* The trees are a file of their own: its digest, and then it is opened again.
HashForest ==
  /\ stage = "matched"
  /\ IF loaded.art.forest = forest
     THEN stage' = "grown" /\ UNCHANGED <<asked, base, loaded>>
     ELSE Refuse
  /\ Keeping

\* It cannot be read when a writer is at it.
LoadForest ==
  /\ stage = "grown"
  /\ \/ loaded' = [loaded EXCEPT !.trees = forest] /\ stage' = "serving" /\ UNCHANGED <<asked, base>>
     \/ regrown /\ Refuse
  /\ Keeping

Shutdown ==
  /\ stage = "serving"
  /\ stage' = "down" /\ asked' = None /\ base' = None /\ loaded' = None
  /\ swapped' = FALSE /\ regrown' = FALSE /\ exchanged' = FALSE
  /\ UNCHANGED <<kind, onDisk>>

InverseNext ==
  \/ FilesNext
  \/ (\E d \in Settings : Deploy(d))
  \/ HashHand \/ Hash \/ Read \/ MatchHand \/ HashForest \/ LoadForest \/ Shutdown

InverseSpec == InverseInit /\ [][InverseNext]_inverseVars

-----------------------------------------------------------------------------
\* What decodes hands was made, on H1, for this run and with its own trees,
\* whatever was fitted, trained or installed since, and it was asked for by
\* name: "never inferred from the presence of a bundled artifact" (model.py).
\* It is the very file of the digest and has the trees of its digest, unless
\* those files were replaced between digest and reading, and it is never half a
\* file; and it is of the hand this process runs, unless another hand was
\* installed while it loaded.
InverseFits ==
  stage = "serving" /\ loaded # None =>
    /\ asked.mode = "linear" /\ asked.named
    /\ kind # "mano" => loaded.art.run = base.run
    /\ kind = "h1" => loaded.art.passed
    /\ loaded.art.id # 0
    /\ ~swapped => loaded.art.id = asked.sha
    /\ kind = "paired12" /\ ~regrown => loaded.art.forest = loaded.trees
    /\ ~exchanged => loaded.art.hand = base.hand
=============================================================================
