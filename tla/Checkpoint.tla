----------------------------- MODULE Checkpoint -----------------------------
(***************************************************************************)
(* The checkpoints of VITRA training: how all ranks save one together      *)
(* (VLAFSDPStrategy.save_checkpoint), what a crash leaves on disk, and what*)
(* the launcher (train.sh, make_train_config.py), train.py itself, the     *)
(* verifier and the serving adapter then take for a checkpoint.            *)
(*                                                                         *)
(* Time is counted in save intervals: step s is the s-th save.  What a     *)
(* state dict contains is the sequence of the training runs (numbered by   *)
(* launch) that produced it, one element for each interval, so that two    *)
(* contents are equal exactly when they come from one history.             *)
(***************************************************************************)
EXTENDS Naturals, FiniteSets, Sequences

CONSTANTS
  Ranks,      \* the processes of one torchrun
  Zero,       \* the rank that writes
  MaxSave,    \* saves of a complete run: max_steps \div save_steps
  Launchers,  \* some of "train.sh", and "train.py" for a config with resume and no path
  MaxRuns,    \* bound: launches
  MaxFaults,  \* bound: writes and directories that fail
  None        \* no file

ASSUME RanksAssumption == Zero \in Ranks
ASSUME BoundsAssumption == MaxSave \in Nat \ {0} /\ MaxRuns \in Nat /\ MaxFaults \in Nat
ASSUME LaunchersAssumption == Launchers \subseteq {"train.sh", "train.py"}

StateFiles == {"weights", "optimizer"}
\* A finished run that train.py resumes makes one optimizer step past the end.
Steps == 1..(MaxSave + 1)

VARIABLES
  launcher,  \* who starts the runs
  job,       \* "down", "up" or "finished" (run_training returned)
  runs,      \* launches so far
  step,      \* metrics.global_step, in save intervals
  memory,    \* the contents of the weights and of the optimizer
  phase,     \* [Ranks -> progress inside save_checkpoint]
  writer,    \* [StateFiles -> the thread that writes the file]
  verdict,   \* what rank zero broadcast
  disk,      \* [Steps -> the checkpoint directory]
  faults     \* failures so far

vars == <<launcher, job, runs, step, memory, phase, writer, verdict, disk, faults>>

Content == Seq(1..MaxRuns)

\* No content is mistaken for a missing file.
ASSUME NoneAssumption == None \notin Content

NoDir == [exists |-> FALSE, weights |-> None, optimizer |-> None, complete |-> FALSE]

Init ==
  /\ launcher \in Launchers
  /\ job = "down" /\ runs = 0 /\ step = 0 /\ faults = 0
  /\ memory = [f \in StateFiles |-> <<>>]
  /\ phase = [r \in Ranks |-> "training"]
  /\ writer = [f \in StateFiles |-> "idle"]
  /\ verdict = "none"
  /\ disk = [s \in Steps |-> NoDir]

-----------------------------------------------------------------------------
(* run_training and save_checkpoint.                                       *)

\* One save interval of optimizer steps.  Every step is collective, so the
\* ranks leave it together.
Interval ==
  /\ job = "up" /\ \A r \in Ranks : phase[r] = "training"
  /\ step < MaxSave \/ (step = MaxSave /\ verdict # "saved")
  /\ step' = step + 1
  /\ memory' = [f \in StateFiles |-> Append(memory[f], runs)]
  /\ verdict' = "none"
  /\ UNCHANGED <<launcher, job, runs, writer>>

\* Rank zero makes the directory before it joins the others at the gathering;
\* an existing one is reused with all it holds.
Train ==
  /\ Interval
  /\ phase' = [r \in Ranks |-> "gather"]
  /\ disk' = [disk EXCEPT ![step + 1].exists = TRUE]
  /\ UNCHANGED faults

\* The mkdir raises.  It stands before the gathering and outside save_errors, so
\* rank zero leaves without a word to the others.
NoDirectory ==
  /\ Interval /\ faults < MaxFaults
  /\ phase' = [r \in Ranks |-> IF r = Zero THEN "alone" ELSE "gather"]
  /\ faults' = faults + 1
  /\ UNCHANGED disk

\* Mutant of Published: torch.save writes to the final name.
TornWhileWriting(old) == <<>>

\* While a thread writes <name>.tmp the published file stays what it was.
Published(old) == old

WhileWriting(dir) ==
  [dir EXCEPT !.weights = Published(dir.weights), !.optimizer = Published(dir.optimizer)]

\* The barrier after the state dicts were gathered: a rank passes when every
\* rank has reached it; behind it rank zero starts its two writers.
PassGather(r) ==
  /\ job = "up" /\ phase[r] = "gather"
  /\ \A q \in Ranks : phase[q] \notin {"training", "alone"}
  /\ phase' = [phase EXCEPT ![r] = IF r = Zero THEN "writing" ELSE "broadcast"]
  /\ IF r = Zero
     THEN /\ writer' = [f \in StateFiles |-> "writing"]
          /\ disk' = [disk EXCEPT ![step] = WhileWriting(@)]
     ELSE UNCHANGED <<writer, disk>>
  /\ UNCHANGED <<launcher, job, runs, step, memory, verdict, faults>>

\* save_with_time: the temporary file replaces the published one.
PublishFile(f) ==
  /\ job = "up" /\ writer[f] = "writing"
  /\ writer' = [writer EXCEPT ![f] = "done"]
  /\ disk' = [disk EXCEPT ![step] = [@ EXCEPT ![f] = memory[f]]]
  /\ UNCHANGED <<launcher, job, runs, step, memory, phase, verdict, faults>>

\* save_with_time: torch.save or the rename raises; the thread keeps the error.
WriteFails(f) ==
  /\ job = "up" /\ writer[f] = "writing" /\ faults < MaxFaults
  /\ writer' = [writer EXCEPT ![f] = "failed"]
  /\ faults' = faults + 1
  /\ UNCHANGED <<launcher, job, runs, step, memory, phase, verdict, disk>>

Joined == \A f \in StateFiles : writer[f] \in {"done", "failed"}

\* Mutant of SaveErrors: the threads' failures are not looked at.
NoSaveErrors == FALSE

SaveErrors == \E f \in StateFiles : writer[f] = "failed"

\* Both threads joined: meta.json is published only without errors, and may
\* itself fail; then the broadcast tells every rank.
WriteMeta(ok) ==
  /\ job = "up" /\ phase[Zero] = "writing" /\ Joined
  /\ IF SaveErrors
     THEN ~ok /\ UNCHANGED <<disk, faults>>
     ELSE IF ok
     THEN disk' = [disk EXCEPT ![step].complete = TRUE] /\ UNCHANGED faults
     ELSE faults < MaxFaults /\ faults' = faults + 1 /\ UNCHANGED disk
  /\ writer' = [f \in StateFiles |-> "idle"]
  /\ phase' = [phase EXCEPT ![Zero] = "broadcast"]
  /\ verdict' = IF ok THEN "saved" ELSE "failed"
  /\ UNCHANGED <<launcher, job, runs, step, memory>>

\* Mutant of Heard: rank zero raises before it takes part in the broadcast.
HeardUnlessFailed(r) == verdict = "saved" \/ (verdict = "failed" /\ r = Zero)

Heard(r) == verdict # "none"

\* dist.broadcast returns; on a failure every rank raises.
Broadcast(r) ==
  /\ job = "up" /\ phase[r] = "broadcast" /\ Heard(r)
  /\ phase' = [phase EXCEPT ![r] = IF verdict = "failed" THEN "raised" ELSE "barrier"]
  /\ UNCHANGED <<launcher, job, runs, step, memory, writer, verdict, disk, faults>>

\* The barrier that ends save_checkpoint, and the one of run_training after it.
PassBarrier(r) ==
  /\ job = "up" /\ phase[r] = "barrier"
  /\ \A q \in Ranks : phase[q] \in {"barrier", "training"}
  /\ phase' = [phase EXCEPT ![r] = "training"]
  /\ UNCHANGED <<launcher, job, runs, step, memory, writer, verdict, disk, faults>>

\* max_steps is reached: the training loop returns after the save.
Terminate ==
  /\ job = "up" /\ step >= MaxSave /\ verdict = "saved"
  /\ \A r \in Ranks : phase[r] = "training"
  /\ job' = "finished"
  /\ UNCHANGED <<launcher, runs, step, memory, phase, writer, verdict, disk, faults>>

\* The machine, or torchrun when a rank has raised, ends every process.
Crash ==
  /\ job = "up"
  /\ job' = "down"
  /\ step' = 0 /\ memory' = [f \in StateFiles |-> <<>>]
  /\ phase' = [r \in Ranks |-> "training"]
  /\ writer' = [f \in StateFiles |-> "idle"]
  /\ verdict' = "none"
  /\ UNCHANGED <<launcher, runs, disk, faults>>

-----------------------------------------------------------------------------
(* What is taken for a checkpoint.                                         *)

Existing == {s \in Steps : disk[s].exists}

HasFile(s, f) == disk[s][f] # None

\* Mutant of Complete: what find_last_checkpoint looks at.
OnlyWeights(s) == HasFile(s, "weights")

\* train.sh and make_train_config.py: three files, and meta.json says so.
Complete(s) ==
  /\ disk[s].exists /\ disk[s].complete
  /\ \A f \in StateFiles : HasFile(s, f)

CompleteSteps == {s \in Existing : Complete(s)}

\* Mutant of Latest: the directories are compared as text, the shortest first.
Earliest(S) == CHOOSE s \in S : \A t \in S : s <= t

Latest(S) == CHOOSE s \in S : \A t \in S : t <= s

\* The launcher refuses unless every directory is complete, and they are the
\* saves 1 .. n of one run.
Resumable ==
  /\ Existing # {} /\ Existing = CompleteSteps
  /\ \A s \in Existing : 1..s \subseteq Existing

\* find_last_checkpoint: every directory that holds weights.pt.
WithWeights == {s \in Existing : HasFile(s, "weights")}

\* load_optimizer_and_scheduler only warns when optimizer.pt is missing: the
\* run goes on with a fresh optimizer.
Loaded(s, f) == IF HasFile(s, f) THEN disk[s][f] ELSE <<>>

\* A launch that loads content: all ranks load the same files.
LaunchFrom(s, content) ==
  /\ job # "up" /\ runs < MaxRuns
  /\ job' = "up" /\ runs' = runs + 1
  /\ step' = s /\ memory' = content /\ verdict' = "none"
  /\ UNCHANGED <<launcher, phase, writer, disk, faults>>

\* The launcher starts from the pretrained weights only into an empty root.
LaunchFresh ==
  /\ IF launcher = "train.sh" THEN Existing = {} ELSE WithWeights = {}
  /\ LaunchFrom(0, [f \in StateFiles |-> <<>>])

\* VITRA_RESUME=1 with step 80000 not yet there.
ResumeComplete ==
  LET s == Latest(CompleteSteps)
  IN /\ launcher = "train.sh" /\ Resumable /\ s < MaxSave
     /\ LaunchFrom(s, [f \in StateFiles |-> Loaded(s, f)])

\* train.py without a path.
ResumeLast ==
  LET s == Latest(WithWeights)
  IN /\ launcher = "train.py" /\ WithWeights # {} /\ s <= MaxSave
     /\ LaunchFrom(s, [f \in StateFiles |-> Loaded(s, f)])

\* The operator quarantines a directory the launcher refused.
Quarantine(s) ==
  /\ launcher = "train.sh" /\ job = "down" /\ s \in Existing \ CompleteSteps
  /\ disk' = [disk EXCEPT ![s] = NoDir]
  /\ UNCHANGED <<launcher, job, runs, step, memory, phase, writer, verdict, faults>>

\* verify_checkpoints.py: exactly the expected steps, each complete.
Verified == Existing = 1..MaxSave /\ Existing = CompleteSteps

\* _resolve_weights: the adapter serves the greatest step that has weights.pt.
Served == Latest(WithWeights)

Stopped == job = "finished" /\ UNCHANGED vars

-----------------------------------------------------------------------------
Save(r) == PassGather(r) \/ Broadcast(r) \/ PassBarrier(r)

Write ==
  \/ \E f \in StateFiles : PublishFile(f) \/ WriteFails(f)
  \/ \E ok \in BOOLEAN : WriteMeta(ok)

Next ==
  \/ Train \/ NoDirectory \/ Terminate \/ Crash \/ Write
  \/ \E r \in Ranks : Save(r)
  \/ LaunchFresh \/ ResumeComplete \/ ResumeLast
  \/ \E s \in Steps : Quarantine(s)
  \/ Stopped

Spec == Init /\ [][Next]_vars

\* Ranks and writer threads run; nobody promises a crash, a launch or a repair.
FairSpec == Spec /\ WF_vars(Write) /\ \A r \in Ranks : WF_vars(Save(r))
-----------------------------------------------------------------------------
\* Every variable keeps its type.
TypeOK ==
  /\ launcher \in Launchers
  /\ job \in {"down", "up", "finished"}
  /\ runs \in 0..MaxRuns /\ step \in 0..(MaxSave + 1) /\ faults \in 0..MaxFaults
  /\ memory \in [StateFiles -> Content]
  /\ phase \in [Ranks -> {"training", "gather", "alone", "writing", "broadcast", "barrier",
                          "raised"}]
  /\ writer \in [StateFiles -> {"idle", "writing", "done", "failed"}]
  /\ verdict \in {"none", "saved", "failed"}
  /\ disk \in [Steps -> [exists : BOOLEAN, complete : BOOLEAN,
                         weights : Content \cup {None}, optimizer : Content \cup {None}]]

\* What train.sh keeps of a run, as DurableTraining counts it; for train.py,
\* which may resume from half of a checkpoint, nothing is claimed.
Lineage == IF launcher = "train.sh" THEN memory["weights"] ELSE <<>>

Kept ==
  IF launcher = "train.sh" /\ CompleteSteps # {}
  THEN disk[CHOOSE s \in CompleteSteps : \A t \in CompleteSteps : t <= s].weights
  ELSE <<>>

Durable == INSTANCE DurableTraining WITH lineage <- Lineage, kept <- Kept, Runs <- 1..MaxRuns

\* Saving through two writer threads, three files and a directory that may
\* outlive several crashes comes down to one atomic save (save_checkpoint with
\* the completeness checks of train.sh).
SavesAtomically == Durable!Spec

\* A run that goes on does so with the weights and the optimizer of one
\* history, whatever crashed before it (the completeness checks of train.sh).
PairMatches == launcher = "train.sh" => memory["weights"] = memory["optimizer"]

\* A run that train.sh brings to its end passes verify_checkpoints.py, however
\* often it crashed and was resumed on the way.
FinishedVerifies == launcher = "train.sh" /\ job = "finished" => Verified

\* The adapter, which looks at any moment, finds weights of exactly the step
\* the directory names, and never half of a file (save_with_time).
ServedIsWhole ==
  WithWeights # {} => Len(disk[Served].weights) = Served

\* When rank zero cannot write a file, all ranks leave the save together: none
\* is stranded at a barrier (the broadcast of save_failed).  This is what the
\* comment at the broadcast says of a failed writer, and no more: a directory
\* that cannot be made is outside save_errors, so rank zero then leaves alone and
\* the others stay at the gathering, having written nothing, until torchrun ends
\* the job.
LeaveTogether ==
  /\ \A r, q \in Ranks : phase[r] = "raised" ~> phase[q] = "raised" \/ job = "down"
  /\ [](phase[Zero] = "alone" =>
          \A r \in Ranks \ {Zero} : phase[r] = "gather" /\ writer = [f \in StateFiles |-> "idle"])
=============================================================================
