---------------------------- MODULE TrainingRun -----------------------------
(***************************************************************************)
(* The training loop (VLAFSDPStrategy.run_training) together with the batch*)
(* sampler it reads from and the resume of train.py: which batches have    *)
(* gone into the weights, after any number of crashes.                     *)
(*                                                                         *)
(* A batch is named by its epoch and its place in the order the sampler    *)
(* draws for that epoch, which depends on seed and epoch only.  All ranks  *)
(* walk through their own shards in step, so one position stands for all.  *)
(***************************************************************************)
EXTENDS Naturals, Sequences, FiniteSets

CONSTANTS
  NumIters,      \* batches of an epoch on one rank, num_iters of the sampler
  Accum,         \* grad_accumulation_steps
  SaveInterval,  \* save_steps
  EpochSaves,    \* BOOLEAN: epoch_save_interval = 1 (else no epoch-end saves)
  MaxSteps,      \* max_steps
  MaxLaunches    \* bound: launches of train.py

VARIABLES
  running,     \* the processes are up
  launches,
  epoch,       \* of run_training and of the sampler
  pos,         \* next batch of the epoch the sampler yields
  trainIdx,    \* train_idx: batches since this launch
  pending,     \* batches whose gradients wait for the next optimizer step
  globalStep,  \* metrics.global_step
  trained,     \* history: the batches that went into the weights, in order
  saved        \* checkpoints on disk

vars == <<running, launches, epoch, pos, trainIdx, pending, globalStep,
          trained, saved>>

Init ==
  /\ running = FALSE /\ launches = 0
  /\ epoch = 0 /\ pos = 0 /\ trainIdx = 0 /\ pending = <<>>
  /\ globalStep = 0
  /\ trained = <<>>
  /\ saved = {}

\* A checkpoint: its name, the weights (by what they were trained on).
Checkpoint(e, s, seq) == [epoch |-> e, step |-> s, weights |-> seq]

-----------------------------------------------------------------------------
\* The names train.py parses: no checkpoint means epoch 0, step 0.
Nothing == [epoch |-> 0, step |-> 0, weights |-> <<>>]

\* Mutant of Position: the step counts optimizer steps.
PositionUnscaled(step) == step % NumIters

\* batch_sampler.set_epoch(resume_epoch, resume_step * grad_accumulation_steps)
Position(step) == (step * Accum) % NumIters

\* experiment(): the newest checkpoint, any of them when two have its step; a
\* finished run, which train.py does not refuse, makes a step past its end.
Launch(c) ==
  /\ ~running /\ launches < MaxLaunches
  /\ IF saved = {} THEN c = Nothing
     ELSE c \in saved /\ \A d \in saved : d.step <= c.step
  /\ running' = TRUE /\ launches' = launches + 1
  /\ epoch' = c.epoch /\ pos' = Position(c.step)
  /\ globalStep' = c.step /\ trained' = c.weights
  /\ trainIdx' = 0 /\ pending' = <<>>
  /\ UNCHANGED saved

\* The counter runs on over the epochs, it is not the length of pending.
StepIsDue == (trainIdx + 1) % Accum = 0

\* forward and backward of one batch without an optimizer step.
Accumulate ==
  /\ running /\ pos < NumIters /\ ~StepIsDue
  /\ pending' = Append(pending, <<epoch, pos>>)
  /\ pos' = pos + 1 /\ trainIdx' = trainIdx + 1
  /\ UNCHANGED <<running, launches, epoch, globalStep, trained,
                 saved>>

\* The batch that completes an accumulation: an optimizer step, a
\* save when the interval is reached, and the end at max_steps.
Step ==
  LET batches == Append(pending, <<epoch, pos>>)
      done == globalStep + 1 >= MaxSteps
      due == done \/ (globalStep + 1) % SaveInterval = 0
  IN /\ running /\ pos < NumIters /\ StepIsDue
     /\ trained' = trained \o batches
     /\ pending' = <<>>
     /\ pos' = pos + 1 /\ trainIdx' = trainIdx + 1
     /\ globalStep' = globalStep + 1
     /\ saved' = saved \cup
          IF due THEN {Checkpoint(epoch, globalStep + 1, trained')} ELSE {}
     /\ running' = ~done
     /\ UNCHANGED <<launches, epoch>>

\* The sampler is exhausted and moves to the next epoch; run_training saves
\* the epoch, and the zero_grad at the head of its loop drops what is pending.
NextEpoch ==
  /\ running /\ pos = NumIters
  /\ saved' = saved \cup
       IF EpochSaves THEN {Checkpoint(epoch, globalStep, trained)} ELSE {}
  /\ epoch' = epoch + 1 /\ pos' = 0 /\ pending' = <<>>
  /\ UNCHANGED <<running, launches, trainIdx, globalStep, trained>>

Crash ==
  /\ running
  /\ running' = FALSE
  /\ UNCHANGED <<launches, epoch, pos, trainIdx, pending, globalStep,
                 trained, saved>>

-----------------------------------------------------------------------------
Next ==
  \/ \E c \in saved \cup {Nothing} : Launch(c)
  \/ Accumulate \/ Step \/ NextEpoch \/ Crash

Spec == Init /\ [][Next]_vars
-----------------------------------------------------------------------------
\* The order in which a run that never stops uses the batches.
Uninterrupted(n) == [i \in 1..n |-> <<(i - 1) \div NumIters, (i - 1) % NumIters>>]

\* Crashes and resumes leave no trace in what the weights were trained on: no
\* batch is left out and none is used twice (set_epoch before the DataLoader);
\* and a checkpoint's name says how many batches are behind its weights.
TrainsInOrder ==
  /\ trained = Uninterrupted(Len(trained))
  /\ \A c \in saved : Len(c.weights) = c.step * Accum
=============================================================================
