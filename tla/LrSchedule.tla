----------------------------- MODULE LrSchedule -----------------------------
(***************************************************************************)
(* Learning rates of the four parameter groups over a training run that may*)
(* be resumed: run_setup builds the optimizer and one of four schedulers,  *)
(* run_training steps both, save_checkpoint keeps the optimizer with the   *)
(* rates its groups have, and load_optimizer_and_scheduler puts them back. *)
(*                                                                         *)
(* A rate is an integer; Base is the configured rate of both models and a  *)
(* multiple of Warmup, so that the ramp stays integral.                    *)
(***************************************************************************)
EXTENDS Integers, Sequences

CONSTANTS
  Types,         \* the values of lr_scheduler_type under study
  Warmup,        \* llm_freeze_step, or int(num_training_steps * warmup_ratio)
  Base, MaxSteps, SaveInterval,
  MaxLaunches    \* bound: launches

AllTypes == {"backbone-freeze-warmup", "constant", "warmup_constant", "warmup_cosine"}

Groups == {"backbone_decay", "backbone_no_decay", "action_decay", "action_no_decay"}
Backbone == {"backbone_decay", "backbone_no_decay"}

VARIABLES
  type, running, launches,
  died,       \* rank zero raised while it logged a step
  globalStep,
  schedule,   \* steps the scheduler object has made
  rate,       \* [Groups -> rate in the optimizer's param_groups]
  resumedAt,  \* history: the checkpoint's step this launch went on from
  used,       \* history: [step -> the rates it was made with, and by which launch]
  saved       \* the newest checkpoint: step and the optimizer's rates

vars == <<type, running, launches, died, globalStep, schedule, rate, resumedAt, used, saved>>

-----------------------------------------------------------------------------
\* The linear warmup of the transformers library (its decay lies behind it).
Ramp(n) == IF Warmup = 0 \/ n >= Warmup THEN Base ELSE (Base \div Warmup) * n

\* get_constant_schedule_with_freeze_warmup
Freeze(n) == IF n < Warmup THEN 0 ELSE Base

\* The rate the scheduler gives group g after n steps.
RateAt(g, n) ==
  CASE type = "backbone-freeze-warmup" -> IF g \in Backbone THEN Freeze(n) ELSE Base
    [] type = "constant" -> Base
    [] type \in {"warmup_constant", "warmup_cosine"} -> Ramp(n)

\* run_setup: the groups start at the configured rate; the ramps set them to
\* zero, while the freeze schedule acts on optimizers of its own and reaches
\* the groups with its first step only.
FreshRate(g) ==
  IF type \in {"warmup_constant", "warmup_cosine"} THEN 0 ELSE Base

NoCheckpoint == [step |-> 0, rate |-> [g \in Groups |-> 0]]

Init ==
  /\ type \in Types
  /\ running = FALSE /\ launches = 0 /\ died = FALSE /\ globalStep = 0 /\ schedule = 0
  /\ rate = [g \in Groups |-> FreshRate(g)]
  /\ resumedAt = 0 /\ used = <<>>
  /\ saved = NoCheckpoint

\* run_setup, then load_optimizer_and_scheduler: the scheduler is not saved.  A
\* finished run may be started again and makes a step past its end.
Launch ==
  /\ ~running /\ ~died /\ launches < MaxLaunches
  /\ running' = TRUE /\ launches' = launches + 1
  /\ globalStep' = saved.step /\ schedule' = 0
  /\ rate' = IF saved = NoCheckpoint THEN [g \in Groups |-> FreshRate(g)] ELSE saved.rate
  /\ resumedAt' = saved.step /\ used' = SubSeq(used, 1, saved.step)
  /\ UNCHANGED <<type, died, saved>>

\* Mutant of Stepped: the scheduler steps before the optimizer.
SteppedFirst(n) == [g \in Groups |-> RateAt(g, n)]

\* What the optimizer step is made with: the scheduler steps after it.
RateUsed(n) == rate

\* VLAMetrics.push, on rank zero: it takes the last action_decay_lr, which
\* run_training commits for a MultiGroupLRScheduler only.
CanLog == type = "backbone-freeze-warmup"

\* optimizer.step(), lr_scheduler.step(), metrics.push() and the save.
Step ==
  /\ running
  /\ used' = Append(used, [rate |-> RateUsed(schedule + 1), from |-> resumedAt])
  /\ schedule' = schedule + 1
  /\ rate' = [g \in Groups |-> RateAt(g, schedule + 1)]
  /\ globalStep' = globalStep + 1
  /\ died' = ~CanLog
  /\ saved' = IF CanLog /\ (globalStep' % SaveInterval = 0 \/ globalStep' >= MaxSteps)
              THEN [step |-> globalStep', rate |-> rate'] ELSE saved
  /\ running' = (CanLog /\ globalStep' < MaxSteps)
  /\ UNCHANGED <<type, launches, resumedAt>>

Crash ==
  /\ running
  /\ running' = FALSE
  /\ UNCHANGED <<type, launches, died, globalStep, schedule, rate, resumedAt, used, saved>>

Next == Launch \/ Step \/ Crash

Spec == Init /\ [][Next]_vars
-----------------------------------------------------------------------------
\* Freezing the backbone never touches the action model: its groups step at
\* the configured rate from the first step on (MultiGroupLRScheduler.step).
ActionRateConstant ==
  type = "backbone-freeze-warmup" =>
    \A i \in DOMAIN used, g \in Groups \ Backbone : used[i].rate[g] = Base

\* Where the rates of a step come from, however often the run was resumed: in
\* each launch the schedule counts from the step resumed at, and is one step
\* behind; the first step of a resumed launch is made with what the launch that
\* wrote the checkpoint would have used next, and the first of all with what
\* run_setup configured.  So the docstring at fsdp.py:53, zero for the first
\* num_warmup_steps, is not what happens: the backbone's first step is made at
\* its full rate, and after a resume it is frozen a second time.
StepsUseTheirRate ==
  \A i \in DOMAIN used, g \in Groups :
    LET from == used[i].from
    IN  used[i].rate[g] =
          IF i = 1 THEN FreshRate(g)
          ELSE IF i > from + 1 THEN RateAt(g, (i - 1) - from)
          ELSE RateAt(g, from - used[from].from)

\* VLAMetrics.push leaves only one of the four schedules in use: under any other
\* no run gets beyond its first step, or to a checkpoint.
OthersEndAtOnce ==
  type # "backbone-freeze-warmup" => Len(used) <= 1 /\ saved = NoCheckpoint

\* What load_optimizer_and_scheduler's name and docstring say: the scheduler
\* is loaded, so it goes on at the step of the checkpoint.
ScheduleResumes == running => schedule = globalStep
=============================================================================
