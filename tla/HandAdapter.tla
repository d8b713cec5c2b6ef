----------------------------- MODULE HandAdapter -----------------------------
(***************************************************************************)
(* The H1 Inspire adapter (policy/VITRA/h1_inspire_retarget.py) and the two*)
(* conversions of the VITRA model around it: observations from Inspire to  *)
(* Wuji hands, action chunks back.  A hand is converted by an iterative    *)
(* solver that starts from the last accepted result of the same            *)
(* environment and side, and is tried again from other starts when the fit *)
(* is poor.  When one hand fails, the model puts the environment's starts  *)
(* back to what they were before the observation or the chunk.             *)
(*                                                                         *)
(* Observations and action rows are numbered in the order they are         *)
(* converted; a start is the number of the frame whose fit it is, 0 for the*)
(* neutral pose.  Of a fit only its flag and its error (rms) are kept.     *)
(***************************************************************************)
EXTENDS Naturals, Sequences, FiniteSets

CONSTANTS
  Envs,       \* environment indices
  ChunkLen,   \* rows of an action chunk
  Starts,     \* retries of h1_to_wuji: continuation, neutral, multistarts
  Gate,       \* tolerance_m and inverse_max_rms_m, in steps of rms
  MaxRms,     \* bound: the largest finite rms
  MaxFrames,  \* bound: frames converted
  Modes       \* inverse_mode: some of "geometric", "linear_fallback", "linear_direct"

Sides == {"left", "right"}
\* The two caches: _previous_wuji and _previous_inspire.
Directions == {"observe", "act"}
NaN == MaxRms + 1
Fits == [valid : BOOLEAN, rms : 0..NaN]
NoFit == [valid |-> FALSE, rms |-> NaN]

VARIABLES
  mode,      \* inverse_mode
  op,        \* "idle", or the direction of the running call
  todo,      \* environments of the running call, the current one first
  row,       \* row of the current chunk
  side,      \* hand under conversion
  stage,     \* "first", "retry", "gate" or "linear"
  attempt,   \* retries made for this hand
  best,      \* q20 or q6, valid and rms so far
  passed,    \* history: an attempt for this hand passed the gate
  seed,      \* [Directions -> [Envs -> [Sides -> frame]]]
  snapshot,  \* the current environment's part of seed when its turn began
  frame,     \* number of the frame under conversion, or of the last one
  served     \* history: [Directions -> [Envs -> last frame of the last success]]

vars == <<mode, op, todo, row, side, stage, attempt, best, passed, seed, snapshot,
          frame, served>>

Current == Head(todo)
\* What snapshot() takes of an environment.
StartsOf(e) == [d \in Directions |-> seed[d][e]]
Rows(d) == IF d = "observe" THEN 1 ELSE ChunkLen
Batches == {b \in UNION {[1..n -> Envs] : n \in 1..Cardinality(Envs)} :
              \A i, j \in DOMAIN b : b[i] = b[j] => i = j}

Init ==
  /\ mode \in Modes
  /\ op = "idle" /\ todo = <<>> /\ row = 1 /\ side = "left" /\ stage = "first"
  /\ attempt = 0 /\ best = NoFit /\ passed = FALSE
  /\ seed = [d \in Directions |-> [e \in Envs |-> [s \in Sides |-> 0]]]
  /\ snapshot = [d \in Directions |-> [s \in Sides |-> 0]]
  /\ frame = 0
  /\ served = [d \in Directions |-> [e \in Envs |-> 0]]

-----------------------------------------------------------------------------
(* The calls of the model.                                                 *)

\* update_obs_batch converts every environment before it buffers any, and
\* get_action_batch externalizes one chunk for each.
Call(d, batch) ==
  /\ op = "idle" /\ frame + Len(batch) * Rows(d) <= MaxFrames
  /\ op' = d /\ todo' = batch /\ row' = 1 /\ side' = "left" /\ stage' = "first"
  /\ frame' = frame + 1
  /\ snapshot' = StartsOf(batch[1])
  /\ UNCHANGED <<mode, attempt, best, passed, seed, served>>

\* reset() of the model clears the adapter of every environment.
Reset ==
  /\ op = "idle"
  /\ seed' = [d \in Directions |-> [e \in Envs |-> [s \in Sides |-> 0]]]
  /\ served' = [d \in Directions |-> [e \in Envs |-> 0]]
  /\ UNCHANGED <<mode, op, todo, row, side, stage, attempt, best, passed, snapshot, frame>>

\* Mutant of Restored: the snapshot of one environment is put back in all.
RestoredAll == [d \in Directions |-> [e \in Envs |-> snapshot[d]]]

\* restore(env_idx, snapshot).
Restored == [d \in Directions |-> [seed[d] EXCEPT ![Current] = snapshot[d]]]

\* The exception leaves the call; environments converted before it keep theirs.
Raise ==
  /\ seed' = Restored
  /\ op' = "idle" /\ todo' = <<>> /\ stage' = "first"
  /\ UNCHANGED <<mode, row, side, attempt, best, passed, snapshot, frame, served>>

LastRow == row = Rows(op)

\* The starts after this hand's fit was accepted.
Accepted == [seed EXCEPT ![op][Current][side] = frame]

\* The hand is converted: the other hand, the next row, or the next
\* environment, whose snapshot is taken then.
Commit ==
  /\ seed' = Accepted
  /\ stage' = "first"
  /\ side' = IF side = "left" THEN "right" ELSE "left"
  /\ IF side = "left"
     THEN UNCHANGED <<op, todo, row, frame, snapshot, served>>
     ELSE IF ~LastRow
     THEN row' = row + 1 /\ frame' = frame + 1 /\ UNCHANGED <<op, todo, snapshot, served>>
     ELSE /\ served' = [served EXCEPT ![op][Current] = frame]
          /\ todo' = Tail(todo) /\ row' = 1
          /\ IF Len(todo) = 1
             THEN op' = "idle" /\ UNCHANGED <<frame, snapshot>>
             ELSE frame' = frame + 1 /\ snapshot' = StartsOf(todo[2]) /\ UNCHANGED op
  /\ UNCHANGED <<mode, attempt, best, passed>>

-----------------------------------------------------------------------------
(* h1_to_wuji and wuji_to_h1: one hand of one frame.                       *)

Finite(fit) == fit.rms # NaN

\* An observation needs the solver's own flag as well; for an action the rms
\* alone decides.
Passes(fit) ==
  /\ Finite(fit) /\ fit.rms <= Gate
  /\ op = "observe" => fit.valid

\* The input, the forward kinematics or the packing is refused, or a result
\* leaves the joint limits: an exception at any stage.
Refused == op # "idle" /\ Raise

\* The solve from the last accepted result; a failed one is tried again only
\* if its error is a number.
FirstSolve(fit) ==
  /\ op # "idle" /\ stage = "first" /\ ~(op = "act" /\ mode = "linear_direct")
  /\ best' = fit /\ passed' = Passes(fit) /\ attempt' = 0
  /\ stage' = IF Finite(fit) /\ ~Passes(fit) THEN "retry" ELSE "gate"
  /\ UNCHANGED <<mode, op, todo, row, side, seed, snapshot, frame, served>>

\* Mutant of Better: a candidate is only kept for a smaller error.
BetterRms(fit) == fit.rms < best.rms

\* A candidate replaces the best so far when its error is smaller, and for an
\* observation also when it is accepted.
Better(fit) == Finite(fit) /\ (fit.rms < best.rms \/ (op = "observe" /\ Passes(fit)))

Retries == IF op = "observe" THEN Starts ELSE 2

\* One more start; the first one that passes ends the search.
Retry(fit) ==
  LET kept == IF Better(fit) THEN fit ELSE best
  IN /\ stage = "retry" /\ attempt < Retries
     /\ best' = kept /\ passed' = (passed \/ Passes(fit))
     /\ attempt' = attempt + 1
     /\ stage' = IF Passes(kept) \/ attempt + 1 = Retries THEN "gate" ELSE "retry"
     /\ UNCHANGED <<mode, op, todo, row, side, seed, snapshot, frame, served>>

Serves == Passes(best)

GatePassed == stage = "gate" /\ Serves /\ Commit

\* A configured linear inverse is asked after a geometric failure.
GateFailed ==
  /\ stage = "gate" /\ ~Serves
  /\ IF op = "act" /\ mode = "linear_fallback"
     THEN stage' = "linear"
          /\ UNCHANGED <<mode, op, todo, row, side, attempt, best, passed, seed, snapshot,
                         frame, served>>
     ELSE Raise

\* _linear_wuji_to_h1: the fallback has to pass the same gate.
LinearFallback(fit) ==
  /\ stage = "linear"
  /\ IF Passes(fit) THEN Commit ELSE Raise

\* _linear_direct_wuji_to_h1: clipped to the limits, without a gate.
LinearDirect ==
  /\ op = "act" /\ stage = "first" /\ mode = "linear_direct"
  /\ Commit

-----------------------------------------------------------------------------
Convert ==
  \/ Refused \/ GatePassed \/ GateFailed \/ LinearDirect
  \/ \E fit \in Fits : FirstSolve(fit) \/ Retry(fit) \/ LinearFallback(fit)

Next ==
  \/ \E d \in Directions, b \in Batches : Call(d, b)
  \/ Reset
  \/ Convert

Spec == Init /\ [][Next]_vars
-----------------------------------------------------------------------------
\* Every variable keeps its type.
TypeOK ==
  /\ mode \in Modes
  /\ op \in Directions \cup {"idle"}
  /\ todo \in Seq(Envs) /\ (op = "idle" <=> todo = <<>>)
  /\ row \in 1..ChunkLen
  /\ side \in Sides /\ stage \in {"first", "retry", "gate", "linear"}
  /\ attempt \in Nat
  /\ best \in Fits /\ passed \in BOOLEAN
  /\ seed \in [Directions -> [Envs -> [Sides -> 0..frame]]]
  /\ snapshot \in [Directions -> [Sides -> 0..frame]]
  /\ frame \in 0..MaxFrames
  /\ served \in [Directions -> [Envs -> 0..frame]]

\* Between calls, and for the environments a call is not working on, both
\* hands start from the last frame that was converted whole: a failed hand
\* leaves no half of a frame, or of a chunk, behind.
SeedIsLastServed ==
  \A d \in Directions, e \in Envs, s \in Sides :
    ~(op = d /\ Current = e) => seed[d][e][s] = served[d][e]

\* Inside a chunk every hand starts from its own result of the row before,
\* and the first row from what the environment was last served.
StartsFromRowBefore ==
  op # "idle" /\ stage = "first" =>
    seed[op][Current][side] = IF row = 1 THEN served[op][Current] ELSE frame - 1

\* What the adapter remembers of an environment is either the last whole frame
\* or, in the middle of a chunk, the row before.
HandsTransactional == SeedIsLastServed /\ StartsFromRowBefore

\* A start that led to an acceptable fit is never lost: the search raises only
\* if none did (best keeps an accepted candidate even if an earlier one that was
\* refused had a smaller error).
GoodFitServed == stage = "gate" /\ passed => Passes(best)
=============================================================================
