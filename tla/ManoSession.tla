------------------------------ MODULE ManoSession ------------------------------
(***************************************************************************)
(* The MANO45 session of the VITRA adapter (policy/VITRA/model.py): what   *)
(* the model remembers of each environment between calls.                  *)
(*                                                                         *)
(* Training data was fitted on every second frame, each fit starting from  *)
(* the one before.  At run time every frame arrives: the even ones are kept*)
(* as key frames and fitted only when the next action is asked for, so the *)
(* solver seed of an environment is the chain of the even ticks since the  *)
(* reset.  A tick names the observation that got it, and the chain stands  *)
(* for the seed it produces.                                               *)
(*                                                                         *)
(* The methods run one at a time, under the lock of the policy server.  A  *)
(* call works through its batch environment by environment and may fail at *)
(* any of them; what it did for the earlier ones stays.                    *)
(***************************************************************************)
EXTENDS Naturals, Sequences, FiniteSets

CONSTANTS
  Envs,     \* environment indices
  MaxTick,  \* bound: observations of one environment between two resets
  None

ASSUME NoneAssumption == None \notin Nat
ASSUME TickAssumption == MaxTick \in Nat

VARIABLES
  tick,     \* _mano_next_tick; with it, _raw_observations holds tick - 1
  keys,     \* _mano_pending_keyframes: ticks not yet fitted
  fit,      \* _mano_fit_previous: the chain of fitted ticks, <<>> when absent
  encoded,  \* _observations: the tick that was encoded, or None
  op,       \* idle, buffer (update_obs_batch), encode, replay or predict
  todo,     \* environments of the running call that are still to be served
  history,  \* key frames still to be replayed for the first of them
  saved,    \* previous_before: its seed when the replay began
  answer,   \* what the running or last call has returned so far
  failed,   \* the last call raised
  torn      \* history: environments whose update was cut short since the reset

seedVars == <<keys, fit, encoded>>
callVars == <<op, todo, history, saved, answer, failed>>
sessionVars == <<tick, seedVars, callVars, torn>>

Answer == [env : Envs, tick : Nat]
Batches == {b \in UNION {[1..n -> Envs] : n \in 1..Cardinality(Envs)} :
              \A i, j \in DOMAIN b : b[i] = b[j] => i = j}

SessionInit ==
  /\ tick = [e \in Envs |-> 0]
  /\ keys = [e \in Envs |-> <<>>]
  /\ fit = [e \in Envs |-> <<>>]
  /\ encoded = [e \in Envs |-> None]
  /\ op = "idle" /\ todo = <<>> /\ history = <<>> /\ saved = <<>>
  /\ answer = <<>> /\ failed = FALSE
  /\ torn = {}

Even(t) == t % 2 = 0

\* The environment a call is working on.
Current == Head(todo)

\* A call begins on a batch, is done with its current environment, or raises.
BeginCall(stage, batch) ==
  /\ op = "idle"
  /\ op' = stage /\ todo' = batch
  /\ answer' = <<>> /\ failed' = FALSE
  /\ UNCHANGED <<history, saved>>

NextEnv(stage) ==
  /\ todo' = Tail(todo)
  /\ op' = IF Len(todo) = 1 THEN "idle" ELSE stage
  /\ UNCHANGED <<history, saved, failed>>

Raise ==
  /\ op' = "idle" /\ todo' = <<>>
  /\ failed' = TRUE /\ answer' = <<>>
  /\ UNCHANGED <<history, saved>>

-----------------------------------------------------------------------------
(* reset and update_obs_batch                                              *)

Reset ==
  /\ op = "idle"
  /\ tick' = [e \in Envs |-> 0]
  /\ keys' = [e \in Envs |-> <<>>]
  /\ fit' = [e \in Envs |-> <<>>]
  /\ encoded' = [e \in Envs |-> None]
  /\ torn' = {}
  /\ answer' = <<>> /\ failed' = FALSE
  /\ UNCHANGED <<op, todo, history, saved>>

UpdateObs(batch) ==
  /\ \A i \in DOMAIN batch : tick[batch[i]] < MaxTick
  /\ BeginCall("buffer", batch)
  /\ UNCHANGED <<tick, seedVars, torn>>

\* Preparing the camera or converting the hands raises, before anything of the
\* batch is buffered.
ConversionFails(batch) ==
  /\ op = "idle"
  /\ failed' = TRUE /\ answer' = <<>>
  /\ UNCHANGED <<tick, seedVars, torn, op, todo, history, saved>>

KeyFrames(e) == IF Even(tick[e]) THEN Append(keys[e], tick[e]) ELSE keys[e]

\* Mutant of Forget: the previous encoding is kept.
ForgetNothing(e) == encoded

Forget(e) == [encoded EXCEPT ![e] = None]

Buffer ==
  /\ op = "buffer"
  /\ tick' = [tick EXCEPT ![Current] = @ + 1]
  /\ keys' = [keys EXCEPT ![Current] = KeyFrames(Current)]
  /\ encoded' = Forget(Current)
  /\ NextEnv("buffer")
  /\ UNCHANGED <<fit, answer, torn>>

\* _snapshot_mano_state raises: the tick is taken, the key frame is lost and
\* the encoding of the previous observation stays.
SnapshotFails ==
  /\ op = "buffer" /\ Even(tick[Current])
  /\ tick' = [tick EXCEPT ![Current] = @ + 1]
  /\ torn' = torn \cup {Current}
  /\ Raise
  /\ UNCHANGED seedVars

-----------------------------------------------------------------------------
(* get_action_batch                                                        *)

GetAction(batch) ==
  /\ BeginCall("encode", batch)
  /\ UNCHANGED <<tick, seedVars, torn>>

\* The observation was encoded by an earlier call whose prediction failed.
AlreadyEncoded ==
  /\ op = "encode" /\ encoded[Current] # None
  /\ op' = "predict"
  /\ UNCHANGED <<tick, seedVars, torn, todo, history, saved, answer, failed>>

NothingBuffered ==
  /\ op = "encode" /\ encoded[Current] = None /\ tick[Current] = 0
  /\ Raise
  /\ UNCHANGED <<tick, seedVars, torn>>

\* The key frames before the one that is about to be encoded.
Preceding(e) ==
  LET n == Len(keys[e])
  IN IF n > 0 /\ keys[e][n] = tick[e] - 1 THEN SubSeq(keys[e], 1, n - 1) ELSE keys[e]

StartReplay ==
  /\ op = "encode" /\ encoded[Current] = None /\ tick[Current] > 0
  /\ op' = "replay"
  /\ history' = Preceding(Current)
  /\ saved' = fit[Current]
  /\ UNCHANGED <<tick, seedVars, torn, todo, answer, failed>>

\* _advance_mano_fit_history
Replay ==
  /\ op = "replay" /\ history # <<>>
  /\ fit' = [fit EXCEPT ![Current] = Append(@, Head(history))]
  /\ history' = Tail(history)
  /\ UNCHANGED <<tick, keys, encoded, torn, op, todo, saved, answer, failed>>

Restored(e) == [fit EXCEPT ![e] = saved]

\* A fit, the parity check or the encoding raises; the seed goes back to what
\* it was when the replay began.
ReplayFails ==
  /\ op = "replay"
  /\ fit' = Restored(Current)
  /\ Raise
  /\ UNCHANGED <<tick, keys, encoded, torn>>

\* The query landed on an observation that is no key frame.
OddQuery == op = "replay" /\ history = <<>> /\ ~Even(tick[Current] - 1)

\* _encode_observation fits the observation itself, after its key frames.
Encode ==
  /\ op = "replay" /\ history = <<>> /\ ~OddQuery
  /\ fit' = [fit EXCEPT ![Current] = Append(@, tick[Current] - 1)]
  /\ encoded' = [encoded EXCEPT ![Current] = tick[Current] - 1]
  /\ keys' = [keys EXCEPT ![Current] = <<>>]
  /\ op' = "predict"
  /\ UNCHANGED <<tick, torn, todo, history, saved, answer, failed>>

\* _predict_one
Predict ==
  /\ op = "predict"
  /\ answer' = Append(answer, [env |-> Current, tick |-> encoded[Current]])
  /\ NextEnv("encode")
  /\ UNCHANGED <<tick, seedVars, torn>>

PredictionFails ==
  /\ op = "predict"
  /\ Raise
  /\ UNCHANGED <<tick, seedVars, torn>>

-----------------------------------------------------------------------------
\* What the running call does next.
Work ==
  \/ Buffer \/ SnapshotFails
  \/ AlreadyEncoded \/ NothingBuffered \/ StartReplay \/ Replay \/ ReplayFails
  \/ Encode \/ Predict \/ PredictionFails

SessionNext ==
  \/ Reset
  \/ \E b \in Batches : UpdateObs(b) \/ ConversionFails(b) \/ GetAction(b)
  \/ Work

SessionSpec == SessionInit /\ [][SessionNext]_sessionVars

-----------------------------------------------------------------------------
(* Properties.                                                             *)

\* Every variable of the session keeps its type.
SessionTypeOK ==
  /\ tick \in [Envs -> Nat]
  /\ keys \in [Envs -> Seq(Nat)]
  /\ fit \in [Envs -> Seq(Nat)]
  /\ encoded \in [Envs -> Nat \cup {None}]
  /\ op \in {"idle", "buffer", "encode", "replay", "predict"}
  /\ todo \in Seq(Envs) /\ (op # "idle" => todo # <<>>)
  /\ history \in Seq(Nat) /\ saved \in Seq(Nat)
  /\ answer \in Seq(Answer) /\ failed \in BOOLEAN
  /\ torn \subseteq Envs

\* s lists the even ticks below t, each once and in order.
ListsEvens(s, t) ==
  /\ 2 * Len(s) \in {t, t + 1}
  /\ \A i \in 1..Len(s) : s[i] = 2 * (i - 1)

\* The seed and the key frames that wait for it hold every even tick once and
\* in order, the history the offline fits were made with, whichever calls
\* failed and were repeated, at whatever environment of their batch.
FitFollowsEvenTicks ==
  \A e \in Envs \ torn :
    IF op = "replay" /\ e = Current
    THEN ListsEvens(saved \o keys[e], tick[e])
    ELSE ListsEvens(fit[e] \o keys[e], tick[e])

\* A prediction is made from the latest observation of its environment, and its
\* seed ends with that observation.
PredictsLatest ==
  op = "predict" /\ Current \notin torn =>
    LET e == Current
    IN /\ encoded[e] = tick[e] - 1
       /\ fit[e] # <<>> /\ fit[e][Len(fit[e])] = encoded[e]
=============================================================================
