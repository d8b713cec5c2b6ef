------------------------------- MODULE EvalLoop -------------------------------
(***************************************************************************)
(* The evaluation loop of the VITRA policy (eval_one_episode_batch of      *)
(* policy/VITRA/deploy.py; eval_one_episode is a batch of one) driving a   *)
(* MANO45 session.                                                         *)
(*                                                                         *)
(* Each round observes the running environments, asks for one chunk of     *)
(* actions for each of them and executes the chunks in step, observing     *)
(* after every action but the last.  Environments end at different times,  *)
(* in the middle of a chunk too, and then leave the lists the loop keeps.  *)
(* Any call may fail, or be given up on while the session still works on   *)
(* it; the loop then ends with an exception, and what follows is another   *)
(* episode, whose reset waits for the lock of the model.                   *)
(***************************************************************************)
EXTENDS ManoSession

CONSTANT Chunk   \* execute_action_chunk

\* Checked by the constructor of the model.
ASSUME ChunkAssumption == Chunk \in Nat \ {0} /\ Chunk % 2 = 0

VARIABLES
  stage,     \* where the loop is
  running,   \* TASK_ENV.get_running_env_idx_list()
  group,     \* env_idx_list
  chunks,    \* actions: for each member of group, what it was predicted from
  idx,       \* action_idx
  previous,  \* previous_original_by_env
  live       \* live_obs_by_env: the tick of the observation

loopVars == <<stage, running, group, chunks, idx, previous, live>>
vars == <<sessionVars, loopVars>>

\* The step-th original command of the chunk predicted for env from the
\* observation with that tick; step 0 is the observation itself.
Command(env, t, step) == [env |-> env, tick |-> t, step |-> step]

Init ==
  /\ SessionInit
  /\ stage = "ended" /\ running = {}
  /\ group = <<>> /\ chunks = <<>> /\ idx = 0
  /\ previous = [e \in Envs |-> None]
  /\ live = [e \in Envs |-> None]

Members(b) == {b[i] : i \in DOMAIN b}

\* Mutant of StartEpisode: the model is not reset.
StartWithoutReset ==
  /\ stage \in {"ended", "aborted"} /\ op = "idle"
  /\ running' \in (SUBSET Envs) \ {{}}
  /\ stage' = "query"
  /\ UNCHANGED <<sessionVars, group, chunks, idx, previous, live>>

\* The next episode resets the model first.
StartEpisode ==
  /\ stage \in {"ended", "aborted"}
  /\ Reset
  /\ running' \in (SUBSET Envs) \ {{}}
  /\ stage' = "query"
  /\ UNCHANGED <<group, chunks, idx, previous, live>>

\* The live observations of the members of b are the ones just taken.
Watch(b) == live' = [e \in Envs |-> IF e \in Members(b) THEN tick[e] ELSE None]

\* get_obs_batch, _attach_env_indices and the call of update_obs_batch.
Query ==
  /\ stage = "query"
  /\ \E b \in Batches :
       /\ Members(b) = running
       /\ group' = b
       /\ Watch(b)
       /\ previous' = [e \in Envs |-> IF e \in Members(b) THEN Command(e, tick[e], 0) ELSE None]
       /\ \/ UpdateObs(b) /\ stage' = "observing"
          \/ ConversionFails(b) /\ stage' = "aborted"
  /\ UNCHANGED <<running, chunks, idx>>

Ask ==
  /\ stage = "observing" /\ op = "idle" /\ ~failed
  /\ GetAction(group)
  /\ stage' = "asking"
  /\ UNCHANGED <<running, group, chunks, idx, previous, live>>

Receive ==
  /\ stage = "asking" /\ op = "idle" /\ ~failed
  /\ chunks' = answer /\ idx' = 0
  /\ stage' = "acting"
  /\ UNCHANGED <<sessionVars, running, group, previous, live>>

LastAction == idx + 1 = Chunk

\* active_batch_idx: the places in group of the environments in set, in order.
ActiveBatchIdx(set) ==
  {p \in UNION {[1..n -> DOMAIN group] : n \in 1..Len(group)} :
     /\ \A i, j \in DOMAIN p : i < j => p[i] < p[j]
     /\ {group[p[i]] : i \in DOMAIN p} = set}

\* Mutant of Narrow: only the environments are dropped, not their chunks.
NarrowGroup(p) ==
  /\ group' = [i \in DOMAIN p |-> group[p[i]]]
  /\ chunks' = [i \in DOMAIN p |-> chunks[i]]

\* Environments that ended leave both lists.
Narrow(p) ==
  /\ group' = [i \in DOMAIN p |-> group[p[i]]]
  /\ chunks' = [i \in DOMAIN p |-> chunks[p[i]]]

\* Mutant of Executed: the previous command is only set at the query.
ExecutedNothing == previous

\* The command of chunk i has been executed in environment group[i].
Executed ==
  [e \in Envs |-> IF e \in Members(group)
                  THEN LET i == CHOOSE j \in DOMAIN group : group[j] = e
                       IN Command(chunks[i].env, chunks[i].tick, idx + 1)
                  ELSE previous[e]]

\* One action in each environment.  Some may end by it, or the episode, which
\* does before an environment is observed more than MaxTick times.
Act ==
  /\ stage = "acting"
  /\ previous' = Executed
  /\ running' \in SUBSET running
  /\ \/ /\ stage' = "ended"
        /\ UNCHANGED <<sessionVars, group, chunks, idx, live>>
     \/ /\ LastAction /\ running' # {} /\ \A e \in running' : tick[e] < MaxTick
        /\ stage' = "query"
        /\ UNCHANGED <<sessionVars, group, chunks, idx, live>>
     \/ /\ ~LastAction /\ running' # {}
        /\ \E p \in ActiveBatchIdx(running') : Narrow(p)
        /\ idx' = idx + 1
        /\ Watch(group')
        /\ \/ UpdateObs(group') /\ stage' = "following"
           \/ ConversionFails(group') /\ stage' = "aborted"

Follow ==
  /\ stage = "following" /\ op = "idle" /\ ~failed
  /\ stage' = "acting"
  /\ UNCHANGED <<sessionVars, running, group, chunks, idx, previous, live>>

Calling == stage \in {"observing", "asking", "following"}

\* The call raised, or the client gave up on it while the session works on or
\* its answer is lost.
Abort ==
  /\ Calling
  /\ stage' = "aborted"
  /\ UNCHANGED <<sessionVars, running, group, chunks, idx, previous, live>>

Loop == StartEpisode \/ Query \/ Ask \/ Receive \/ Act \/ Follow \/ Abort

Next == Loop \/ (Work /\ UNCHANGED loopVars)

Spec == Init /\ [][Next]_vars

-----------------------------------------------------------------------------
(* Properties.                                                             *)

\* Every variable of the loop keeps its type.
TypeOK ==
  /\ SessionTypeOK
  /\ stage \in {"query", "observing", "asking", "acting", "following", "ended", "aborted"}
  /\ running \subseteq Envs
  /\ group \in Seq(Envs) /\ chunks \in Seq(Answer)
  /\ idx \in 0..(Chunk - 1)
  /\ previous \in [Envs -> [env : Envs, tick : Nat, step : 0..Chunk] \cup {None}]
  /\ live \in [Envs -> Nat \cup {None}]

\* No query of the loop lands on an observation that is not a key frame, which
\* the session would refuse, whatever failed or ended before.
QueriesEvenTicks == ~OddQuery

\* The action executed in an environment was predicted for it, and is the one
\* for this very moment: as many observations after the query as its place in
\* the chunk, also after other environments of the batch have ended.
ActsInStep ==
  stage = "acting" =>
    /\ Len(chunks) = Len(group)
    /\ \A i \in DOMAIN group :
         /\ chunks[i].env = group[i]
         /\ chunks[i].tick + idx + 1 = tick[group[i]]

\* The live rebase pairs the command with the one before it in the same chunk
\* and with the last observation of the same environment.
RebasesOwnCommand ==
  stage = "acting" =>
    \A i \in DOMAIN group :
      /\ previous[group[i]] = Command(group[i], chunks[i].tick, idx)
      /\ live[group[i]] + 1 = tick[group[i]]
=============================================================================
