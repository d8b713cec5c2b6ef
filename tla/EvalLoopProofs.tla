---------------------------- MODULE EvalLoopProofs ----------------------------
(***************************************************************************)
(* What the evaluation loop keeps in step with the session it drives, for  *)
(* any number of environments, any length of an episode and any even chunk.*)
(***************************************************************************)
EXTENDS EvalLoop, SequenceTheorems, TLAPS

\* The calls that ask for actions work on observations with an even tick.
Asking == op \in {"encode", "replay", "predict"}

\* What the running call has yet to serve, and what is encoded.
SessionInv ==
  /\ op = "idle" <=> todo = <<>>
  /\ op # "idle" => ~failed
  /\ \A i, j \in DOMAIN todo : todo[i] = todo[j] => i = j
  /\ Asking => \A i \in DOMAIN todo : ~Even(tick[todo[i]])
  /\ \A e \in Envs \ torn : encoded[e] # None => encoded[e] + 1 = tick[e]
  /\ op = "predict" => encoded[Current] # None

\* The loop is inside a round that has not failed.
InRound == stage = "acting" \/ (Calling /\ ~failed)

\* Between two calls nothing runs.
Resting ==
  stage \in {"query", "acting"} => op = "idle" /\ torn = {} /\ running # {}

AtQuery == stage = "query" => \A e \in running : Even(tick[e])

\* The lists of the loop are those of the running environments.
GroupIsRunning ==
  InRound => /\ torn = {} /\ running # {}
             /\ Members(group) = running
             /\ \A i, j \in DOMAIN group : group[i] = group[j] => i = j

\* The observation an environment was last watched with is the last the
\* session has buffered, or the one it is about to buffer.
Watched ==
  InRound => \A e \in running :
    /\ live[e] \in Nat
    /\ live[e] + 1 = IF op = "buffer" /\ e \in Members(todo) THEN tick[e] + 1 ELSE tick[e]

\* A round begins on an even tick.
Begun ==
  InRound /\ stage \in {"observing", "asking"} =>
    \A e \in running : Even(live[e]) /\ previous[e] = Command(e, live[e], 0)

\* Chunk and environment are in step.
InStep ==
  InRound /\ stage \in {"acting", "following"} =>
    /\ Len(chunks) = Len(group)
    /\ \A i \in DOMAIN group :
         /\ chunks[i].env = group[i]
         /\ Even(chunks[i].tick)
         /\ chunks[i].tick + idx = live[group[i]]
         /\ previous[group[i]] = Command(group[i], chunks[i].tick, idx)

\* An update works on the running environments.
Updating ==
  InRound /\ stage \in {"observing", "following"} =>
    op \in {"idle", "buffer"} /\ Members(todo) \subseteq running

\* The answers so far are those for the first members of group.
Answering ==
  InRound /\ stage = "asking" =>
    /\ op \in {"idle", "encode", "replay", "predict"}
    /\ Len(answer) + Len(todo) = Len(group)
    /\ \A i \in DOMAIN todo : todo[i] = group[Len(answer) + i]
    /\ \A i \in DOMAIN answer :
         answer[i].env = group[i] /\ answer[i].tick = live[group[i]]

LoopInv ==
  /\ Resting /\ AtQuery /\ GroupIsRunning /\ Watched
  /\ Begun /\ InStep /\ Updating /\ Answering

IInv == TypeOK /\ SessionInv /\ LoopInv

-----------------------------------------------------------------------------
(* Parity, batches and the sequences a call works through.                 *)

\* The parity of a sum.
LEMMA Parity ==
  \A a, b \in Nat : /\ Even(a + 1) <=> ~Even(a)
                    /\ Even(a) /\ Even(b) => Even(a + b)
BY DEF Even

\* The chunk is even, as the constructor demands.
LEMMA ChunkFacts == Chunk \in Nat /\ Chunk > 0 /\ Even(Chunk) /\ 0 \in 0..(Chunk - 1)
BY ChunkAssumption DEF Even

\* A batch is a sequence of distinct environments, never empty.
LEMMA BatchFacts ==
  ASSUME NEW b \in Batches
  PROVE  /\ b \in Seq(Envs) /\ b # <<>> /\ Len(b) \in Nat /\ Len(b) > 0
         /\ DOMAIN b = 1..Len(b)
         /\ \A i, j \in DOMAIN b : b[i] = b[j] => i = j
         /\ Members(b) \subseteq Envs /\ Members(b) # {}
<1>1. PICK n \in 1..Cardinality(Envs) : b \in [1..n -> Envs]
  BY DEF Batches
<1>2. n \in Nat /\ n > 0
  OBVIOUS
<1>3. b \in Seq(Envs) /\ Len(b) = n /\ DOMAIN b = 1..n
  BY <1>1, <1>2
<1>4. b # <<>> /\ b[1] \in Envs
  BY <1>1, <1>2, <1>3
<1>5. \A i, j \in DOMAIN b : b[i] = b[j] => i = j
  BY DEF Batches
<1> QED
  BY <1>1, <1>2, <1>3, <1>4, <1>5 DEF Members

\* What is left of a sequence when its head is done.
LEMMA TailFacts ==
  ASSUME NEW S, NEW s \in Seq(S), s # <<>>
  PROVE  /\ Head(s) \in S /\ Head(s) = s[1] /\ 1 \in DOMAIN s
         /\ Tail(s) \in Seq(S) /\ Len(Tail(s)) = Len(s) - 1
         /\ DOMAIN s = 1..Len(s) /\ Len(s) \in Nat
         /\ DOMAIN Tail(s) = 1..(Len(s) - 1)
         /\ \A i \in 1..(Len(s) - 1) : Tail(s)[i] = s[i + 1] /\ i + 1 \in DOMAIN s
         /\ Tail(s) = <<>> <=> Len(s) = 1
<1>1. Len(s) \in Nat /\ Len(s) > 0 /\ DOMAIN s = 1..Len(s)
  OBVIOUS
<1>2. 1 \in DOMAIN s /\ Head(s) = s[1] /\ Head(s) \in S
  BY <1>1
<1>3. Tail(s) \in Seq(S) /\ Len(Tail(s)) = Len(s) - 1 /\ DOMAIN Tail(s) = 1..(Len(s) - 1)
  BY <1>1
<1>4. \A i \in 1..(Len(s) - 1) : Tail(s)[i] = s[i + 1] /\ i + 1 \in DOMAIN s
  BY <1>1
<1>5. Tail(s) = <<>> <=> Len(s) = 1
  <2>1. Tail(s) = <<>> <=> Len(Tail(s)) = 0
    <3>1. Tail(s) # <<>> => Len(Tail(s)) \in Nat \ {0}
      BY <1>3, EmptySeq
    <3>2. Tail(s) = <<>> => Len(Tail(s)) = 0
      BY EmptySeq
    <3> QED
      BY <3>1, <3>2
  <2>2. Len(Tail(s)) = 0 <=> Len(s) = 1
    BY <1>1, <1>3
  <2> QED
    BY <2>1, <2>2
<1> QED
  BY <1>1, <1>2, <1>3, <1>4, <1>5

\* The members of a sequence without repetition when its head is done.
LEMMA TailMembers ==
  ASSUME NEW s \in Seq(Envs), s # <<>>,
         \A i, j \in DOMAIN s : s[i] = s[j] => i = j
  PROVE  /\ Members(Tail(s)) = Members(s) \ {Head(s)}
         /\ \A i, j \in DOMAIN Tail(s) : Tail(s)[i] = Tail(s)[j] => i = j
         /\ Head(s) \in Members(s)
<1>1. /\ Head(s) \in Envs /\ Head(s) = s[1] /\ 1 \in DOMAIN s
      /\ DOMAIN s = 1..Len(s) /\ Len(s) \in Nat
      /\ DOMAIN Tail(s) = 1..(Len(s) - 1)
      /\ \A i \in 1..(Len(s) - 1) : Tail(s)[i] = s[i + 1] /\ i + 1 \in DOMAIN s
  BY TailFacts
<1>2. \A i, j \in DOMAIN Tail(s) : Tail(s)[i] = Tail(s)[j] => i = j
  BY <1>1
<1>3. ASSUME NEW e \in Members(Tail(s)) PROVE e \in Members(s) /\ e # Head(s)
  <2>1. PICK i \in DOMAIN Tail(s) : e = Tail(s)[i]
    BY <1>3 DEF Members
  <2>2. e = s[i + 1] /\ i + 1 \in DOMAIN s /\ i + 1 # 1
    BY <1>1, <2>1
  <2> QED
    BY <1>1, <2>2 DEF Members
<1>4. ASSUME NEW e \in Members(s), e # Head(s) PROVE e \in Members(Tail(s))
  <2>1. PICK i \in DOMAIN s : e = s[i]
    BY <1>4 DEF Members
  <2>2. i # 1 /\ i - 1 \in 1..(Len(s) - 1)
    BY <1>1, <1>4, <2>1
  <2>3. Tail(s)[i - 1] = s[(i - 1) + 1] /\ (i - 1) + 1 = i
    BY <1>1, <2>2
  <2> QED
    BY <1>1, <2>1, <2>2, <2>3 DEF Members
<1>5. Head(s) \in Members(s)
  BY <1>1 DEF Members
<1> QED
  BY <1>2, <1>3, <1>4, <1>5
\* The lists that are left when some environments have ended.
LEMMA NarrowFacts ==
  ASSUME group \in Seq(Envs), \A i, j \in DOMAIN group : group[i] = group[j] => i = j,
         NEW set, NEW p \in ActiveBatchIdx(set), NEW g,
         g = [i \in DOMAIN p |-> group[p[i]]]
  PROVE  /\ DOMAIN p = 1..Len(g) /\ Len(g) \in Nat /\ Len(g) > 0
         /\ \A i \in DOMAIN p : p[i] \in DOMAIN group
         /\ g \in Seq(Envs) /\ g # <<>> /\ DOMAIN g = DOMAIN p
         /\ Members(g) = set /\ set # {}
         /\ \A i, j \in DOMAIN g : g[i] = g[j] => i = j
<1>1. PICK n \in 1..Len(group) : p \in [1..n -> DOMAIN group]
  BY DEF ActiveBatchIdx
<1>2. /\ \A i, j \in DOMAIN p : i < j => p[i] < p[j]
      /\ {group[p[i]] : i \in DOMAIN p} = set
  BY DEF ActiveBatchIdx
<1>3. Len(group) \in Nat /\ n \in Nat /\ n > 0 /\ DOMAIN group = 1..Len(group)
  BY <1>1
<1>4. DOMAIN p = 1..n /\ \A i \in 1..n : p[i] \in 1..Len(group)
  BY <1>1, <1>3
<1>5. g \in Seq(Envs) /\ Len(g) = n /\ DOMAIN g = 1..n
  <2>1. \A i \in 1..n : group[p[i]] \in Envs
    BY <1>3, <1>4
  <2>2. g \in [1..n -> Envs]
    BY <1>4, <2>1
  <2> QED
    BY <1>3, <2>2
<1>6. \A i, j \in DOMAIN g : g[i] = g[j] => i = j
  <2> SUFFICES ASSUME NEW i \in 1..n, NEW j \in 1..n, g[i] = g[j] PROVE i = j
    BY <1>5
  <2>1. group[p[i]] = group[p[j]]
    BY <1>4
  <2>2. p[i] = p[j]
    BY <1>3, <1>4, <2>1
  <2>3. p[i] \in Nat /\ ~(p[i] < p[j]) /\ ~(p[j] < p[i])
    BY <1>3, <1>4, <2>2
  <2>4. ~(i < j) /\ ~(j < i)
    BY <1>2, <1>4, <2>3
  <2> QED
    BY <1>3, <2>4
<1>7. Members(g) = set
  BY <1>2, <1>4, <1>5 DEF Members
<1>8. set # {} /\ g # <<>>
  <2>1. 1 \in DOMAIN p
    BY <1>3, <1>4
  <2>2. group[p[1]] \in set
    BY <1>2, <2>1
  <2>3. Len(g) # 0
    BY <1>3, <1>5
  <2> QED
    BY <2>2, <2>3
<1> QED
  BY <1>3, <1>4, <1>5, <1>6, <1>7, <1>8

\* After an action, the previous command of every member is its own.
LEMMA ExecutedFacts ==
  ASSUME \A i, j \in DOMAIN group : group[i] = group[j] => i = j,
         Members(group) \subseteq Envs,
         NEW i \in DOMAIN group
  PROVE  Executed[group[i]] = Command(chunks[i].env, chunks[i].tick, idx + 1)
<1>1. group[i] \in Members(group) /\ group[i] \in Envs
  BY DEF Members
<1>2. (CHOOSE j \in DOMAIN group : group[j] = group[i]) = i
  OBVIOUS
<1> QED
  BY <1>1, <1>2 DEF Executed

-----------------------------------------------------------------------------
(* The invariant is inductive: the steps of the session.                   *)

\* The session and the loop begin with nothing.
LEMMA InitInv == Init => IInv
<1> SUFFICES ASSUME Init PROVE IInv
  OBVIOUS
<1> USE DEF Init, SessionInit
<1>1. TypeOK
  <2>1. SessionTypeOK
    <3>1. tick \in [Envs -> Nat] /\ encoded \in [Envs -> Nat \cup {None}]
      OBVIOUS
    <3>2. keys \in [Envs -> Seq(Nat)] /\ fit \in [Envs -> Seq(Nat)]
      OBVIOUS
    <3>3. todo \in Seq(Envs) /\ history \in Seq(Nat) /\ saved \in Seq(Nat)
      OBVIOUS
    <3>4. answer \in Seq(Answer)
      OBVIOUS
    <3> QED
      BY <3>1, <3>2, <3>3, <3>4 DEF SessionTypeOK
  <2>2. idx \in 0..(Chunk - 1)
    BY ChunkFacts
  <2> QED
    BY <2>1, <2>2 DEF TypeOK
<1>2. SessionInv
  BY DEF SessionInv, Asking
<1>3. LoopInv
  BY DEF LoopInv, Resting, AtQuery, GroupIsRunning, Watched, Begun, InStep, Updating,
         Answering, InRound, Calling
<1> QED
  BY <1>1, <1>2, <1>3 DEF IInv

\* While the loop is in a round and a call runs, it waits for that call.
LEMMA InCall ==
  ASSUME IInv, op # "idle", InRound
  PROVE  Calling /\ ~failed /\ stage \in {"observing", "asking", "following"}
BY DEF IInv, LoopInv, Resting, InRound, Calling

\* A call that raises ends the round.
LEMMA RaiseInv ==
  ASSUME IInv, Raise, UNCHANGED loopVars, op # "idle",
         tick' \in [Envs -> Nat], keys' \in [Envs -> Seq(Nat)], fit' \in [Envs -> Seq(Nat)],
         encoded' = encoded, torn' \subseteq Envs, torn \subseteq torn',
         \A e \in Envs \ torn' : tick'[e] = tick[e]
  PROVE  IInv'
<1> USE DEF Raise, loopVars
<1>1. TypeOK'
  <2>1. SessionTypeOK'
    <3>1. todo' \in Seq(Envs) /\ answer' \in Seq(Answer)
      OBVIOUS
    <3> QED
      BY <3>1 DEF IInv, TypeOK, SessionTypeOK
  <2> QED
    BY <2>1 DEF IInv, TypeOK
<1>2. SessionInv'
  BY DEF IInv, TypeOK, SessionTypeOK, SessionInv, Asking
<1>3. stage \notin {"query", "acting"}
  BY DEF IInv, LoopInv, Resting
<1>4. ~InRound'
  BY <1>3 DEF InRound, Calling
<1>5. LoopInv'
  BY <1>3, <1>4 DEF LoopInv, Resting, AtQuery, GroupIsRunning, Watched, Begun, InStep,
                    Updating, Answering
<1> QED
  BY <1>1, <1>2, <1>5 DEF IInv

\* The four ways a call raises.
LEMMA FailuresInv ==
  ASSUME IInv, UNCHANGED loopVars,
         SnapshotFails \/ NothingBuffered \/ ReplayFails \/ PredictionFails
  PROVE  IInv'
<1>1. CASE SnapshotFails
  <2>1. Head(todo) \in Envs
    BY <1>1, TailFacts DEF IInv, TypeOK, SessionTypeOK, SnapshotFails
  <2>2. tick' \in [Envs -> Nat] /\ \A e \in Envs \ torn' : tick'[e] = tick[e]
    BY <1>1, <2>1 DEF IInv, TypeOK, SessionTypeOK, SnapshotFails, Current
  <2>3. /\ keys' \in [Envs -> Seq(Nat)]
        /\ fit' \in [Envs -> Seq(Nat)] /\ encoded' = encoded
        /\ torn' \subseteq Envs /\ torn \subseteq torn'
    BY <1>1, <2>1 DEF IInv, TypeOK, SessionTypeOK, SnapshotFails, seedVars, Current
  <2> QED
    BY <1>1, <2>2, <2>3, RaiseInv DEF SnapshotFails
<1>2. CASE NothingBuffered
  BY <1>2, RaiseInv DEF NothingBuffered, seedVars, IInv, TypeOK, SessionTypeOK
<1>3. CASE ReplayFails
  <2>1. fit' \in [Envs -> Seq(Nat)]
    BY <1>3 DEF ReplayFails, Restored, IInv, TypeOK, SessionTypeOK
  <2> QED
    BY <1>3, <2>1, RaiseInv DEF ReplayFails, IInv, TypeOK, SessionTypeOK
<1>4. CASE PredictionFails
  BY <1>4, RaiseInv DEF PredictionFails, seedVars, IInv, TypeOK, SessionTypeOK
<1> QED
  BY <1>1, <1>2, <1>3, <1>4
\* update_obs buffers the observation of one environment.
LEMMA BufferInv ==
  ASSUME IInv, UNCHANGED loopVars, Buffer
  PROVE  IInv'
<1> DEFINE e0 == Head(todo)
<1> USE DEF Buffer, NextEnv, Current, loopVars
<1>1. /\ todo \in Seq(Envs) /\ todo # <<>> /\ op = "buffer" /\ ~failed /\ failed' = failed
      /\ tick \in [Envs -> Nat] /\ keys \in [Envs -> Seq(Nat)]
      /\ encoded \in [Envs -> Nat \cup {None}]
      /\ \A i, j \in DOMAIN todo : todo[i] = todo[j] => i = j
  BY DEF IInv, TypeOK, SessionTypeOK, SessionInv
<1>2. /\ e0 \in Envs /\ e0 = todo[1] /\ todo' \in Seq(Envs)
      /\ op' = (IF todo' = <<>> THEN "idle" ELSE "buffer")
  BY <1>1, TailFacts
<1>3. /\ Members(todo') = Members(todo) \ {e0} /\ e0 \in Members(todo)
      /\ \A i, j \in DOMAIN todo' : todo'[i] = todo'[j] => i = j
  BY <1>1, TailMembers
<1>4. /\ tick' \in [Envs -> Nat] /\ tick'[e0] = tick[e0] + 1
      /\ \A e \in Envs \ {e0} : tick'[e] = tick[e]
  BY <1>1, <1>2, SMTT(30)
<1>5. keys' \in [Envs -> Seq(Nat)]
  <2>1. keys' = [keys EXCEPT ![e0] = KeyFrames(e0)]
    OBVIOUS
  <2>2. KeyFrames(e0) \in Seq(Nat)
    BY <1>1, <1>2 DEF KeyFrames
  <2> QED
    BY <1>1, <1>2, <2>1, <2>2
<1>6. /\ encoded' \in [Envs -> Nat \cup {None}] /\ encoded'[e0] = None
      /\ \A e \in Envs \ {e0} : encoded'[e] = encoded[e]
  BY <1>1, <1>2 DEF Forget
<1>7. TypeOK'
  <2>1. SessionTypeOK'
    BY <1>2, <1>4, <1>5, <1>6 DEF IInv, TypeOK, SessionTypeOK
  <2> QED
    BY <2>1 DEF IInv, TypeOK
<1>8. SessionInv'
  <2>1. (op' = "idle" <=> todo' = <<>>) /\ op' \in {"idle", "buffer"}
    BY <1>2
  <2>2. \A e \in Envs \ torn' : encoded'[e] # None => encoded'[e] + 1 = tick'[e]
    <3> SUFFICES ASSUME NEW e \in Envs \ torn, encoded'[e] # None
                 PROVE  encoded'[e] + 1 = tick'[e]
      OBVIOUS
    <3>1. e # e0 /\ encoded'[e] = encoded[e] /\ tick'[e] = tick[e]
      BY <1>4, <1>6
    <3> QED
      BY <3>1 DEF IInv, SessionInv
  <2>3. ~Asking'
    BY <2>1 DEF Asking
  <2> QED
    BY <1>1, <1>3, <2>1, <2>2, <2>3 DEF SessionInv
<1>9. CASE ~InRound
  <2>1. ~InRound' /\ stage' \notin {"query", "acting"}
    BY <1>1, <1>9 DEF InRound, Calling, IInv, LoopInv, Resting
  <2> QED
    BY <1>7, <1>8, <2>1 DEF IInv, LoopInv, Resting, AtQuery, GroupIsRunning, Watched, Begun,
       InStep, Updating, Answering
<1>10. CASE InRound
  <2>1. stage \in {"observing", "following"} /\ InRound'
    BY <1>1, <1>10, InCall DEF IInv, LoopInv, Answering, InRound, Calling
  <2>2. Resting' /\ AtQuery' /\ Answering'
    BY <2>1 DEF Resting, AtQuery, Answering
  <2>3. GroupIsRunning' /\ Begun' /\ InStep'
    BY <1>10, <2>1 DEF IInv, LoopInv, GroupIsRunning, Begun, InStep
  <2>4. Updating'
    BY <1>2, <1>3, <1>10, <2>1 DEF IInv, LoopInv, Updating
  <2>5. Watched'
    <3> SUFFICES ASSUME NEW e \in running
                 PROVE  /\ live[e] \in Nat
                        /\ live[e] + 1 = IF op' = "buffer" /\ e \in Members(todo')
                                        THEN tick'[e] + 1 ELSE tick'[e]
      BY DEF Watched, Members
    <3>1. /\ live[e] \in Nat /\ e \in Envs
          /\ live[e] + 1 = IF e \in Members(todo) THEN tick[e] + 1 ELSE tick[e]
      BY <1>1, <1>10 DEF IInv, LoopInv, Watched, TypeOK
    <3>2. todo' = <<>> => Members(todo') = {}
      BY DEF Members
    <3> QED
      BY <1>2, <1>3, <1>4, <3>1, <3>2
  <2> QED
    BY <1>7, <1>8, <2>2, <2>3, <2>4, <2>5 DEF IInv, LoopInv
<1> QED
  BY <1>9, <1>10

\* Steps of get_action that leave the queue and the answers alone.
LEMMA EncodingInv ==
  ASSUME IInv, UNCHANGED <<loopVars, tick, torn, todo, answer, failed>>,
         op \in {"encode", "replay"}, op' \in {"encode", "replay", "predict"},
         SessionTypeOK',
         \A e \in Envs \ torn : encoded'[e] # None => encoded'[e] + 1 = tick[e],
         op' = "predict" => encoded'[Head(todo)] # None
  PROVE  IInv'
<1> USE DEF loopVars
<1>1. TypeOK'
  BY DEF IInv, TypeOK
<1>2. SessionInv'
  BY DEF IInv, SessionInv, Asking, Current
<1>3. Resting' /\ AtQuery' /\ Updating'
  BY DEF IInv, LoopInv, Resting, AtQuery, Updating, InRound, Calling
<1>4. GroupIsRunning' /\ Begun' /\ InStep'
  BY DEF IInv, LoopInv, GroupIsRunning, Begun, InStep, InRound, Calling
<1>5. Watched' /\ Answering'
  BY DEF IInv, LoopInv, Watched, Answering, InRound, Calling, Members
<1> QED
  BY <1>1, <1>2, <1>3, <1>4, <1>5 DEF IInv, LoopInv

\* The steps of get_action up to the encoding.
LEMMA EncodeInv ==
  ASSUME IInv, UNCHANGED loopVars,
         AlreadyEncoded \/ StartReplay \/ Replay \/ Encode
  PROVE  IInv'
<1> USE DEF loopVars
<1>1. /\ SessionTypeOK /\ (op # "idle" => Head(todo) \in Envs /\ Head(todo) = todo[1] /\ 1 \in DOMAIN todo)
      /\ \A e \in Envs \ torn : encoded[e] # None => encoded[e] + 1 = tick[e]
  BY TailFacts DEF IInv, TypeOK, SessionTypeOK, SessionInv
<1>2. CASE AlreadyEncoded
  <2>1. SessionTypeOK'
    BY <1>1, <1>2 DEF AlreadyEncoded, SessionTypeOK, seedVars
  <2> QED
    BY <1>1, <1>2, <2>1, EncodingInv DEF AlreadyEncoded, seedVars, Current
<1>3. CASE StartReplay
  <2>1. history' \in Seq(Nat) /\ saved' \in Seq(Nat)
    <3>1. Current \in Envs /\ keys[Current] \in Seq(Nat) /\ fit[Current] \in Seq(Nat)
      BY <1>1, <1>3 DEF StartReplay, SessionTypeOK, Current
    <3>2. Len(keys[Current]) \in Nat
      BY <3>1
    <3>3. Len(keys[Current]) > 0 =>
             SubSeq(keys[Current], 1, Len(keys[Current]) - 1) \in Seq(Nat)
      BY <3>1, <3>2
    <3>4. Preceding(Current) \in Seq(Nat)
      BY <3>1, <3>3 DEF Preceding
    <3> QED
      BY <1>3, <3>1, <3>4 DEF StartReplay
  <2>2. SessionTypeOK'
    BY <1>1, <1>3, <2>1 DEF StartReplay, SessionTypeOK, seedVars
  <2> QED
    BY <1>1, <1>3, <2>2, EncodingInv DEF StartReplay, seedVars
<1>4. CASE Replay
  <2>1. Head(history) \in Nat /\ history' \in Seq(Nat)
    BY <1>1, <1>4 DEF Replay, SessionTypeOK
  <2>2. fit' \in [Envs -> Seq(Nat)]
    BY <1>1, <1>4, <2>1 DEF Replay, SessionTypeOK, Current
  <2>3. SessionTypeOK'
    BY <1>1, <1>4, <2>1, <2>2 DEF Replay, SessionTypeOK
  <2> QED
    BY <1>1, <1>4, <2>3, EncodingInv DEF Replay
<1>5. CASE Encode
  <2> DEFINE e0 == Head(todo)
  <2>1. e0 \in Envs /\ tick[e0] \in Nat /\ ~Even(tick[e0])
    BY <1>1, <1>5 DEF Encode, SessionTypeOK, IInv, SessionInv, Asking
  <2>2. tick[e0] - 1 \in Nat
    BY <2>1 DEF Even
  <2>3. /\ fit' \in [Envs -> Seq(Nat)] /\ keys' \in [Envs -> Seq(Nat)]
        /\ encoded' \in [Envs -> Nat \cup {None}]
        /\ encoded'[e0] = tick[e0] - 1
        /\ \A e \in Envs \ {e0} : encoded'[e] = encoded[e]
    BY <1>1, <1>5, <2>1, <2>2 DEF Encode, SessionTypeOK, Current
  <2>4. SessionTypeOK'
    BY <1>1, <1>5, <2>3 DEF Encode, SessionTypeOK
  <2>5. encoded'[e0] # None /\ encoded'[e0] + 1 = tick[e0]
    BY <2>1, <2>2, <2>3, NoneAssumption
  <2> QED
    BY <1>1, <1>5, <2>3, <2>4, <2>5, EncodingInv DEF Encode
<1> QED
  BY <1>2, <1>3, <1>4, <1>5

\* A prediction adds the answer for one environment.
LEMMA PredictInv ==
  ASSUME IInv, UNCHANGED loopVars, Predict
  PROVE  IInv'
<1> DEFINE e0 == Head(todo)
<1> USE DEF Predict, NextEnv, Current, loopVars, seedVars
<1>1. /\ todo \in Seq(Envs) /\ todo # <<>> /\ op = "predict" /\ ~failed /\ failed' = failed
      /\ tick \in [Envs -> Nat] /\ encoded \in [Envs -> Nat \cup {None}]
      /\ \A i, j \in DOMAIN todo : todo[i] = todo[j] => i = j
      /\ encoded[e0] # None /\ answer \in Seq(Answer)
  BY DEF IInv, TypeOK, SessionTypeOK, SessionInv
<1>2. /\ e0 \in Envs /\ e0 = todo[1] /\ todo' \in Seq(Envs) /\ Len(todo') = Len(todo) - 1
      /\ Len(todo) \in Nat /\ Len(todo) > 0 /\ 1 \in DOMAIN todo
      /\ op' = (IF todo' = <<>> THEN "idle" ELSE "encode")
      /\ DOMAIN todo' = 1..(Len(todo) - 1)
      /\ \A i \in 1..(Len(todo) - 1) : todo'[i] = todo[i + 1] /\ i + 1 \in DOMAIN todo
  BY <1>1, TailFacts, SMTT(30)
<1>3. \A i, j \in DOMAIN todo' : todo'[i] = todo'[j] => i = j
  BY <1>1, TailMembers
<1>4. /\ [env |-> e0, tick |-> encoded[e0]] \in Answer
      /\ answer' \in Seq(Answer) /\ Len(answer') = Len(answer) + 1 /\ Len(answer) \in Nat
      /\ \A i \in 1..Len(answer) : answer'[i] = answer[i]
      /\ answer'[Len(answer) + 1] = [env |-> e0, tick |-> encoded[e0]]
  <2>1. [env |-> e0, tick |-> encoded[e0]] \in Answer
    BY <1>1, <1>2 DEF Answer
  <2> QED
    BY <1>1, <2>1
<1>5. TypeOK'
  <2>1. SessionTypeOK'
    BY <1>2, <1>4 DEF IInv, TypeOK, SessionTypeOK
  <2> QED
    BY <2>1 DEF IInv, TypeOK
<1>6. SessionInv'
  <2>1. (op' = "idle" <=> todo' = <<>>) /\ op' \in {"idle", "encode"}
    BY <1>2
  <2>2. \A i \in DOMAIN todo' : ~Even(tick[todo'[i]])
    <3>1. \A i \in DOMAIN todo : ~Even(tick[todo[i]])
      BY <1>1 DEF IInv, SessionInv, Asking
    <3>2. \A i \in DOMAIN todo' : todo'[i] = todo[i + 1] /\ i + 1 \in DOMAIN todo
      BY <1>2
    <3> QED
      BY <3>1, <3>2
  <2>3. \A e \in Envs \ torn' : encoded'[e] # None => encoded'[e] + 1 = tick'[e]
    BY DEF IInv, SessionInv
  <2>4. Asking' => \A i \in DOMAIN todo' : ~Even(tick'[todo'[i]])
    BY <2>2
  <2> QED
    BY <1>1, <1>3, <2>4, <2>1, <2>2, <2>3 DEF SessionInv
<1>7. CASE ~InRound
  <2>1. ~InRound' /\ stage' \notin {"query", "acting"}
    BY <1>1, <1>7 DEF InRound, Calling, IInv, LoopInv, Resting
  <2> QED
    BY <1>5, <1>6, <2>1 DEF IInv, LoopInv, Resting, AtQuery, GroupIsRunning, Watched, Begun,
       InStep, Updating, Answering
<1>8. CASE InRound
  <2>1. stage = "asking" /\ InRound'
    BY <1>1, <1>8, InCall DEF IInv, LoopInv, Updating, InRound, Calling
  <2>2. Resting' /\ AtQuery' /\ Updating'
    BY <2>1 DEF Resting, AtQuery, Updating
  <2>3. GroupIsRunning' /\ Begun' /\ InStep'
    BY <1>8, <2>1 DEF IInv, LoopInv, GroupIsRunning, Begun, InStep
  <2>4. \A e \in running : live[e] \in Nat /\ live[e] + 1 = tick[e]
    BY <1>1, <1>8 DEF IInv, LoopInv, Watched
  <2>5. Watched'
    BY <1>2, <2>4 DEF Watched
  <2>6. /\ Len(answer) + Len(todo) = Len(group)
        /\ \A i \in DOMAIN todo : todo[i] = group[Len(answer) + i]
        /\ \A i \in DOMAIN answer :
             answer[i].env = group[i] /\ answer[i].tick = live[group[i]]
        /\ group \in Seq(Envs) /\ Members(group) = running /\ torn = {}
    BY <1>8, <2>1 DEF IInv, LoopInv, Answering, GroupIsRunning, TypeOK
  <2>7. e0 = group[Len(answer) + 1] /\ e0 \in running
    <3>1. Len(answer) + 1 \in DOMAIN group
      BY <1>2, <1>4, <2>6
    <3>2. todo[1] = group[Len(answer) + 1]
      <4> HIDE DEF Predict
      <4> QED
        BY <1>2, <2>6
    <3>3. group[Len(answer) + 1] \in running
      BY <2>6, <3>1 DEF Members
    <3> QED
      BY <1>2, <3>2, <3>3
  <2>8. encoded[e0] = live[e0]
    <3>1. encoded[e0] \in Nat /\ encoded[e0] + 1 = tick[e0]
      BY <1>1, <1>2, <2>6 DEF IInv, SessionInv
    <3> QED
      BY <2>4, <2>7, <3>1
  <2>9. Answering'
    <3>1. op' \in {"idle", "encode"} /\ Len(answer') + Len(todo') = Len(group)
      BY <1>2, <1>4, <2>6
    <3>2. ASSUME NEW i \in DOMAIN todo' PROVE todo'[i] = group[Len(answer') + i]
      <4>1. i \in 1..(Len(todo) - 1) /\ i + 1 \in DOMAIN todo /\ todo'[i] = todo[i + 1]
        BY <1>2
      <4>2. todo[i + 1] = group[Len(answer) + (i + 1)]
        BY <2>6, <4>1
      <4>3. Len(answer) + (i + 1) = Len(answer') + i
        BY <1>4, <4>1
      <4> QED
        BY <4>1, <4>2, <4>3
    <3>3. ASSUME NEW i \in DOMAIN answer'
          PROVE  answer'[i].env = group[i] /\ answer'[i].tick = live[group[i]]
      <4>1. i \in 1..(Len(answer) + 1)
        BY <1>4
      <4>2. CASE i = Len(answer) + 1
        BY <1>4, <2>7, <2>8, <4>2
      <4>3. CASE i # Len(answer) + 1
        <5>1. i \in 1..Len(answer) /\ i \in DOMAIN answer
          BY <1>1, <1>4, <4>1, <4>3
        <5> QED
          BY <1>4, <2>6, <5>1
      <4> QED
        BY <4>2, <4>3
    <3> QED
      BY <3>1, <3>2, <3>3 DEF Answering
  <2> QED
    BY <1>5, <1>6, <2>2, <2>3, <2>5, <2>9 DEF IInv, LoopInv
<1> QED
  BY <1>7, <1>8

\* Whatever the running call does.
LEMMA WorkInv ==
  ASSUME IInv, UNCHANGED loopVars, Work
  PROVE  IInv'
BY BufferInv, FailuresInv, EncodeInv, PredictInv DEF Work

-----------------------------------------------------------------------------
(* The invariant is inductive: the steps of the loop.                      *)

\* A step that changes nothing of the session keeps what is known of it.
LEMMA SessionSame ==
  ASSUME IInv, UNCHANGED sessionVars
  PROVE  SessionTypeOK' /\ SessionInv'
BY DEF IInv, TypeOK, SessionTypeOK, SessionInv, Asking, Current, sessionVars, seedVars, callVars

\* A call that begins keeps the types of the session.
LEMMA BeginInv ==
  ASSUME IInv, NEW b \in Seq(Envs), b # <<>>, NEW call \in {"buffer", "encode"},
         BeginCall(call, b), UNCHANGED <<tick, seedVars, torn>>
  PROVE  SessionTypeOK'
<1>1. answer' \in Seq(Answer) /\ todo' \in Seq(Envs) /\ failed' = FALSE
  BY DEF BeginCall
<1> QED
  BY <1>1 DEF IInv, TypeOK, SessionTypeOK, BeginCall, seedVars

\* A conversion that fails keeps what is known of the session.
LEMMA ConversionInv ==
  ASSUME IInv, NEW b, ConversionFails(b)
  PROVE  SessionTypeOK' /\ SessionInv'
<1>1. answer' \in Seq(Answer)
  BY DEF ConversionFails
<1>2. SessionTypeOK'
  BY <1>1 DEF IInv, TypeOK, SessionTypeOK, ConversionFails, seedVars
<1>3. SessionInv'
  BY DEF IInv, SessionInv, Asking, Current, ConversionFails, seedVars
<1> QED
  BY <1>2, <1>3

\* An episode begins by resetting the model.
LEMMA StartEpisodeInv == IInv /\ StartEpisode => IInv'
<1> SUFFICES ASSUME IInv, StartEpisode PROVE IInv'
  OBVIOUS
<1>1. SessionTypeOK'
  <2>1. tick' \in [Envs -> Nat] /\ encoded' \in [Envs -> Nat \cup {None}]
    BY DEF StartEpisode, Reset
  <2>2. keys' \in [Envs -> Seq(Nat)] /\ fit' \in [Envs -> Seq(Nat)]
    BY DEF StartEpisode, Reset
  <2>3. answer' \in Seq(Answer) /\ torn' \subseteq Envs /\ failed' \in BOOLEAN
    <3>1. <<>> \in Seq(Answer)
      OBVIOUS
    <3>2. answer' = <<>> /\ torn' = {} /\ failed' = FALSE
      BY DEF StartEpisode, Reset
    <3> QED
      BY <3>1, <3>2
  <2>4. UNCHANGED <<op, todo, history, saved>>
    BY DEF StartEpisode, Reset
  <2> QED
    BY <2>1, <2>2, <2>3, <2>4 DEF IInv, TypeOK, SessionTypeOK
<1>2. TypeOK'
  BY <1>1 DEF IInv, TypeOK, StartEpisode
<1>3. SessionInv'
  <2>1. op' = "idle" /\ todo' = <<>> /\ \A e \in Envs : encoded'[e] = None
    BY DEF IInv, SessionInv, StartEpisode, Reset
  <2>2. \A i, j \in DOMAIN todo' : todo'[i] = todo'[j] => i = j
    BY DEF IInv, SessionInv, StartEpisode, Reset
  <2> QED
    BY <2>1, <2>2 DEF SessionInv, Asking
<1>4. /\ stage' = "query" /\ op' = "idle" /\ torn' = {} /\ running' # {} /\ running' \subseteq Envs
      /\ \A e \in Envs : Even(tick'[e])
  <2>1. stage' = "query" /\ running' # {} /\ running' \subseteq Envs /\ Reset
    BY DEF StartEpisode
  <2>4. op' = "idle" /\ torn' = {}
    BY <2>1 DEF Reset
  <2>2. \A e \in Envs : tick'[e] = 0
    BY DEF StartEpisode, Reset
  <2>3. Even(0)
    BY DEF Even
  <2> QED
    BY <2>1, <2>2, <2>3, <2>4
<1>5. LoopInv'
  <2>1. ~InRound'
    BY <1>4 DEF InRound, Calling
  <2>2. Resting' /\ AtQuery'
    BY <1>4 DEF Resting, AtQuery
  <2> QED
    BY <2>1, <2>2 DEF LoopInv, GroupIsRunning, Watched, Begun, InStep, Updating,
       Answering
<1> QED
  BY <1>2, <1>3, <1>5 DEF IInv

\* A round begins with an observation of every running environment.
LEMMA QueryInv == IInv /\ Query => IInv'
<1> SUFFICES ASSUME IInv, Query PROVE IInv'
  OBVIOUS
<1>1. PICK b \in Batches :
        /\ Members(b) = running /\ group' = b /\ Watch(b)
        /\ previous' = [e \in Envs |-> IF e \in Members(b) THEN Command(e, tick[e], 0) ELSE None]
        /\ \/ UpdateObs(b) /\ stage' = "observing"
           \/ ConversionFails(b) /\ stage' = "aborted"
  BY DEF Query
<1>2. stage = "query" /\ UNCHANGED <<running, chunks, idx>>
  BY DEF Query
<1>3. /\ b \in Seq(Envs) /\ b # <<>> /\ \A i, j \in DOMAIN b : b[i] = b[j] => i = j
      /\ torn = {} /\ running # {} /\ op = "idle" /\ running \subseteq Envs
      /\ \A e \in running : Even(tick[e])
      /\ tick \in [Envs -> Nat]
  BY <1>1, <1>2, BatchFacts DEF IInv, TypeOK, SessionTypeOK, LoopInv, Resting, AtQuery
<1>4. live' \in [Envs -> Nat \cup {None}] /\ \A e \in running : live'[e] = tick[e]
  BY <1>1, <1>3 DEF Watch
<1>5. /\ previous' \in [Envs -> [env : Envs, tick : Nat, step : 0..Chunk] \cup {None}]
      /\ \A e \in running : previous'[e] = Command(e, tick[e], 0)
  <2>1. \A e \in Envs : Command(e, tick[e], 0) \in [env : Envs, tick : Nat, step : 0..Chunk]
    BY <1>3, ChunkFacts DEF Command
  <2> QED
    BY <1>1, <1>3, <2>1
<1>6. UNCHANGED tick
  BY <1>1 DEF UpdateObs, ConversionFails
<1>7. CASE UpdateObs(b) /\ stage' = "observing"
  <2>1. /\ op' = "buffer" /\ todo' = b /\ failed' = FALSE /\ UNCHANGED <<encoded, torn>>
        /\ BeginCall("buffer", b) /\ UNCHANGED <<tick, seedVars, torn>>
    BY <1>7 DEF UpdateObs, BeginCall, seedVars
  <2>2. SessionTypeOK'
    BY <1>3, <2>1, BeginInv
  <2>3. TypeOK'
    BY <1>1, <1>2, <1>3, <1>4, <1>5, <1>7, <2>2 DEF IInv, TypeOK
  <2>4. SessionInv'
    BY <1>3, <1>6, <2>1 DEF IInv, SessionInv, Asking
  <2>5. Resting' /\ AtQuery' /\ InStep' /\ Answering'
    BY <1>7 DEF Resting, AtQuery, InStep, Answering
  <2>6. GroupIsRunning' /\ Updating'
    BY <1>1, <1>2, <1>3, <2>1 DEF GroupIsRunning, Updating, Members
  <2>7. Watched'
    <3> SUFFICES ASSUME NEW e \in running
                 PROVE  /\ live'[e] \in Nat
                        /\ live'[e] + 1 = IF op' = "buffer" /\ e \in Members(todo')
                                          THEN tick'[e] + 1 ELSE tick'[e]
      BY <1>2 DEF Watched, Members
    <3>1. e \in Members(todo') /\ live'[e] = tick[e] /\ tick'[e] = tick[e] /\ tick[e] \in Nat
      BY <1>1, <1>3, <1>4, <1>6, <2>1 DEF Members
    <3> QED
      BY <2>1, <3>1
  <2>8. Begun'
    BY <1>2, <1>3, <1>4, <1>5 DEF Begun, Command
  <2> QED
    BY <2>3, <2>4, <2>5, <2>6, <2>7, <2>8 DEF IInv, LoopInv
<1>8. CASE ConversionFails(b) /\ stage' = "aborted"
  <2>1. SessionTypeOK' /\ SessionInv'
    BY <1>8, ConversionInv
  <2>2. TypeOK'
    BY <1>1, <1>2, <1>3, <1>4, <1>5, <1>8, <2>1 DEF IInv, TypeOK
  <2>3. ~InRound' /\ Resting' /\ AtQuery'
    BY <1>8 DEF InRound, Calling, Resting, AtQuery
  <2>4. LoopInv'
    BY <2>3 DEF LoopInv, GroupIsRunning, Watched, Begun, InStep, Updating, Answering
  <2> QED
    BY <2>1, <2>2, <2>4 DEF IInv
<1> QED
  BY <1>1, <1>7, <1>8

\* The actions are asked for once every observation is buffered.
LEMMA AskInv == IInv /\ Ask => IInv'
<1> SUFFICES ASSUME IInv, Ask PROVE IInv'
  OBVIOUS
<1>1. /\ stage = "observing" /\ op = "idle" /\ ~failed /\ stage' = "asking"
      /\ UNCHANGED <<running, group, chunks, idx, previous, live>>
  BY DEF Ask
<1>2. /\ op' = "encode" /\ todo' = group /\ failed' = FALSE /\ answer' = <<>>
      /\ BeginCall("encode", group)
      /\ UNCHANGED <<tick, seedVars, torn>> /\ UNCHANGED encoded
  BY DEF Ask, GetAction, BeginCall, seedVars
<1>3. InRound /\ InRound'
  BY <1>1, <1>2 DEF InRound, Calling
<1>4. /\ group \in Seq(Envs) /\ Members(group) = running /\ running # {} /\ torn = {}
      /\ \A i, j \in DOMAIN group : group[i] = group[j] => i = j
      /\ tick \in [Envs -> Nat] /\ running \subseteq Envs
  BY <1>3 DEF IInv, TypeOK, SessionTypeOK, LoopInv, GroupIsRunning
<1>5. group # <<>> /\ \A i \in DOMAIN group : group[i] \in running
  BY <1>4 DEF Members
<1>6. \A e \in running : live[e] \in Nat /\ live[e] + 1 = tick[e] /\ Even(live[e])
  BY <1>1, <1>3 DEF IInv, LoopInv, Watched, Begun
<1>7. \A e \in running : ~Even(tick[e])
  BY <1>6, Parity
<1>8. SessionTypeOK'
  BY <1>2, <1>4, <1>5, BeginInv
<1>9. TypeOK'
  BY <1>1, <1>8 DEF IInv, TypeOK
<1>10. SessionInv'
  <2>1. \A i \in DOMAIN todo' : ~Even(tick'[todo'[i]])
    BY <1>2, <1>5, <1>7
  <2>2. \A e \in Envs \ torn' : encoded'[e] # None => encoded'[e] + 1 = tick'[e]
    BY <1>2 DEF IInv, SessionInv
  <2> QED
    BY <1>2, <1>4, <1>5, <2>1, <2>2 DEF SessionInv
<1>11. Resting' /\ AtQuery' /\ InStep' /\ Updating'
  BY <1>1 DEF Resting, AtQuery, InStep, Updating
<1>12. GroupIsRunning' /\ Begun'
  BY <1>1, <1>2, <1>3, <1>4 DEF IInv, LoopInv, GroupIsRunning, Begun, Members
<1>13. Watched'
  BY <1>1, <1>2, <1>6 DEF Watched
<1>14. Answering'
  <2>1. Len(answer') = 0 /\ DOMAIN answer' = {} /\ Len(group) \in Nat /\ DOMAIN group = 1..Len(group)
    BY <1>2, <1>4
  <2>2. Len(answer') + Len(todo') = Len(group')
    BY <1>1, <1>2, <2>1
  <2>3. \A i \in DOMAIN todo' : todo'[i] = group'[Len(answer') + i]
    BY <1>1, <1>2, <2>1
  <2> QED
    BY <1>2, <2>1, <2>2, <2>3 DEF Answering
<1> QED
  BY <1>9, <1>10, <1>11, <1>12, <1>13, <1>14 DEF IInv, LoopInv

\* A full set of answers becomes the chunks of the round.
LEMMA ReceiveInv == IInv /\ Receive => IInv'
<1> SUFFICES ASSUME IInv, Receive PROVE IInv'
  OBVIOUS
<1>1. /\ stage = "asking" /\ op = "idle" /\ ~failed /\ stage' = "acting"
      /\ chunks' = answer /\ idx' = 0
      /\ UNCHANGED <<running, group, previous, live>> /\ UNCHANGED sessionVars
      /\ UNCHANGED <<op, todo, tick, torn>>
  BY DEF Receive, sessionVars, callVars
<1>2. InRound /\ InRound'
  BY <1>1 DEF InRound, Calling
<1>3. SessionTypeOK' /\ SessionInv'
  BY <1>1, SessionSame
<1>4. TypeOK'
  <2>1. chunks' \in Seq(Answer) /\ idx' \in 0..(Chunk - 1)
    BY <1>1, ChunkFacts DEF IInv, TypeOK, SessionTypeOK
  <2> QED
    BY <1>1, <1>3, <2>1 DEF IInv, TypeOK
<1>5. /\ torn = {} /\ running # {} /\ Members(group) = running
      /\ \A e \in running : /\ live[e] \in Nat /\ live[e] + 1 = tick[e] /\ Even(live[e])
                            /\ previous[e] = Command(e, live[e], 0)
  BY <1>1, <1>2 DEF IInv, LoopInv, GroupIsRunning, Watched, Begun
<1>6. Len(answer) = Len(group) /\ DOMAIN answer = DOMAIN group
  <2>1. todo = <<>> /\ Len(answer) + Len(todo) = Len(group)
    BY <1>1, <1>2 DEF IInv, SessionInv, LoopInv, Answering
  <2>2. Len(todo) = 0
    BY <2>1
  <2>3. group \in Seq(Envs) /\ answer \in Seq(Answer)
    BY DEF IInv, TypeOK, SessionTypeOK
  <2>4. /\ Len(group) \in Nat /\ DOMAIN group = 1..Len(group)
        /\ Len(answer) \in Nat /\ DOMAIN answer = 1..Len(answer)
    BY <2>3
  <2> QED
    BY <2>1, <2>2, <2>4
<1>7. Resting' /\ AtQuery' /\ Begun' /\ Updating' /\ Answering'
  BY <1>1, <1>5 DEF Resting, AtQuery, Begun, Updating, Answering
<1>8. GroupIsRunning' /\ Watched'
  BY <1>1, <1>2, <1>5 DEF IInv, LoopInv, GroupIsRunning, Watched, Members
<1>9. InStep'
  <2> SUFFICES ASSUME NEW i \in DOMAIN group
               PROVE  /\ answer[i].env = group[i] /\ Even(answer[i].tick)
                      /\ answer[i].tick + 0 = live[group[i]]
                      /\ previous[group[i]] = Command(group[i], answer[i].tick, 0)
    BY <1>1, <1>6 DEF InStep
  <2>1. answer[i].env = group[i] /\ answer[i].tick = live[group[i]]
    BY <1>1, <1>2, <1>6 DEF IInv, LoopInv, Answering
  <2>2. group[i] \in running
    BY <1>5 DEF Members
  <2> QED
    BY <1>5, <2>1, <2>2
<1> QED
  BY <1>3, <1>4, <1>7, <1>8, <1>9 DEF IInv, LoopInv

\* The last observation of the round has been buffered.
LEMMA FollowInv == IInv /\ Follow => IInv'
<1> SUFFICES ASSUME IInv, Follow PROVE IInv'
  OBVIOUS
<1>1. /\ stage = "following" /\ op = "idle" /\ ~failed /\ stage' = "acting"
      /\ UNCHANGED <<running, group, chunks, idx, previous, live>> /\ UNCHANGED sessionVars
      /\ UNCHANGED <<op, todo, tick, torn>>
  BY DEF Follow, sessionVars, callVars
<1>2. InRound /\ InRound'
  BY <1>1 DEF InRound, Calling
<1>3. SessionTypeOK' /\ SessionInv'
  BY <1>1, SessionSame
<1>4. TypeOK'
  BY <1>1, <1>3 DEF IInv, TypeOK
<1>5. Resting' /\ AtQuery' /\ Begun' /\ Updating' /\ Answering'
  BY <1>1, <1>2 DEF IInv, LoopInv, GroupIsRunning, Resting, AtQuery, Begun, Updating, Answering
<1>6. GroupIsRunning' /\ Watched' /\ InStep'
  BY <1>1, <1>2 DEF IInv, LoopInv, GroupIsRunning, Watched, InStep, Members
<1> QED
  BY <1>3, <1>4, <1>5, <1>6 DEF IInv, LoopInv

\* An episode that is given up leaves the session alone.
LEMMA AbortInv == IInv /\ Abort => IInv'
<1> SUFFICES ASSUME IInv, Abort PROVE IInv'
  OBVIOUS
<1>1. /\ stage' = "aborted" /\ UNCHANGED sessionVars
      /\ UNCHANGED <<running, group, chunks, idx, previous, live>>
  BY DEF Abort
<1>2. SessionTypeOK' /\ SessionInv'
  BY <1>1, SessionSame
<1>3. TypeOK'
  BY <1>1, <1>2 DEF IInv, TypeOK
<1>4. ~InRound' /\ Resting' /\ AtQuery'
  BY <1>1 DEF InRound, Calling, Resting, AtQuery
<1>5. LoopInv'
  BY <1>4 DEF LoopInv, GroupIsRunning, Watched, Begun, InStep, Updating, Answering
<1> QED
  BY <1>2, <1>3, <1>5 DEF IInv

\* An action in each environment keeps chunk, session and observation in step.
LEMMA ActInv == IInv /\ Act => IInv'
<1> SUFFICES ASSUME IInv, Act PROVE IInv'
  OBVIOUS
<1>1. /\ stage = "acting" /\ previous' = Executed /\ running' \subseteq running
  BY DEF Act
<1>2. InRound
  BY <1>1 DEF InRound
<1>3. /\ SessionTypeOK /\ group \in Seq(Envs) /\ chunks \in Seq(Answer) /\ idx \in 0..(Chunk - 1)
      /\ running \subseteq Envs /\ op = "idle" /\ torn = {} /\ running # {}
      /\ Members(group) = running
      /\ \A i, j \in DOMAIN group : group[i] = group[j] => i = j
      /\ tick \in [Envs -> Nat]
      /\ previous \in [Envs -> [env : Envs, tick : Nat, step : 0..Chunk] \cup {None}]
  BY <1>1, <1>2 DEF IInv, TypeOK, SessionTypeOK, LoopInv, Resting, GroupIsRunning
<1>4. /\ Len(chunks) = Len(group) /\ Len(group) \in Nat
      /\ DOMAIN chunks = DOMAIN group /\ DOMAIN group = 1..Len(group)
      /\ \A i \in DOMAIN group : group[i] \in running /\ chunks[i] \in Answer
  <2>1. Len(chunks) = Len(group)
    BY <1>1, <1>2 DEF IInv, LoopInv, InStep
  <2>2. /\ Len(group) \in Nat /\ DOMAIN group = 1..Len(group)
        /\ DOMAIN chunks = 1..Len(chunks)
        /\ \A i \in DOMAIN chunks : chunks[i] \in Answer
    BY <1>3
  <2>3. \A i \in DOMAIN group : group[i] \in running
    BY <1>3 DEF Members
  <2> QED
    BY <2>1, <2>2, <2>3
<1>5. \A i \in DOMAIN group :
        /\ chunks[i].env = group[i] /\ chunks[i].env \in Envs /\ chunks[i].tick \in Nat
        /\ Even(chunks[i].tick)
        /\ chunks[i].tick + idx + 1 = tick[group[i]]
  <2> SUFFICES ASSUME NEW i \in DOMAIN group
               PROVE  /\ chunks[i].env = group[i] /\ chunks[i].env \in Envs
                      /\ chunks[i].tick \in Nat /\ Even(chunks[i].tick)
                      /\ chunks[i].tick + idx + 1 = tick[group[i]]
    OBVIOUS
  <2>1. chunks[i].env \in Envs /\ chunks[i].tick \in Nat
    BY <1>4 DEF Answer
  <2>2. /\ chunks[i].env = group[i] /\ Even(chunks[i].tick)
        /\ chunks[i].tick + idx = live[group[i]]
    BY <1>1, <1>2 DEF IInv, LoopInv, InStep
  <2>3. live[group[i]] \in Nat /\ live[group[i]] + 1 = tick[group[i]]
    BY <1>2, <1>3, <1>4 DEF IInv, LoopInv, Watched
  <2> QED
    BY <1>3, <2>1, <2>2, <2>3
<1>6. previous' \in [Envs -> [env : Envs, tick : Nat, step : 0..Chunk] \cup {None}]
  <2>1. idx + 1 \in 0..Chunk
    BY <1>3, ChunkFacts
  <2>2. \A i \in DOMAIN group : Command(chunks[i].env, chunks[i].tick, idx + 1)
                                  \in [env : Envs, tick : Nat, step : 0..Chunk]
    BY <1>5, <2>1 DEF Command
  <2>3. ASSUME NEW e \in Envs
        PROVE  Executed[e] \in [env : Envs, tick : Nat, step : 0..Chunk] \cup {None}
    <3>1. CASE e \in Members(group)
      <4>1. PICK i \in DOMAIN group : e = group[i]
        BY <3>1 DEF Members
      <4>2. Executed[e] = Command(chunks[i].env, chunks[i].tick, idx + 1)
        BY <1>3, <4>1, ExecutedFacts
      <4> QED
        BY <2>2, <4>2
    <3>2. CASE e \notin Members(group)
      <4>1. Executed[e] = previous[e]
        BY <3>2 DEF Executed
      <4> QED
        BY <1>3, <4>1
    <3> QED
      BY <3>1, <3>2
  <2>4. Executed = [e \in Envs |-> Executed[e]]
    BY DEF Executed
  <2> QED
    BY <1>1, <2>3, <2>4
<1>7. CASE /\ stage' \in {"ended", "query"} /\ UNCHANGED <<sessionVars, group, chunks, idx, live>>
           /\ stage' = "query" => LastAction /\ running' # {}
  <2>1. SessionTypeOK' /\ SessionInv' /\ UNCHANGED <<op, torn, tick>>
    BY <1>7, SessionSame DEF sessionVars, callVars
  <2>2. TypeOK'
    BY <1>1, <1>3, <1>6, <1>7, <2>1 DEF IInv, TypeOK
  <2>3. ~InRound' /\ Resting'
    BY <1>3, <1>7, <2>1 DEF InRound, Calling, Resting
  <2>4. AtQuery'
    <3> SUFFICES ASSUME LastAction, NEW e \in running PROVE Even(tick[e])
      BY <1>1, <1>7, <2>1 DEF AtQuery
    <3>1. PICK i \in DOMAIN group : e = group[i]
      BY <1>3 DEF Members
    <3>2. tick[e] = chunks[i].tick + Chunk
      <4>1. chunks[i].tick + idx + 1 = tick[e] /\ chunks[i].tick \in Nat
        BY <1>5, <3>1
      <4>2. idx + 1 = Chunk /\ idx \in Nat
        BY <1>3, ChunkFacts DEF LastAction
      <4> QED
        BY <4>1, <4>2
    <3> QED
      BY <1>5, <3>1, <3>2, Parity, ChunkFacts
  <2>5. LoopInv'
    BY <2>3, <2>4 DEF LoopInv, GroupIsRunning, Watched, Begun, InStep, Updating, Answering
  <2> QED
    BY <2>1, <2>2, <2>5 DEF IInv
<1>8. CASE /\ ~LastAction /\ running' # {}
           /\ \E p \in ActiveBatchIdx(running') : Narrow(p)
           /\ idx' = idx + 1
           /\ Watch(group')
           /\ \/ UpdateObs(group') /\ stage' = "following"
              \/ ConversionFails(group') /\ stage' = "aborted"
  <2>1. PICK p \in ActiveBatchIdx(running') : Narrow(p)
    BY <1>8
  <2>2. /\ group' = [i \in DOMAIN p |-> group[p[i]]]
        /\ chunks' = [i \in DOMAIN p |-> chunks[p[i]]]
    BY <2>1 DEF Narrow
  <2>3. /\ DOMAIN p = 1..Len(group') /\ Len(group') \in Nat
        /\ \A i \in DOMAIN p : p[i] \in DOMAIN group
        /\ group' \in Seq(Envs) /\ group' # <<>> /\ DOMAIN group' = DOMAIN p
        /\ Members(group') = running'
        /\ \A i, j \in DOMAIN group' : group'[i] = group'[j] => i = j
    BY <1>3, <2>2, NarrowFacts
  <2>4. chunks' \in Seq(Answer) /\ Len(chunks') = Len(group')
    <3>1. \A i \in DOMAIN p : chunks[p[i]] \in Answer
      BY <1>4, <2>3
    <3>2. chunks' \in [1..Len(group') -> Answer]
      BY <2>2, <2>3, <3>1
    <3> QED
      BY <2>3, <3>2
  <2>5. idx' \in 0..(Chunk - 1)
    BY <1>3, <1>8, ChunkFacts DEF LastAction
  <2>6. live' \in [Envs -> Nat \cup {None}] /\ \A e \in running' : live'[e] = tick[e]
    BY <1>1, <1>3, <1>8, <2>3 DEF Watch
  <2>7. UNCHANGED <<tick, torn>>
    BY <1>8 DEF UpdateObs, ConversionFails
  <2>8. ASSUME SessionTypeOK', stage' \in {"following", "aborted"} PROVE TypeOK'
    BY <1>1, <1>3, <1>6, <2>3, <2>4, <2>5, <2>6, <2>8 DEF TypeOK
  <2>9. CASE UpdateObs(group') /\ stage' = "following"
    <3>1. /\ op' = "buffer" /\ todo' = group' /\ failed' = FALSE /\ UNCHANGED encoded
          /\ BeginCall("buffer", group') /\ UNCHANGED <<tick, seedVars, torn>>
      BY <2>9 DEF UpdateObs, BeginCall, seedVars
    <3>2. TypeOK'
      BY <2>3, <2>8, <2>9, <3>1, BeginInv
    <3>3. SessionInv'
      BY <2>3, <2>7, <3>1 DEF IInv, SessionInv, Asking
    <3>4. Resting' /\ AtQuery' /\ Begun' /\ Answering'
      BY <2>9 DEF Resting, AtQuery, Begun, Answering
    <3>5. GroupIsRunning' /\ Updating'
      <4>1. torn' = {} /\ running' # {}
        BY <1>3, <1>8, <2>7
      <4>2. GroupIsRunning'
        BY <2>3, <4>1 DEF GroupIsRunning
      <4>3. Updating'
        BY <2>3, <3>1 DEF Updating, Members
      <4> QED
        BY <4>2, <4>3
    <3>6. Watched'
      <4> SUFFICES ASSUME NEW e \in running'
                   PROVE  /\ live'[e] \in Nat
                          /\ live'[e] + 1 = IF op' = "buffer" /\ e \in Members(todo')
                                            THEN tick'[e] + 1 ELSE tick'[e]
        BY DEF Watched, Members
      <4>1. e \in Members(todo') /\ live'[e] = tick[e] /\ tick'[e] = tick[e] /\ tick[e] \in Nat
        BY <1>1, <1>3, <2>3, <2>6, <2>7, <3>1 DEF Members
      <4> QED
        BY <3>1, <4>1
    <3>7. InStep'
      <4> SUFFICES ASSUME NEW i \in DOMAIN group'
                   PROVE  /\ chunks'[i].env = group'[i] /\ Even(chunks'[i].tick)
                          /\ chunks'[i].tick + idx' = live'[group'[i]]
                          /\ previous'[group'[i]] = Command(group'[i], chunks'[i].tick, idx')
        BY <2>4 DEF InStep
      <4>1. /\ i \in DOMAIN p /\ p[i] \in DOMAIN group
            /\ group'[i] = group[p[i]] /\ chunks'[i] = chunks[p[i]]
        BY <2>2, <2>3
      <4>2. group'[i] \in running'
        BY <2>3 DEF Members
      <4>3. live'[group'[i]] = tick[group[p[i]]]
        BY <2>6, <4>1, <4>2
      <4>4. previous'[group'[i]] = Command(chunks[p[i]].env, chunks[p[i]].tick, idx + 1)
        <5>1. Executed[group[p[i]]] = Command(chunks[p[i]].env, chunks[p[i]].tick, idx + 1)
          BY <1>3, <4>1, ExecutedFacts
        <5> QED
          BY <1>1, <4>1, <5>1
      <4>5. chunks[p[i]].tick + (idx + 1) = tick[group[p[i]]]
        <5>1. chunks[p[i]].tick \in Nat /\ chunks[p[i]].tick + idx + 1 = tick[group[p[i]]]
          BY <1>5, <4>1
        <5>2. idx \in Nat
          BY <1>3, ChunkFacts
        <5> QED
          BY <5>1, <5>2
      <4>6. chunks[p[i]].env = group[p[i]] /\ Even(chunks[p[i]].tick)
        BY <1>5, <4>1
      <4>7. chunks'[i].tick + idx' = live'[group'[i]]
        BY <1>8, <4>1, <4>3, <4>5
      <4>8. previous'[group'[i]] = Command(group'[i], chunks'[i].tick, idx')
        BY <1>8, <4>1, <4>4, <4>6
      <4> QED
        BY <4>1, <4>6, <4>7, <4>8
    <3> QED
      BY <3>2, <3>3, <3>4, <3>5, <3>6, <3>7 DEF IInv, LoopInv
  <2>10. CASE ConversionFails(group') /\ stage' = "aborted"
    <3>1. SessionTypeOK' /\ SessionInv'
      <4>1. \A b : ConversionFails(b) <=> ConversionFails(<<>>)
        BY DEF ConversionFails
      <4> QED
        BY <2>10, <4>1, ConversionInv
    <3>2. TypeOK'
      BY <2>8, <2>10, <3>1
    <3>3. ~InRound' /\ Resting' /\ AtQuery'
      BY <2>10 DEF InRound, Calling, Resting, AtQuery
    <3>4. LoopInv'
      BY <3>3 DEF LoopInv, GroupIsRunning, Watched, Begun, InStep, Updating, Answering
    <3> QED
      BY <3>1, <3>2, <3>4 DEF IInv
  <2> QED
    BY <1>8, <2>9, <2>10
<1> QED
  BY <1>7, <1>8 DEF Act

\* Nothing happens.
LEMMA StutterInv == IInv /\ UNCHANGED vars => IInv'
<1> SUFFICES ASSUME IInv, UNCHANGED vars PROVE IInv'
  OBVIOUS
<1>1. UNCHANGED sessionVars /\ UNCHANGED loopVars
  BY DEF vars
<1>2. SessionTypeOK' /\ SessionInv'
  BY <1>1, SessionSame
<1>3. UNCHANGED <<op, todo, tick, torn, answer, failed>>
  BY <1>1 DEF sessionVars, callVars
<1>4. UNCHANGED <<stage, running, group, chunks, idx, previous, live>>
  BY <1>1 DEF loopVars
<1>5. TypeOK'
  BY <1>2, <1>4 DEF IInv, TypeOK
<1>6. Resting' /\ AtQuery' /\ GroupIsRunning' /\ Watched'
  BY <1>3, <1>4 DEF IInv, LoopInv, Resting, AtQuery, GroupIsRunning, Watched, Members, InRound,
                    Calling
<1>7. Begun' /\ InStep' /\ Updating' /\ Answering'
  BY <1>3, <1>4 DEF IInv, LoopInv, Begun, InStep, Updating, Answering, Members, InRound, Calling
<1> QED
  BY <1>2, <1>5, <1>6, <1>7 DEF IInv, LoopInv

-----------------------------------------------------------------------------
(* The theorems.                                                           *)

\* The invariant holds of every behaviour of the loop and its session.
THEOREM Inductive == Spec => []IInv
<1>1. Init => IInv
  BY InitInv
<1>2. IInv /\ [Next]_vars => IInv'
  <2> SUFFICES ASSUME IInv, [Next]_vars PROVE IInv'
    OBVIOUS
  <2>1. CASE Loop
    BY <2>1, StartEpisodeInv, QueryInv, AskInv, ReceiveInv, ActInv, FollowInv, AbortInv DEF Loop
  <2>2. CASE Work /\ UNCHANGED loopVars
    BY <2>2, WorkInv
  <2>3. CASE UNCHANGED vars
    BY <2>3, StutterInv
  <2> QED
    BY <2>1, <2>2, <2>3 DEF Next
<1> QED
  BY <1>1, <1>2, PTL DEF Spec

\* Every variable of the session and of the loop keeps its type.
THEOREM TypeCorrect == Spec => []TypeOK
<1>1. IInv => TypeOK
  BY DEF IInv
<1> QED
  BY <1>1, Inductive, PTL

\* No query of the loop is refused for its parity, for every even chunk.
THEOREM QueriesEvenTicksHolds == Spec => []QueriesEvenTicks
<1>1. IInv => QueriesEvenTicks
  <2> SUFFICES ASSUME IInv, op = "replay" PROVE Even(tick[Current] - 1)
    BY DEF QueriesEvenTicks, OddQuery
  <2>1. todo \in Seq(Envs) /\ todo # <<>> /\ tick \in [Envs -> Nat]
    BY DEF IInv, TypeOK, SessionTypeOK
  <2>2. Current \in Envs /\ Current = todo[1] /\ 1 \in DOMAIN todo
    BY <2>1, TailFacts DEF Current
  <2>3. tick[Current] \in Nat /\ ~Even(tick[Current])
    BY <2>1, <2>2 DEF IInv, SessionInv, Asking
  <2> QED
    BY <2>3 DEF Even
<1> QED
  BY <1>1, Inductive, PTL

\* The action executed in an environment was predicted for it and for this
\* moment, whichever environments of the batch have ended before.
THEOREM ActsInStepHolds == Spec => []ActsInStep
<1>1. IInv => ActsInStep
  <2> SUFFICES ASSUME IInv, stage = "acting", NEW i \in DOMAIN group
               PROVE  /\ Len(chunks) = Len(group) /\ chunks[i].env = group[i]
                      /\ chunks[i].tick + idx + 1 = tick[group[i]]
    BY DEF ActsInStep, IInv, LoopInv, InStep, InRound
  <2>1. /\ Len(chunks) = Len(group) /\ chunks[i].env = group[i]
        /\ chunks[i].tick + idx = live[group[i]]
    BY DEF IInv, LoopInv, InStep, InRound
  <2>2. op = "idle" /\ group[i] \in running
    BY DEF IInv, LoopInv, Resting, GroupIsRunning, InRound, Members
  <2>3. live[group[i]] + 1 = tick[group[i]]
    BY <2>2 DEF IInv, LoopInv, Watched, InRound
  <2> QED
    BY <2>1, <2>3
<1> QED
  BY <1>1, Inductive, PTL

\* The live rebase is given the preceding command of the chunk and the last
\* observation, both of the environment the action is for.
THEOREM RebasesOwnCommandHolds == Spec => []RebasesOwnCommand
<1>1. IInv => RebasesOwnCommand
  <2> SUFFICES ASSUME IInv, stage = "acting", NEW i \in DOMAIN group
               PROVE  /\ previous[group[i]] = Command(group[i], chunks[i].tick, idx)
                      /\ live[group[i]] + 1 = tick[group[i]]
    BY DEF RebasesOwnCommand
  <2>1. previous[group[i]] = Command(group[i], chunks[i].tick, idx)
    BY DEF IInv, LoopInv, InStep, InRound
  <2>2. op = "idle" /\ group[i] \in running
    BY DEF IInv, LoopInv, Resting, GroupIsRunning, InRound, Members
  <2>3. live[group[i]] + 1 = tick[group[i]]
    BY <2>2 DEF IInv, LoopInv, Watched, InRound
  <2> QED
    BY <2>1, <2>3
<1> QED
  BY <1>1, Inductive, PTL
=============================================================================
