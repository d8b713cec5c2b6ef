-------------------------- MODULE ManoSessionProofs ---------------------------
(***************************************************************************)
(* The solver seed of the MANO45 session, for any environments, any batches*)
(* of calls in any order and any failure inside them.                      *)
(***************************************************************************)
EXTENDS ManoSession, SequenceTheorems, TLAPS

\* While key frames are replayed, the seed and what is left of them make up
\* what was there before; a prediction needs an encoding.
Replaying ==
  /\ op = "replay" =>
       /\ encoded[Current] = None /\ tick[Current] > 0
       /\ fit[Current] \o history = saved \o Preceding(Current)
  /\ op = "predict" => encoded[Current] # None

\* What is encoded is the latest observation, a key frame, and none waits
\* behind it.
Latest ==
  \A e \in Envs \ torn :
    encoded[e] # None => keys[e] = <<>> /\ tick[e] = encoded[e] + 1 /\ Even(encoded[e])

\* The latest observation waits when it is a key frame that is not encoded.
Waiting ==
  \A e \in Envs \ torn : encoded[e] = None /\ ~Even(tick[e]) => keys[e] # <<>>

IInv == SessionTypeOK /\ FitFollowsEvenTicks /\ Replaying /\ Latest /\ Waiting

-----------------------------------------------------------------------------
(* Lists of even ticks.                                                    *)

LEMMA EvenNext ==
  ASSUME NEW n \in Nat, Even(n)
  PROVE  ~Even(n + 1)
PROOF
  BY SMTT(30) DEF Even

LEMMA EvensAppend ==
  ASSUME NEW s \in Seq(Nat), NEW t \in Nat, Even(t), ListsEvens(s, t)
  PROVE  ListsEvens(Append(s, t), t + 1)
PROOF
  <1>1. Len(s) \in Nat /\ 2 * Len(s) = t
    BY DEF ListsEvens, Even
  <1>2. /\ Len(Append(s, t)) = Len(s) + 1
        /\ \A i \in 1..Len(s) : Append(s, t)[i] = s[i]
        /\ Append(s, t)[Len(s) + 1] = t
    OBVIOUS
  <1>3. \A i \in 1..(Len(s) + 1) : Append(s, t)[i] = 2 * (i - 1)
    BY <1>1, <1>2 DEF ListsEvens
  <1> QED BY <1>1, <1>2, <1>3 DEF ListsEvens

LEMMA EvensSkip ==
  ASSUME NEW s \in Seq(Nat), NEW t \in Nat, ~Even(t), ListsEvens(s, t)
  PROVE  ListsEvens(s, t + 1)
PROOF
  <1>1. Len(s) \in Nat /\ 2 * Len(s) = t + 1
    BY DEF ListsEvens, Even
  <1> QED BY <1>1 DEF ListsEvens

LEMMA EvensLast ==
  ASSUME NEW s \in Seq(Nat), NEW t \in Nat, ~Even(t), ListsEvens(s, t)
  PROVE  Len(s) > 0 /\ s[Len(s)] = t - 1
PROOF
  <1>1. Len(s) \in Nat /\ 2 * Len(s) = t + 1
    BY DEF ListsEvens, Even
  <1> QED BY <1>1 DEF ListsEvens

LEMMA ConcatAppend ==
  ASSUME NEW s \in Seq(Nat), NEW k \in Seq(Nat), NEW x \in Nat
  PROVE  s \o Append(k, x) = Append(s \o k, x)
PROOF
  OBVIOUS

LEMMA ConcatMove ==
  ASSUME NEW s \in Seq(Nat), NEW h \in Seq(Nat), h # <<>>
  PROVE  Append(s, Head(h)) \o Tail(h) = s \o h
PROOF
  OBVIOUS

LEMMA LastSplit ==
  ASSUME NEW k \in Seq(Nat), Len(k) > 0
  PROVE  k = Append(SubSeq(k, 1, Len(k) - 1), k[Len(k)])
PROOF
  <1> DEFINE n == Len(k)
             p == SubSeq(k, 1, n - 1)
  <1>1. n \in Nat /\ n > 0
    OBVIOUS
  <1>2. p \in Seq(Nat) /\ Len(p) = n - 1 /\ \A i \in 1..(n - 1) : p[i] = k[i]
    <2>1. \A i \in 1..(n - 1) : k[i] \in Nat
      BY <1>1
    <2>2. n - 1 \in Int /\ 1 \in Int
      BY <1>1
    <2>3. /\ p \in Seq(Nat) /\ Len(p) = IF 1 <= n - 1 THEN n - 1 - 1 + 1 ELSE 0
          /\ \A i \in 1..(n - 1 - 1 + 1) : p[i] = k[1 + i - 1]
      <3> HIDE DEF n
      <3> QED BY <2>1, <2>2, SubSeqProperties
    <2> HIDE DEF p, n
    <2> QED BY <1>1, <2>3
  <1>3. k[n] \in Nat
    BY <1>1
  <1> DEFINE q == Append(p, k[n])
  <1>4. q \in Seq(Nat) /\ Len(q) = n
    BY <1>1, <1>2, <1>3
  <1>5. \A i \in 1..n : q[i] = k[i]
    BY <1>1, <1>2, <1>3
  <1> HIDE DEF p, q
  <1>6. q = k
    BY <1>1, <1>4, <1>5, SeqEqual
  <1> QED BY <1>6 DEF p, q

-----------------------------------------------------------------------------
(* What the invariant says of one environment, and who a step leaves alone. *)

\* The seed of e, seen from before the replay that is under way.
Seed(e) == IF op = "replay" /\ e = Current THEN saved ELSE fit[e]

Kept(e) ==
  /\ ListsEvens(Seed(e) \o keys[e], tick[e])
  /\ encoded[e] # None => keys[e] = <<>> /\ tick[e] = encoded[e] + 1 /\ Even(encoded[e])
  /\ encoded[e] = None /\ ~Even(tick[e]) => keys[e] # <<>>

LEMMA KeptOnly ==
  FitFollowsEvenTicks /\ Latest /\ Waiting <=> \A e \in Envs \ torn : Kept(e)
PROOF
  BY DEF FitFollowsEvenTicks, Latest, Waiting, Kept, Seed

LEMMA CurrentFacts ==
  ASSUME SessionTypeOK, op # "idle"
  PROVE  /\ Current \in Envs /\ Tail(todo) \in Seq(Envs)
         /\ Len(todo) # 1 => Tail(todo) # <<>>
PROOF
  <1>1. todo \in Seq(Envs) /\ todo # <<>>
    BY DEF SessionTypeOK
  <1>2. Head(todo) \in Envs /\ Tail(todo) \in Seq(Envs)
    BY <1>1
  <1>3. Len(Tail(todo)) = Len(todo) - 1 /\ Len(todo) \in Nat /\ Len(todo) > 0
    BY <1>1
  <1>4. Len(todo) # 1 => Tail(todo) # <<>>
    <2>1. Len(todo) # 1 => Len(Tail(todo)) # 0
      BY <1>3
    <2>2. Tail(todo) = <<>> => Len(Tail(todo)) = 0
      BY EmptySeq
    <2> QED BY <2>1, <2>2
  <1> QED BY <1>2, <1>4 DEF Current

\* An environment whose seed, key frames, encoding and tick stay.
LEMMA KeptStays ==
  ASSUME NEW e \in Envs, Kept(e), Seed(e)' = Seed(e), keys'[e] = keys[e],
         encoded'[e] = encoded[e], tick'[e] = tick[e]
  PROVE  Kept(e)'
PROOF
  BY DEF Kept

-----------------------------------------------------------------------------
(* Types.                                                                  *)

LEMMA BatchFacts ==
  ASSUME NEW b \in Batches
  PROVE  b \in Seq(Envs) /\ b # <<>>
PROOF
  <1>1. PICK n \in 1..Cardinality(Envs) : b \in [1..n -> Envs]
    BY DEF Batches
  <1>2. n \in Nat /\ n > 0
    BY <1>1
  <1> QED BY <1>1, <1>2

LEMMA TypesRaise ==
  ASSUME SessionTypeOK, Raise, tick' \in [Envs -> Nat], fit' \in [Envs -> Seq(Nat)],
         UNCHANGED <<keys, encoded>>, torn' \subseteq Envs
  PROVE  SessionTypeOK'
PROOF
  <1>1. todo' \in Seq(Envs) /\ answer' \in Seq(Answer) /\ failed' = TRUE /\ op' = "idle"
    BY DEF Raise
  <1> QED BY <1>1 DEF Raise, SessionTypeOK

LEMMA TypesBegin ==
  ASSUME SessionTypeOK, NEW b \in Batches, NEW stage \in {"buffer", "encode"},
         BeginCall(stage, b), UNCHANGED <<tick, seedVars, torn>>
  PROVE  SessionTypeOK'
PROOF
  <1>1. /\ answer' \in Seq(Answer) /\ failed' = FALSE /\ op' = stage
        /\ todo' \in Seq(Envs) /\ todo' # <<>>
    BY BatchFacts DEF BeginCall
  <1> QED BY <1>1 DEF BeginCall, seedVars, SessionTypeOK

LEMMA TickAdvances ==
  ASSUME SessionTypeOK, Current \in Envs, tick' = [tick EXCEPT ![Current] = @ + 1]
  PROVE  tick' \in [Envs -> Nat]
PROOF
  <1>1. PICK c \in Envs : c = Current
    OBVIOUS
  <1>2. tick \in [Envs -> Nat]
    BY DEF SessionTypeOK
  <1>3. tick[c] + 1 \in Nat
    BY <1>2
  <1>4. tick' = [tick EXCEPT ![c] = tick[c] + 1]
    BY <1>1
  <1> QED BY <1>2, <1>3, <1>4

LEMMA TypesBuffer ==
  ASSUME SessionTypeOK, Buffer \/ SnapshotFails
  PROVE  SessionTypeOK'
PROOF
  <1> USE DEF seedVars
  <1>1. op = "buffer" /\ Current \in Envs /\ Tail(todo) \in Seq(Envs)
        /\ (Len(todo) # 1 => Tail(todo) # <<>>)
    BY CurrentFacts DEF Buffer, SnapshotFails
  <1>2. CASE Buffer
    <2>1. tick[Current] \in Nat /\ keys[Current] \in Seq(Nat)
      BY <1>1 DEF SessionTypeOK
    <2>2. KeyFrames(Current) \in Seq(Nat)
      BY <2>1 DEF KeyFrames
    <2>3. tick' \in [Envs -> Nat]
      BY <1>1, <1>2, TickAdvances DEF Buffer
    <2>4. keys' \in [Envs -> Seq(Nat)]
      BY <1>1, <1>2, <2>2 DEF Buffer, SessionTypeOK
    <2>5. encoded' \in [Envs -> Nat \cup {None}]
      BY <1>1, <1>2 DEF Buffer, Forget, SessionTypeOK
    <2> QED BY <1>1, <1>2, <2>3, <2>4, <2>5 DEF Buffer, NextEnv, SessionTypeOK
  <1>3. CASE SnapshotFails
    <2>1. tick' \in [Envs -> Nat]
      BY <1>1, <1>3, TickAdvances DEF SnapshotFails
    <2>2. torn' \subseteq Envs
      BY <1>1, <1>3 DEF SnapshotFails, SessionTypeOK
    <2>3. Raise /\ UNCHANGED <<keys, fit, encoded>>
      BY <1>3 DEF SnapshotFails
    <2> QED BY <2>1, <2>2, <2>3, TypesRaise DEF SessionTypeOK
  <1> QED BY <1>2, <1>3

LEMMA TypesReplay ==
  ASSUME SessionTypeOK, Replaying, StartReplay \/ Replay \/ ReplayFails \/ Encode
  PROVE  SessionTypeOK'
PROOF
  <1> USE DEF seedVars
  <1> DEFINE c == Current
  <1>1. c \in Envs /\ fit[c] \in Seq(Nat) /\ keys[c] \in Seq(Nat) /\ tick[c] \in Nat
    BY CurrentFacts DEF StartReplay, Replay, ReplayFails, Encode, SessionTypeOK
  <1>2. CASE StartReplay
    <2>1. Preceding(c) \in Seq(Nat)
      BY <1>1 DEF Preceding
    <2> QED BY <1>1, <1>2, <2>1 DEF StartReplay, SessionTypeOK
  <1>3. CASE Replay
    <2>1. Head(history) \in Nat /\ Tail(history) \in Seq(Nat)
      BY <1>3 DEF Replay, SessionTypeOK
    <2>2. fit' \in [Envs -> Seq(Nat)]
      BY <1>1, <1>3, <2>1 DEF Replay, SessionTypeOK
    <2> QED BY <1>3, <2>1, <2>2 DEF Replay, SessionTypeOK
  <1>4. CASE ReplayFails
    <2>1. fit' \in [Envs -> Seq(Nat)]
      BY <1>1, <1>4 DEF ReplayFails, Restored, SessionTypeOK
    <2> QED BY <1>4, <2>1, TypesRaise DEF ReplayFails, SessionTypeOK
  <1>5. CASE Encode
    <2>1. tick[c] - 1 \in Nat
      BY <1>1, <1>5 DEF Encode, Replaying
    <2>2. fit' \in [Envs -> Seq(Nat)] /\ keys' \in [Envs -> Seq(Nat)]
      BY <1>1, <1>5, <2>1, SMTT(30) DEF Encode, SessionTypeOK
    <2>3. encoded' \in [Envs -> Nat \cup {None}]
      BY <1>1, <1>5, <2>1, SMTT(30) DEF Encode, SessionTypeOK
    <2> QED BY <1>5, <2>2, <2>3 DEF Encode, SessionTypeOK
  <1> QED BY <1>2, <1>3, <1>4, <1>5

LEMMA TypesPredict ==
  ASSUME SessionTypeOK, Replaying,
         AlreadyEncoded \/ NothingBuffered \/ Predict \/ PredictionFails
  PROVE  SessionTypeOK'
PROOF
  <1> USE DEF seedVars
  <1>1. CASE Predict
    <2>1. /\ Current \in Envs /\ Tail(todo) \in Seq(Envs)
          /\ Len(todo) # 1 => Tail(todo) # <<>>
      BY <1>1, CurrentFacts DEF Predict
    <2>2. encoded[Current] \in Nat
      BY <1>1, <2>1 DEF Predict, Replaying, SessionTypeOK
    <2>3. answer' \in Seq(Answer)
      BY <1>1, <2>1, <2>2 DEF Predict, Answer, SessionTypeOK
    <2> QED BY <1>1, <2>1, <2>3 DEF Predict, NextEnv, SessionTypeOK
  <1>2. CASE AlreadyEncoded
    BY <1>2 DEF AlreadyEncoded, SessionTypeOK
  <1>3. CASE NothingBuffered \/ PredictionFails
    BY <1>3, TypesRaise DEF NothingBuffered, PredictionFails, SessionTypeOK
  <1> QED BY <1>1, <1>2, <1>3

LEMMA TypesCalls ==
  ASSUME SessionTypeOK,
         Reset \/ \E b \in Batches : UpdateObs(b) \/ ConversionFails(b) \/ GetAction(b)
  PROVE  SessionTypeOK'
PROOF
  <1> USE DEF seedVars
  <1>1. CASE Reset
    <2>1. /\ tick' \in [Envs -> Nat] /\ encoded' \in [Envs -> Nat \cup {None}]
          /\ keys' \in [Envs -> Seq(Nat)] /\ fit' \in [Envs -> Seq(Nat)]
      BY <1>1 DEF Reset
    <2>2. answer' \in Seq(Answer) /\ torn' \subseteq Envs /\ failed' = FALSE
      BY <1>1 DEF Reset
    <2>3. UNCHANGED <<op, todo, history, saved>>
      BY <1>1 DEF Reset
    <2> QED BY <2>1, <2>2, <2>3 DEF SessionTypeOK
  <1>2. CASE \E b \in Batches : UpdateObs(b) \/ GetAction(b)
    BY <1>2, TypesBegin DEF UpdateObs, GetAction
  <1>3. CASE \E b \in Batches : ConversionFails(b)
    <2>1. answer' \in Seq(Answer) /\ failed' = TRUE
      BY <1>3 DEF ConversionFails
    <2> QED BY <1>3, <2>1 DEF ConversionFails, SessionTypeOK
  <1> QED BY <1>1, <1>2, <1>3

LEMMA TypesStep ==
  ASSUME IInv, [SessionNext]_sessionVars
  PROVE  SessionTypeOK'
PROOF
  <1>1. CASE UNCHANGED sessionVars
    BY <1>1 DEF IInv, sessionVars, seedVars, callVars, SessionTypeOK
  <1> QED BY <1>1, TypesBuffer, TypesReplay, TypesPredict, TypesCalls
      DEF IInv, SessionNext, Work

-----------------------------------------------------------------------------
(* The seed.                                                               *)

\* An observation is buffered.
LEMMA KeptBuffer ==
  ASSUME IInv, Buffer
  PROVE  \A e \in Envs \ torn : Kept(e)'
PROOF
  <1>1. /\ SessionTypeOK /\ op = "buffer" /\ op' # "replay" /\ UNCHANGED <<fit, torn>>
    BY DEF IInv, Buffer, NextEnv
  <1>0. PICK c \in Envs : c = Current
    BY <1>1, CurrentFacts
  <1>2. /\ tick[c] \in Nat /\ keys[c] \in Seq(Nat) /\ fit[c] \in Seq(Nat)
        /\ tick'[c] = tick[c] + 1 /\ keys'[c] = KeyFrames(c) /\ encoded'[c] = None
    BY <1>0, <1>1 DEF Buffer, Forget, SessionTypeOK
  <1>3. \A e \in Envs : e # c =>
          tick'[e] = tick[e] /\ keys'[e] = keys[e] /\ encoded'[e] = encoded[e]
    BY <1>0, <1>1 DEF Buffer, Forget, SessionTypeOK
  <1>4. \A e \in Envs : Seed(e) = fit[e] /\ Seed(e)' = fit[e]
    BY <1>1 DEF Seed
  <1>5. \A e \in Envs \ torn : Kept(e)
    BY KeptOnly DEF IInv
  <1>6. ASSUME NEW e \in Envs \ torn, e # c PROVE Kept(e)'
    BY <1>3, <1>4, <1>5, <1>6, KeptStays
  <1>7. ASSUME c \notin torn PROVE Kept(c)'
    <2>1. ListsEvens(fit[c] \o keys[c], tick[c]) /\ fit[c] \o keys[c] \in Seq(Nat)
      BY <1>1, <1>2, <1>4, <1>5, <1>7 DEF Kept
    <2>2. CASE Even(tick[c])
      <3>1. keys'[c] = Append(keys[c], tick[c])
        BY <1>2, <2>2 DEF KeyFrames
      <3>2. fit[c] \o keys'[c] = Append(fit[c] \o keys[c], tick[c])
        BY <1>2, <3>1, ConcatAppend
      <3>3. ListsEvens(fit[c] \o keys'[c], tick'[c])
        BY <1>2, <2>1, <2>2, <3>2, EvensAppend
      <3>4. keys'[c] # <<>>
        BY <1>2, <3>1
      <3> QED BY <1>1, <1>2, <1>4, <3>3, <3>4 DEF Kept
    <2>3. CASE ~Even(tick[c])
      <3>1. keys'[c] = keys[c]
        BY <1>2, <2>3 DEF KeyFrames
      <3>2. ListsEvens(fit[c] \o keys'[c], tick'[c])
        BY <1>2, <2>1, <2>3, <3>1, EvensSkip
      <3>3. Even(tick'[c])
        <4>1. tick[c] \in Nat /\ tick'[c] = tick[c] + 1
          BY <1>2
        <4> QED BY <2>3, <4>1 DEF Even
      <3> QED BY <1>1, <1>2, <1>4, <3>2, <3>3 DEF Kept
    <2> QED BY <2>2, <2>3
  <1> QED BY <1>6, <1>7

\* Key frames are replayed; what fails is undone.
LEMMA KeptReplay ==
  ASSUME IInv, StartReplay \/ Replay \/ ReplayFails
  PROVE  \A e \in Envs \ torn : Kept(e)'
PROOF
  <1>1. SessionTypeOK /\ op # "idle" /\ UNCHANGED <<tick, keys, encoded, torn>>
    BY DEF IInv, StartReplay, Replay, ReplayFails, seedVars
  <1>2. PICK c \in Envs : c = Current
    BY <1>1, CurrentFacts
  <1>3. \A e \in Envs \ torn : Kept(e)
    BY KeptOnly DEF IInv
  <1>4. \A e \in Envs : Seed(e)' = Seed(e)
    <2>1. CASE StartReplay
      BY <1>2, <2>1 DEF StartReplay, seedVars, Seed, Current
    <2>2. CASE Replay
      <3>1. op = "replay" /\ UNCHANGED <<op, todo, saved>>
        BY <2>2 DEF Replay
      <3>2. \A e \in Envs : e # c => fit'[e] = fit[e]
        BY <1>1, <1>2, <2>2 DEF Replay, SessionTypeOK
      <3> QED BY <1>2, <3>1, <3>2 DEF Seed, Current
    <2>3. CASE ReplayFails
      <3>1. op = "replay" /\ op' = "idle"
        BY <2>3 DEF ReplayFails, Raise
      <3>2. fit'[c] = saved /\ \A e \in Envs : e # c => fit'[e] = fit[e]
        BY <1>1, <1>2, <2>3 DEF ReplayFails, Restored, SessionTypeOK
      <3> QED BY <1>2, <3>1, <3>2 DEF Seed
    <2> QED BY <2>1, <2>2, <2>3
  <1> QED BY <1>1, <1>3, <1>4, KeptStays

\* An observation is fitted after its key frames, and encoded.
LEMMA KeptEncode ==
  ASSUME IInv, Encode
  PROVE  \A e \in Envs \ torn : Kept(e)'
PROOF
  <1>1. /\ SessionTypeOK /\ op = "replay" /\ op' = "predict" /\ history = <<>>
        /\ UNCHANGED <<tick, torn>>
    BY DEF IInv, Encode
  <1>2. PICK c \in Envs : c = Current
    BY <1>1, CurrentFacts
  <1>3. /\ tick[c] \in Nat /\ tick[c] > 0 /\ Even(tick[c] - 1) /\ encoded[c] = None
        /\ fit[c] \o history = saved \o Preceding(c)
    BY <1>1, <1>2 DEF IInv, Replaying, Encode, OddQuery, SessionTypeOK
  <1>4. tick[c] - 1 \in Nat /\ ~Even(tick[c])
    <2>1. tick[c] - 1 \in Nat
      BY <1>3
    <2>2. tick[c] = (tick[c] - 1) + 1
      BY <1>3
    <2>3. ~Even(tick[c])
      BY <1>3, <2>1, <2>2, EvenNext
    <2> QED BY <2>1, <2>3
  <1>5. /\ fit'[c] = Append(fit[c], tick[c] - 1) /\ keys'[c] = <<>>
        /\ encoded'[c] = tick[c] - 1
        /\ \A e \in Envs : e # c =>
             fit'[e] = fit[e] /\ keys'[e] = keys[e] /\ encoded'[e] = encoded[e]
    BY <1>1, <1>2 DEF Encode, SessionTypeOK
  <1>6. \A e \in Envs \ torn : Kept(e)
    BY KeptOnly DEF IInv
  <1>7. ASSUME NEW e \in Envs \ torn, e # c PROVE Kept(e)'
    <2>1. Seed(e)' = Seed(e)
      BY <1>1, <1>2, <1>5, <1>7 DEF Seed
    <2> QED BY <1>1, <1>5, <1>6, <1>7, <2>1, KeptStays
  <1>8. ASSUME c \notin torn PROVE Kept(c)'
    <2>1. /\ saved \in Seq(Nat) /\ fit[c] \in Seq(Nat) /\ keys[c] \in Seq(Nat)
      BY <1>1 DEF SessionTypeOK
    <2>2. ListsEvens(saved \o keys[c], tick[c]) /\ keys[c] # <<>>
      BY <1>1, <1>2, <1>3, <1>4, <1>6, <1>8 DEF Kept, Seed
    <2>3. Len(keys[c]) \in Nat /\ Len(keys[c]) > 0 /\ saved \o keys[c] \in Seq(Nat)
      BY <2>1, <2>2
    <2>4. (saved \o keys[c])[Len(saved \o keys[c])] = keys[c][Len(keys[c])]
      BY <2>1, <2>3
    <2>5. keys[c][Len(keys[c])] = tick[c] - 1
      BY <1>3, <1>4, <2>2, <2>3, <2>4, EvensLast
    <2>6. Preceding(c) = SubSeq(keys[c], 1, Len(keys[c]) - 1)
      BY <2>3, <2>5 DEF Preceding
    <2>7. keys[c] = Append(Preceding(c), tick[c] - 1)
      BY <2>1, <2>3, <2>5, <2>6, LastSplit
    <2>8. Preceding(c) \in Seq(Nat)
      BY <2>1, <2>3, <2>6
    <2>9. saved \o keys[c] = Append(saved \o Preceding(c), tick[c] - 1)
      BY <1>4, <2>1, <2>7, <2>8, ConcatAppend, SMTT(30)
    <2>10. fit[c] \o history = fit[c]
      BY <1>1, <2>1
    <2>11. fit'[c] = saved \o keys[c]
      BY <1>3, <1>5, <2>9, <2>10
    <2>12. fit'[c] \o keys'[c] = saved \o keys[c]
      <3>1. fit'[c] \o <<>> = fit'[c]
        BY <2>3, <2>11
      <3> QED BY <1>5, <2>11, <3>1
    <2>13. Seed(c)' = fit'[c]
      BY <1>1 DEF Seed
    <2>14. ListsEvens(Seed(c)' \o keys'[c], tick'[c])
      BY <1>1, <2>2, <2>12, <2>13
    <2>15. encoded'[c] # None /\ tick'[c] = encoded'[c] + 1 /\ Even(encoded'[c])
      BY <1>1, <1>3, <1>4, <1>5, NoneAssumption
    <2> QED BY <1>5, <2>14, <2>15 DEF Kept
  <1> QED BY <1>7, <1>8

\* What begins, ends or refuses a call, and a prediction, leave seeds alone.
LEMMA KeptOther ==
  ASSUME IInv,
         \/ SnapshotFails \/ AlreadyEncoded \/ NothingBuffered \/ Predict \/ PredictionFails
         \/ \E b \in Batches : UpdateObs(b) \/ ConversionFails(b) \/ GetAction(b)
  PROVE  \A e \in Envs \ torn' : Kept(e)'
PROOF
  <1>1. UNCHANGED seedVars /\ op # "replay" /\ op' # "replay" /\ torn \subseteq torn'
    BY DEF SnapshotFails, AlreadyEncoded, NothingBuffered, Predict, PredictionFails, UpdateObs,
       ConversionFails, GetAction, BeginCall, Raise, NextEnv
  <1>2. \A e \in Envs \ torn' : tick'[e] = tick[e]
    BY DEF IInv, SessionTypeOK, SnapshotFails, AlreadyEncoded, NothingBuffered, Predict,
       PredictionFails, UpdateObs, ConversionFails, GetAction
  <1>3. \A e \in Envs \ torn : Kept(e)
    BY KeptOnly DEF IInv
  <1>4. \A e \in Envs : Seed(e)' = Seed(e)
    BY <1>1 DEF Seed, seedVars
  <1> QED BY <1>1, <1>2, <1>3, <1>4, KeptStays DEF seedVars

\* A replay keeps its books.
LEMMA ReplayingStep ==
  ASSUME IInv, [SessionNext]_sessionVars
  PROVE  Replaying'
PROOF
  <1> USE DEF seedVars
  <1>1. CASE StartReplay
    <2>1. /\ op' = "replay" /\ UNCHANGED <<tick, keys, fit, encoded, todo>>
          /\ encoded[Current] = None /\ tick[Current] > 0
          /\ history' = Preceding(Current) /\ saved' = fit[Current]
      BY <1>1 DEF StartReplay
    <2> QED BY <2>1 DEF Replaying, Current, Preceding
  <1>2. CASE Replay
    <2>1. PICK c \in Envs : c = Current
      BY <1>2, CurrentFacts DEF IInv, Replay
    <2>2. /\ op = "replay" /\ UNCHANGED <<tick, keys, encoded, op, todo, saved>>
          /\ history # <<>> /\ history \in Seq(Nat) /\ fit[c] \in Seq(Nat)
          /\ fit'[c] = Append(fit[c], Head(history)) /\ history' = Tail(history)
      BY <1>2, <2>1 DEF Replay, IInv, SessionTypeOK
    <2>3. fit'[c] \o history' = fit[c] \o history
      BY <2>2, ConcatMove
    <2>4. Current' = c /\ Preceding(c)' = Preceding(c)
      BY <2>1, <2>2 DEF Current, Preceding
    <2>5. encoded[c] = None /\ tick[c] > 0 /\ fit[c] \o history = saved \o Preceding(c)
      BY <2>1, <2>2 DEF IInv, Replaying
    <2>6. fit'[c] \o history' = saved' \o Preceding(c)'
      BY <2>2, <2>3, <2>4, <2>5
    <2> HIDE DEF Preceding, Current
    <2> QED BY <2>2, <2>4, <2>5, <2>6 DEF Replaying
  <1>3. CASE Encode
    <2>1. PICK c \in Envs : c = Current
      BY <1>3, CurrentFacts DEF IInv, Encode, OddQuery
    <2>2. op' = "predict" /\ todo' = todo /\ encoded'[c] = tick[c] - 1
      BY <1>3, <2>1 DEF Encode, IInv, SessionTypeOK
    <2>3. tick[c] \in Nat /\ tick[c] > 0
      BY <1>3, <2>1 DEF Encode, IInv, Replaying, SessionTypeOK
    <2> QED BY <2>1, <2>2, <2>3, NoneAssumption DEF Replaying, Current
  <1>4. CASE AlreadyEncoded
    BY <1>4 DEF AlreadyEncoded, Replaying, Current
  <1>5. CASE UNCHANGED sessionVars
    BY <1>5 DEF sessionVars, callVars, IInv, Replaying, Current, Preceding
  <1>6. CASE Buffer \/ SnapshotFails \/ NothingBuffered \/ ReplayFails \/ Predict \/ PredictionFails
    BY <1>6 DEF Buffer, SnapshotFails, NothingBuffered, ReplayFails, Predict, PredictionFails,
       NextEnv, Raise, Replaying
  <1>7. CASE Reset \/ \E b \in Batches : UpdateObs(b) \/ ConversionFails(b) \/ GetAction(b)
    BY <1>7 DEF Reset, UpdateObs, ConversionFails, GetAction, BeginCall, Replaying
  <1> QED BY <1>1, <1>2, <1>3, <1>4, <1>5, <1>6, <1>7 DEF SessionNext, Work

LEMMA KeptReset ==
  ASSUME Reset
  PROVE  \A e \in Envs : Kept(e)'
PROOF
  <1>1. ASSUME NEW e \in Envs
        PROVE  Seed(e)' = <<>> /\ keys'[e] = <<>> /\ tick'[e] = 0 /\ encoded'[e] = None
    BY DEF Reset, Seed
  <1>2. ListsEvens(<<>> \o <<>>, 0)
    BY DEF ListsEvens
  <1> QED
    <2> SUFFICES ASSUME NEW e \in Envs PROVE Kept(e)'
      OBVIOUS
    <2>1. ListsEvens(Seed(e)' \o keys'[e], tick'[e])
      BY <1>1, <1>2
    <2>2. Even(0)
      BY DEF Even
    <2> QED BY <1>1, <2>1, <2>2 DEF Kept

\* IInv of every reachable state.
THEOREM Inductive == SessionSpec => []IInv
PROOF
  <1>1. SessionInit => IInv
    <2> SUFFICES ASSUME SessionInit PROVE IInv
      OBVIOUS
    <2>1. SessionTypeOK /\ Replaying
      <3>1. <<>> \in Seq(Answer) /\ <<>> \in Seq(Envs) /\ <<>> \in Seq(Nat)
        OBVIOUS
      <3> QED BY <3>1 DEF SessionInit, SessionTypeOK, Replaying
    <2>2. ListsEvens(<<>> \o <<>>, 0)
      BY DEF ListsEvens
    <2>3. \A e \in Envs : Kept(e)
      BY <2>2 DEF SessionInit, Kept, Seed, Even
    <2> QED BY <2>1, <2>3, KeptOnly DEF IInv
  <1>2. IInv /\ [SessionNext]_sessionVars => IInv'
    <2> SUFFICES ASSUME IInv, [SessionNext]_sessionVars PROVE IInv'
      OBVIOUS
    <2>1. SessionTypeOK' /\ Replaying'
      BY TypesStep, ReplayingStep
    <2>2. \A e \in Envs \ torn' : Kept(e)'
      <3>1. CASE Buffer
        BY <3>1, KeptBuffer DEF Buffer
      <3>2. CASE StartReplay \/ Replay \/ ReplayFails
        BY <3>2, KeptReplay DEF StartReplay, Replay, ReplayFails
      <3>3. CASE Encode
        BY <3>3, KeptEncode DEF Encode
      <3>4. CASE Reset
        BY <3>4, KeptReset
      <3>5. CASE UNCHANGED sessionVars
        <4>1. \A e \in Envs \ torn : Kept(e)
          BY KeptOnly DEF IInv
        <4> QED BY <3>5, <4>1 DEF sessionVars, seedVars, callVars, Kept, Seed, Current
      <3> QED BY <3>1, <3>2, <3>3, <3>4, <3>5, KeptOther DEF SessionNext, Work
    <2>3. (FitFollowsEvenTicks /\ Latest /\ Waiting)'
      BY <2>2 DEF FitFollowsEvenTicks, Latest, Waiting, Kept, Seed
    <2> QED BY <2>1, <2>3 DEF IInv
  <1> QED BY <1>1, <1>2, PTL DEF SessionSpec

\* Every variable of the session keeps its type.
THEOREM SessionTypes == SessionSpec => []SessionTypeOK
PROOF
  BY Inductive, PTL DEF IInv

\* The seed and the key frames that wait for it hold every even tick once and in
\* order, whichever calls failed and were repeated, in any environment.
THEOREM AlwaysFollowsEvenTicks == SessionSpec => []FitFollowsEvenTicks
PROOF
  BY Inductive, PTL DEF IInv

\* A prediction is made from the latest observation of its environment, and its
\* seed ends with that observation.
THEOREM AlwaysPredictsLatest == SessionSpec => []PredictsLatest
PROOF
  <1>1. ASSUME IInv, op = "predict", Current \notin torn
        PROVE  /\ encoded[Current] = tick[Current] - 1
               /\ fit[Current] # <<>> /\ fit[Current][Len(fit[Current])] = encoded[Current]
    <2>1. PICK c \in Envs : c = Current
      BY <1>1, CurrentFacts DEF IInv
    <2>2. Kept(c) /\ Seed(c) = fit[c] /\ encoded[c] # None
      BY <1>1, <2>1, KeptOnly DEF IInv, Seed, Replaying
    <2>3. /\ fit[c] \in Seq(Nat) /\ tick[c] \in Nat /\ encoded[c] \in Nat
          /\ tick[c] = encoded[c] + 1 /\ Even(encoded[c]) /\ keys[c] = <<>>
      BY <1>1, <2>2 DEF IInv, SessionTypeOK, Kept
    <2>4. fit[c] \o keys[c] = fit[c] /\ ~Even(tick[c])
      <3>1. fit[c] \o keys[c] = fit[c]
        BY <2>3
      <3>2. ~Even(tick[c])
        BY <2>3, EvenNext
      <3> QED BY <3>1, <3>2
    <2>5. ListsEvens(fit[c], tick[c])
      BY <2>2, <2>4 DEF Kept
    <2>6. Len(fit[c]) > 0 /\ fit[c][Len(fit[c])] = tick[c] - 1
      BY <2>3, <2>4, <2>5, EvensLast
    <2> QED BY <2>1, <2>3, <2>6
  <1>2. IInv => PredictsLatest
    BY <1>1 DEF PredictsLatest
  <1> QED BY <1>2, Inductive, PTL
=============================================================================
