-------------------------- MODULE HandAdapterProofs ---------------------------
(***************************************************************************)
(* The starts of the hand solver, for any number of environments, any      *)
(* length of a chunk and any number of retries: whatever fails, and        *)
(* wherever, both hands of an environment start from one frame.            *)
(***************************************************************************)
EXTENDS HandAdapter, SequenceTheorems, TLAPS

\* The types, without the bounds on the frames.
HandTypeOK ==
  /\ op \in Directions \cup {"idle"}
  /\ todo \in Seq(Envs)
  /\ row \in Nat \ {0} /\ side \in Sides /\ frame \in Nat
  /\ seed \in [Directions -> [Envs -> [Sides -> Nat]]]
  /\ snapshot \in [Directions -> [Sides -> Nat]]
  /\ served \in [Directions -> [Envs -> Nat]]

\* A hand is only converted in a call, and a call has environments left, each
\* of them once.
Converting ==
  /\ op = "idle" <=> todo = <<>>
  /\ op = "idle" => stage = "first"
  /\ \A i, j \in DOMAIN todo : todo[i] = todo[j] => i = j

\* What both hands of the current row start from.
RowStart == IF row = 1 THEN served[op][Current] ELSE frame - 1

\* The left hand is converted first; the snapshot is what the environment was
\* last served in either direction.
Working ==
  op # "idle" =>
    /\ seed[op][Current]["right"] = RowStart
    /\ seed[op][Current]["left"] = IF side = "left" THEN RowStart ELSE frame
    /\ \A d \in Directions, s \in Sides : snapshot[d][s] = served[d][Current]

StartsInv == HandTypeOK /\ Converting /\ Working /\ SeedIsLastServed

\* The head of a sequence is its first element.
LEMMA HeadIsFirst ==
  ASSUME NEW S, NEW s \in Seq(S)
  PROVE  Head(s) = s[1]
  OBVIOUS


\* What the properties say of a state in which the invariant holds.
LEMMA StartsInvImplies == StartsInv => HandsTransactional
  BY DEF StartsInv, HandTypeOK, Working, RowStart, HandsTransactional, StartsFromRowBefore,
         Sides

-----------------------------------------------------------------------------
LEMMA InitStarts == Init => StartsInv
  <1> SUFFICES ASSUME Init PROVE StartsInv OBVIOUS
  <1>1. <<>> \in Seq(Envs)
    OBVIOUS
  <1>2. HandTypeOK
    BY <1>1 DEF Init, HandTypeOK, Sides
  <1>3. Converting /\ Working
    BY DEF Init, Converting, Working
  <1>4. SeedIsLastServed
    BY DEF Init, SeedIsLastServed
  <1> QED BY <1>2, <1>3, <1>4 DEF StartsInv

LEMMA CurrentInEnvs == ASSUME StartsInv, op # "idle" PROVE Current \in Envs /\ op \in Directions
  BY DEF StartsInv, HandTypeOK, Converting, Current

LEMMA CallStarts ==
  ASSUME NEW d \in Directions, NEW batch \in Batches, StartsInv, Call(d, batch)
  PROVE  StartsInv'
  <1>1. /\ batch \in Seq(Envs) /\ batch # <<>>
        /\ \A i, j \in DOMAIN batch : batch[i] = batch[j] => i = j
    <2>1. PICK n \in 1..Cardinality(Envs) : batch \in [1..n -> Envs]
      BY DEF Batches
    <2>2. n \in Nat /\ n # 0
      OBVIOUS
    <2> QED BY <2>1, <2>2 DEF Batches
  <1>2. /\ op = "idle" /\ op' = d /\ todo' = batch /\ row' = 1 /\ side' = "left"
        /\ stage' = "first" /\ frame' = frame + 1 /\ snapshot' = StartsOf(batch[1])
        /\ seed' = seed /\ served' = served
    BY DEF Call
  <1>3. Current' = batch[1] /\ batch[1] \in Envs
    BY <1>1, <1>2 DEF Current
  <1>4. \A c \in Directions : snapshot'[c] = seed[c][batch[1]]
    BY <1>2 DEF StartsOf
  <1>5. \A c \in Directions, e \in Envs, s \in Sides : seed[c][e][s] = served[c][e]
    BY <1>2 DEF StartsInv, SeedIsLastServed, Directions
  <1>6. snapshot' \in [Directions -> [Sides -> Nat]]
    BY <1>2, <1>3 DEF StartsInv, HandTypeOK, StartsOf
  <1>7. HandTypeOK'
    BY <1>1, <1>2, <1>6 DEF StartsInv, HandTypeOK, Sides
  <1>8. Converting'
    BY <1>1, <1>2 DEF Converting, Directions
  <1>9. Working'
    BY <1>2, <1>3, <1>4, <1>5 DEF Working, RowStart, Sides
  <1>10. SeedIsLastServed'
    BY <1>2, <1>5 DEF SeedIsLastServed
  <1> QED BY <1>7, <1>8, <1>9, <1>10 DEF StartsInv

LEMMA ResetStarts == ASSUME StartsInv, Reset PROVE StartsInv'
  <1>1. HandTypeOK'
    BY DEF StartsInv, HandTypeOK, Reset
  <1>2. Converting' /\ Working'
    BY DEF StartsInv, Converting, Working, Reset
  <1>3. SeedIsLastServed'
    BY DEF Reset, SeedIsLastServed
  <1> QED BY <1>1, <1>2, <1>3 DEF StartsInv

\* restore(): the environment is as it was before its turn began.
LEMMA RaiseStarts == ASSUME StartsInv, op # "idle", Raise PROVE StartsInv'
  <1>1. Current \in Envs /\ op \in Directions
    BY CurrentInEnvs
  <1>2. /\ op' = "idle" /\ todo' = <<>> /\ stage' = "first" /\ row' = row /\ side' = side
        /\ frame' = frame /\ snapshot' = snapshot /\ served' = served
        /\ seed' = [d \in Directions |-> [seed[d] EXCEPT ![Current] = snapshot[d]]]
    BY DEF Raise, Restored
  <1>3. \A d \in Directions, e \in Envs :
          seed'[d][e] = IF e = Current THEN snapshot[d] ELSE seed[d][e]
    BY <1>1, <1>2 DEF StartsInv, HandTypeOK
  <1>4. \A d \in Directions, e \in Envs, s \in Sides : seed'[d][e][s] = served[d][e]
    BY <1>1, <1>3 DEF StartsInv, Working, SeedIsLastServed
  <1>5. seed' \in [Directions -> [Envs -> [Sides -> Nat]]]
    BY <1>1, <1>2 DEF StartsInv, HandTypeOK
  <1>6. HandTypeOK'
    <2>1. <<>> \in Seq(Envs)
      OBVIOUS
    <2> QED BY <1>2, <1>5, <2>1 DEF StartsInv, HandTypeOK
  <1>7. Converting' /\ Working'
    BY <1>2 DEF Converting, Working
  <1>8. SeedIsLastServed'
    BY <1>2, <1>4 DEF SeedIsLastServed
  <1> QED BY <1>6, <1>7, <1>8 DEF StartsInv

\* One hand moves one start.
LEMMA AcceptedOne ==
  ASSUME StartsInv, op # "idle", seed' = Accepted
  PROVE  /\ seed' \in [Directions -> [Envs -> [Sides -> Nat]]]
         /\ \A d \in Directions, e \in Envs, s \in Sides :
              seed'[d][e][s] = IF d = op /\ e = Current /\ s = side THEN frame ELSE seed[d][e][s]
  BY CurrentInEnvs, SMTT(30) DEF Accepted, StartsInv, HandTypeOK

LEMMA CommitStarts == ASSUME StartsInv, op # "idle", Commit PROVE StartsInv'
  <1>1. Current \in Envs /\ op \in Directions /\ side \in Sides
    BY CurrentInEnvs DEF StartsInv, HandTypeOK
  <1>2. /\ seed' \in [Directions -> [Envs -> [Sides -> Nat]]]
        /\ \A d \in Directions, e \in Envs, s \in Sides :
             seed'[d][e][s] = IF d = op /\ e = Current /\ s = side THEN frame ELSE seed[d][e][s]
    BY AcceptedOne DEF Commit
  <1>3. stage' = "first"
    BY DEF Commit
  <1>4. CASE side = "left"
    <2>1. /\ side' = "right" /\ op' = op /\ todo' = todo /\ row' = row /\ frame' = frame
          /\ snapshot' = snapshot /\ served' = served
      BY <1>4 DEF Commit
    <2>2. Current' = Current
      BY <2>1 DEF Current
    <2>3. HandTypeOK'
      BY <1>2, <2>1 DEF StartsInv, HandTypeOK, Sides
    <2>4. Converting'
      BY <1>3, <2>1 DEF StartsInv, Converting
    <2>5. Working'
      BY <1>1, <1>2, <1>4, <2>1, <2>2 DEF StartsInv, Working, RowStart, Sides
    <2>6. SeedIsLastServed'
      BY <1>1, <1>2, <2>1, <2>2 DEF StartsInv, SeedIsLastServed
    <2> QED BY <2>3, <2>4, <2>5, <2>6 DEF StartsInv
  <1>5. CASE side = "right" /\ ~LastRow
    <2>1. /\ side' = "left" /\ op' = op /\ todo' = todo /\ row' = row + 1 /\ frame' = frame + 1
          /\ snapshot' = snapshot /\ served' = served
      BY <1>5 DEF Commit
    <2>2. Current' = Current
      BY <2>1 DEF Current
    <2>3. HandTypeOK'
      BY <1>2, <2>1 DEF StartsInv, HandTypeOK, Sides
    <2>4. Converting'
      BY <1>3, <2>1 DEF StartsInv, Converting
    <2>5. RowStart' = frame
      BY <2>1 DEF StartsInv, HandTypeOK, RowStart
    <2>6. seed'[op][Current]["left"] = frame /\ seed'[op][Current]["right"] = frame
      BY <1>1, <1>2, <1>5 DEF StartsInv, Working, Sides
    <2>7. Working'
      BY <1>1, <2>1, <2>2, <2>5, <2>6 DEF StartsInv, Working
    <2>8. SeedIsLastServed'
      BY <1>1, <1>2, <2>1, <2>2 DEF StartsInv, SeedIsLastServed
    <2> QED BY <2>3, <2>4, <2>7, <2>8 DEF StartsInv
  <1>6. CASE side = "right" /\ LastRow
    <2>1. /\ side' = "left" /\ row' = 1 /\ todo' = Tail(todo)
          /\ served' = [served EXCEPT ![op][Current] = frame]
      BY <1>6 DEF Commit
    <2>2. /\ served' \in [Directions -> [Envs -> Nat]]
          /\ \A d \in Directions, e \in Envs :
               served'[d][e] = IF d = op /\ e = Current THEN frame ELSE served[d][e]
      BY <1>1, <2>1 DEF StartsInv, HandTypeOK
    <2>3. \A s \in Sides : seed'[op][Current][s] = frame
      BY <1>1, <1>2, <1>6 DEF StartsInv, Working, Sides
    <2>4. \A d \in Directions, e \in Envs, s \in Sides : seed'[d][e][s] = served'[d][e]
      BY <1>1, <1>2, <2>2, <2>3 DEF StartsInv, SeedIsLastServed
    <2>5. todo \in Seq(Envs) /\ todo # <<>>
      BY DEF StartsInv, HandTypeOK, Converting
    <2>6. CASE Len(todo) = 1
      <3>1. op' = "idle" /\ frame' = frame /\ snapshot' = snapshot /\ todo' = <<>>
        BY <1>6, <2>1, <2>5, <2>6 DEF Commit
      <3>2. HandTypeOK'
        <4>1. <<>> \in Seq(Envs)
          OBVIOUS
        <4>2. frame' \in Nat /\ snapshot' \in [Directions -> [Sides -> Nat]]
          BY <3>1 DEF StartsInv, HandTypeOK
        <4>3. row' \in Nat \ {0} /\ side' \in Sides
          BY <2>1 DEF Sides
        <4> QED BY <1>2, <2>2, <3>1, <4>1, <4>2, <4>3 DEF HandTypeOK
      <3>3. Converting' /\ Working'
        BY <1>3, <3>1 DEF Converting, Working
      <3>4. SeedIsLastServed'
        BY <2>4 DEF SeedIsLastServed
      <3> QED BY <3>2, <3>3, <3>4 DEF StartsInv
    <2>7. CASE Len(todo) # 1
      <3>1. op' = op /\ frame' = frame + 1 /\ snapshot' = StartsOf(todo[2])
        BY <1>6, <2>7 DEF Commit
      <3>2. Tail(todo) \in Seq(Envs) /\ Tail(todo) # <<>> /\ Head(Tail(todo)) = todo[2]
            /\ todo[2] \in Envs
        <4>1. Len(todo) \in Nat /\ Len(todo) >= 2
          <5>1. Len(todo) \in Nat \ {0}
            BY <2>5, EmptySeq
          <5> QED BY <5>1, <2>7
        <4>2. Tail(todo) \in Seq(Envs) /\ Len(Tail(todo)) = Len(todo) - 1
          BY <2>5
        <4>3. Tail(todo)[1] = todo[2] /\ todo[2] \in Envs
          BY <2>5, <4>1
        <4>4. Tail(todo) # <<>>
          <5>1. Len(Tail(todo)) # 0
            BY <4>1, <4>2
          <5>2. Len(<<>>) = 0
            OBVIOUS
          <5> QED BY <5>1, <5>2
        <4>5. Head(Tail(todo)) = Tail(todo)[1]
          BY <4>2, HeadIsFirst
        <4> QED BY <4>2, <4>3, <4>4, <4>5
      <3>3. Current' = todo[2]
        BY <2>1, <3>2 DEF Current
      <3>4. \A d \in Directions : snapshot'[d] = seed[d][todo[2]]
        BY <3>1 DEF StartsOf
      <3>5. todo[2] # Current
        <4>1. Len(todo) \in Nat /\ Len(todo) >= 2
          <5>1. Len(todo) \in Nat \ {0}
            BY <2>5, EmptySeq
          <5> QED BY <5>1, <2>7
        <4>2. 1 \in DOMAIN todo /\ 2 \in DOMAIN todo /\ Current = todo[1]
          BY <2>5, <4>1 DEF Current
        <4> QED BY <4>2 DEF StartsInv, Converting
      <3>6. HandTypeOK'
        <4>1. StartsOf(todo[2]) \in [Directions -> [Sides -> Nat]]
          <5>1. seed \in [Directions -> [Envs -> [Sides -> Nat]]] /\ todo[2] \in Envs
            BY <3>2 DEF StartsInv, HandTypeOK
          <5> QED BY <5>1 DEF StartsOf
        <4>2. frame' \in Nat /\ op' \in Directions
          BY <1>1, <3>1 DEF StartsInv, HandTypeOK
        <4>3. row' \in Nat \ {0} /\ side' \in Sides
          BY <2>1 DEF Sides
        <4> QED BY <1>2, <2>1, <2>2, <3>1, <3>2, <4>1, <4>2, <4>3 DEF HandTypeOK
      <3>7. Converting'
        <4>1. \A i, j \in DOMAIN Tail(todo) : Tail(todo)[i] = Tail(todo)[j] => i = j
          BY <2>5 DEF StartsInv, Converting
        <4> QED BY <1>1, <1>3, <2>1, <3>1, <3>2, <4>1 DEF Converting, Directions
      <3>8. \A d \in Directions, s \in Sides : seed[d][todo[2]][s] = served'[d][todo[2]]
        BY <2>2, <3>2, <3>5 DEF StartsInv, SeedIsLastServed
      <3>9. Working'
        BY <1>1, <2>1, <2>4, <3>1, <3>2, <3>3, <3>4, <3>8, SMTT(30) DEF Working, RowStart, Sides
      <3>10. SeedIsLastServed'
        BY <2>4 DEF SeedIsLastServed
      <3> QED BY <3>6, <3>7, <3>9, <3>10 DEF StartsInv
    <2> QED BY <2>6, <2>7
  <1> QED BY <1>1, <1>4, <1>5, <1>6 DEF Sides

\* A solve moves no start: it only looks for a fit.
LEMMA SolveStarts ==
  ASSUME StartsInv, op # "idle",
         UNCHANGED <<mode, op, todo, row, side, seed, snapshot, frame, served>>
  PROVE  StartsInv'
  <1>1. HandTypeOK'
    BY DEF StartsInv, HandTypeOK
  <1>2. Converting'
    BY DEF StartsInv, Converting
  <1>3. Working'
    BY DEF StartsInv, Working, RowStart, Current
  <1>4. SeedIsLastServed'
    BY DEF StartsInv, SeedIsLastServed, Current
  <1> QED BY <1>1, <1>2, <1>3, <1>4 DEF StartsInv

LEMMA ConvertStarts == ASSUME StartsInv, Convert PROVE StartsInv'
  <1>1. CASE Refused
    BY <1>1, RaiseStarts DEF Refused
  <1>2. CASE GatePassed
    <2>1. op # "idle"
      BY <1>2 DEF GatePassed, StartsInv, Converting
    <2> QED BY <1>2, <2>1, CommitStarts DEF GatePassed
  <1>3. CASE GateFailed
    <2>1. op # "idle"
      BY <1>3 DEF GateFailed, StartsInv, Converting
    <2> QED BY <1>3, <2>1, RaiseStarts, SolveStarts DEF GateFailed
  <1>4. CASE LinearDirect
    BY <1>4, CommitStarts DEF LinearDirect
  <1>5. ASSUME NEW fit \in Fits, FirstSolve(fit) \/ Retry(fit) PROVE StartsInv'
    <2>1. op # "idle"
      BY <1>5 DEF FirstSolve, Retry, StartsInv, Converting
    <2>2. UNCHANGED <<mode, op, todo, row, side, seed, snapshot, frame, served>>
      BY <1>5 DEF FirstSolve, Retry
    <2> QED BY <2>1, <2>2, SolveStarts
  <1>6. ASSUME NEW fit \in Fits, LinearFallback(fit) PROVE StartsInv'
    <2>1. op # "idle"
      BY <1>6 DEF LinearFallback, StartsInv, Converting
    <2> QED BY <1>6, <2>1, CommitStarts, RaiseStarts DEF LinearFallback
  <1> QED BY <1>1, <1>2, <1>3, <1>4, <1>5, <1>6 DEF Convert

LEMMA StepStarts == StartsInv /\ [Next]_vars => StartsInv'
  <1> SUFFICES ASSUME StartsInv, [Next]_vars PROVE StartsInv' OBVIOUS
  <1>1. CASE \E d \in Directions, b \in Batches : Call(d, b)
    BY <1>1, CallStarts
  <1>2. CASE Reset
    BY <1>2, ResetStarts
  <1>3. CASE Convert
    BY <1>3, ConvertStarts
  <1>4. CASE UNCHANGED vars
    <2>1. HandTypeOK' /\ Converting'
      BY <1>4 DEF vars, StartsInv, HandTypeOK, Converting
    <2>2. Working' /\ SeedIsLastServed'
      BY <1>4 DEF vars, StartsInv, Working, RowStart, Current, SeedIsLastServed
    <2> QED BY <2>1, <2>2 DEF StartsInv
  <1> QED BY <1>1, <1>2, <1>3, <1>4 DEF Next

\* Whatever fails in an observation or in a chunk, and in whichever hand, row or
\* retry: both hands of an environment go on from the last frame that was
\* converted whole, and inside a chunk from the row before.
THEOREM HandsAlwaysTransactional == Spec => []HandsTransactional
  <1> QED BY InitStarts, StepStarts, StartsInvImplies, PTL DEF Spec

-----------------------------------------------------------------------------
\* While it searches, no start has led to an acceptable fit yet; a hand leaves
\* the search with the best fit that it found.
SearchInv ==
  /\ best \in Fits /\ passed \in BOOLEAN
  /\ stage = "retry" => ~passed /\ ~Passes(best)
  /\ GoodFitServed

\* A start that leads to an acceptable fit is better than what was not.
LEMMA PassingIsBetter ==
  ASSUME Gate \in Nat, MaxRms \in Nat, NEW fit \in Fits, best \in Fits,
         Passes(fit), ~Passes(best)
  PROVE  Better(fit)
  <1>1. fit.rms \in 0..(MaxRms + 1) /\ best.rms \in 0..(MaxRms + 1)
    BY DEF Fits, NaN
  <1>2. fit.rms # MaxRms + 1 /\ fit.rms <= Gate
    BY DEF Passes, Finite, NaN
  <1>3. CASE op = "observe"
    BY <1>3 DEF Better, Passes
  <1>4. CASE op # "observe"
    <2>1. best.rms = MaxRms + 1 \/ ~(best.rms <= Gate)
      BY <1>4 DEF Passes, Finite, NaN
    <2>2. fit.rms < best.rms
      BY <1>1, <1>2, <2>1
    <2> QED BY <2>2 DEF Better, Passes
  <1> QED BY <1>3, <1>4

LEMMA FirstSolveKeepsFit ==
  ASSUME NEW fit \in Fits, SearchInv, FirstSolve(fit) PROVE SearchInv'
  <1>1. /\ best' = fit /\ passed' = Passes(fit) /\ op' = op
        /\ stage' = IF Finite(fit) /\ ~Passes(fit) THEN "retry" ELSE "gate"
    BY DEF FirstSolve
  <1>2. Passes(best)' <=> Passes(fit)
    BY <1>1 DEF Passes, Finite
  <1>3. Passes(fit) \in BOOLEAN
    BY DEF Passes
  <1> QED BY <1>1, <1>2, <1>3 DEF SearchInv, GoodFitServed

LEMMA RetryKeepsFit ==
  ASSUME Gate \in Nat, MaxRms \in Nat, NEW fit \in Fits, SearchInv, Retry(fit)
  PROVE  SearchInv'
  <1> DEFINE kept == IF Better(fit) THEN fit ELSE best
  <1>1. /\ stage = "retry" /\ best' = kept /\ passed' = (passed \/ Passes(fit)) /\ op' = op
        /\ stage' = IF Passes(kept) \/ attempt + 1 = Retries THEN "gate" ELSE "retry"
    BY DEF Retry
  <1>2. ~passed /\ ~Passes(best) /\ best \in Fits
    BY <1>1 DEF SearchInv
  <1>3. Passes(fit) => Passes(kept)
    BY <1>2, PassingIsBetter
  <1>4. kept \in Fits
    BY <1>2
  <1> HIDE DEF kept
  <1>5. Passes(best)' <=> Passes(kept)
    BY <1>1 DEF Passes, Finite
  <1>6. passed' \in BOOLEAN
    BY <1>1
  <1> QED BY <1>1, <1>2, <1>3, <1>4, <1>5, <1>6 DEF SearchInv, GoodFitServed

\* What ends the conversion of a hand begins the next one.
LEMMA OthersKeepFit ==
  ASSUME SearchInv, UNCHANGED <<best, passed>>, stage' \in {"first", "linear"} PROVE SearchInv'
  BY DEF SearchInv, GoodFitServed

LEMMA StepSearch ==
  ASSUME Gate \in Nat, MaxRms \in Nat PROVE SearchInv /\ [Next]_vars => SearchInv'
  <1> SUFFICES ASSUME SearchInv, [Next]_vars PROVE SearchInv' OBVIOUS
  <1>1. CASE Reset \/ UNCHANGED vars
    <2>1. UNCHANGED <<best, passed, stage, op>>
      BY <1>1 DEF Reset, vars
    <2>2. Passes(best)' <=> Passes(best)
      BY <2>1 DEF Passes, Finite
    <2> QED BY <2>1, <2>2 DEF SearchInv, GoodFitServed
  <1>2. CASE \E d \in Directions, b \in Batches : Call(d, b)
    BY <1>2, OthersKeepFit DEF Call
  <1>3. CASE Refused \/ GatePassed \/ GateFailed \/ LinearDirect
    BY <1>3, OthersKeepFit DEF Refused, GatePassed, GateFailed, LinearDirect, Raise, Commit
  <1>4. ASSUME NEW fit \in Fits, FirstSolve(fit) PROVE SearchInv'
    BY <1>4, FirstSolveKeepsFit
  <1>5. ASSUME NEW fit \in Fits, Retry(fit) PROVE SearchInv'
    BY <1>5, RetryKeepsFit
  <1>6. ASSUME NEW fit \in Fits, LinearFallback(fit) PROVE SearchInv'
    BY <1>6, OthersKeepFit DEF LinearFallback, Raise, Commit
  <1> QED BY <1>1, <1>2, <1>3, <1>4, <1>5, <1>6 DEF Next, Convert

\* The search never gives up a fit that passed the gate, in either direction
\* and for any gate: a hand is refused only if no start led to one.
THEOREM GoodFitAlwaysServed ==
  ASSUME Gate \in Nat, MaxRms \in Nat PROVE Spec => []GoodFitServed
  <1>1. Init => SearchInv
    <2>1. NoFit \in Fits
      BY DEF NoFit, Fits, NaN
    <2> QED BY <2>1 DEF Init, SearchInv, GoodFitServed
  <1>2. SearchInv => GoodFitServed
    BY DEF SearchInv
  <1> QED BY <1>1, <1>2, StepSearch, PTL DEF Spec
=============================================================================
