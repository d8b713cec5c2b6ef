---------------------------- MODULE TrainingProofs ----------------------------
(***************************************************************************)
(* What one training job does beside saving, for every value of the        *)
(* constants of its parts: each part's own steps keep its invariant, and   *)
(* the steps of the others leave its state alone.                          *)
(***************************************************************************)
EXTENDS Training, SequenceTheorems, FiniteSetTheorems, TLAPS

\* The steps of a part are steps of its own specification or stutters.
LEMMA PartSteps ==
  ASSUME [TrainingNext]_trainVars
  PROVE  /\ [Loop!Next]_(Loop!vars)
         /\ [Sampler!Next]_(Sampler!vars)
         /\ [Rates!Next]_(Rates!vars)
         /\ [Windows!WindowNext]_(Windows!windowVars)
         /\ [Human!HumanNext]_(Human!humanVars)
         /\ [Codec!CodecNext]_(Codec!codecVars)
         /\ [Preparation!PrepNext]_(Preparation!prepVars)
  <1> USE DEF Loop!vars, Sampler!vars, Rates!vars, Windows!windowVars, Windows!recorded, Human!humanVars,
        Codec!codecVars, Preparation!prepVars, loopVars, samplerVars, ratesVars, robotVars, humanVars, codecVars, dataVars
  <1>1. CASE SaveStep BY <1>1 DEF SaveStep
  <1>2. CASE LoopStep BY <1>2 DEF LoopStep
  <1>3. CASE SamplerStep BY <1>3 DEF SamplerStep
  <1>4. CASE RatesStep BY <1>4 DEF RatesStep
  <1>5. CASE RobotStep BY <1>5 DEF RobotStep
  <1>6. CASE HumanStep BY <1>6 DEF HumanStep
  <1>7. CASE CodecStep BY <1>7 DEF CodecStep
  <1>8. CASE DataStep BY <1>8 DEF DataStep
  <1>9. CASE UNCHANGED trainVars BY <1>9 DEF trainVars
  <1> QED BY <1>1, <1>2, <1>3, <1>4, <1>5, <1>6, <1>7, <1>8, <1>9 DEF TrainingNext

LEMMA QuotientAndRest ==
  ASSUME NEW n \in Nat \ {0}, NEW q \in Nat, NEW r \in 0..(n - 1)
  PROVE  (q * n + r) \div n = q /\ (q * n + r) % n = r
  BY SMTT(60)

LEMMA RestOfMultiple ==
  ASSUME NEW n \in Nat \ {0}, NEW q \in Nat
  PROVE  (q * n) % n = 0
  BY SMTT(60)

LEMMA EvenQuotient ==
  ASSUME NEW n \in Nat \ {0}, NEW m \in Nat, m % n = 0
  PROVE  m \div n \in Nat /\ m = (m \div n) * n
  BY SMTT(60)

\* A set of numbers has a least one.
LEMMA LessThan == OpToRel(<, Nat) = {ss \in Nat \X Nat : ss[1] < ss[2]}
  BY Zenon DEF OpToRel

LEMMA Least ==
  ASSUME NEW T, T \subseteq Nat, T # {}
  PROVE  \E n \in T : \A m \in T : n <= m
  <1>1. PICK n \in T : \A m \in T : ~ (<<m, n>> \in OpToRel(<, Nat))
    BY NatLessThanWellFounded, WFMin, Zenon
  <1>2. ASSUME NEW m \in T PROVE n <= m
    <2>1. m \in Nat /\ n \in Nat OBVIOUS
    <2>2. ~ (<<m, n>> \in {ss \in Nat \X Nat : ss[1] < ss[2]}) BY <1>1, LessThan, Zenon
    <2> QED BY <2>1, <2>2
  <1> QED BY <1>2

LEMMA QuotientTimes ==
  ASSUME NEW n \in Nat \ {0}, NEW m \in Nat
  PROVE  m \div n \in Nat /\ m % n \in 0..(n - 1) /\ m = (m \div n) * n + (m % n)
  BY SMTT(60)

LEMMA TimesOrdered ==
  ASSUME NEW n \in Nat, NEW a \in Int, NEW b \in Int, a <= b
  PROVE  a * n \in Int /\ b * n \in Int /\ a * n <= b * n
  BY SMTT(60)

LEMMA TimesNext ==
  ASSUME NEW n \in Nat, NEW a \in Int
  PROVE  a * n \in Int /\ (a + 1) * n = a * n + n /\ (a - 1) * n = a * n - n
  BY SMTT(60)

-----------------------------------------------------------------------------
(* Running totals, which exist however the terms are given.                 *)

\* A set with zero and every successor has all numbers.
LEMMA AllNumbers ==
  ASSUME NEW T, 0 \in T, \A n \in Nat : n \in T => n + 1 \in T
  PROVE  \A n \in Nat : n \in T
  <1> DEFINE F == {n \in Nat : n \notin T}
  <1> SUFFICES ASSUME F # {} PROVE FALSE OBVIOUS
  <1>1. PICK n \in F : \A m \in F : n <= m BY Least
  <1>2. n \in Nat /\ n # 0 /\ n - 1 \in Nat BY <1>1
  <1>3. n - 1 \in T BY <1>1, <1>2
  <1> QED BY <1>1, <1>2, <1>3

IsTotal(f, n, a) == f = [e \in 0..n |-> IF e = 0 THEN 0 ELSE f[e - 1] + a[e]]
TotalOf(f, a) == f = [e \in Nat |-> IF e = 0 THEN 0 ELSE f[e - 1] + a[e]]

LEMMA OneTotal ==
  ASSUME NEW a, NEW n \in Nat, NEW f, IsTotal(f, n, a), NEW m \in Nat, NEW g, IsTotal(g, m, a)
  PROVE  \A e \in Nat : e <= n /\ e <= m => f[e] = g[e]
  <1> DEFINE T == {e \in Nat : e <= n /\ e <= m => f[e] = g[e]}
  <1>1. 0 \in T BY DEF IsTotal
  <1>2. ASSUME NEW e \in Nat, e \in T PROVE e + 1 \in T
    <2> SUFFICES ASSUME e + 1 <= n, e + 1 <= m PROVE f[e + 1] = g[e + 1] OBVIOUS
    <2>1. f[e] = g[e] BY <1>2
    <2>2. f[e + 1] = f[e] + a[e + 1] BY DEF IsTotal
    <2>3. g[e + 1] = g[e] + a[e + 1] BY DEF IsTotal
    <2> QED BY <2>1, <2>2, <2>3
  <1> HIDE DEF T
  <1>3. \A e \in Nat : e \in T BY <1>1, <1>2, AllNumbers
  <1> QED BY <1>3 DEF T

LEMMA SomeTotal == ASSUME NEW a PROVE \A n \in Nat : \E f : IsTotal(f, n, a)
  <1> DEFINE T == {n \in Nat : \E f : IsTotal(f, n, a)}
  <1>1. 0 \in T
    <2>1. IsTotal([e \in 0..0 |-> 0], 0, a) BY DEF IsTotal
    <2> QED BY <2>1
  <1>2. ASSUME NEW n \in Nat, n \in T PROVE n + 1 \in T
    <2>1. PICK f : IsTotal(f, n, a) BY <1>2
    <2> DEFINE g == [e \in 0..(n + 1) |-> IF e = n + 1 THEN f[n] + a[n + 1] ELSE f[e]]
    <2>2. ASSUME NEW e \in 0..(n + 1) PROVE g[e] = IF e = 0 THEN 0 ELSE g[e - 1] + a[e]
      <3>1. CASE e = n + 1 BY <3>1
      <3>2. CASE e = 0 BY <3>2, <2>1 DEF IsTotal
      <3>3. CASE e \in 1..n
        <4>1. f[e] = f[e - 1] + a[e] BY <2>1, <3>3 DEF IsTotal
        <4> QED BY <4>1, <3>3
      <3> QED BY <3>1, <3>2, <3>3
    <2> DEFINE h == [e \in 0..(n + 1) |-> IF e = 0 THEN 0 ELSE g[e - 1] + a[e]]
    <2>3. g = h BY <2>2
    <2>4. IsTotal(g, n + 1, a) BY <2>3 DEF IsTotal
    <2> QED BY <2>4
  <1> HIDE DEF T
  <1>3. \A n \in Nat : n \in T BY <1>1, <1>2, AllNumbers
  <1> QED BY <1>3 DEF T

LEMMA TotalExists == ASSUME NEW a PROVE \E f : TotalOf(f, a)
  <1> DEFINE S(n) == CHOOSE f : IsTotal(f, n, a)
             c == [n \in Nat |-> S(n)[n]]
             d == [e \in Nat |-> IF e = 0 THEN 0 ELSE c[e - 1] + a[e]]
  <1>1. \A n \in Nat : IsTotal(S(n), n, a) BY SomeTotal
  <1> HIDE DEF S
  <1>2. ASSUME NEW e \in Nat PROVE c[e] = d[e]
    <2>1. CASE e = 0 BY <2>1, <1>1 DEF IsTotal
    <2>2. CASE e # 0
      <3>1. S(e)[e] = S(e)[e - 1] + a[e] BY <1>1, <2>2 DEF IsTotal
      <3>2. e - 1 \in Nat BY <2>2
      <3>3. S(e)[e - 1] = S(e - 1)[e - 1]
        <4>1. IsTotal(S(e), e, a) /\ IsTotal(S(e - 1), e - 1, a) BY <1>1, <3>2
        <4>2. e - 1 <= e OBVIOUS
        <4> HIDE DEF IsTotal
        <4> QED BY <4>1, <4>2, <3>2, OneTotal
      <3> QED BY <3>1, <3>2, <3>3, <2>2
    <2> QED BY <2>1, <2>2
  <1>3. c = d BY <1>2
  <1>4. TotalOf(c, a) BY <1>3 DEF TotalOf
  <1> QED BY <1>4

-----------------------------------------------------------------------------
(* The loop over batches.                                                   *)

\* Where resuming leaves no trace: accumulations end with the epochs, and no
\* checkpoint is taken at the end of one.  A finished run that is started again
\* makes, and saves, one step past its end.
SavesInsideEpochs ==
  /\ EpochIters % Accum = 0 /\ ~EpochSaves
  /\ \A s \in 1..(MaxSteps + MaxLaunches - 1) :
       s % SaveInterval = 0 \/ s >= MaxSteps => (s * Accum) % EpochIters # 0

\* Batch n of a run that never stops.
Batch(n) == <<n \div EpochIters, n % EpochIters>>
InOrder(seq) == seq \in Seq(Nat \X Nat) /\ \A i \in 1..Len(seq) : seq[i] = Batch(i - 1)

\* A checkpoint that can be resumed from leads to the batch after its weights.
GoodCheckpoint(c) ==
  /\ c.epoch \in Nat /\ c.step \in Nat
  /\ InOrder(c.weights) /\ Len(c.weights) = c.step * Accum
  /\ c.epoch * EpochIters + Loop!Position(c.step) = c.step * Accum

\* The batch the sampler is at follows what was trained and what is pending.
Underway ==
  /\ epoch \in Nat /\ pos \in 0..EpochIters
  /\ globalStep \in Nat /\ launches # 0 /\ globalStep + 1 < MaxSteps + launches
  /\ pending \in Seq(Nat \X Nat) /\ Len(pending) < Accum
  /\ Len(trained) = globalStep * Accum
  /\ epoch * EpochIters + pos = Len(trained) + Len(pending)
  /\ \A j \in 1..Len(pending) : pending[j] = Batch(Len(trained) + j - 1)
  /\ \E q \in Nat : trainIdx = q * Accum + Len(pending)

LoopInv ==
  /\ InOrder(trained) /\ launches \in 0..MaxLaunches
  /\ \A c \in saved : GoodCheckpoint(c) /\ c.step < MaxSteps + launches
  /\ running => Underway

LEMMA PositionRange == \A s \in Nat : Loop!Position(s) \in 0..(EpochIters - 1)
  <1> TAKE s \in Nat
  <1>1. s * Accum \in Nat BY LoopAssumption
  <1> QED BY <1>1, LoopAssumption DEF Loop!Position

LEMMA LoopLaunchInv ==
  ASSUME LoopInv, NEW c \in saved \cup {Loop!Nothing}, Loop!Launch(c)
  PROVE  LoopInv'
  <1> USE LoopAssumption, RatesAssumption
  <1>1. /\ saved' = saved /\ trained' = c.weights /\ epoch' = c.epoch
        /\ pos' = Loop!Position(c.step) /\ globalStep' = c.step /\ trainIdx' = 0
        /\ pending' = <<>> /\ launches < MaxLaunches /\ launches' = launches + 1
    BY DEF Loop!Launch
  <1>0. launches \in 0..MaxLaunches /\ launches' \in 1..MaxLaunches
    <2>1. launches \in 0..MaxLaunches BY DEF LoopInv
    <2> QED BY <2>1, <1>1
  <1>2. GoodCheckpoint(c) /\ c.step < MaxSteps + launches
    <2>1. CASE c \in saved BY <2>1 DEF LoopInv
    <2>2. CASE c = Loop!Nothing
      <3>1. c.epoch = 0 /\ c.step = 0 /\ c.weights = <<>> BY <2>2 DEF Loop!Nothing
      <3>2. Loop!Position(0) = 0
        BY RestOfMultiple DEF Loop!Position
      <3> QED BY <3>1, <3>2, <1>0 DEF GoodCheckpoint, InOrder
    <2> QED BY <2>1, <2>2
  <1>3. InOrder(trained)'
    BY <1>1, <1>2 DEF GoodCheckpoint, InOrder, Batch
  <1>4. Underway'
    <2>1. pending' \in Seq(Nat \X Nat) /\ Len(pending') = 0 /\ Len(pending') < Accum
      BY <1>1
    <2>2. epoch' \in Nat /\ pos' \in 0..EpochIters /\ globalStep' \in Nat
          /\ launches' # 0 /\ globalStep' + 1 < MaxSteps + launches'
      <3>1. c.epoch \in Nat /\ c.step \in Nat BY <1>2 DEF GoodCheckpoint
      <3>2. Loop!Position(c.step) \in 0..(EpochIters - 1) BY <3>1, PositionRange
      <3>3. Loop!Position(c.step) \in 0..EpochIters BY <3>2
      <3>4. c.step + 1 < MaxSteps + (launches + 1) BY <3>1, <1>2, <1>0
      <3> QED BY <1>0, <1>1, <3>1, <3>3, <3>4
    <2>3. Len(trained') = globalStep' * Accum /\ epoch' * EpochIters + pos' = Len(trained') + 0
      BY <1>1, <1>2 DEF GoodCheckpoint
    <2>4. \E q \in Nat : trainIdx' = q * Accum + Len(pending')
      <3>1. trainIdx' = 0 * Accum + Len(pending') BY <1>1, <2>1
      <3> QED BY <3>1
    <2> QED BY <2>1, <2>2, <2>3, <2>4 DEF Underway
  <1>5. ASSUME NEW d \in saved PROVE GoodCheckpoint(d)' /\ d.step < MaxSteps + launches'
    <2>1. GoodCheckpoint(d) /\ d.step < MaxSteps + launches BY DEF LoopInv
    <2>2. d.step \in Nat BY <2>1 DEF GoodCheckpoint
    <2>3. d.step < MaxSteps + launches' BY <2>1, <2>2, <1>0, <1>1
    <2> QED BY <2>1, <2>3, <1>1 DEF GoodCheckpoint, Loop!Position, InOrder, Batch
  <1> QED BY <1>0, <1>1, <1>3, <1>4, <1>5 DEF LoopInv

\* The batch the sampler yields is the next one in order.
LEMMA NextBatch ==
  ASSUME LoopInv, running, pos < EpochIters
  PROVE  <<epoch, pos>> = Batch(Len(trained) + Len(pending)) /\ <<epoch, pos>> \in Nat \X Nat
  <1>1. epoch \in Nat /\ pos \in 0..(EpochIters - 1)
        /\ epoch * EpochIters + pos = Len(trained) + Len(pending)
    BY LoopAssumption DEF LoopInv, Underway
  <1>2. (epoch * EpochIters + pos) \div EpochIters = epoch
        /\ (epoch * EpochIters + pos) % EpochIters = pos
    BY <1>1, QuotientAndRest, LoopAssumption, Zenon
  <1>3. Batch(epoch * EpochIters + pos) = <<epoch, pos>>
    BY <1>2 DEF Batch
  <1>4. <<epoch, pos>> \in Nat \X Nat
    BY <1>1, LoopAssumption
  <1> QED BY <1>1, <1>3, <1>4

\* A step is due when the pending batches and this one are as many as it takes.
LEMMA DueWhenFull ==
  ASSUME LoopInv, running
  PROVE  Loop!StepIsDue <=> Len(pending) + 1 = Accum
  <1> USE LoopAssumption
  <1>1. PICK q \in Nat : trainIdx = q * Accum + Len(pending)
    BY DEF LoopInv, Underway
  <1>2. Len(pending) \in Nat /\ Len(pending) < Accum
    BY DEF LoopInv, Underway
  <1>3. CASE Len(pending) + 1 = Accum
    <2>1. q * Accum + Accum = (q + 1) * Accum OBVIOUS
    <2>2. trainIdx + 1 = (q + 1) * Accum BY <1>1, <1>2, <1>3, <2>1
    <2>3. (trainIdx + 1) % Accum = 0 BY <2>2, RestOfMultiple
    <2> QED BY <2>3, <1>3 DEF Loop!StepIsDue
  <1>4. CASE Len(pending) + 1 < Accum
    <2> DEFINE r == Len(pending) + 1
    <2>1. r \in 0..(Accum - 1) /\ trainIdx + 1 = q * Accum + r BY <1>1, <1>2, <1>4
    <2> HIDE DEF r
    <2>2. (trainIdx + 1) % Accum = r BY <2>1, QuotientAndRest
    <2> QED BY <2>2, <1>2, <1>4 DEF Loop!StepIsDue, r
  <1> QED BY <1>2, <1>3, <1>4

LEMMA GoodSame == \A c : GoodCheckpoint(c)' <=> GoodCheckpoint(c)
  BY DEF GoodCheckpoint, InOrder, Batch, Loop!Position

\* What the invariant says of a run that is up, but for the batches themselves.
LEMMA UpFacts ==
  ASSUME LoopInv, running
  PROVE  /\ epoch \in Nat /\ pos \in 0..EpochIters /\ globalStep \in Nat
         /\ pending \in Seq(Nat \X Nat) /\ Len(pending) \in Nat /\ Len(pending) < Accum
         /\ trained \in Seq(Nat \X Nat) /\ Len(trained) \in Nat
         /\ \A j \in 1..Len(pending) : pending[j] = Batch(Len(trained) + j - 1)
  <1>1. InOrder(trained) /\ Underway BY DEF LoopInv
  <1> QED BY <1>1 DEF Underway, InOrder

LEMMA AccumulateInv == ASSUME LoopInv, Loop!Accumulate PROVE LoopInv'
  <1> USE LoopAssumption
  <1>1. /\ running /\ pos < EpochIters /\ ~Loop!StepIsDue
        /\ pos' = pos + 1 /\ trainIdx' = trainIdx + 1
        /\ pending' = Append(pending, <<epoch, pos>>)
        /\ UNCHANGED <<running, launches, epoch, globalStep, trained, saved>>
    BY DEF Loop!Accumulate
  <1>2. Len(pending) + 1 < Accum
    <2>1. Len(pending) + 1 # Accum BY <1>1, DueWhenFull
    <2> QED BY <1>1, <2>1, UpFacts
  <1>3. <<epoch, pos>> = Batch(Len(trained) + Len(pending)) /\ <<epoch, pos>> \in Nat \X Nat
    BY <1>1, NextBatch
  <1>4. /\ pending' \in Seq(Nat \X Nat) /\ Len(pending') = Len(pending) + 1
        /\ \A j \in 1..Len(pending) : pending'[j] = pending[j]
        /\ pending'[Len(pending) + 1] = <<epoch, pos>>
    BY <1>1, <1>3, UpFacts, AppendProperties
  <1>5. ASSUME NEW j \in 1..Len(pending') PROVE pending'[j] = Batch(Len(trained) + j - 1)
    <2>1. Len(pending) \in Nat /\ Len(trained) \in Nat BY <1>1, UpFacts
    <2>2. CASE j = Len(pending) + 1
      <3>1. Len(trained) + j - 1 = Len(trained) + Len(pending) BY <2>1, <2>2
      <3> QED BY <3>1, <2>2, <1>3, <1>4
    <2>3. CASE j # Len(pending) + 1
      <3>1. j \in 1..Len(pending) BY <2>1, <2>3, <1>4
      <3> QED BY <3>1, <1>1, <1>4, UpFacts
    <2> QED BY <2>2, <2>3
  <1>6. \E q \in Nat : trainIdx' = q * Accum + Len(pending')
    <2>1. PICK q \in Nat : trainIdx = q * Accum + Len(pending)
      BY <1>1 DEF LoopInv, Underway
    <2>2. Len(pending) \in Nat BY <1>1 DEF LoopInv, Underway
    <2> q * Accum \in Nat OBVIOUS
    <2>3. trainIdx' = q * Accum + Len(pending') BY <1>1, <1>4, <2>1, <2>2
    <2> QED BY <2>3
  <1>7. Underway'
    <2>1. Len(pending) \in Nat /\ Len(trained) \in Nat
      BY <1>1, UpFacts
    <2>2. epoch' * EpochIters + pos' = Len(trained') + Len(pending')
      <3>1. epoch * EpochIters + pos = Len(trained) + Len(pending) /\ pos \in Nat
        BY <1>1 DEF LoopInv, Underway
      <3>2. epoch' * EpochIters = epoch * EpochIters BY <1>1
      <3> DEFINE n == epoch * EpochIters
      <3>3. n \in Nat BY <1>1, UpFacts
      <3> HIDE DEF n
      <3>4. n + (pos + 1) = Len(trained) + (Len(pending) + 1) BY <3>1, <3>3, <2>1 DEF n
      <3> QED BY <3>2, <3>4, <1>1, <1>4 DEF n
    <2>3. pos' \in 0..EpochIters /\ Len(pending') < Accum
      <3>1. pos \in 0..EpochIters BY <1>1, UpFacts
      <3> QED BY <3>1, <1>1, <1>2, <1>4
    <2> QED BY <1>1, <1>4, <1>5, <1>6, <2>2, <2>3 DEF LoopInv, Underway, Batch
  <1>8. InOrder(trained)' BY <1>1 DEF LoopInv, InOrder, Batch
  <1> QED BY <1>1, <1>7, <1>8, GoodSame DEF LoopInv

\* A step trains what is pending and the batch that completes it.
LEMMA TrainedByStep ==
  ASSUME LoopInv, Loop!Step
  PROVE  /\ InOrder(trained') /\ Len(trained') = (globalStep + 1) * Accum
         /\ epoch * EpochIters + (pos + 1) = (globalStep + 1) * Accum
         /\ Len(pending) + 1 = Accum
  <1> USE LoopAssumption
  <1> DEFINE batches == Append(pending, <<epoch, pos>>)
             L == Len(trained)
             P == Len(pending)
  <1>1. running /\ pos < EpochIters /\ Loop!StepIsDue /\ trained' = trained \o batches
    BY DEF Loop!Step
  <1>2. P + 1 = Accum
    BY <1>1, DueWhenFull
  <1>3. <<epoch, pos>> = Batch(L + P) /\ <<epoch, pos>> \in Nat \X Nat
    BY <1>1, NextBatch
  <1>4. trained \in Seq(Nat \X Nat) /\ pending \in Seq(Nat \X Nat) /\ L \in Nat /\ P \in Nat
    BY <1>1, UpFacts
  <1>5. /\ batches \in Seq(Nat \X Nat) /\ Len(batches) = P + 1
        /\ \A j \in 1..P : batches[j] = pending[j]
        /\ batches[P + 1] = <<epoch, pos>>
    BY <1>3, <1>4, AppendProperties
  <1> HIDE DEF batches
  <1>6. /\ trained' \in Seq(Nat \X Nat) /\ Len(trained') = L + (P + 1)
        /\ \A i \in 1..(L + (P + 1)) : trained'[i] = IF i <= L THEN trained[i] ELSE batches[i - L]
    <2>1. /\ trained' \in Seq(Nat \X Nat) /\ Len(trained') = L + Len(batches)
          /\ \A i \in 1..(L + Len(batches)) :
               trained'[i] = IF i <= L THEN trained[i] ELSE batches[i - L]
      BY <1>1, <1>4, <1>5, ConcatProperties
    <2> QED BY <2>1, <1>5
  <1>7. ASSUME NEW i \in 1..(L + (P + 1)) PROVE trained'[i] = Batch(i - 1)
    <2>1. CASE i <= L
      <3>1. i \in 1..L BY <2>1, <1>4
      <3> QED BY <3>1, <2>1, <1>6 DEF LoopInv, InOrder
    <2>2. CASE i = L + (P + 1)
      <3>1. ~(i <= L) /\ i - L = P + 1 /\ i - 1 = L + P BY <2>2, <1>4
      <3>2. trained'[i] = <<epoch, pos>> BY <3>1, <1>5, <1>6
      <3> QED BY <3>1, <3>2, <1>3
    <2>3. CASE ~(i <= L) /\ i # L + (P + 1)
      <3>1. i - L \in 1..P /\ L + (i - L) - 1 = i - 1
        <4> HIDE DEF L, P
        <4> QED BY <2>3, <1>4
      <3>2. trained'[i] = pending[i - L] BY <2>3, <3>1, <1>5, <1>6
      <3>3. pending[i - L] = Batch(L + (i - L) - 1) BY <3>1, <1>1 DEF LoopInv, Underway
      <3> QED BY <3>1, <3>2, <3>3
    <2> QED BY <2>1, <2>2, <2>3
  <1>8. InOrder(trained')
    BY <1>6, <1>7 DEF InOrder
  <1>9. L = globalStep * Accum /\ globalStep \in Nat /\ epoch * EpochIters + pos = L + P
        /\ pos \in Nat /\ epoch \in Nat
    BY <1>1 DEF LoopInv, Underway
  <1>10. (globalStep + 1) * Accum = globalStep * Accum + Accum
    BY <1>9
  <1>11. Len(trained') = (globalStep + 1) * Accum
    BY <1>2, <1>4, <1>6, <1>9, <1>10
  <1>12. epoch * EpochIters + (pos + 1) = (globalStep + 1) * Accum
    <2>1. epoch * EpochIters \in Nat BY <1>9
    <2> DEFINE n == epoch * EpochIters
    <2> HIDE DEF n
    <2>2. n + pos = L + P /\ n \in Nat BY <1>9, <2>1 DEF n
    <2>3. n + (pos + 1) = L + Accum
      <3>1. L \in Nat /\ P \in Nat /\ P + 1 = Accum /\ pos \in Nat BY <1>2, <1>4, <1>9
      <3> HIDE DEF L, P
      <3> QED BY <2>2, <3>1
    <2>4. L + Accum = (globalStep + 1) * Accum BY <1>9, <1>10
    <2> QED BY <2>3, <2>4 DEF n
  <1> QED BY <1>2, <1>8, <1>11, <1>12

\* The checkpoint a step may write.
LEMMA SavedByStep ==
  ASSUME LoopInv, SavesInsideEpochs, Loop!Step,
         globalStep + 1 >= MaxSteps \/ (globalStep + 1) % SaveInterval = 0
  PROVE  /\ GoodCheckpoint(Loop!Checkpoint(epoch, globalStep + 1, trained'))
         /\ globalStep + 1 < MaxSteps + launches
  <1> USE LoopAssumption, RatesAssumption
  <1> DEFINE c == Loop!Checkpoint(epoch, globalStep + 1, trained')
             n == (globalStep + 1) * Accum
  <1>1. c.epoch = epoch /\ c.step = globalStep + 1 /\ c.weights = trained'
    BY DEF Loop!Checkpoint
  <1>2. /\ InOrder(trained') /\ Len(trained') = n
        /\ epoch * EpochIters + (pos + 1) = n
    BY TrainedByStep
  <1>3. /\ epoch \in Nat /\ globalStep \in Nat /\ pos \in 0..(EpochIters - 1)
        /\ launches \in 0..MaxLaunches /\ globalStep + 1 < MaxSteps + launches
    <2>1. running /\ pos < EpochIters BY DEF Loop!Step
    <2>2. launches \in 0..MaxLaunches /\ globalStep + 1 < MaxSteps + launches
      BY <2>1 DEF LoopInv, Underway
    <2> QED BY <2>1, <2>2, UpFacts
  <1>4. epoch * EpochIters + (n % EpochIters) = n
    <2>1. globalStep + 1 \in 1..(MaxSteps + MaxLaunches - 1)
      BY <1>3
    <2>2. n % EpochIters # 0
      BY <2>1 DEF SavesInsideEpochs
    <2>3. pos + 1 # EpochIters
      <3> SUFFICES ASSUME pos + 1 = EpochIters PROVE FALSE
        OBVIOUS
      <3>1. epoch * EpochIters + EpochIters = (epoch + 1) * EpochIters
        BY <1>3
      <3>2. n = (epoch + 1) * EpochIters
        BY <1>2, <3>1
      <3>3. ((epoch + 1) * EpochIters) % EpochIters = 0
        <4>1. epoch + 1 \in Nat BY <1>3
        <4> QED BY <4>1, RestOfMultiple
      <3> HIDE DEF n
      <3> QED BY <2>2, <3>2, <3>3
    <2>4. pos + 1 \in 0..(EpochIters - 1)
      BY <1>3, <2>3
    <2>5. (epoch * EpochIters + (pos + 1)) % EpochIters = pos + 1
      BY <1>3, <2>4, QuotientAndRest
    <2>6. n % EpochIters = pos + 1 BY <1>2, <2>5
    <2>7. epoch * EpochIters + (pos + 1) = n BY <1>2
    <2> QED BY <2>6, <2>7, Zenon
  <1>5. c.epoch * EpochIters + Loop!Position(c.step) = c.step * Accum
    <2> SUFFICES epoch * EpochIters + Loop!Position(globalStep + 1) = n
      BY <1>1
    <2>1. Loop!Position(globalStep + 1) = n % EpochIters BY DEF Loop!Position
    <2> QED BY <2>1, <1>4, Zenon
  <1>6. c.epoch \in Nat /\ c.step \in Nat BY <1>1, <1>3
  <1>7. InOrder(c.weights) /\ Len(c.weights) = c.step * Accum BY <1>1, <1>2
  <1> QED BY <1>3, <1>5, <1>6, <1>7, Zenon DEF GoodCheckpoint

LEMMA LoopStepInv == ASSUME LoopInv, SavesInsideEpochs, Loop!Step PROVE LoopInv'
  <1> USE LoopAssumption, RatesAssumption
  <1>1. /\ running /\ pos < EpochIters /\ pos' = pos + 1 /\ trainIdx' = trainIdx + 1
        /\ pending' = <<>> /\ globalStep' = globalStep + 1
        /\ UNCHANGED <<epoch, launches>>
        /\ running' = ~(globalStep + 1 >= MaxSteps)
        /\ saved' = saved \cup
             IF globalStep + 1 >= MaxSteps \/ (globalStep + 1) % SaveInterval = 0
             THEN {Loop!Checkpoint(epoch, globalStep + 1, trained')} ELSE {}
    BY DEF Loop!Step
  <1>2. /\ InOrder(trained') /\ Len(trained') = globalStep' * Accum
        /\ epoch' * EpochIters + pos' = globalStep' * Accum
        /\ Len(pending) + 1 = Accum
    BY <1>1, TrainedByStep
  <1>3. InOrder(trained)'
    BY <1>2 DEF InOrder, Batch
  <1>4. ASSUME NEW c \in saved' PROVE GoodCheckpoint(c) /\ c.step < MaxSteps + launches
    <2>1. CASE c \in saved BY <2>1 DEF LoopInv
    <2>2. CASE c \notin saved
      <3>1. /\ c = Loop!Checkpoint(epoch, globalStep + 1, trained')
            /\ globalStep + 1 >= MaxSteps \/ (globalStep + 1) % SaveInterval = 0
        BY <1>1, <2>2
      <3>2. c.step = globalStep + 1 BY <3>1 DEF Loop!Checkpoint
      <3> QED BY <3>1, <3>2, SavedByStep
    <2> QED BY <2>1, <2>2
  <1>5. ASSUME running' PROVE Underway'
    <2>1. epoch \in Nat /\ globalStep \in Nat /\ pos \in 0..(EpochIters - 1)
      BY <1>1, UpFacts
    <2>2. epoch' \in Nat /\ globalStep' \in Nat /\ pos' \in 0..EpochIters
          /\ launches' # 0 /\ globalStep' + 1 < MaxSteps + launches'
      <3>1. ~(globalStep + 1 >= MaxSteps) BY <1>1, <1>5
      <3>2. globalStep + 1 < MaxSteps BY <3>1, <2>1
      <3>3. launches \in 0..MaxLaunches /\ launches # 0
        BY <1>1 DEF LoopInv, Underway
      <3>4. (globalStep + 1) + 1 < MaxSteps + launches BY <3>2, <3>3, <2>1
      <3> QED BY <1>1, <2>1, <3>3, <3>4
    <2>3. pending' \in Seq(Nat \X Nat) /\ Len(pending') = 0 /\ Len(pending') < Accum
      BY <1>1
    <2>4. \E q \in Nat : trainIdx' = q * Accum + 0
      <3>1. PICK q \in Nat : trainIdx = q * Accum + Len(pending)
        BY <1>1 DEF LoopInv, Underway
      <3>2. q * Accum + Accum = (q + 1) * Accum /\ q * Accum \in Nat
        OBVIOUS
      <3>3. Len(pending) \in Nat BY <1>1, UpFacts
      <3>4. trainIdx' = (q + 1) * Accum + 0
        <4> DEFINE m == q * Accum
        <4>1. m \in Nat /\ trainIdx' = (m + Len(pending)) + 1 BY <1>1, <3>1, <3>2
        <4>2. m + Accum = (q + 1) * Accum BY <3>2
        <4> HIDE DEF m
        <4>3. trainIdx' = m + Accum BY <4>1, <1>2, <3>3
        <4> QED BY <4>2, <4>3
      <3>5. q + 1 \in Nat OBVIOUS
      <3> QED BY <3>4, <3>5
    <2>5. /\ Len(trained') = globalStep' * Accum
          /\ epoch' * EpochIters + pos' = Len(trained') + Len(pending')
      <3> DEFINE t == globalStep' * Accum
                 e == epoch' * EpochIters + pos'
      <3>1. t = e /\ Len(trained') = t /\ Len(trained') \in Nat BY <1>2 DEF InOrder
      <3> HIDE DEF t, e
      <3>2. e = Len(trained') + Len(pending') BY <3>1, <2>3
      <3> QED BY <3>1, <3>2 DEF t, e
    <2>6. \A j \in 1..Len(pending') : pending'[j] = Batch(Len(trained') + j - 1)
      BY <2>3
    <2>7. \E q \in Nat : trainIdx' = q * Accum + Len(pending')
      BY <2>3, <2>4
    <2> QED BY <2>2, <2>3, <2>5, <2>6, <2>7 DEF Underway
  <1>6. launches' \in 0..MaxLaunches BY <1>1 DEF LoopInv
  <1> QED BY <1>1, <1>3, <1>4, <1>5, <1>6, GoodSame DEF LoopInv

\* At the end of an epoch nothing is pending, so that nothing is dropped.
LEMMA NothingPending ==
  ASSUME LoopInv, SavesInsideEpochs, running, pos = EpochIters
  PROVE  Len(pending) = 0
  <1> USE LoopAssumption
  <1> DEFINE k == EpochIters \div Accum
             P == Len(pending)
  <1>1. k \in Nat /\ EpochIters = k * Accum
    BY EvenQuotient DEF SavesInsideEpochs
  <1>2. /\ epoch \in Nat /\ globalStep \in Nat /\ P \in 0..(Accum - 1)
        /\ epoch * EpochIters + EpochIters = globalStep * Accum + P
    <2>1. /\ epoch \in Nat /\ globalStep \in Nat /\ P \in Nat /\ P < Accum
          /\ Len(trained) = globalStep * Accum
          /\ epoch * EpochIters + EpochIters = Len(trained) + P
      BY DEF LoopInv, Underway
    <2> HIDE DEF P
    <2> QED BY <2>1
  <1> HIDE DEF k, P
  <1>3. epoch * EpochIters + EpochIters = ((epoch + 1) * k) * Accum
    <2>1. epoch * EpochIters + EpochIters = (epoch + 1) * EpochIters BY <1>2
    <2>2. (epoch + 1) * (k * Accum) = ((epoch + 1) * k) * Accum BY <1>1, <1>2
    <2> QED BY <2>1, <2>2, <1>1
  <1>4. (((epoch + 1) * k) * Accum) % Accum = 0
    <2>1. (epoch + 1) * k \in Nat BY <1>1, <1>2
    <2> QED BY <2>1, RestOfMultiple
  <1>5. (globalStep * Accum + P) % Accum = P
    BY <1>2, QuotientAndRest
  <1> QED BY <1>2, <1>3, <1>4, <1>5 DEF P

LEMMA NextEpochInv == ASSUME LoopInv, SavesInsideEpochs, Loop!NextEpoch PROVE LoopInv'
  <1> USE LoopAssumption
  <1>1. /\ running /\ pos = EpochIters /\ saved' = saved /\ epoch' = epoch + 1 /\ pos' = 0
        /\ pending' = <<>>
        /\ UNCHANGED <<running, launches, trainIdx, globalStep, trained>>
    BY DEF Loop!NextEpoch, SavesInsideEpochs
  <1>2. Len(pending) = 0
    BY <1>1, NothingPending
  <1>3. epoch' * EpochIters + pos' = Len(trained)
    <2>1. epoch \in Nat /\ Len(trained) \in Nat /\ epoch * EpochIters + EpochIters = Len(trained) + 0
      BY <1>1, <1>2 DEF LoopInv, Underway, InOrder
    <2>2. epoch * EpochIters + EpochIters = (epoch + 1) * EpochIters
      BY <2>1
    <2>3. (epoch + 1) * EpochIters = Len(trained)
      BY <2>1, <2>2
    <2>4. (epoch + 1) * EpochIters \in Nat
      BY <2>1
    <2> QED BY <1>1, <2>3, <2>4
  <1>4. Underway'
    <2>1. epoch' \in Nat /\ pos' \in 0..EpochIters
      BY <1>1, UpFacts
    <2>2. pending' \in Seq(Nat \X Nat) /\ Len(pending') = 0 /\ Len(pending') < Accum
      BY <1>1
    <2>3. Len(trained) + 0 = Len(trained)
      BY DEF LoopInv, InOrder
    <2>4. /\ globalStep' \in Nat /\ launches' # 0 /\ globalStep' + 1 < MaxSteps + launches'
          /\ Len(trained') = globalStep' * Accum
          /\ \E q \in Nat : trainIdx' = q * Accum + Len(pending')
      BY <1>1, <1>2, <2>2 DEF LoopInv, Underway
    <2>5. \A j \in 1..Len(pending') : pending'[j] = Batch(Len(trained') + j - 1)
      BY <2>2
    <2>6. epoch' * EpochIters + pos' = Len(trained') + Len(pending')
      BY <1>1, <1>3, <2>2, <2>3
    <2> QED BY <2>1, <2>2, <2>4, <2>5, <2>6 DEF Underway, Batch
  <1>5. InOrder(trained)'
    BY <1>1 DEF LoopInv, InOrder, Batch
  <1> QED BY <1>1, <1>4, <1>5, GoodSame DEF LoopInv

LEMMA LoopNextInv ==
  ASSUME LoopInv, SavesInsideEpochs, [Loop!Next]_(Loop!vars) PROVE LoopInv'
  <1>1. CASE Loop!Crash \/ UNCHANGED Loop!vars
    <2>1. /\ UNCHANGED <<launches, epoch, pos, trainIdx, pending, globalStep, trained, saved>>
          /\ running' => running
      BY <1>1 DEF Loop!Crash, Loop!vars
    <2>2. InOrder(trained)' BY <2>1 DEF LoopInv, InOrder, Batch
    <2>3. Underway => Underway' BY <2>1 DEF Underway, Batch
    <2> QED BY <2>1, <2>2, <2>3, GoodSame DEF LoopInv
  <1> QED
    BY <1>1, LoopLaunchInv, AccumulateInv, LoopStepInv, NextEpochInv DEF Loop!Next

\* Where saves lie inside epochs: however often the job crashes and resumes, the
\* weights were trained on the batches of a run that never stops, in its order,
\* and a checkpoint's name says how many.
THEOREM TrainsAlwaysInOrder ==
  ASSUME SavesInsideEpochs
  PROVE  TrainingSpec => []TrainsInOrder
  <1>1. TrainingInit => LoopInv
    <2> SUFFICES ASSUME TrainingInit PROVE LoopInv
      OBVIOUS
    <2>1. running = FALSE /\ saved = {} /\ trained = <<>> /\ launches = 0
      BY DEF TrainingInit, Loop!Init
    <2>2. InOrder(trained) BY <2>1 DEF InOrder
    <2> QED BY <2>1, <2>2, LoopAssumption DEF LoopInv
  <1>2. LoopInv /\ [TrainingNext]_trainVars => LoopInv'
    BY PartSteps, LoopNextInv
  <1>3. LoopInv => TrainsInOrder
    <2> SUFFICES ASSUME LoopInv PROVE TrainsInOrder
      OBVIOUS
    <2> DEFINE n == Len(trained)
    <2>1. trained \in Seq(Nat \X Nat) /\ n \in Nat /\ DOMAIN trained = 1..n
      BY LenProperties DEF LoopInv, InOrder
    <2>2. \A i \in 1..n : trained[i] = <<(i - 1) \div EpochIters, (i - 1) % EpochIters>>
      BY DEF LoopInv, InOrder, Batch
    <2>3. trained = Loop!Uninterrupted(n)
      BY <2>1, <2>2 DEF Loop!Uninterrupted
    <2>4. \A c \in saved : Len(c.weights) = c.step * Accum
      BY DEF LoopInv, GoodCheckpoint
    <2> QED BY <2>3, <2>4 DEF TrainsInOrder, Loop!TrainsInOrder
  <1> QED BY <1>1, <1>2, <1>3, PTL DEF TrainingSpec

-----------------------------------------------------------------------------
(* Learning rates.                                                          *)

StepMade == [rate : [Rates!Groups -> Int], from : Nat]

LrTypes ==
  /\ lrRunning \in BOOLEAN /\ lrStep \in Nat /\ schedule \in Nat /\ resumedAt \in Nat
  /\ type \in Rates!AllTypes
  /\ rate \in [Rates!Groups -> Int] /\ used \in Seq(StepMade)
  /\ lrSaved \in [step : Nat, rate : [Rates!Groups -> Int]]

\* The rate step n + 1 is due in a launch that went on from a step, after the
\* steps of a history.
Due(g, n, from, history) ==
  IF n = 0 THEN Rates!FreshRate(g)
  ELSE Rates!RateAt(g, IF n > from THEN n - from ELSE from - history[from].from)

\* The steps of the history were made with the rates that were due.
StepsDue ==
  \A i \in 1..Len(used) :
    /\ used[i].from < i
    /\ \A g \in Rates!Groups : used[i].rate[g] = Due(g, i - 1, used[i].from, used)

\* The optimizer of a run that is up has the rates its next step is due.
RunDue ==
  lrRunning =>
    /\ lrStep = Len(used) /\ resumedAt <= lrStep /\ schedule = lrStep - resumedAt
    /\ \A g \in Rates!Groups : rate[g] = Due(g, lrStep, resumedAt, used)

\* A checkpoint has the rates that the launch that wrote it was to use next.
SavedDue ==
  \/ lrSaved = Rates!NoCheckpoint
  \/ /\ lrSaved.step \in 1..Len(used)
     /\ \A g \in Rates!Groups :
          lrSaved.rate[g] = Rates!RateAt(g, lrSaved.step - used[lrSaved.step].from)

\* Nobody gets beyond a first step that cannot be logged.
OneStep ==
  type # "backbone-freeze-warmup" =>
    /\ lrSaved = Rates!NoCheckpoint /\ Len(used) <= 1
    /\ lrRunning => Len(used) = 0

RatesInv == LrTypes /\ StepsDue /\ RunDue /\ SavedDue /\ OneStep

LEMMA RateType ==
  ASSUME type \in Rates!AllTypes, NEW g, NEW n \in Nat
  PROVE  Rates!RateAt(g, n) \in Int
  <1> USE RatesAssumption
  <1>1. Rates!Ramp(n) \in Int
    <2>1. CASE Warmup = 0 BY <2>1 DEF Rates!Ramp
    <2>2. CASE Warmup # 0
      <3>1. Base \div Warmup \in Int BY <2>2
      <3>2. (Base \div Warmup) * n \in Int BY <3>1
      <3> QED BY <3>2 DEF Rates!Ramp
    <2> QED BY <2>1, <2>2
  <1>2. Rates!Freeze(n) \in Int BY DEF Rates!Freeze
  <1> QED BY <1>1, <1>2 DEF Rates!RateAt, Rates!AllTypes

LEMMA RatesSame ==
  ASSUME type' = type, NEW g, NEW n
  PROVE  Rates!RateAt(g, n)' = Rates!RateAt(g, n)
  BY DEF Rates!RateAt, Rates!Ramp, Rates!Freeze

LEMMA FreshType == \A g \in Rates!Groups : Rates!FreshRate(g) \in Int
  BY RatesAssumption DEF Rates!FreshRate

\* What is due depends on nothing of a history but the step resumed at.
LEMMA DueKept ==
  ASSUME NEW n \in Nat, NEW from \in Nat, from <= n, NEW one, NEW other,
         from >= 1 => one[from] = other[from]
  PROVE  \A g : Due(g, n, from, one) = Due(g, n, from, other)
  BY DEF Due

\* Where the schedule stays the same, so does all that is stated by its rates.
LEMMA StepsDueNext ==
  ASSUME type' = type,
         \A i \in 1..Len(used') :
           /\ used'[i].from < i
           /\ \A g \in Rates!Groups : used'[i].rate[g] = Due(g, i - 1, used'[i].from, used')
  PROVE  StepsDue'
  BY DEF StepsDue, Due, Rates!RateAt, Rates!Ramp, Rates!Freeze, Rates!FreshRate

LEMMA RunDueNext ==
  ASSUME type' = type, lrStep' = Len(used'), resumedAt' <= lrStep', schedule' = lrStep' - resumedAt',
         \A g \in Rates!Groups : rate'[g] = Due(g, lrStep', resumedAt', used')
  PROVE  RunDue'
  BY DEF RunDue, Due, Rates!RateAt, Rates!Ramp, Rates!Freeze, Rates!FreshRate

LEMMA SavedDueNext ==
  ASSUME type' = type,
         \/ lrSaved' = Rates!NoCheckpoint
         \/ /\ lrSaved'.step \in 1..Len(used')
            /\ \A g \in Rates!Groups :
                 lrSaved'.rate[g] = Rates!RateAt(g, lrSaved'.step - used'[lrSaved'.step].from)
  PROVE  SavedDue'
  BY DEF SavedDue, Rates!NoCheckpoint, Rates!RateAt, Rates!Ramp, Rates!Freeze

LEMMA LrLaunchInv == ASSUME RatesInv, Rates!Launch PROVE RatesInv'
  <1> USE DEF RatesInv
  <1>1. /\ lrRunning' = TRUE /\ lrStep' = lrSaved.step /\ resumedAt' = lrSaved.step
        /\ schedule' = 0 /\ type' = type /\ lrSaved' = lrSaved
        /\ used' = SubSeq(used, 1, lrSaved.step)
        /\ rate' = IF lrSaved = Rates!NoCheckpoint
                   THEN [g \in Rates!Groups |-> Rates!FreshRate(g)] ELSE lrSaved.rate
    BY DEF Rates!Launch
  <1> DEFINE n == lrSaved.step
  <1>2. /\ n \in Nat /\ n <= Len(used) /\ Len(used) \in Nat
        /\ lrSaved.rate \in [Rates!Groups -> Int]
        /\ lrSaved = Rates!NoCheckpoint => n = 0
    BY DEF LrTypes, SavedDue, Rates!NoCheckpoint
  <1>3. \A i \in 1..Len(used) : used[i] \in StepMade
    BY DEF LrTypes
  <1>4. /\ used' \in Seq(StepMade) /\ Len(used') = n
        /\ \A i \in 1..n : used'[i] = used[i]
    <2>1. \A i \in 1..n : used[i] \in StepMade
      BY <1>2, <1>3
    <2> QED BY <1>1, <1>2, <2>1, SubSeqProperties
  <1>5. LrTypes'
    <2>1. rate' \in [Rates!Groups -> Int]
      BY <1>1, <1>2, FreshType
    <2> QED BY <1>1, <1>2, <1>4, <2>1 DEF LrTypes, StepMade
  <1>6. StepsDue'
    <2>1. ASSUME NEW i \in 1..Len(used'), NEW g \in Rates!Groups
          PROVE  used'[i].from < i /\ used'[i].rate[g] = Due(g, i - 1, used'[i].from, used')
      <3>1. i \in 1..n /\ i \in 1..Len(used) BY <1>2, <1>4
      <3>2. used'[i] = used[i] /\ used[i] \in StepMade BY <1>3, <1>4, <3>1
      <3>3. used[i].from < i /\ used[i].rate[g] = Due(g, i - 1, used[i].from, used)
        BY <3>1 DEF StepsDue
      <3> DEFINE from == used[i].from
      <3>4. from \in Nat /\ i - 1 \in Nat /\ from <= i - 1
        BY <3>1, <3>2, <3>3 DEF StepMade
      <3>5. from >= 1 => used'[from] = used[from]
        BY <1>2, <1>4, <3>1, <3>4
      <3>6. Due(g, i - 1, from, used) = Due(g, i - 1, from, used')
        <4> HIDE DEF from
        <4> QED BY <3>4, <3>5, DueKept
      <3> QED BY <3>2, <3>3, <3>6
    <2>2. ASSUME NEW i \in 1..Len(used') PROVE used'[i].from < i
      <3>1. i \in 1..n /\ i \in 1..Len(used) BY <1>2, <1>4
      <3> QED BY <1>4, <3>1 DEF StepsDue
    <2> QED BY <1>1, <2>1, <2>2, StepsDueNext
  <1>7. RunDue'
    <2>1. lrStep' = Len(used') /\ resumedAt' <= lrStep' /\ schedule' = lrStep' - resumedAt'
      BY <1>1, <1>2, <1>4
    <2>2. ASSUME NEW g \in Rates!Groups PROVE rate'[g] = Due(g, n, n, used')
      <3>1. CASE lrSaved = Rates!NoCheckpoint
        BY <3>1, <1>1, <1>2 DEF Due
      <3>2. CASE lrSaved # Rates!NoCheckpoint
        <4>1. n \in 1..Len(used) /\ rate'[g] = Rates!RateAt(g, n - used[n].from)
          BY <3>2, <1>1 DEF SavedDue
        <4>2. used'[n] = used[n] /\ n # 0 /\ ~(n > n) BY <4>1, <1>2, <1>4
        <4> QED BY <4>1, <4>2 DEF Due
      <3> QED BY <3>1, <3>2
    <2>3. \A g \in Rates!Groups : rate'[g] = Due(g, lrStep', resumedAt', used')
      BY <2>2, <1>1
    <2> QED BY <1>1, <2>1, <2>3, RunDueNext
  <1>8. SavedDue'
    <2>1. CASE lrSaved = Rates!NoCheckpoint
      BY <2>1, <1>1, SavedDueNext
    <2>2. CASE lrSaved # Rates!NoCheckpoint
      <3>1. /\ n \in 1..Len(used)
            /\ \A g \in Rates!Groups : lrSaved.rate[g] = Rates!RateAt(g, n - used[n].from)
        BY <2>2 DEF SavedDue
      <3>2. n \in 1..Len(used') /\ used'[n] = used[n] BY <3>1, <1>2, <1>4
      <3> QED BY <3>1, <3>2, <1>1, SavedDueNext
    <2> QED BY <2>1, <2>2
  <1>9. OneStep'
    BY <1>1, <1>2, <1>4 DEF OneStep, Rates!NoCheckpoint
  <1> QED BY <1>5, <1>6, <1>7, <1>8, <1>9

LEMMA LrStepInv == ASSUME RatesInv, Rates!Step PROVE RatesInv'
  <1> USE DEF RatesInv
  <1> DEFINE n == Len(used)
             new == [rate |-> rate, from |-> resumedAt]
  <1>1. /\ lrRunning /\ type' = type /\ lrRunning' \in BOOLEAN /\ resumedAt' = resumedAt
        /\ used' = Append(used, new)
        /\ schedule' = schedule + 1 /\ lrStep' = lrStep + 1
        /\ rate' = [g \in Rates!Groups |-> Rates!RateAt(g, schedule + 1)]
        /\ lrSaved' \in {lrSaved, [step |-> lrStep', rate |-> rate']}
        /\ type # "backbone-freeze-warmup" => lrSaved' = lrSaved /\ lrRunning' = FALSE
    BY DEF Rates!Step, Rates!RateUsed, Rates!CanLog
  <1>2. /\ lrStep = n /\ n \in Nat /\ resumedAt \in Nat /\ resumedAt <= n
        /\ schedule = n - resumedAt /\ schedule \in Nat
        /\ \A g \in Rates!Groups : rate[g] = Due(g, n, resumedAt, used)
    BY <1>1 DEF LrTypes, RunDue
  <1>3. new \in StepMade
    BY <1>2 DEF LrTypes, StepMade
  <1>4. /\ used' \in Seq(StepMade) /\ Len(used') = n + 1
        /\ \A i \in 1..n : used'[i] = used[i]
        /\ used'[n + 1] = new
    <2> HIDE DEF new
    <2> QED BY <1>1, <1>3, AppendProperties DEF LrTypes
  <1>5. LrTypes'
    <2>1. rate' \in [Rates!Groups -> Int]
      BY <1>1, <1>2, RateType DEF LrTypes
    <2> QED BY <1>1, <1>2, <1>4, <2>1 DEF LrTypes
  <1>6. StepsDue'
    <2>1. ASSUME NEW i \in 1..Len(used')
          PROVE  /\ used'[i].from < i
                 /\ \A g \in Rates!Groups : used'[i].rate[g] = Due(g, i - 1, used'[i].from, used')
      <3>1. CASE i = n + 1
        <4>1. /\ used'[i] = new /\ new.from = resumedAt /\ new.rate = rate /\ i - 1 = n
              /\ resumedAt < i
          BY <3>1, <1>2, <1>4
        <4>2. resumedAt >= 1 => used'[resumedAt] = used[resumedAt]
          BY <1>2, <1>4
        <4>3. \A g \in Rates!Groups : Due(g, n, resumedAt, used) = Due(g, n, resumedAt, used')
          BY <1>2, <4>2, DueKept
        <4> QED BY <4>1, <4>3, <1>2
      <3>2. CASE i # n + 1
        <4>1. i \in 1..n BY <3>2, <1>2, <1>4
        <4>2. used'[i] = used[i] /\ used[i] \in StepMade BY <4>1, <1>4 DEF LrTypes
        <4>3. /\ used[i].from < i
              /\ \A g \in Rates!Groups : used[i].rate[g] = Due(g, i - 1, used[i].from, used)
          BY <4>1 DEF StepsDue
        <4> DEFINE from == used[i].from
        <4>4. from \in Nat /\ i - 1 \in Nat /\ from <= i - 1
          BY <4>1, <4>2, <4>3 DEF StepMade
        <4>5. from >= 1 => used'[from] = used[from]
          BY <1>2, <1>4, <4>1, <4>4
        <4>6. \A g \in Rates!Groups : Due(g, i - 1, from, used) = Due(g, i - 1, from, used')
          <5> HIDE DEF from
          <5> QED BY <4>4, <4>5, DueKept
        <4> QED BY <4>2, <4>3, <4>6
      <3> QED BY <3>1, <3>2
    <2> QED BY <1>1, <2>1, StepsDueNext
  <1>7. RunDue'
    <2>1. lrStep' = Len(used') /\ resumedAt' <= lrStep' /\ schedule' = lrStep' - resumedAt'
          /\ lrStep' = n + 1 /\ n + 1 > resumedAt /\ n + 1 # 0 /\ schedule + 1 = (n + 1) - resumedAt
      BY <1>1, <1>2, <1>4
    <2>2. \A g \in Rates!Groups : rate'[g] = Due(g, lrStep', resumedAt', used')
      BY <1>1, <2>1 DEF Due
    <2> QED BY <1>1, <2>1, <2>2, RunDueNext
  <1>8. SavedDue'
    <2>1. CASE lrSaved' = [step |-> lrStep', rate |-> rate']
      <3>1. lrSaved'.step = n + 1 /\ lrSaved'.rate = rate' BY <2>1, <1>1, <1>2
      <3>2. n + 1 \in 1..Len(used') /\ used'[n + 1].from = resumedAt
            /\ (n + 1) - resumedAt = schedule + 1
        BY <1>2, <1>4
      <3> QED BY <3>1, <3>2, <1>1, SavedDueNext
    <2>2. CASE lrSaved' = lrSaved
      <3>1. CASE lrSaved = Rates!NoCheckpoint
        BY <2>2, <3>1, <1>1, SavedDueNext
      <3>2. CASE lrSaved # Rates!NoCheckpoint
        <4>1. /\ lrSaved.step \in 1..n
              /\ \A g \in Rates!Groups :
                   lrSaved.rate[g] = Rates!RateAt(g, lrSaved.step - used[lrSaved.step].from)
          BY <3>2 DEF SavedDue
        <4>2. lrSaved.step \in 1..Len(used') /\ used'[lrSaved.step] = used[lrSaved.step]
          BY <4>1, <1>2, <1>4
        <4> QED BY <4>1, <4>2, <2>2, <1>1, SavedDueNext
      <3> QED BY <3>1, <3>2
    <2> QED BY <2>1, <2>2, <1>1
  <1>9. OneStep'
    BY <1>1, <1>2, <1>4 DEF OneStep, Rates!NoCheckpoint
  <1> QED BY <1>5, <1>6, <1>7, <1>8, <1>9

\* However often a run crashes and is resumed: the groups of the action model
\* always step at the configured rate while the backbone is frozen; the first of
\* all steps is made at the rates run_setup configured, the later steps of each
\* launch at those of the schedule counted from where the launch began, and the
\* first step after a resume at what its checkpoint was to use next; and the
\* three schedules that cannot be logged end with their first step.
THEOREM RatesAlwaysFollow == TrainingSpec => []RatesFollow
  <1>1. TrainingInit => RatesInv
    <2> SUFFICES ASSUME TrainingInit PROVE RatesInv
      OBVIOUS
    <2>1. /\ type \in Types /\ lrRunning = FALSE /\ lrStep = 0 /\ schedule = 0 /\ resumedAt = 0
          /\ rate = [g \in Rates!Groups |-> Rates!FreshRate(g)] /\ used = <<>>
          /\ lrSaved = Rates!NoCheckpoint
      BY DEF TrainingInit, Rates!Init
    <2>2. LrTypes
      <3>1. rate \in [Rates!Groups -> Int]
        BY <2>1, FreshType
      <3>2. lrSaved \in [step : Nat, rate : [Rates!Groups -> Int]]
        BY <2>1 DEF Rates!NoCheckpoint
      <3>3. used \in Seq(StepMade)
        BY <2>1
      <3> QED BY <2>1, <3>1, <3>2, <3>3, RatesAssumption DEF LrTypes
    <2> QED BY <2>1, <2>2 DEF RatesInv, StepsDue, RunDue, SavedDue, OneStep
  <1>2. RatesInv /\ [TrainingNext]_trainVars => RatesInv'
    <2> SUFFICES ASSUME RatesInv, [Rates!Next]_(Rates!vars) PROVE RatesInv'
      BY PartSteps
    <2>1. CASE Rates!Crash \/ UNCHANGED Rates!vars
      <3>1. /\ UNCHANGED <<type, lrStep, schedule, rate, resumedAt, used, lrSaved>>
            /\ lrRunning' \in BOOLEAN
            /\ lrRunning' => lrRunning
        <4>1. CASE Rates!Crash BY <4>1 DEF Rates!Crash
        <4>2. CASE UNCHANGED Rates!vars BY <4>2 DEF Rates!vars, RatesInv, LrTypes
        <4> QED BY <2>1, <4>1, <4>2
      <3>2. LrTypes'
        BY <3>1 DEF RatesInv, LrTypes
      <3>3. StepsDue'
        BY <3>1, StepsDueNext DEF RatesInv, StepsDue
      <3>4. RunDue'
        <4>1. CASE lrRunning BY <4>1, <3>1, RunDueNext DEF RatesInv, RunDue
        <4>2. CASE ~lrRunning BY <4>2, <3>1 DEF RunDue
        <4> QED BY <4>1, <4>2
      <3>5. SavedDue'
        BY <3>1, SavedDueNext DEF RatesInv, SavedDue
      <3>6. OneStep'
        BY <3>1 DEF RatesInv, OneStep, Rates!NoCheckpoint
      <3> QED BY <3>2, <3>3, <3>4, <3>5, <3>6 DEF RatesInv
    <2> QED BY <2>1, LrLaunchInv, LrStepInv DEF Rates!Next
  <1>3. RatesInv => RatesFollow
    <2> SUFFICES ASSUME RatesInv PROVE RatesFollow
      OBVIOUS
    <2>1. DOMAIN used = 1..Len(used) /\ Len(used) \in Nat
      BY LenProperties DEF RatesInv, LrTypes
    <2>2. Rates!StepsUseTheirRate
      <3> SUFFICES ASSUME NEW i \in 1..Len(used), NEW g \in Rates!Groups
                   PROVE  used[i].rate[g] =
                            IF i = 1 THEN Rates!FreshRate(g)
                            ELSE IF i > used[i].from + 1 THEN Rates!RateAt(g, (i - 1) - used[i].from)
                            ELSE Rates!RateAt(g, used[i].from - used[used[i].from].from)
        BY <2>1 DEF Rates!StepsUseTheirRate
      <3>0. used[i] \in StepMade
        BY <2>1 DEF RatesInv, LrTypes
      <3>1. used[i].rate[g] = Due(g, i - 1, used[i].from, used) /\ used[i].from < i
            /\ used[i].from \in Nat
        BY <3>0 DEF RatesInv, StepsDue, StepMade
      <3>2. (i - 1 > used[i].from) <=> (i > used[i].from + 1) BY <3>1, <2>1
      <3>3. i - 1 = 0 <=> i = 1 BY <2>1
      <3> QED BY <3>1, <3>2, <3>3 DEF Due
    <2>3. Rates!ActionRateConstant
      <3> SUFFICES ASSUME type = "backbone-freeze-warmup", NEW i \in 1..Len(used),
                          NEW g \in Rates!Groups \ Rates!Backbone
                   PROVE  used[i].rate[g] = Base
        BY <2>1 DEF Rates!ActionRateConstant
      <3>1. used[i].rate[g] = Due(g, i - 1, used[i].from, used)
        BY DEF RatesInv, StepsDue
      <3> QED BY <3>1 DEF Due, Rates!RateAt, Rates!FreshRate
    <2>4. Rates!OthersEndAtOnce
      BY DEF RatesInv, OneStep, Rates!OthersEndAtOnce
    <2> QED BY <2>2, <2>3, <2>4 DEF RatesFollow
  <1> QED BY <1>1, <1>2, <1>3, PTL DEF TrainingSpec

-----------------------------------------------------------------------------
(* Samples of robot episodes.                                               *)

LEMMA TotalIsDefined ==
  \A e \in Nat : Windows!Cumulative[e] =
                   IF e = 0 THEN 0 ELSE Windows!Cumulative[e - 1] + Windows!Samples(e)
  <1> DEFINE a == [e \in Nat |-> Windows!Samples(e)]
  <1>1. PICK f : TotalOf(f, a) BY TotalExists
  <1>2. f = [e \in Nat |-> IF e = 0 THEN 0 ELSE f[e - 1] + Windows!Samples(e)]
    <2> DEFINE g == [e \in Nat |-> IF e = 0 THEN 0 ELSE f[e - 1] + a[e]]
               h == [e \in Nat |-> IF e = 0 THEN 0 ELSE f[e - 1] + Windows!Samples(e)]
    <2>1. f = g BY <1>1 DEF TotalOf
    <2>2. g = h OBVIOUS
    <2> QED BY <2>1, <2>2
  <1>3. Windows!Cumulative = [e \in Nat |-> IF e = 0 THEN 0 ELSE Windows!Cumulative[e - 1] + Windows!Samples(e)]
    BY <1>2 DEF Windows!Cumulative
  <1> QED BY <1>3


\* Every episode has a sample.
Recorded ==
  files \in Seq(Nat) /\ \A e \in 1..Len(files) : files[e] >= 2

LEMMA SamplesCounted ==
  ASSUME Recorded
  PROVE  \A e \in 1..Len(files) : Windows!Samples(e) \in Nat \ {0}
  BY DEF Recorded, Windows!Samples

LEMMA TotalsGrow ==
  ASSUME Recorded
  PROVE  /\ Windows!Cumulative[0] = 0
         /\ \A e \in 0..Len(files) : Windows!Cumulative[e] \in Nat
         /\ \A e \in 1..Len(files) :
              Windows!Cumulative[e] = Windows!Cumulative[e - 1] + Windows!Samples(e)
  <1> DEFINE c == Windows!Cumulative
             S(e) == Windows!Samples(e)
             L == Len(files)
             T == {e \in Nat : e <= L => c[e] \in Nat}
  <1>1. \A e \in Nat : c[e] = IF e = 0 THEN 0 ELSE c[e - 1] + S(e) BY TotalIsDefined
  <1>2. \A e \in 1..L : S(e) \in Nat BY SamplesCounted
  <1>3. L \in Nat BY DEF Recorded
  <1> HIDE DEF c, S, L
  <1>4. 0 \in T BY <1>1
  <1>5. ASSUME NEW n \in Nat, n \in T PROVE n + 1 \in T
    <2>1. c[n + 1] = c[n] + S(n + 1) BY <1>1
    <2> QED BY <2>1, <1>5, <1>2, <1>3
  <1> HIDE DEF T
  <1>6. \A n \in Nat : n \in T BY <1>4, <1>5, AllNumbers
  <1>7. \A e \in 0..L : c[e] \in Nat BY <1>6, <1>3 DEF T
  <1>8. c[0] = 0 BY <1>1
  <1>9. \A e \in 1..L : c[e] = c[e - 1] + S(e) BY <1>1, <1>3
  <1> QED BY <1>7, <1>8, <1>9 DEF c, S, L

LEMMA TotalsOrdered ==
  ASSUME Recorded, NEW d \in 0..Len(files)
  PROVE  \A e \in d..Len(files) : Windows!Cumulative[d] <= Windows!Cumulative[e]
  <1> DEFINE c == Windows!Cumulative
             L == Len(files)
             T == {n \in Nat : d + n <= L => c[d] <= c[d + n]}
  <1>1. \A e \in 0..L : c[e] \in Nat BY TotalsGrow
  <1>2. \A e \in 1..L : c[e] >= c[e - 1]
    <2> TAKE e \in 1..L
    <2>1. c[e] = c[e - 1] + Windows!Samples(e) BY TotalsGrow
    <2>2. Windows!Samples(e) \in Nat BY SamplesCounted
    <2>3. e - 1 \in 0..L BY DEF Recorded
    <2>4. c[e - 1] \in Nat BY <1>1, <2>3
    <2> HIDE DEF c
    <2> QED BY <2>1, <2>2, <2>4
  <1>3. L \in Nat /\ d \in 0..L BY DEF Recorded
  <1> HIDE DEF c, L
  <1>4. 0 \in T
    <2>1. d + 0 = d BY <1>3
    <2> QED BY <1>1, <1>3, <2>1
  <1>5. ASSUME NEW n \in Nat, n \in T PROVE n + 1 \in T
    <2> SUFFICES ASSUME d + (n + 1) <= L PROVE c[d] <= c[d + (n + 1)] OBVIOUS
    <2>1. d + n \in 0..L /\ d + (n + 1) \in 1..L BY <1>3
    <2>2. c[d] <= c[d + n] BY <1>5, <2>1
    <2>3. d + (n + 1) - 1 = d + n BY <1>3
    <2>4. c[d + (n + 1)] >= c[d + n] BY <1>2, <2>1, <2>3
    <2>5. c[d] \in Nat /\ c[d + n] \in Nat /\ c[d + (n + 1)] \in Nat BY <1>1, <1>3, <2>1
    <2> QED BY <2>2, <2>4, <2>5
  <1> HIDE DEF T
  <1>6. \A n \in Nat : n \in T BY <1>4, <1>5, AllNumbers
  <1>7. ASSUME NEW e \in d..L PROVE c[d] <= c[e]
    <2>1. e - d \in Nat /\ d + (e - d) = e BY <1>3
    <2>2. e - d \in T BY <2>1, <1>6
    <2> QED BY <2>1, <2>2 DEF T
  <1> QED BY <1>7 DEF c, L

\* A set of the first numbers is counted by the last of them.
LEMMA FirstNumbers ==
  ASSUME NEW m \in Nat, NEW S, S = 1..m
  PROVE  Windows!Cardinality(S) = m
  <1>1. Cardinality(1..m) = m
    <2>1. CASE m = 0
      <3>1. 1..m = {} BY <2>1
      <3> QED BY <3>1, <2>1, FS_EmptySet
    <2>2. CASE m # 0 BY <2>2, FS_Interval
    <2> QED BY <2>1, <2>2
  <1> QED BY <1>1 DEF Cardinality, Windows!Cardinality

\* An index is that of the sample it is located at.
LEMMA LocatedRight ==
  ASSUME Recorded, NEW i \in (0 - Windows!Total)..(Windows!Total - 1)
  PROVE  LET at == Windows!Locate(i)
             e == at.episode
         IN  /\ e \in Windows!Episodes
             /\ at.frame \in 0..(Windows!Samples(e) - 1)
             /\ Windows!Cumulative[e - 1] + at.frame = IF i < 0 THEN i + Windows!Total ELSE i
  <1> DEFINE c == Windows!Cumulative
             L == Len(files)
             index == IF i < 0 THEN i + c[L] ELSE i
             Past == {d \in 1..L : c[d] <= index}
             Beyond == {d \in 0..L : index < c[d]}
  <1>1. L \in Nat BY DEF Recorded
  <1>2. /\ c[0] = 0 /\ \A e \in 0..L : c[e] \in Nat
        /\ \A e \in 1..L : c[e] = c[e - 1] + Windows!Samples(e)
    BY TotalsGrow
  <1>3. i \in Int /\ index \in 0..(c[L] - 1)
    <2>1. c[L] \in Nat BY <1>1, <1>2
    <2>2. i \in (0 - c[L])..(c[L] - 1) BY DEF Windows!Total
    <2> HIDE DEF c, L
    <2> QED BY <2>1, <2>2
  <1>4. \A d \in 0..L : \A e \in d..L : c[d] <= c[e] BY TotalsOrdered
  <1>5. \A e \in 1..L : Windows!Samples(e) \in Nat \ {0} BY SamplesCounted
  <1>6. c[L] = Windows!Total BY DEF Windows!Total
  <1> HIDE DEF c, L, index
  <1>7. PICK e \in Beyond : \A d \in Beyond : e <= d
    <2>1. L \in Beyond /\ Beyond \subseteq Nat BY <1>1, <1>2, <1>3
    <2> QED BY <2>1, Least
  <1>8. e \in 1..L BY <1>7, <1>2, <1>3, <1>1
  <1>9. Past = 1..(e - 1)
    <2>1. ASSUME NEW d \in Past PROVE d \in 1..(e - 1)
      <3>1. d \in 1..L /\ c[d] <= index BY <2>1
      <3>2. d < e
        <4> SUFFICES ASSUME d >= e PROVE FALSE BY <3>1, <1>8
        <4>1. d \in e..L /\ e \in 0..L BY <3>1, <1>8, <1>1
        <4>2. c[e] <= c[d] BY <4>1, <1>4
        <4>3. c[e] \in Nat /\ c[d] \in Nat BY <4>1, <3>1, <1>2, <1>1
        <4>4. index < c[e] BY <1>7
        <4> QED BY <4>2, <4>3, <4>4, <3>1, <1>3
      <3> QED BY <3>1, <3>2, <1>8
    <2>2. ASSUME NEW d \in 1..(e - 1) PROVE d \in Past
      <3>1. d \in 1..L /\ d \in 0..L /\ d < e BY <1>8, <1>1
      <3>2. d \notin Beyond BY <3>1, <1>7, <1>8
      <3>3. c[d] \in Nat BY <3>1, <1>2
      <3> QED BY <3>1, <3>2, <3>3, <1>3
    <2> QED BY <2>1, <2>2
  <1>10. Windows!Cardinality(Past) = e - 1
    <2>1. e - 1 \in Nat BY <1>8
    <2> HIDE DEF Past
    <2> QED BY <1>9, <2>1, FirstNumbers
  <1>11. Windows!Locate(i) = [episode |-> e, frame |-> index - c[e - 1]]
    <2>1. (e - 1) + 1 = e BY <1>8
    <2>2. Windows!Locate(i) = [episode |-> Windows!Cardinality(Past) + 1,
                               frame |-> index - c[(Windows!Cardinality(Past) + 1) - 1]]
      BY <1>6 DEF Windows!Locate, Windows!Episodes, c, L, index
    <2>3. (Windows!Cardinality(Past) + 1) - 1 = e - 1 BY <1>10, <1>8
    <2> QED BY <1>10, <2>1, <2>2, <2>3
  <1>12. index - c[e - 1] \in 0..(Windows!Samples(e) - 1)
    <2>1. e - 1 \in 0..L BY <1>8, <1>1
    <2>2. c[e - 1] \in Nat /\ c[e] \in Nat /\ Windows!Samples(e) \in Nat
      BY <2>1, <1>2, <1>5, <1>8, <1>1
    <2>3. c[e] = c[e - 1] + Windows!Samples(e) BY <1>2, <1>8
    <2>4. e - 1 \notin Beyond BY <1>7, <1>8
    <2>5. c[e - 1] <= index BY <2>1, <2>4, <2>2, <1>3
    <2>6. index < c[e] BY <1>7
    <2> QED BY <2>2, <2>3, <2>5, <2>6, <1>3
  <1>13. c[e - 1] + (index - c[e - 1]) = index
    <2>1. e - 1 \in 0..L BY <1>8, <1>1
    <2>2. c[e - 1] \in Nat BY <2>1, <1>2
    <2> QED BY <2>2, <1>3
  <1> QED BY <1>8, <1>11, <1>12, <1>13, <1>6 DEF Windows!Episodes, c, L, index

\* The number of a sample among all samples.
Number(e, f) == Windows!Cumulative[e - 1] + f
AllSamples == {s \in Windows!Episodes \X Nat : s[2] < Windows!Samples(s[1])}

LEMMA NumbersRange ==
  ASSUME Recorded, NEW s \in AllSamples
  PROVE  /\ Number(s[1], s[2]) \in 0..(Windows!Total - 1)
         /\ s[2] <= Windows!Total
         /\ Number(s[1], s[2]) < Windows!Cumulative[s[1]]
         /\ Windows!Cumulative[s[1]] \in Nat
  <1> DEFINE c == Windows!Cumulative
             L == Len(files)
             e == s[1]
             f == s[2]
  <1>1. e \in 1..L /\ f \in Nat /\ f < Windows!Samples(e) BY DEF AllSamples, Windows!Episodes
  <1>2. L \in Nat BY DEF Recorded
  <1>3. c[e] = c[e - 1] + Windows!Samples(e) /\ c[e] \in Nat /\ c[e - 1] \in Nat /\ c[L] \in Nat
    <2>1. e \in 0..L /\ e - 1 \in 0..L /\ L \in 0..L BY <1>1, <1>2
    <2> QED BY <2>1, <1>1, TotalsGrow
  <1>4. c[e] <= c[L]
    <2>1. e \in 0..L /\ L \in e..L BY <1>1, <1>2
    <2> QED BY <2>1, TotalsOrdered
  <1>5. Windows!Samples(e) \in Nat BY <1>1, SamplesCounted
  <1>6. c[L] = Windows!Total BY DEF Windows!Total
  <1>7. Number(e, f) = c[e - 1] + f BY DEF Number
  <1> HIDE DEF c, L, e, f
  <1>8. /\ Number(e, f) \in 0..(Windows!Total - 1) /\ f <= Windows!Total
        /\ Number(e, f) < c[e] /\ c[e] \in Nat
    BY <1>1, <1>3, <1>4, <1>5, <1>6, <1>7
  <1> QED BY <1>8 DEF c, L, e, f

LEMMA NumbersOrdered ==
  ASSUME Recorded, NEW s \in AllSamples, NEW t \in AllSamples,
         s[1] < t[1] \/ (s[1] = t[1] /\ s[2] < t[2])
  PROVE  Number(s[1], s[2]) < Number(t[1], t[2])
  <1> DEFINE c == Windows!Cumulative
             L == Len(files)
  <1>1. s[1] \in 1..L /\ t[1] \in 1..L /\ s[2] \in Nat /\ t[2] \in Nat
    BY DEF AllSamples, Windows!Episodes
  <1>2. L \in Nat BY DEF Recorded
  <1>3. c[t[1] - 1] \in Nat
    <2>1. t[1] - 1 \in 0..L BY <1>1, <1>2
    <2> QED BY <2>1, TotalsGrow
  <1>4. CASE s[1] < t[1]
    <2>1. s[1] \in 0..L /\ t[1] - 1 \in s[1]..L BY <1>1, <1>2, <1>4
    <2>2. c[s[1]] <= c[t[1] - 1] BY <2>1, TotalsOrdered
    <2>3. Number(s[1], s[2]) < c[s[1]] /\ c[s[1]] \in Nat /\ Number(s[1], s[2]) \in Int
      BY NumbersRange
    <2> HIDE DEF c
    <2>4. Number(t[1], t[2]) = c[t[1] - 1] + t[2] BY DEF Number, c
    <2> QED BY <2>2, <2>3, <2>4, <1>1, <1>3
  <1>5. CASE s[1] = t[1] /\ s[2] < t[2]
    <2>1. Number(s[1], s[2]) = c[t[1] - 1] + s[2] BY <1>5 DEF Number
    <2>2. Number(t[1], t[2]) = c[t[1] - 1] + t[2] BY DEF Number
    <2> HIDE DEF c
    <2> QED BY <2>1, <2>2, <1>1, <1>3, <1>5
  <1> QED BY <1>4, <1>5

LEMMA NumbersDiffer ==
  ASSUME Recorded, NEW s \in AllSamples, NEW t \in AllSamples
  PROVE  /\ Number(s[1], s[2]) = Number(t[1], t[2]) => s = t
         /\ Number(s[1], s[2]) < Number(t[1], t[2]) =>
              s[1] < t[1] \/ (s[1] = t[1] /\ s[2] < t[2])
  <1>1. /\ s[1] \in Int /\ t[1] \in Int /\ s[2] \in Int /\ t[2] \in Int
        /\ s = <<s[1], s[2]>> /\ t = <<t[1], t[2]>>
    BY DEF AllSamples, Windows!Episodes
  <1>2. Number(s[1], s[2]) \in Int /\ Number(t[1], t[2]) \in Int BY NumbersRange
  <1>3. t[1] < s[1] \/ (t[1] = s[1] /\ t[2] < s[2]) => Number(t[1], t[2]) < Number(s[1], s[2])
    BY NumbersOrdered
  <1>4. s[1] < t[1] \/ (s[1] = t[1] /\ s[2] < t[2]) => Number(s[1], s[2]) < Number(t[1], t[2])
    BY NumbersOrdered
  <1>5. \/ t[1] < s[1] \/ (t[1] = s[1] /\ t[2] < s[2])
        \/ s[1] < t[1] \/ (s[1] = t[1] /\ s[2] < t[2])
        \/ s[1] = t[1] /\ s[2] = t[2]
    BY <1>1
  <1>6. Number(s[1], s[2]) = Number(t[1], t[2]) => s[1] = t[1] /\ s[2] = t[2]
    BY <1>2, <1>3, <1>4, <1>5
  <1>7. Number(s[1], s[2]) < Number(t[1], t[2]) =>
              s[1] < t[1] \/ (s[1] = t[1] /\ s[2] < t[2])
    BY <1>2, <1>3, <1>5
  <1> QED BY <1>1, <1>6, <1>7

\* As many samples come before one as its number says.
LEMMA SamplesBefore ==
  ASSUME Recorded, NEW e, NEW f, <<e, f>> \in AllSamples,
         NEW B, B = {s \in Windows!Episodes \X (0..Windows!Total) :
                       s[2] < Windows!Samples(s[1]) /\ (s[1] < e \/ (s[1] = e /\ s[2] < f))}
  PROVE  Windows!Cardinality(B) = Number(e, f)
  <1> DEFINE n == Number(e, f)
             here == <<e, f>>
             at(i) == Windows!Locate(i)
             h == [i \in 0..(n - 1) |-> <<at(i).episode, at(i).frame>>]
  <1>1. n \in 0..(Windows!Total - 1)
    <2>1. Number(here[1], here[2]) \in 0..(Windows!Total - 1) BY NumbersRange
    <2> QED BY <2>1
  <1>2. Windows!Total \in Nat
    <2>1. Len(files) \in 0..Len(files) BY DEF Recorded
    <2> QED BY <2>1, TotalsGrow DEF Windows!Total
  <1>3. B \subseteq AllSamples BY <1>2 DEF AllSamples
  <1>4. ASSUME NEW i \in 0..(n - 1)
        PROVE  h[i] \in AllSamples /\ Number(h[i][1], h[i][2]) = i
    <2>1. i \in (0 - Windows!Total)..(Windows!Total - 1) /\ ~ (i < 0) BY <1>1, <1>2
    <2>2. /\ at(i).episode \in Windows!Episodes
          /\ at(i).frame \in 0..(Windows!Samples(at(i).episode) - 1)
          /\ Windows!Cumulative[at(i).episode - 1] + at(i).frame = i
      BY <2>1, LocatedRight
    <2>3. Windows!Samples(at(i).episode) \in Nat BY <2>2, SamplesCounted DEF Windows!Episodes
    <2>4. at(i).frame \in Nat /\ at(i).frame < Windows!Samples(at(i).episode) BY <2>2, <2>3
    <2>5. h[i] = <<at(i).episode, at(i).frame>> OBVIOUS
    <2> HIDE DEF h, at
    <2> QED BY <2>2, <2>4, <2>5 DEF AllSamples, Number
  <1> HIDE DEF h
  <1>5. ASSUME NEW i \in 0..(n - 1) PROVE h[i] \in B
    <2>1. h[i] \in AllSamples /\ Number(h[i][1], h[i][2]) = i BY <1>4
    <2>2. Number(h[i][1], h[i][2]) < Number(here[1], here[2]) BY <2>1, <1>1
    <2>3. h[i][1] < here[1] \/ (h[i][1] = here[1] /\ h[i][2] < here[2])
      BY <2>1, <2>2, NumbersDiffer
    <2>4. h[i][2] \in 0..Windows!Total
      <3>1. h[i][2] <= Windows!Total BY <2>1, NumbersRange
      <3>2. h[i][2] \in Nat BY <2>1 DEF AllSamples
      <3> QED BY <3>1, <3>2, <1>2
    <2>5. h[i] \in Windows!Episodes \X (0..Windows!Total) /\ h[i][2] < Windows!Samples(h[i][1])
      BY <2>1, <2>4 DEF AllSamples
    <2> QED BY <2>3, <2>5
  <1>6. h \in [0..(n - 1) -> B]
    <2>1. h = [i \in 0..(n - 1) |-> h[i]] BY DEF h
    <2> QED BY <2>1, <1>5
  <1>7. \A i, j \in 0..(n - 1) : h[i] = h[j] => i = j BY <1>4
  <1>8. ASSUME NEW s \in B PROVE \E i \in 0..(n - 1) : h[i] = s
    <2>1. s \in AllSamples BY <1>3
    <2>2. s[1] < here[1] \/ (s[1] = here[1] /\ s[2] < here[2]) OBVIOUS
    <2>3. Number(s[1], s[2]) < Number(here[1], here[2]) BY <2>1, <2>2, NumbersOrdered
    <2>4. Number(s[1], s[2]) \in 0..(n - 1)
      <3>1. Number(s[1], s[2]) \in 0..(Windows!Total - 1) BY <2>1, NumbersRange
      <3> QED BY <3>1, <2>3, <1>1
    <2>5. h[Number(s[1], s[2])] = s
      <3>1. /\ h[Number(s[1], s[2])] \in AllSamples
            /\ Number(h[Number(s[1], s[2])][1], h[Number(s[1], s[2])][2]) = Number(s[1], s[2])
        BY <2>4, <1>4
      <3> QED BY <3>1, <2>1, NumbersDiffer
    <2> QED BY <2>4, <2>5
  <1>9. h \in Bijection(0..(n - 1), B)
    BY <1>6, <1>7, <1>8 DEF Bijection, Injection, Surjection, IsInjective
  <1>10. IsFiniteSet(0..(n - 1)) /\ Cardinality(0..(n - 1)) = n
    <2>1. 0 \in Int /\ n - 1 \in Int /\ n \in Nat BY <1>1, <1>2
    <2> HIDE DEF n
    <2>2. IsFiniteSet(0..(n - 1)) /\ Cardinality(0..(n - 1)) = IF 0 > n - 1 THEN 0 ELSE n - 1 - 0 + 1
      BY <2>1, FS_Interval
    <2> QED BY <2>1, <2>2
  <1>11. Cardinality(B) = n BY <1>9, <1>10, FS_Bijection DEF ExistsBijection
  <1> QED BY <1>11 DEF Cardinality, Windows!Cardinality

\* What __getitem__ returns of a sample.
LEMMA WindowRight ==
  ASSUME files \in Seq(Nat), NEW e \in Windows!Episodes, NEW f \in Int, NEW k \in Int
  PROVE  (IF Windows!HasTransition(e, f + k) THEN Windows!Label(e, f + k) ELSE None) =
           IF {f + k, f + k + 1} \subseteq 0..(files[e] - 1)
           THEN [from |-> f + k, to |-> f + k + 1, hand |-> f + k + 1] ELSE None
  <1> DEFINE t == f + k
  <1>1. files[e] \in Nat /\ t \in Int BY DEF Windows!Episodes
  <1> HIDE DEF t
  <1>2. Windows!HasTransition(e, t) <=> {t, t + 1} \subseteq 0..(files[e] - 1)
    BY <1>1 DEF Windows!HasTransition
  <1>3. Windows!HasTransition(e, t) => Windows!Label(e, t) = [from |-> t, to |-> t + 1, hand |-> t + 1]
    BY <1>1 DEF Windows!HasTransition, Windows!Label, Windows!Target
  <1> QED BY <1>2, <1>3 DEF t

LEMMA RobotClip ==
  ASSUME NEW t \in Int, NEW e, files[e] \in Nat \ {0}
  PROVE  Windows!Clip(t, e) = IF t < 0 THEN 0 ELSE IF t > files[e] - 1 THEN files[e] - 1 ELSE t
  <1> DEFINE b == files[e] - 1
             m == IF t < 0 THEN 0 ELSE t
  <1>0. b \in Nat OBVIOUS
  <1>1. Windows!Max({t, 0}) = m
    <2>1. m \in {t, 0} /\ \A y \in {t, 0} : m >= y
      OBVIOUS
    <2>2. \A x \in {t, 0} : (\A y \in {t, 0} : x >= y) => x = m
      OBVIOUS
    <2> QED BY <2>1, <2>2 DEF Windows!Max
  <1> HIDE DEF b
  <1>2. Windows!Min({m, b}) = IF m > b THEN b ELSE m
    <2> DEFINE n == IF m > b THEN b ELSE m
    <2>1. n \in {m, b} /\ \A y \in {m, b} : n <= y
      BY <1>0
    <2>2. \A x \in {m, b} : (\A y \in {m, b} : x <= y) => x = n
      BY <1>0
    <2> QED BY <2>1, <2>2 DEF Windows!Min
  <1>3. Windows!Clip(t, e) = Windows!Min({m, b}) BY <1>1 DEF Windows!Clip, b
  <1>4. Windows!Clip(t, e) = IF t < 0 THEN 0 ELSE IF t > b THEN b ELSE t BY <1>0, <1>2, <1>3
  <1> QED BY <1>4 DEF b

LEMMA GotSample ==
  ASSUME Recorded, NEW p \in {Trainer, Worker},
         NEW i \in (0 - Windows!Total)..(Windows!Total - 1),
         Windows!Get(p, i)
  PROVE  /\ Windows!LabelsAreTransitions' /\ Windows!SamplesNumbered'
         /\ got' # None => got'.opener = Windows!Open(p, Windows!Locate(i).episode).by /\ got'.proc = p
  <1> DEFINE at == Windows!Locate(i)
             e == at.episode
             f == at.frame
  <1>1. /\ e \in Windows!Episodes /\ f \in 0..(Windows!Samples(e) - 1)
        /\ Number(e, f) = IF i < 0 THEN i + Windows!Total ELSE i
    BY LocatedRight DEF Number
  <1>2. files' = files /\ kind' = kind
    BY DEF Windows!Get, Windows!recorded
  <1>3. \/ got' = None
        \/ got' = [proc |-> p, opener |-> Windows!Open(p, e).by, index |-> i, at |-> at,
                   rows |-> Windows!Window(e, f), images |-> Windows!Images(e, f)]
    BY DEF Windows!Get
  <1>4. CASE got' = None BY <1>4 DEF Windows!LabelsAreTransitions, Windows!SamplesNumbered
  <1>5. CASE got' = [proc |-> p, opener |-> Windows!Open(p, e).by, index |-> i, at |-> at,
                     rows |-> Windows!Window(e, f), images |-> Windows!Images(e, f)]
    <2>1. /\ got'.at.episode = e /\ got'.at.frame = f /\ got'.index = i
          /\ got'.rows = Windows!Window(e, f) /\ got'.images = Windows!Images(e, f)
          /\ got'.proc = p /\ got'.opener = Windows!Open(p, e).by
      BY <1>5
    <2> HIDE DEF at, e, f
    <2>2. Windows!Samples(e) \in Nat \ {0} /\ f \in Nat /\ f < Windows!Samples(e)
      BY <1>1, SamplesCounted DEF Windows!Episodes
    <2>3. files[e] \in Nat /\ files[e] >= 2 /\ f < files[e]
      <3>1. files[e] \in Nat /\ files[e] >= 2 BY <1>1 DEF Recorded, Windows!Episodes
      <3> QED BY <2>2, <3>1 DEF Windows!Samples
    <2>4. Windows!LabelsAreTransitions'
      <3>1. ASSUME NEW k \in DOMAIN got'.rows
            PROVE  got'.rows[k] = IF {f + k, f + k + 1} \subseteq 0..(files[e] - 1)
                                  THEN [from |-> f + k, to |-> f + k + 1, hand |-> f + k + 1] ELSE None
        <4>1. k \in (0 - RobotPast)..RobotFuture BY <2>1 DEF Windows!Window
        <4>2. k \in Int BY <4>1, RobotAssumption
        <4>3. got'.rows[k] = IF Windows!HasTransition(e, f + k) THEN Windows!Label(e, f + k) ELSE None
          BY <4>1, <2>1 DEF Windows!Window
        <4>4. f \in Int BY <2>2
        <4> QED BY <4>2, <4>3, <4>4, <1>1, WindowRight DEF Recorded
      <3> QED BY <3>1, <2>1, <1>2 DEF Windows!LabelsAreTransitions
    <2>5. \A k \in DOMAIN got'.images : got'.images[k].real <=> got'.images[k].shows = f + k
      <3> TAKE k \in DOMAIN got'.images
      <3>1. k \in (0 - ImagePast)..ImageFuture BY <2>1 DEF Windows!Images
      <3>2. k \in Int /\ f + k \in Int BY <3>1, <2>2, RobotAssumption
      <3>3. /\ got'.images[k].shows = Windows!Clip(f + k, e)
            /\ got'.images[k].real = (f + k \in 0..(files[e] - 1))
        BY <3>1, <2>1 DEF Windows!Images
      <3>4. Windows!Clip(f + k, e) =
              IF f + k < 0 THEN 0 ELSE IF f + k > files[e] - 1 THEN files[e] - 1 ELSE f + k
        BY <3>2, <2>3, RobotClip
      <3>5. f + k \in 0..(files[e] - 1) <=> Windows!Clip(f + k, e) = f + k
        BY <3>2, <3>4, <2>3
      <3> QED BY <3>3, <3>5, Zenon
    <2>6. got'.images[0].shows = f
      <3>1. 0 \in (0 - ImagePast)..ImageFuture BY RobotAssumption
      <3>2. got'.images[0].shows = Windows!Clip(f + 0, e) BY <3>1, <2>1 DEF Windows!Images
      <3>3. f + 0 \in Int /\ f + 0 = f BY <2>2
      <3>4. Windows!Clip(f + 0, e) = f BY <3>3, <2>2, <2>3, RobotClip
      <3> QED BY <3>2, <3>4
    <2>7. Windows!SamplesNumbered'
      <3> DEFINE B == {s \in Windows!Episodes \X (0..Windows!Total) :
                         s[2] < Windows!Samples(s[1]) /\ (s[1] < e \/ (s[1] = e /\ s[2] < f))}
      <3>1. Windows!Cardinality(B) = Number(e, f)
        <4>1. <<e, f>> \in AllSamples BY <1>1, <2>2 DEF AllSamples
        <4> QED BY <4>1, SamplesBefore
      <3>2. Windows!Total \in Nat
        <4>1. Len(files) \in 0..Len(files) BY DEF Recorded
        <4> QED BY <4>1, TotalsGrow DEF Windows!Total
      <3>3. i \in {Windows!Cardinality(B), Windows!Cardinality(B) - Windows!Total}
        BY <1>1, <3>1, <3>2 DEF e, f, at
      <3>4. f \in 0..(Windows!Samples(e) - 1) BY <2>2
      <3> QED
        BY <2>1, <2>5, <2>6, <3>3, <3>4, <1>2
        DEF Windows!SamplesNumbered, Windows!Episodes, Windows!Samples, Windows!Total, Windows!Cumulative
    <2> QED BY <2>4, <2>7, <2>1 DEF e, at
  <1> QED BY <1>3, <1>4, <1>5

\* The open files of a process: handles of its own, of different episodes.
Readers == {Trainer, Worker}
AllKept(S, s) ==
  /\ s \in Seq(S) /\ Len(s) <= MaxOpen
  /\ \A m, n \in 1..Len(s) : s[m].episode = s[n].episode => m = n
HandleOf(p) == [episode : Nat, by : {p}]

HandlesInv ==
  /\ handles \in [Readers -> Seq([episode : Nat, by : Readers])]
  /\ \A p \in Readers : AllKept(HandleOf(owner[p]), handles[p])

LEMMA NothingKept == \A S : AllKept(S, <<>>)
  BY RobotAssumption DEF AllKept

LEMMA RemoveKeeps ==
  ASSUME NEW S, NEW s \in Seq(S), NEW n \in 1..Len(s)
  PROVE  LET r == Windows!RemoveAt(s, n)
         IN  /\ r \in Seq(S) /\ Len(r) = Len(s) - 1
             /\ \A i \in 1..Len(r) : r[i] = s[IF i < n THEN i ELSE i + 1]
  <1> DEFINE a == SubSeq(s, 1, n - 1)
             b == SubSeq(s, n + 1, Len(s))
             r == a \o b
  <1>1. Windows!RemoveAt(s, n) = r BY DEF Windows!RemoveAt
  <1>2. Len(s) \in Nat /\ n \in Nat /\ n >= 1 /\ n <= Len(s) /\ \A i \in 1..Len(s) : s[i] \in S
    OBVIOUS
  <1>3. a \in Seq(S) /\ Len(a) = n - 1 /\ \A i \in 1..(n - 1) : a[i] = s[i]
    <2>1. \A i \in 1..(n - 1) : s[i] \in S BY <1>2
    <2>2. 1 \in Int /\ n - 1 \in Int BY <1>2
    <2>3. /\ a \in Seq(S) /\ Len(a) = IF 1 <= n - 1 THEN (n - 1) - 1 + 1 ELSE 0
          /\ \A i \in 1..((n - 1) - 1 + 1) : a[i] = s[1 + i - 1]
      BY <2>1, <2>2, SubSeqProperties
    <2> HIDE DEF a
    <2> QED BY <2>3, <1>2
  <1>4. b \in Seq(S) /\ Len(b) = Len(s) - n /\ \A i \in 1..(Len(s) - n) : b[i] = s[n + i]
    <2>1. \A i \in (n + 1)..Len(s) : s[i] \in S BY <1>2
    <2>2. n + 1 \in Int /\ Len(s) \in Int BY <1>2
    <2>3. /\ b \in Seq(S) /\ Len(b) = IF n + 1 <= Len(s) THEN Len(s) - (n + 1) + 1 ELSE 0
          /\ \A i \in 1..(Len(s) - (n + 1) + 1) : b[i] = s[(n + 1) + i - 1]
      BY <2>1, <2>2, SubSeqProperties
    <2>4. Len(b) = Len(s) - n BY <2>3, <1>2
    <2>5. ASSUME NEW i \in 1..(Len(s) - n) PROVE b[i] = s[n + i]
      <3>1. i \in 1..(Len(s) - (n + 1) + 1) /\ (n + 1) + i - 1 = n + i BY <1>2
      <3> QED BY <2>3, <3>1
    <2> QED BY <2>3, <2>4, <2>5
  <1> HIDE DEF a, b
  <1>5. /\ r \in Seq(S) /\ Len(r) = Len(a) + Len(b)
        /\ \A i \in 1..(Len(a) + Len(b)) : r[i] = IF i <= Len(a) THEN a[i] ELSE b[i - Len(a)]
    BY <1>3, <1>4, ConcatProperties
  <1> HIDE DEF r
  <1>6. Len(r) = Len(s) - 1 BY <1>2, <1>3, <1>4, <1>5
  <1>7. ASSUME NEW i \in 1..Len(r) PROVE r[i] = s[IF i < n THEN i ELSE i + 1]
    <2>1. CASE i < n
      <3>1. i \in 1..(n - 1) /\ i <= Len(a) BY <2>1, <1>2, <1>3
      <3> QED BY <3>1, <2>1, <1>3, <1>5, <1>6, <1>7
    <2>2. CASE ~(i < n)
      <3>1. i - (n - 1) \in 1..(Len(s) - n) /\ n + (i - (n - 1)) = i + 1 /\ ~(i <= Len(a))
        BY <2>2, <1>2, <1>3, <1>6
      <3>2. r[i] = b[i - (n - 1)] BY <3>1, <1>3, <1>5
      <3> QED BY <3>1, <3>2, <2>2, <1>4
    <2> QED BY <2>1, <2>2
  <1> QED BY <1>1, <1>5, <1>6, <1>7

LEMMA UsableKept ==
  ASSUME HandlesInv, NEW p \in Readers
  PROVE  AllKept(HandleOf(p), Windows!Usable(p))
  <1>1. CASE owner[p] = p BY <1>1 DEF HandlesInv, Windows!Usable
  <1>2. CASE owner[p] # p BY <1>2, NothingKept DEF Windows!Usable
  <1> QED BY <1>1, <1>2

LEMMA RefreshedKept ==
  ASSUME HandlesInv, NEW p \in Readers, NEW e \in Nat
  PROVE  /\ Windows!Open(p, e) \in HandleOf(p)
         /\ AllKept(HandleOf(p), Windows!Refreshed(p, e))
  <1> DEFINE H == HandleOf(p)
             s == Windows!Usable(p)
             n == Windows!Place(p, e)
             K == Windows!Known(p, e)
             o == Windows!Open(p, e)
             r == IF K = {} THEN s ELSE Windows!RemoveAt(s, n)
             now == Append(r, o)
  <1>1. AllKept(H, s) BY UsableKept
  <1> HIDE DEF H, s
  <1>2. s \in Seq(H) /\ Len(s) \in Nat /\ Len(s) <= MaxOpen /\ DOMAIN s = 1..Len(s) BY <1>1 DEF AllKept
  <1>3. K = {m \in 1..Len(s) : s[m].episode = e} BY <1>2 DEF Windows!Known, s
  <1>4. K # {} => n \in 1..Len(s) /\ s[n].episode = e BY <1>3 DEF Windows!Place
  <1>5. o = IF K = {} THEN [episode |-> e, by |-> p] ELSE s[n]
    BY DEF Windows!Open, s
  <1>6. Windows!Refreshed(p, e) = IF Len(now) > MaxOpen THEN Tail(now) ELSE now
    BY DEF Windows!Refreshed, s
  <1> HIDE DEF K, n, o
  <1>7. o \in H /\ o.episode = e
    <2>1. CASE K = {} BY <2>1, <1>5 DEF H, HandleOf
    <2>2. CASE K # {} BY <2>2, <1>2, <1>4, <1>5
    <2> QED BY <2>1, <2>2
  <1>8. /\ r \in Seq(H) /\ Len(r) \in Nat /\ Len(r) <= Len(s)
        /\ \A i \in 1..Len(r) : r[i].episode # e
        /\ \A i, j \in 1..Len(r) : r[i].episode = r[j].episode => i = j
    <2>1. CASE K = {}
      <3>1. \A i \in 1..Len(s) : s[i].episode # e BY <2>1, <1>3
      <3> QED BY <3>1, <2>1, <1>1, <1>2 DEF AllKept
    <2>2. CASE K # {}
      <3> DEFINE z(i) == IF i < n THEN i ELSE i + 1
      <3>1. n \in 1..Len(s) /\ s[n].episode = e BY <2>2, <1>4
      <3>2. r = Windows!RemoveAt(s, n) BY <2>2
      <3> HIDE DEF r
      <3>3. /\ r \in Seq(H) /\ Len(r) = Len(s) - 1
            /\ \A i \in 1..Len(r) : r[i] = s[z(i)]
        BY <3>1, <3>2, <1>2, RemoveKeeps
      <3>4. \A i \in 1..Len(r) : z(i) \in 1..Len(s) /\ z(i) # n BY <3>1, <3>3, <1>2
      <3>5. \A i, j \in 1..Len(r) : z(i) = z(j) => i = j BY <3>1, <3>3, <1>2
      <3>6. \A i, j \in 1..Len(s) : s[i].episode = s[j].episode => i = j BY <1>1 DEF AllKept
      <3> HIDE DEF z
      <3>7. \A i \in 1..Len(r) : r[i].episode # e BY <3>1, <3>3, <3>4, <3>6
      <3>8. \A i, j \in 1..Len(r) : r[i].episode = r[j].episode => i = j
        BY <3>3, <3>4, <3>5, <3>6
      <3> QED BY <3>3, <3>7, <3>8, <1>2
    <2> QED BY <2>1, <2>2
  <1> HIDE DEF r
  <1>9. /\ now \in Seq(H) /\ now # <<>> /\ Len(now) = Len(r) + 1
        /\ \A i \in 1..Len(r) : now[i] = r[i]
        /\ now[Len(r) + 1] = o
    BY <1>7, <1>8, AppendProperties
  <1> HIDE DEF now
  <1>10. ASSUME NEW i \in 1..Len(now), NEW j \in 1..Len(now), now[i].episode = now[j].episode
         PROVE  i = j
    <2>1. CASE i <= Len(r) /\ j <= Len(r)
      <3>1. i \in 1..Len(r) /\ j \in 1..Len(r) BY <2>1
      <3> QED BY <3>1, <1>8, <1>9, <1>10
    <2>2. CASE i = Len(r) + 1 /\ j = Len(r) + 1 BY <2>2
    <2>3. CASE i <= Len(r) /\ j = Len(r) + 1
      <3>1. i \in 1..Len(r) BY <2>3
      <3>2. now[i] = r[i] /\ now[j] = o BY <2>3, <3>1, <1>9
      <3> QED BY <3>1, <3>2, <1>7, <1>8, <1>10
    <2>4. CASE i = Len(r) + 1 /\ j <= Len(r)
      <3>1. j \in 1..Len(r) BY <2>4
      <3>2. now[j] = r[j] /\ now[i] = o BY <2>4, <3>1, <1>9
      <3> QED BY <3>1, <3>2, <1>7, <1>8, <1>10
    <2> QED BY <2>1, <2>2, <2>3, <2>4, <1>8, <1>9
  <1>11. AllKept(H, IF Len(now) > MaxOpen THEN Tail(now) ELSE now)
    <2>1. CASE Len(now) > MaxOpen
      <3>1. /\ Tail(now) \in Seq(H) /\ Len(Tail(now)) = Len(now) - 1
            /\ \A i \in 1..Len(Tail(now)) : Tail(now)[i] = now[i + 1]
        BY <1>9, HeadTailProperties
      <3>2. Len(Tail(now)) <= MaxOpen BY <3>1, <1>2, <1>8, <1>9, RobotAssumption
      <3>3. ASSUME NEW i \in 1..Len(Tail(now)), NEW j \in 1..Len(Tail(now)),
                   Tail(now)[i].episode = Tail(now)[j].episode
            PROVE  i = j
        <4>1. i + 1 \in 1..Len(now) /\ j + 1 \in 1..Len(now) BY <3>1, <1>8, <1>9
        <4>2. now[i + 1].episode = now[j + 1].episode BY <3>1, <3>3
        <4>3. i + 1 = j + 1 BY <4>1, <4>2, <1>10
        <4> QED BY <4>3
      <3> QED BY <2>1, <3>1, <3>2, <3>3 DEF AllKept
    <2>2. CASE ~(Len(now) > MaxOpen)
      <3>1. Len(now) <= MaxOpen BY <2>2, <1>8, <1>9, RobotAssumption
      <3> QED BY <2>2, <3>1, <1>9, <1>10 DEF AllKept
    <2> QED BY <2>1, <2>2
  <1> QED BY <1>6, <1>7, <1>11 DEF H, o

LEMMA KeptTyped ==
  ASSUME NEW p \in Readers, NEW s, AllKept(HandleOf(p), s)
  PROVE  s \in Seq([episode : Nat, by : Readers])
  <1>1. HandleOf(p) \subseteq [episode : Nat, by : Readers] BY DEF HandleOf
  <1> QED BY <1>1, SeqMonotonic DEF AllKept

\* Opening a file leaves the others and their owners alone.
LEMMA OpenKeeps ==
  ASSUME HandlesInv, NEW p \in Readers, NEW s, AllKept(HandleOf(p), s),
         owner' = [owner EXCEPT ![p] = p], handles' = [handles EXCEPT ![p] = s],
         owner \in [Readers -> Readers \cup {None}]
  PROVE  HandlesInv'
  <1>1. s \in Seq([episode : Nat, by : Readers]) BY KeptTyped
  <1>2. handles' \in [Readers -> Seq([episode : Nat, by : Readers])] BY <1>1 DEF HandlesInv
  <1>3. ASSUME NEW q \in Readers PROVE AllKept(HandleOf(owner'[q]), handles'[q])
    <2>1. CASE q = p
      <3>1. owner'[q] = p /\ handles'[q] = s BY <2>1 DEF HandlesInv
      <3> QED BY <3>1
    <2>2. CASE q # p
      <3>1. owner'[q] = owner[q] /\ handles'[q] = handles[q] BY <2>2 DEF HandlesInv
      <3> QED BY <3>1 DEF HandlesInv
    <2> QED BY <2>1, <2>2
  <1> QED BY <1>2, <1>3 DEF HandlesInv

RobotInv ==
  /\ files \in Seq(Nat)
  /\ alive # {} => Recorded
  /\ alive \subseteq Readers /\ owner \in [Readers -> Readers \cup {None}]
  /\ HandlesInv
  /\ Windows!LabelsAreTransitions /\ Windows!SamplesNumbered
  /\ got # None => got.opener = got.proc

LEMMA RobotBegins == TrainingInit => RobotInv
  <1> SUFFICES ASSUME TrainingInit PROVE RobotInv OBVIOUS
  <1>1. Windows!WindowInit BY DEF TrainingInit
  <1>2. files \in Seq(Nat) BY <1>1, RobotAssumption DEF Windows!WindowInit
  <1>3. alive = {} /\ got = None /\ owner \in [Readers -> Readers \cup {None}]
    BY <1>1 DEF Windows!WindowInit, Readers
  <1>4. HandlesInv
    <2>1. handles = [p \in Readers |-> <<>>] BY <1>1 DEF Windows!WindowInit, Readers
    <2>2. <<>> \in Seq([episode : Nat, by : Readers]) OBVIOUS
    <2> QED BY <2>1, <2>2, NothingKept DEF HandlesInv
  <1> QED BY <1>2, <1>3, <1>4 DEF RobotInv, Windows!LabelsAreTransitions, Windows!SamplesNumbered

\* Where nothing is returned, only the processes and their handles matter.
LEMMA NothingGot ==
  ASSUME RobotInv, UNCHANGED Windows!recorded, got' = None, HandlesInv',
         alive' # {} => Recorded, alive' \subseteq Readers,
         owner' \in [Readers -> Readers \cup {None}]
  PROVE  RobotInv'
  <1>1. files' = files BY DEF Windows!recorded
  <1>2. Recorded' <=> Recorded BY <1>1 DEF Recorded
  <1> QED BY <1>1, <1>2 DEF RobotInv, Windows!LabelsAreTransitions, Windows!SamplesNumbered

LEMMA StartRobot ==
  ASSUME RobotInv, NEW p \in Readers, NEW forked \in BOOLEAN, Windows!Start(p, forked)
  PROVE  RobotInv'
  <1>1. /\ Trainer \in alive /\ p \in Readers \ alive /\ alive' = alive \cup {p}
        /\ owner' = [owner EXCEPT ![p] = IF forked THEN owner[Trainer] ELSE None]
        /\ handles' = [handles EXCEPT ![p] = IF forked THEN handles[Trainer] ELSE <<>>]
        /\ got' = None /\ UNCHANGED Windows!recorded
    BY DEF Windows!Start, Readers
  <1>2. Trainer \in Readers BY DEF Readers
  <1>3. owner' \in [Readers -> Readers \cup {None}] BY <1>1, <1>2 DEF RobotInv
  <1>4. HandlesInv'
    <2>1. handles' \in [Readers -> Seq([episode : Nat, by : Readers])]
      <3>1. <<>> \in Seq([episode : Nat, by : Readers]) OBVIOUS
      <3> QED BY <1>1, <1>2, <3>1 DEF RobotInv, HandlesInv
    <2>2. ASSUME NEW q \in Readers PROVE AllKept(HandleOf(owner'[q]), handles'[q])
      <3>1. CASE q # p
        <4>1. owner'[q] = owner[q] /\ handles'[q] = handles[q] BY <1>1, <3>1 DEF RobotInv, HandlesInv
        <4> QED BY <4>1 DEF RobotInv, HandlesInv
      <3>2. CASE q = p /\ forked
        <4>1. owner'[q] = owner[Trainer] /\ handles'[q] = handles[Trainer]
          BY <1>1, <3>2 DEF RobotInv, HandlesInv
        <4> QED BY <4>1, <1>2 DEF RobotInv, HandlesInv
      <3>3. CASE q = p /\ ~forked
        <4>1. handles'[q] = <<>> BY <1>1, <3>3 DEF RobotInv, HandlesInv
        <4> QED BY <4>1, NothingKept
      <3> QED BY <3>1, <3>2, <3>3
    <2> QED BY <2>1, <2>2 DEF HandlesInv
  <1> QED BY <1>1, <1>3, <1>4, NothingGot DEF RobotInv

LEMMA GetRobot ==
  ASSUME RobotInv, NEW p \in Readers, NEW i \in (0 - Windows!Total)..(Windows!Total - 1),
         Windows!Get(p, i)
  PROVE  RobotInv'
  <1> DEFINE e == Windows!Locate(i).episode
  <1>1. /\ p \in alive /\ UNCHANGED <<Windows!recorded, alive, normal>>
        /\ owner' = [owner EXCEPT ![p] = p]
        /\ handles' = [handles EXCEPT ![p] = Windows!Refreshed(p, e)]
    BY DEF Windows!Get
  <1>2. Recorded BY <1>1 DEF RobotInv
  <1>3. e \in Nat BY <1>2, LocatedRight DEF Windows!Episodes
  <1>4. Windows!Open(p, e) \in HandleOf(p) /\ AllKept(HandleOf(p), Windows!Refreshed(p, e))
    BY <1>3, RefreshedKept DEF RobotInv
  <1>5. /\ Windows!LabelsAreTransitions' /\ Windows!SamplesNumbered'
        /\ got' # None => got'.opener = Windows!Open(p, e).by /\ got'.proc = p
    BY <1>2, GotSample DEF Readers
  <1> HIDE DEF e
  <1>6. got' # None => got'.opener = got'.proc BY <1>4, <1>5 DEF HandleOf
  <1>7. HandlesInv' BY <1>1, <1>4, OpenKeeps DEF RobotInv
  <1>8. files' = files /\ alive' = alive BY <1>1 DEF Windows!recorded
  <1>9. Recorded' BY <1>2, <1>8 DEF Recorded
  <1>10. owner' \in [Readers -> Readers \cup {None}] BY <1>1 DEF RobotInv
  <1> QED BY <1>5, <1>6, <1>7, <1>8, <1>9, <1>10 DEF RobotInv

LEMMA RobotStepInv == ASSUME RobotInv, [Windows!WindowNext]_(Windows!windowVars) PROVE RobotInv'
  <1>1. CASE Windows!Build
    <2>1. Recorded
      BY <1>1 DEF RobotInv, Recorded, Windows!Build, Windows!Acceptable, Windows!Episodes
    <2>2. /\ UNCHANGED Windows!recorded /\ got' = None /\ alive' = {Trainer}
          /\ UNCHANGED <<owner, handles>>
      BY <1>1 DEF Windows!Build
    <2>3. HandlesInv' BY <2>2 DEF RobotInv, HandlesInv
    <2>4. alive' \subseteq Readers /\ owner' \in [Readers -> Readers \cup {None}]
      BY <2>2 DEF RobotInv, Readers
    <2> QED BY <2>1, <2>2, <2>3, <2>4, NothingGot
  <1>2. CASE Windows!SetStatistics
    <2>1. UNCHANGED <<Windows!recorded, alive, owner, handles>> /\ got' = None
      BY <1>2 DEF Windows!SetStatistics
    <2>2. HandlesInv' BY <2>1 DEF RobotInv, HandlesInv
    <2> QED BY <2>1, <2>2, NothingGot DEF RobotInv
  <1>3. ASSUME NEW p \in Readers, Windows!Exit(p) PROVE RobotInv'
    <2>1. UNCHANGED <<Windows!recorded, owner, handles>> /\ got' = None /\ alive' = alive \ {p}
      BY <1>3 DEF Windows!Exit
    <2>2. HandlesInv' BY <2>1 DEF RobotInv, HandlesInv
    <2> QED BY <2>1, <2>2, NothingGot DEF RobotInv
  <1>4. ASSUME NEW p \in Readers, Windows!GetFails(p) PROVE RobotInv'
    <2>1. /\ UNCHANGED <<Windows!recorded, alive>> /\ got' = None
          /\ owner' = [owner EXCEPT ![p] = p]
          /\ handles' = [handles EXCEPT ![p] = Windows!Usable(p)]
      BY <1>4 DEF Windows!GetFails
    <2>2. HandlesInv' BY <2>1, UsableKept, OpenKeeps DEF RobotInv
    <2>3. owner' \in [Readers -> Readers \cup {None}] BY <2>1 DEF RobotInv
    <2> QED BY <2>1, <2>2, <2>3, NothingGot DEF RobotInv
  <1>5. CASE UNCHANGED Windows!windowVars
    <2>1. UNCHANGED <<kind, files, alive, owner, handles, got>>
      BY <1>5 DEF Windows!windowVars
    <2>2. HandlesInv' BY <2>1 DEF RobotInv, HandlesInv
    <2>3. Recorded' <=> Recorded BY <2>1 DEF Recorded
    <2>4. Windows!LabelsAreTransitions' BY <2>1 DEF RobotInv, Windows!LabelsAreTransitions
    <2>5. Windows!SamplesNumbered'
      BY <2>1 DEF RobotInv, Windows!SamplesNumbered, Windows!Episodes, Windows!Samples,
                  Windows!Total, Windows!Cumulative
    <2> QED BY <2>1, <2>2, <2>3, <2>4, <2>5 DEF RobotInv
  <1> QED BY <1>1, <1>2, <1>3, <1>4, <1>5, StartRobot, GetRobot DEF Windows!WindowNext, Readers

\* Handles of different episodes are counted by their episodes.
LEMMA HandlesCounted ==
  ASSUME NEW S, NEW s, AllKept(S, s), NEW T, T = {s[n].episode : n \in DOMAIN s}
  PROVE  Windows!Cardinality(T) = Len(s)
  <1>1. Len(s) \in Nat /\ DOMAIN s = 1..Len(s) BY DEF AllKept
  <1> DEFINE f == [n \in 1..Len(s) |-> s[n].episode]
  <1>2. f \in [1..Len(s) -> T] BY <1>1
  <1>3. \A m, n \in 1..Len(s) : f[m] = f[n] => m = n BY DEF AllKept
  <1>4. \A t \in T : \E n \in 1..Len(s) : f[n] = t BY <1>1
  <1> HIDE DEF f
  <1>5. f \in Bijection(1..Len(s), T)
    BY <1>2, <1>3, <1>4 DEF Bijection, Injection, Surjection, IsInjective
  <1>6. IsFiniteSet(1..Len(s)) /\ Cardinality(1..Len(s)) = Len(s)
    <2>1. Windows!Cardinality(1..Len(s)) = Len(s) BY <1>1, FirstNumbers
    <2>2. Cardinality(1..Len(s)) = Len(s) BY <2>1 DEF Cardinality, Windows!Cardinality
    <2> QED BY <2>2, <1>1, FS_Interval
  <1>7. Cardinality(T) = Len(s) BY <1>5, <1>6, FS_Bijection DEF ExistsBijection
  <1> QED BY <1>7 DEF Cardinality, Windows!Cardinality

\* A sample of a robot episode is numbered, labelled and framed as recorded,
\* for directories of any episodes and windows of any size, and is read through
\* handles of its own process, however often processes are forked and end.
THEOREM RobotSamplesAlwaysRight == TrainingSpec => []RobotSamplesAreRight
  <1>1. RobotInv /\ [TrainingNext]_trainVars => RobotInv'
    BY PartSteps, RobotStepInv
  <1>2. RobotInv => RobotSamplesAreRight
    <2> SUFFICES ASSUME RobotInv PROVE RobotSamplesAreRight OBVIOUS
    <2>1. ASSUME NEW p \in Readers
          PROVE  /\ Len(handles[p]) <= MaxOpen
                 /\ Windows!Cardinality({handles[p][n].episode : n \in DOMAIN handles[p]})
                      = Len(handles[p])
      <3>1. AllKept(HandleOf(owner[p]), handles[p]) BY DEF RobotInv, HandlesInv
      <3>2. Windows!Cardinality({handles[p][n].episode : n \in DOMAIN handles[p]}) = Len(handles[p])
        BY <3>1, HandlesCounted
      <3> QED BY <3>1, <3>2 DEF AllKept
    <2> QED
      BY <2>1 DEF RobotInv, Readers, RobotSamplesAreRight, Windows!SamplesAreRight,
                  Windows!HandlesAreOwn
  <1> QED BY <1>1, <1>2, RobotBegins, PTL DEF TrainingSpec
-----------------------------------------------------------------------------
(* Samples of human videos.                                                 *)

LEMMA HumanClip ==
  ASSUME NEW t \in Int, NEW a \in Int, NEW b \in Int, a <= b
  PROVE  Human!Clip(t, <<a, b>>) = IF t < a THEN a ELSE IF t > b THEN b ELSE t
  <1> DEFINE m == IF t < a THEN a ELSE t
  <1>1. Human!Max({t, a}) = m
    <2>1. m \in {t, a} /\ \A y \in {t, a} : m >= y
      OBVIOUS
    <2>2. \A x \in {t, a} : (\A y \in {t, a} : x >= y) => x = m
      OBVIOUS
    <2> QED BY <2>1, <2>2 DEF Human!Max
  <1>2. Human!Min({m, b}) = IF m > b THEN b ELSE m
    <2> DEFINE n == IF m > b THEN b ELSE m
    <2>1. n \in {m, b} /\ \A y \in {m, b} : n <= y
      OBVIOUS
    <2>2. \A x \in {m, b} : (\A y \in {m, b} : x <= y) => x = n
      OBVIOUS
    <2> QED BY <2>1, <2>2 DEF Human!Min
  <1> QED BY <1>1, <1>2 DEF Human!Clip

\* What is said of the other hand is said of the frame that is shown.
ToldOfFrame ==
  stage # "new" =>
    /\ frame \in 0..(VideoFrames - 1)
    /\ clip # None => clip \in DOMAIN clips /\ clips[clip][1] <= frame /\ frame < clips[clip][2]

HumanTypes ==
  /\ main \in Human!Hands /\ clips \in ClipSets /\ mirror \in BOOLEAN
  /\ work \in [Human!Parts -> [Human!Hands -> Human!Hands]]

\* The rows are those of the frame and the clip.
RowsOfFrame ==
  \A h \in Human!Hands : rows[h] # None => stage # "new" /\ rows[h] = Human!Window(h)

\* What augmentation_func has left to do, at any point of it.
Rest == {<<"image", "actions", "masks", "silence", "text", "state">>,
         <<"actions", "masks", "silence", "text", "state">>,
         <<"masks", "silence", "text", "state">>, <<"silence", "text", "state">>,
         <<"text", "state">>, <<"state">>, <<>>}
Rank == [image |-> 6, actions |-> 5, masks |-> 4, silence |-> 3, text |-> 2, state |-> 1]
Pending == {p \in DOMAIN Rank : Rank[p] <= Len(todo)}
Side == IF mirror THEN Human!Mirrored ELSE Human!Straight

\* Until augmentation ends the sample is as it was recorded; of its copies, those
\* behind the current step are turned, and the hand that says nothing with them.
HalfWay ==
  /\ stage # "done" => shown = Human!AsRecorded /\ silent = {}
  /\ stage = "augmenting" =>
       /\ todo \in Rest
       /\ \A p \in Human!Parts \ Pending : work[p] = Side
       /\ IF "text" \in Pending THEN workSilent \subseteq {Human!Other(main)}
          ELSE \A h \in workSilent : h \in Human!Hands /\ Side[h] = Human!Other(main)

HumanInv == HumanTypes /\ ToldOfFrame /\ RowsOfFrame /\ HalfWay /\ Human!HandsAgree

LEMMA RestLength == \A t \in Rest : Len(t) \in 0..6
  BY DEF Rest

LEMMA RestStep ==
  ASSUME todo \in Rest, todo # <<>>, todo' = Tail(todo)
  PROVE  /\ todo' \in Rest
         /\ Head(todo) \notin Pending'
         /\ Pending' \subseteq Pending
         /\ Pending = Pending' \cup {Head(todo)}
  <1>1. todo' \in Rest /\ Len(todo') = Len(todo) - 1 /\ Len(todo) \in 1..6
    <2>1. CASE todo = <<"image", "actions", "masks", "silence", "text", "state">>
      BY <2>1 DEF Rest
    <2>2. CASE todo = <<"actions", "masks", "silence", "text", "state">>
      BY <2>2 DEF Rest
    <2>3. CASE todo = <<"masks", "silence", "text", "state">>
      BY <2>3 DEF Rest
    <2>4. CASE todo = <<"silence", "text", "state">>
      BY <2>4 DEF Rest
    <2>5. CASE todo = <<"text", "state">>
      BY <2>5 DEF Rest
    <2>6. CASE todo = <<"state">>
      BY <2>6 DEF Rest
    <2> QED BY <2>1, <2>2, <2>3, <2>4, <2>5, <2>6 DEF Rest
  <1>2. Head(todo) \in DOMAIN Rank /\ Rank[Head(todo)] = Len(todo)
    <2>1. CASE todo = <<"image", "actions", "masks", "silence", "text", "state">>
      BY <2>1 DEF Rank
    <2>2. CASE todo = <<"actions", "masks", "silence", "text", "state">>
      BY <2>2 DEF Rank
    <2>3. CASE todo = <<"masks", "silence", "text", "state">>
      BY <2>3 DEF Rank
    <2>4. CASE todo = <<"silence", "text", "state">>
      BY <2>4 DEF Rank
    <2>5. CASE todo = <<"text", "state">>
      BY <2>5 DEF Rank
    <2>6. CASE todo = <<"state">>
      BY <2>6 DEF Rank
    <2> QED BY <2>1, <2>2, <2>3, <2>4, <2>5, <2>6 DEF Rest
  <1>3. \A p, q \in DOMAIN Rank : Rank[p] \in 1..6 /\ (Rank[p] = Rank[q] => p = q)
    BY DEF Rank
  <1> QED BY <1>1, <1>2, <1>3 DEF Pending

LEMMA SideSame == mirror' = mirror => Side' = Side
  BY DEF Side, Human!Mirrored, Human!Straight

\* One step of augmentation_func on its copies.
LEMMA AugmentStepInv == ASSUME HumanInv, Human!AugmentStep PROVE HumanInv'
  <1>1. /\ stage = "augmenting" /\ todo # <<>> /\ todo' = Tail(todo)
        /\ UNCHANGED <<stage, main, clips, frame, clip, kept, rows, silent, shown, mirror>>
    BY DEF Human!AugmentStep, Human!episode, Human!drawn, Human!Silence, Human!MirrorPart,
           Human!Copied
  <1>2. todo \in Rest /\ todo' \in Rest /\ Head(todo) \notin Pending' /\ Pending' \subseteq Pending
        /\ Pending = Pending' \cup {Head(todo)}
    BY <1>1, RestStep DEF HumanInv, HalfWay
  <1>3. Side' = Side
    BY <1>1, SideSame
  <1>4. ToldOfFrame' /\ RowsOfFrame' /\ Human!HandsAgree'
    <2>1. ToldOfFrame' BY <1>1 DEF HumanInv, ToldOfFrame
    <2>2. \A h \in Human!Hands : Human!Window(h)' = Human!Window(h)
      BY <1>1
      DEF Human!Window, Human!Span, Human!Frame, Human!Usable, Human!Clip, Human!Outside,
          Human!Offsets
    <2>3. RowsOfFrame' BY <1>1, <2>2 DEF HumanInv, RowsOfFrame
    <2>4. Human!HandsAgree' BY <1>1 DEF Human!HandsAgree
    <2> QED BY <2>1, <2>3, <2>4
  <1>5. CASE Human!Silence
    <2>1. /\ Head(todo) = "silence" /\ work' = work
          /\ workSilent' \in {workSilent, workSilent \cup {Human!Other(main)}}
      BY <1>5 DEF Human!Silence
    <2>2. HumanTypes' BY <1>1, <2>1 DEF HumanInv, HumanTypes
    <2>3. Human!Parts \ Pending' = Human!Parts \ Pending
      BY <1>2, <2>1 DEF Human!Parts
    <2>4. "text" \in Pending' <=> "text" \in Pending
      BY <1>2, <2>1
    <2>5. "text" \in Pending'
      <3>1. "silence" \in Pending
        BY <1>2, <2>1
      <3>2. "text" \in Pending
        BY <3>1, RestLength, <1>2 DEF Pending, Rank
      <3> QED BY <2>4, <3>2
    <2>6. workSilent' \subseteq {Human!Other(main)}
      BY <1>1, <2>1, <2>4, <2>5 DEF HumanInv, HalfWay
    <2>7. HalfWay'
      BY <1>1, <1>2, <1>3, <2>1, <2>3, <2>5, <2>6 DEF HumanInv, HalfWay, Human!AsRecorded, Human!Straight,
        Human!Other
    <2> QED BY <2>2, <2>7, <1>4 DEF HumanInv
  <1>6. ASSUME NEW p \in Human!Parts, Human!MirrorPart(p) PROVE HumanInv'
    <2>1. /\ Head(todo) = p /\ work' = [work EXCEPT ![p] = Side]
          /\ workSilent' = IF p = "text" /\ mirror THEN {Human!Other(h) : h \in workSilent}
                           ELSE workSilent
      BY <1>6 DEF Human!MirrorPart, Side
    <2>2. Side \in [Human!Hands -> Human!Hands]
      BY DEF Side, Human!Mirrored, Human!Straight, Human!Other, Human!Hands
    <2>3. HumanTypes' BY <1>1, <2>1, <2>2 DEF HumanInv, HumanTypes
    <2>4. \A q \in Human!Parts \ Pending' : work'[q] = Side
      BY <1>1, <1>2, <2>1 DEF HumanInv, HalfWay, HumanTypes
    <2>5. CASE p = "text"
      <3>1. "text" \in Pending /\ "text" \notin Pending'
        BY <1>2, <2>1, <2>5
      <3>2. workSilent \subseteq {Human!Other(main)}
        BY <1>1, <3>1 DEF HumanInv, HalfWay
      <3>3. ASSUME NEW h \in workSilent' PROVE h \in Human!Hands /\ Side[h] = Human!Other(main)
        <4>1. CASE mirror
          <5>1. h = Human!Other(Human!Other(main))
            BY <4>1, <2>1, <2>5, <3>2
          <5>2. h = main
            BY <5>1 DEF Human!Other, HumanInv, HumanTypes, Human!Hands
          <5> QED BY <5>2, <4>1 DEF Side, Human!Mirrored, HumanInv, HumanTypes
        <4>2. CASE ~mirror
          <5>1. h = Human!Other(main)
            BY <4>2, <2>1, <3>2
          <5> QED BY <5>1, <4>2 DEF Side, Human!Straight, Human!Other, Human!Hands
        <4> QED BY <4>1, <4>2
      <3>4. HalfWay'
        BY <1>1, <1>2, <1>3, <2>4, <3>1, <3>3
        DEF HumanInv, HalfWay, Human!AsRecorded, Human!Straight, Human!Other
      <3> QED BY <2>3, <3>4, <1>4 DEF HumanInv
    <2>6. CASE p # "text"
      <3>1. workSilent' = workSilent /\ ("text" \in Pending' <=> "text" \in Pending)
        BY <1>2, <2>1, <2>6
      <3>2. HalfWay'
        BY <1>1, <1>2, <1>3, <2>4, <3>1
        DEF HumanInv, HalfWay, Human!AsRecorded, Human!Straight, Human!Other
      <3> QED BY <2>3, <3>2, <1>4 DEF HumanInv
    <2> QED BY <2>5, <2>6
  <1> QED BY <1>5, <1>6 DEF Human!AugmentStep


\* The rows of a window keep to the span, and are all there where nothing is
\* missing in it.
LEMMA WindowOfSpan ==
  ASSUME NEW h \in Human!Hands, NEW a \in Int, NEW b \in Int, a <= b,
         Human!Span(h) = <<a, b>>, frame \in Nat, NEW k \in Human!Offsets
  PROVE  LET row == Human!Window(h)[k]
         IN  /\ row.valid => {row.from, row.to} \subseteq (kept[h] \cap a..b)
             /\ {frame + k, frame + k + 1} \subseteq (kept[h] \cap a..b)
                  => row = [from |-> frame + k, to |-> frame + k + 1, valid |-> TRUE]
  <1> DEFINE r == <<a, b>>
             row == Human!Window(h)[k]
             F(j) == Human!Frame(j, r)
             G(j) == Human!Clip(frame + j, r)
  <1> USE HumanAssumption
  <1>1. k \in Int /\ k <= HumanFuture /\ HumanFuture \in Int /\ k + 1 \in Int
    BY DEF Human!Offsets
  <1>2. \A j \in Int : /\ G(j) = IF frame + j < a THEN a ELSE IF frame + j > b THEN b ELSE frame + j
                       /\ G(j) \in a..b
    BY HumanClip
  <1>3. Human!Clip(G(HumanFuture) + 1, r) = IF G(HumanFuture) + 1 > b THEN b ELSE G(HumanFuture) + 1
    <2>1. G(HumanFuture) \in a..b BY <1>1, <1>2
    <2> HIDE DEF G
    <2> QED BY <2>1, HumanClip
  <1> HIDE DEF G
  <1>4. F(k) = G(k) /\ F(k + 1) = IF k + 1 <= HumanFuture THEN G(k + 1)
                                    ELSE IF G(HumanFuture) + 1 > b THEN b ELSE G(HumanFuture) + 1
    BY <1>1, <1>3 DEF G, Human!Frame
  <1>5. row = [from |-> F(k), to |-> F(k + 1),
               valid |-> Human!Usable(h, k, r) /\ Human!Usable(h, k + 1, r)]
    BY DEF Human!Window
  <1> HIDE DEF row, F
  <1>6. F(k) \in a..b /\ F(k + 1) \in a..b
    <2>1. G(k) \in a..b /\ G(k + 1) \in a..b /\ G(HumanFuture) \in a..b
      BY <1>1, <1>2
    <2>2. CASE k + 1 <= HumanFuture
      BY <2>1, <2>2, <1>4
    <2>3. CASE ~(k + 1 <= HumanFuture)
      <3>1. F(k + 1) = IF G(HumanFuture) + 1 > b THEN b ELSE G(HumanFuture) + 1
        BY <2>3, <1>4
      <3> HIDE DEF G
      <3> QED BY <3>1, <2>1, <1>4
    <2> QED BY <2>2, <2>3
  <1>7. ASSUME row.valid PROVE {row.from, row.to} \subseteq (kept[h] \cap a..b)
    <2>1. Human!Usable(h, k, r) /\ Human!Usable(h, k + 1, r)
      BY <1>5, <1>7
    <2>2. F(k) \in kept[h] /\ F(k + 1) \in kept[h]
      BY <2>1 DEF F, Human!Usable
    <2> QED BY <2>2, <1>6, <1>5
  <1>8. ASSUME frame + k \in kept[h] \cap a..b, frame + k + 1 \in kept[h] \cap a..b
        PROVE  row = [from |-> frame + k, to |-> frame + k + 1, valid |-> TRUE]
    <2>1. F(k) = frame + k
      <3>1. frame + k \in a..b /\ F(k) = G(k)
        BY <1>4, <1>8
      <3> QED BY <3>1, <1>1, <1>2
    <2>2. F(k + 1) = frame + k + 1
      <3>1. CASE k + 1 <= HumanFuture
        BY <3>1, <1>1, <1>2, <1>4, <1>8
      <3>2. CASE ~(k + 1 <= HumanFuture)
        <4>1. k = HumanFuture BY <3>2, <1>1
        <4> QED BY <4>1, <3>2, <1>1, <1>2, <1>4, <1>8
      <3> QED BY <3>1, <3>2
    <2>3. Human!Usable(h, k, r)
      <3>1. ~Human!Outside(k, r)
        BY <1>1, <1>8 DEF Human!Outside
      <3> QED BY <3>1, <1>1, <1>8, <2>1 DEF Human!Usable, F
    <2>4. Human!Usable(h, k + 1, r)
      <3>1. CASE k + 1 <= HumanFuture
        <4>1. ~Human!Outside(k + 1, r)
          BY <1>1, <1>8 DEF Human!Outside
        <4> QED BY <4>1, <3>1, <1>8, <2>2 DEF Human!Usable, F
      <3>2. CASE ~(k + 1 <= HumanFuture)
        <4>1. k = HumanFuture BY <3>2, <1>1
        <4>2. G(HumanFuture) + 1 <= r[2]
          BY <4>1, <1>1, <1>2, <1>8
        <4> QED BY <4>2, <3>2, <1>8, <2>2 DEF Human!Usable, F, G
      <3> QED BY <3>1, <3>2
    <2> QED BY <1>5, <2>1, <2>2, <2>3, <2>4
  <1> QED BY <1>7, <1>8 DEF row

LEMMA HumanInvSuffices == HumanInv => HumanSamplesAreRight
  <1> SUFFICES ASSUME HumanInv, NEW h \in Human!Hands, rows[h] # None, NEW k \in Human!Offsets
               PROVE  LET r == Human!Span(h) IN
          /\ rows[h][k].valid => {rows[h][k].from, rows[h][k].to} \subseteq (kept[h] \cap r[1]..r[2])
          /\ {frame + k, frame + k + 1} \subseteq (kept[h] \cap r[1]..r[2])
               => rows[h][k] = [from |-> frame + k, to |-> frame + k + 1, valid |-> TRUE]
    BY DEF HumanInv, HumanSamplesAreRight, Human!HumanSamplesAreRight, Human!ActionsOfTheClip
  <1>1. rows[h] = Human!Window(h) /\ frame \in 0..(VideoFrames - 1)
    BY DEF HumanInv, RowsOfFrame, ToldOfFrame
  <1>2. frame \in Nat
    BY <1>1, HumanAssumption
  <1>3. \E a, b \in Int : a <= b /\ Human!Span(h) = <<a, b>>
    <2>1. CASE h = main \/ clip = None
      <3>1. Human!Span(h) = <<0, VideoFrames - 1>>
        BY <2>1 DEF Human!Span
      <3>2. 0 \in Int /\ VideoFrames - 1 \in Int /\ 0 <= VideoFrames - 1
        BY <1>1, HumanAssumption
      <3> QED BY <3>1, <3>2
    <2>2. CASE ~(h = main \/ clip = None)
      <3>1. Human!Span(h) = <<clips[clip][1], clips[clip][2] - 1>>
        BY <2>2 DEF Human!Span
      <3>2. clip \in DOMAIN clips /\ clips[clip][1] <= frame /\ frame < clips[clip][2]
        BY <2>2, <1>1 DEF HumanInv, RowsOfFrame, ToldOfFrame
      <3>3. clips[clip] \in Nat \X Nat
        BY <3>2, HumanAssumption, ElementOfSeq DEF HumanInv, HumanTypes
      <3>4. clips[clip][1] \in Nat /\ clips[clip][2] \in Nat
        BY <3>3
      <3>5. clips[clip][1] \in Int /\ clips[clip][2] - 1 \in Int /\ clips[clip][1] <= clips[clip][2] - 1
        BY <3>2, <3>4, <1>2
      <3> QED BY <3>1, <3>5
    <2> QED BY <2>1, <2>2
  <1>4. PICK a \in Int, b \in Int : a <= b /\ Human!Span(h) = <<a, b>>
    BY <1>3
  <1>5. Human!Span(h)[1] = a /\ Human!Span(h)[2] = b
    BY <1>4
  <1> HIDE DEF Human!Span
  <1> QED BY <1>1, <1>2, <1>4, <1>5, WindowOfSpan


LEMMA HumanRest == ASSUME HumanInv, Human!Again PROVE HumanInv'
  <1>1. /\ stage' = "new" /\ shown' = Human!AsRecorded /\ silent' = {} /\ mirror' = FALSE
        /\ work' = Human!AsRecorded /\ rows' = [h \in Human!Hands |-> None]
        /\ UNCHANGED <<main, clips>>
    BY DEF Human!Again, Human!episode
  <1>2. HumanTypes'
    BY <1>1 DEF HumanInv, HumanTypes, Human!AsRecorded, Human!Straight
  <1>3. ToldOfFrame' /\ RowsOfFrame' /\ HalfWay' /\ Human!HandsAgree'
    BY <1>1
    DEF ToldOfFrame, RowsOfFrame, HalfWay, Human!HandsAgree, Human!AsRecorded, Human!Straight
  <1> QED BY <1>2, <1>3 DEF HumanInv

\* The text of a frame is chosen among the clips that cover it.
LEMMA TellInv == ASSUME HumanInv, NEW f \in 0..(VideoFrames - 1), Human!Tell(f) PROVE HumanInv'
  <1>1. /\ stage = "new" /\ stage' = "told" /\ frame' = f
        /\ UNCHANGED <<main, clips, kept, rows, shown, silent, mirror, work>>
    BY DEF Human!Tell, Human!episode, Human!augmenting
  <1>2. clip' = None \/ (clip' \in DOMAIN clips /\ clips[clip'][1] <= f /\ f < clips[clip'][2])
    <2>1. CASE Human!Matching(f) = {}
      BY <2>1 DEF Human!Tell
    <2>2. CASE Human!Matching(f) # {}
      <3>1. clip' \in Human!Matching(f)
        BY <2>2 DEF Human!Tell
      <3> QED BY <3>1 DEF Human!Matching
    <2> QED BY <2>1, <2>2
  <1>3. HumanTypes' BY <1>1 DEF HumanInv, HumanTypes
  <1>4. ToldOfFrame' BY <1>1, <1>2 DEF ToldOfFrame
  <1>5. RowsOfFrame' BY <1>1 DEF HumanInv, RowsOfFrame
  <1>6. HalfWay' /\ Human!HandsAgree'
    BY <1>1 DEF HumanInv, HalfWay, Human!HandsAgree, Human!AsRecorded, Human!Straight
  <1> QED BY <1>3, <1>4, <1>5, <1>6 DEF HumanInv

LEMMA WindowSame ==
  ASSUME UNCHANGED <<main, clips, kept, frame, clip>>, NEW h
  PROVE  Human!Window(h)' = Human!Window(h)
  BY DEF Human!Window, Human!Span, Human!Frame, Human!Usable, Human!Clip, Human!Outside,
         Human!Offsets

LEMMA HumanStepInv == ASSUME HumanInv, [Human!HumanNext]_(Human!humanVars) PROVE HumanInv'
  <1>1. ASSUME UNCHANGED <<main, clips, kept, frame, clip>>,
               stage # "new" => stage' # "new",
               \A h \in Human!Hands : rows'[h] = rows[h] \/ (stage' # "new" /\ rows'[h] = Human!Window(h)),
               stage' # "new" => stage # "new"
        PROVE  ToldOfFrame' /\ RowsOfFrame'
    <2>1. ToldOfFrame' BY <1>1 DEF HumanInv, ToldOfFrame
    <2>2. \A h \in Human!Hands : Human!Window(h)' = Human!Window(h) BY <1>1, WindowSame
    <2> QED BY <1>1, <2>1, <2>2 DEF HumanInv, RowsOfFrame
  <1>2. CASE Human!MakeWindows
    <2>1. /\ stage = "told" /\ stage' = "windowed"
          /\ rows' = [h \in Human!Hands |-> Human!Window(h)]
          /\ UNCHANGED <<main, clips, kept, frame, clip, shown, silent, mirror, work>>
      BY <1>2 DEF Human!MakeWindows, Human!episode, Human!drawn, Human!augmenting
    <2>2. ToldOfFrame' /\ RowsOfFrame' BY <1>1, <2>1
    <2>3. HumanTypes' BY <2>1 DEF HumanInv, HumanTypes
    <2>4. HalfWay' /\ Human!HandsAgree'
      BY <2>1 DEF HumanInv, HalfWay, Human!HandsAgree, Human!AsRecorded, Human!Straight
    <2> QED BY <2>2, <2>3, <2>4 DEF HumanInv
  <1>3. ASSUME NEW ok \in BOOLEAN, Human!ReadVideo(ok) PROVE HumanInv'
    <2>1. /\ stage = "windowed" /\ stage' \in {"windowed", "loaded", "raised"}
          /\ UNCHANGED <<main, clips, kept, frame, clip, rows, shown, silent, mirror, work>>
      BY <1>3 DEF Human!ReadVideo, Human!episode, Human!drawn, Human!augmenting
    <2>2. ToldOfFrame' /\ RowsOfFrame' BY <1>1, <2>1
    <2>3. HumanTypes' BY <2>1 DEF HumanInv, HumanTypes
    <2>4. HalfWay' /\ Human!HandsAgree'
      BY <2>1 DEF HumanInv, HalfWay, Human!HandsAgree, Human!AsRecorded, Human!Straight
    <2> QED BY <2>2, <2>3, <2>4 DEF HumanInv
  <1>4. CASE Human!Augment
    <2>1. /\ stage = "loaded" /\ stage' = "augmenting" /\ mirror' \in BOOLEAN
          /\ todo' = Human!Steps /\ work' = shown /\ workSilent' = silent
          /\ UNCHANGED <<main, clips, kept, frame, clip, rows, shown, silent>>
      BY <1>4 DEF Human!Augment, Human!episode, Human!drawn
    <2>2. ToldOfFrame' /\ RowsOfFrame' BY <1>1, <2>1
    <2>3. shown = Human!AsRecorded /\ silent = {}
      BY <2>1 DEF HumanInv, HalfWay
    <2>4. HumanTypes'
      BY <2>1, <2>3 DEF HumanInv, HumanTypes, Human!AsRecorded, Human!Straight
    <2>5. /\ todo' \in Rest /\ Len(todo') = 6
      BY <2>1 DEF Rest, Human!Steps
    <2>6. \A p \in Human!Parts : p \in Pending'
      BY <2>5 DEF Pending, Rank, Human!Parts
    <2>7. Human!AsRecorded' = Human!AsRecorded
      BY DEF Human!AsRecorded, Human!Straight
    <2>8. HalfWay' /\ Human!HandsAgree'
      BY <2>1, <2>3, <2>5, <2>6, <2>7 DEF HalfWay, Human!HandsAgree, Human!Parts
    <2> QED BY <2>2, <2>4, <2>8 DEF HumanInv
  <1>5. CASE Human!Augmented
    <2>1. /\ stage = "augmenting" /\ stage' = "done" /\ todo = <<>>
          /\ shown' = work /\ silent' = workSilent
          /\ UNCHANGED <<main, clips, kept, frame, clip, rows, mirror, work>>
      BY <1>5 DEF Human!Augmented, Human!episode, Human!drawn, Human!augmenting
    <2>2. ToldOfFrame' /\ RowsOfFrame' BY <1>1, <2>1
    <2>3. HumanTypes' BY <2>1 DEF HumanInv, HumanTypes
    <2>4. Pending = {}
      BY <2>1 DEF Pending, Rank
    <2>5. /\ \A p \in Human!Parts : work[p] = Side
          /\ \A h \in workSilent : Side[h] = Human!Other(main)
      BY <2>1, <2>4 DEF HumanInv, HalfWay
    <2>6. HalfWay' BY <2>1 DEF HalfWay
    <2>7. Human!HandsAgree' BY <2>1, <2>5 DEF Human!HandsAgree, Human!Parts, Human!Other
    <2> QED BY <2>2, <2>3, <2>6, <2>7 DEF HumanInv
  <1>6. CASE Human!AugmentFails \/ Human!NotAugmented
    <2>1. /\ stage \in {"augmenting", "loaded"} /\ stage' = "done"
          /\ UNCHANGED <<main, clips, kept, frame, clip, rows, shown, silent, mirror, work>>
      BY <1>6
      DEF Human!AugmentFails, Human!NotAugmented, Human!episode, Human!drawn, Human!augmenting
    <2>2. ToldOfFrame' /\ RowsOfFrame' BY <1>1, <2>1
    <2>3. HumanTypes' BY <2>1 DEF HumanInv, HumanTypes
    <2>4. shown' = Human!AsRecorded /\ silent' = {}
      BY <2>1 DEF HumanInv, HalfWay
    <2>5. HalfWay' BY <2>1 DEF HalfWay
    <2>6. Human!HandsAgree' BY <2>4 DEF Human!HandsAgree, Human!Parts, Human!AsRecorded
    <2> QED BY <2>2, <2>3, <2>5, <2>6 DEF HumanInv
  <1>7. CASE UNCHANGED Human!humanVars
    <2>1. UNCHANGED <<stage, main, clips, kept, frame, clip, rows, shown, silent, mirror, todo, work,
                      workSilent>>
      BY <1>7 DEF Human!humanVars
    <2>2. ToldOfFrame' /\ RowsOfFrame' BY <1>1, <2>1
    <2>3. HumanTypes' BY <2>1 DEF HumanInv, HumanTypes
    <2>4. Side' = Side /\ Pending' = Pending /\ Human!AsRecorded' = Human!AsRecorded
      BY <2>1, SideSame DEF Pending, Human!AsRecorded, Human!Straight
    <2>5. HalfWay'
      BY <2>1, <2>4 DEF HumanInv, HalfWay, Human!Other
    <2>6. Human!HandsAgree'
      BY <2>1 DEF HumanInv, Human!HandsAgree, Human!Other
    <2> QED BY <2>2, <2>3, <2>5, <2>6 DEF HumanInv
  <1> QED
    BY <1>2, <1>3, <1>4, <1>5, <1>6, <1>7, TellInv, AugmentStepInv, HumanRest DEF Human!HumanNext

\* Both hands agree in all parts of a sample of a human video, mirrored or not,
\* however augmentation ends; and the actions that count are of the clip the
\* sample's text is of, all that the recording has of it.
THEOREM HumanSamplesAlwaysRight == TrainingSpec => []HumanSamplesAreRight
  <1>1. TrainingInit => HumanInv
    <2> SUFFICES ASSUME TrainingInit PROVE HumanInv
      OBVIOUS
    <2>1. /\ stage = "new" /\ main \in Human!Hands /\ clips \in ClipSets /\ mirror = FALSE
          /\ rows = [h \in Human!Hands |-> None] /\ shown = Human!AsRecorded /\ silent = {}
          /\ work = Human!AsRecorded
      BY DEF TrainingInit, Human!HumanInit
    <2>2. HumanTypes
      BY <2>1 DEF HumanTypes, Human!AsRecorded, Human!Straight
    <2> QED BY <2>1, <2>2 DEF HumanInv, ToldOfFrame, RowsOfFrame, HalfWay, Human!HandsAgree
  <1>2. HumanInv /\ [TrainingNext]_trainVars => HumanInv'
    BY PartSteps, HumanStepInv
  <1> QED BY <1>1, <1>2, HumanInvSuffices, PTL DEF TrainingSpec


-----------------------------------------------------------------------------
(* From recordings to vectors and back.                                     *)

Triples == Int \X Int \X Int

\* Turning by the axes that a rotation picks.
LEMMA Turned ==
  ASSUME NEW r \in Codec!Rotations, NEW v
  PROVE  /\ \A a \in 1..3 : r[a] \in 1..3 /\ Codec!Turn(r, v)[a] = v[r[a]]
         /\ v \in Triples => Codec!Turn(r, v) \in Triples
         /\ v \in Codec!Rotations => Codec!Turn(r, v) \in Codec!Rotations
  <1>1. r[1] \in 1..3 /\ r[2] \in 1..3 /\ r[3] \in 1..3 /\ r[1] # r[2] /\ r[1] # r[3] /\ r[2] # r[3]
    BY DEF Codec!Rotations
  <1>2. ASSUME NEW a \in 1..3 PROVE r[a] \in 1..3 /\ Codec!Turn(r, v)[a] = v[r[a]]
    <2>1. a = 1 \/ a = 2 \/ a = 3 OBVIOUS
    <2> QED BY <1>1, <2>1 DEF Codec!Turn
  <1>3. ASSUME v \in Triples PROVE Codec!Turn(r, v) \in Triples
    <2>1. v[1] \in Int /\ v[2] \in Int /\ v[3] \in Int BY <1>3 DEF Triples
    <2>2. \A b \in 1..3 : v[b] \in Int
      <3> TAKE b \in 1..3
      <3>1. b = 1 \/ b = 2 \/ b = 3 OBVIOUS
      <3> QED BY <3>1, <2>1
    <2> QED BY <1>1, <2>2 DEF Codec!Turn, Triples
  <1>4. ASSUME v \in Codec!Rotations PROVE Codec!Turn(r, v) \in Codec!Rotations
    <2>1. /\ v[1] \in 1..3 /\ v[2] \in 1..3 /\ v[3] \in 1..3
          /\ v[1] # v[2] /\ v[1] # v[3] /\ v[2] # v[3]
      BY <1>4 DEF Codec!Rotations
    <2>2. /\ \A b \in 1..3 : v[b] \in 1..3
          /\ \A b, c \in 1..3 : b # c => v[b] # v[c]
      <3>1. \A b \in 1..3 : b = 1 \/ b = 2 \/ b = 3 OBVIOUS
      <3> QED BY <3>1, <2>1
    <2> QED BY <1>1, <2>2 DEF Codec!Turn, Codec!Rotations
  <1> QED BY <1>2, <1>3, <1>4

LEMMA TripleEqual ==
  ASSUME NEW A, NEW B, NEW C, NEW u \in A \X B \X C, NEW D, NEW E, NEW F, NEW v \in D \X E \X F,
         \A a \in 1..3 : u[a] = v[a]
  PROVE  u = v
  <1>1. u[1] = v[1] /\ u[2] = v[2] /\ u[3] = v[3] OBVIOUS
  <1> QED BY <1>1

LEMMA TurnTurn ==
  ASSUME NEW r \in Codec!Rotations, NEW s \in Codec!Rotations, NEW v
  PROVE  Codec!Turn(Codec!Turn(r, s), v) = Codec!Turn(r, Codec!Turn(s, v))
  <1> DEFINE q == Codec!Turn(r, s)
             w == Codec!Turn(s, v)
  <1>1. q[1] = s[r[1]] /\ q[2] = s[r[2]] /\ q[3] = s[r[3]] BY Turned
  <1>2. w[r[1]] = v[s[r[1]]] /\ w[r[2]] = v[s[r[2]]] /\ w[r[3]] = v[s[r[3]]]
    <2>1. r[1] \in 1..3 /\ r[2] \in 1..3 /\ r[3] \in 1..3 BY Turned
    <2> QED BY <2>1, Turned
  <1> HIDE DEF q, w
  <1>3. Codec!Turn(q, v) = Codec!Turn(r, w) BY <1>1, <1>2 DEF Codec!Turn
  <1> QED BY <1>3 DEF q, w

\* The inverse of a rotation undoes it on either side.
Back(r) == Codec!Turn(Codec!Transposed(r), <<1, 2, 3>>)
LEMMA TurnedBack ==
  ASSUME NEW r \in Codec!Rotations
  PROVE  /\ Back(r) \in Codec!Rotations
         /\ Codec!Turn(Back(r), r) = <<1, 2, 3>>
         /\ Codec!Turn(r, Back(r)) = <<1, 2, 3>>
  <1> DEFINE t == Codec!Transposed(r)
             b == Back(r)
  <1>1. r[1] \in 1..3 /\ r[2] \in 1..3 /\ r[3] \in 1..3 /\ r[1] # r[2] /\ r[1] # r[3] /\ r[2] # r[3]
    BY DEF Codec!Rotations
  <1>2. ASSUME NEW a \in 1..3 PROVE t[a] \in 1..3 /\ r[t[a]] = a
    <2>1. t[a] = CHOOSE i \in 1..3 : r[i] = a BY DEF Codec!Transposed
    <2>2. \E i \in 1..3 : r[i] = a
      <3>1. r[1] = a \/ r[2] = a \/ r[3] = a BY <1>1
      <3> QED BY <3>1
    <2> QED BY <2>1, <2>2
  <1>3. \A a \in 1..3 : a = 1 \/ a = 2 \/ a = 3 OBVIOUS
  <1>4. b = <<t[1], t[2], t[3]>>
    <2>1. \A i \in 1..3 : <<1, 2, 3>>[i] = i BY <1>3
    <2> QED BY <2>1, <1>2 DEF Back, Codec!Turn
  <1> HIDE DEF t, b
  <1>5. b \in Codec!Rotations BY <1>2, <1>4 DEF Codec!Rotations
  <1>6. Codec!Turn(r, b) = <<1, 2, 3>>
    <2>1. \A a \in 1..3 : b[r[a]] = a
      <3> TAKE a \in 1..3
      <3>1. r[a] \in 1..3 BY <1>1, <1>3
      <3>2. b[r[a]] = t[r[a]] BY <3>1, <1>3, <1>4
      <3>3. r[t[r[a]]] = r[a] /\ t[r[a]] \in 1..3 BY <3>1, <1>2
      <3>4. \A i, j \in 1..3 : r[i] = r[j] => i = j BY <1>1, <1>3
      <3> QED BY <3>2, <3>3, <3>4
    <2> QED BY <2>1 DEF Codec!Turn
  <1>7. Codec!Turn(b, r) = <<1, 2, 3>> BY <1>2, <1>4 DEF Codec!Turn
  <1> QED BY <1>5, <1>6, <1>7 DEF b

LEMMA TurnNothing == \A v \in Triples \cup Codec!Rotations : Codec!Turn(<<1, 2, 3>>, v) = v
  <1> TAKE v \in Triples \cup Codec!Rotations
  <1>1. v = <<v[1], v[2], v[3]>> BY DEF Triples, Codec!Rotations
  <1> QED BY <1>1 DEF Codec!Turn

LEMMA TurnByNothing == \A r \in Codec!Rotations : Codec!Turn(r, <<1, 2, 3>>) = r
  <1> TAKE r \in Codec!Rotations
  <1>1. r = <<r[1], r[2], r[3]>> /\ r[1] \in 1..3 /\ r[2] \in 1..3 /\ r[3] \in 1..3
    BY DEF Codec!Rotations
  <1>2. \A i \in 1..3 : <<1, 2, 3>>[i] = i OBVIOUS
  <1>3. Codec!Turn(r, <<1, 2, 3>>) = <<r[1], r[2], r[3]>> BY <1>1, <1>2 DEF Codec!Turn
  <1> QED BY <1>1, <1>3

\* Sums of positions.
LEMMA PlusTriples ==
  ASSUME NEW u \in Triples, NEW v \in Triples
  PROVE  /\ Codec!Plus(u, v) \in Triples /\ Codec!Minus(u, v) \in Triples
         /\ Codec!Plus(u, Codec!Minus(v, u)) = v
         /\ Codec!Plus(u, <<0, 0, 0>>) = u /\ Codec!Plus(<<0, 0, 0>>, u) = u
         /\ \A w \in Triples : Codec!Plus(Codec!Plus(u, v), w) = Codec!Plus(u, Codec!Plus(v, w))
         /\ \A r \in Codec!Rotations :
              Codec!Turn(r, Codec!Plus(u, v)) = Codec!Plus(Codec!Turn(r, u), Codec!Turn(r, v))
  <1>1. /\ u[1] \in Int /\ u[2] \in Int /\ u[3] \in Int /\ u = <<u[1], u[2], u[3]>>
        /\ v[1] \in Int /\ v[2] \in Int /\ v[3] \in Int /\ v = <<v[1], v[2], v[3]>>
    BY DEF Triples
  <1>2. Codec!Plus(u, v) \in Triples /\ Codec!Minus(u, v) \in Triples
    BY <1>1 DEF Codec!Plus, Codec!Minus, Triples
  <1>3. Codec!Plus(u, Codec!Minus(v, u)) = v
    <2>1. Codec!Minus(v, u) = <<v[1] - u[1], v[2] - u[2], v[3] - u[3]>> BY DEF Codec!Minus
    <2>2. Codec!Plus(u, Codec!Minus(v, u)) =
            <<u[1] + (v[1] - u[1]), u[2] + (v[2] - u[2]), u[3] + (v[3] - u[3])>>
      BY <2>1 DEF Codec!Plus
    <2>3. u[1] + (v[1] - u[1]) = v[1] /\ u[2] + (v[2] - u[2]) = v[2] /\ u[3] + (v[3] - u[3]) = v[3]
      BY <1>1
    <2> QED BY <2>2, <2>3, <1>1
  <1>4. Codec!Plus(u, <<0, 0, 0>>) = u /\ Codec!Plus(<<0, 0, 0>>, u) = u
    <2>1. Codec!Plus(u, <<0, 0, 0>>) = <<u[1] + 0, u[2] + 0, u[3] + 0>> BY DEF Codec!Plus
    <2>2. Codec!Plus(<<0, 0, 0>>, u) = <<0 + u[1], 0 + u[2], 0 + u[3]>> BY DEF Codec!Plus
    <2>3. u[1] + 0 = u[1] /\ u[2] + 0 = u[2] /\ u[3] + 0 = u[3] BY <1>1
    <2>4. 0 + u[1] = u[1] /\ 0 + u[2] = u[2] /\ 0 + u[3] = u[3] BY <1>1
    <2> QED BY <2>1, <2>2, <2>3, <2>4, <1>1
  <1>5. ASSUME NEW w \in Triples
        PROVE  Codec!Plus(Codec!Plus(u, v), w) = Codec!Plus(u, Codec!Plus(v, w))
    <2>1. w[1] \in Int /\ w[2] \in Int /\ w[3] \in Int BY DEF Triples
    <2>2. Codec!Plus(Codec!Plus(u, v), w) =
            <<(u[1] + v[1]) + w[1], (u[2] + v[2]) + w[2], (u[3] + v[3]) + w[3]>>
      BY DEF Codec!Plus
    <2>3. Codec!Plus(u, Codec!Plus(v, w)) =
            <<u[1] + (v[1] + w[1]), u[2] + (v[2] + w[2]), u[3] + (v[3] + w[3])>>
      BY DEF Codec!Plus
    <2>4. /\ (u[1] + v[1]) + w[1] = u[1] + (v[1] + w[1])
          /\ (u[2] + v[2]) + w[2] = u[2] + (v[2] + w[2])
          /\ (u[3] + v[3]) + w[3] = u[3] + (v[3] + w[3])
      BY <1>1, <2>1
    <2> QED BY <2>2, <2>3, <2>4
  <1>6. ASSUME NEW r \in Codec!Rotations
        PROVE  Codec!Turn(r, Codec!Plus(u, v)) = Codec!Plus(Codec!Turn(r, u), Codec!Turn(r, v))
    <2> DEFINE p == Codec!Plus(u, v)
               x == Codec!Turn(r, u)
               y == Codec!Turn(r, v)
    <2>1. \A a \in 1..3 : p[a] = u[a] + v[a]
      <3> TAKE a \in 1..3
      <3>1. a = 1 \/ a = 2 \/ a = 3 OBVIOUS
      <3> QED BY <3>1 DEF Codec!Plus
    <2>2. r[1] \in 1..3 /\ r[2] \in 1..3 /\ r[3] \in 1..3 BY Turned
    <2>3. /\ x[1] = u[r[1]] /\ x[2] = u[r[2]] /\ x[3] = u[r[3]]
          /\ y[1] = v[r[1]] /\ y[2] = v[r[2]] /\ y[3] = v[r[3]]
      BY Turned
    <2> HIDE DEF p, x, y
    <2>4. Codec!Turn(r, p) = Codec!Plus(x, y)
      BY <2>1, <2>2, <2>3 DEF Codec!Turn, Codec!Plus
    <2> QED BY <2>4 DEF p, x, y
  <1> QED BY <1>2, <1>3, <1>4, <1>5, <1>6

LEMMA PlusAssociative ==
  ASSUME NEW u \in Triples, NEW v \in Triples, NEW w \in Triples
  PROVE  Codec!Plus(Codec!Plus(u, v), w) = Codec!Plus(u, Codec!Plus(v, w))
  BY PlusTriples

LEMMA TurnedPlus ==
  ASSUME NEW r \in Codec!Rotations, NEW u \in Triples, NEW v \in Triples
  PROVE  Codec!Turn(r, Codec!Plus(u, v)) = Codec!Plus(Codec!Turn(r, u), Codec!Turn(r, v))
  BY PlusTriples

\* Poses are a group, as rigid transforms are.
LEMMA PoseParts ==
  ASSUME NEW A \in Codec!Poses
  PROVE  /\ A.rot \in Codec!Rotations /\ A.pos \in Triples
         /\ A = [rot |-> A.rot, pos |-> A.pos]
  BY DEF Codec!Poses, Triples

LEMMA PosesClosed ==
  ASSUME NEW A \in Codec!Poses, NEW B \in Codec!Poses
  PROVE  /\ Codec!Times(A, B) \in Codec!Poses
         /\ Codec!Inverse(A) \in Codec!Poses
         /\ Codec!Inverse(A) = [rot |-> Back(A.rot),
                                pos |-> Codec!Minus(<<0, 0, 0>>, Codec!Turn(Back(A.rot), A.pos))]
         /\ Codec!Unmoved \in Codec!Poses
  <1>1. /\ A.rot \in Codec!Rotations /\ A.pos \in Triples
        /\ B.rot \in Codec!Rotations /\ B.pos \in Triples
    BY PoseParts
  <1>2. Codec!Turn(A.rot, B.rot) \in Codec!Rotations BY <1>1, Turned
  <1>3. Codec!Turn(A.rot, B.pos) \in Triples BY <1>1, Turned
  <1>4. Codec!Plus(A.pos, Codec!Turn(A.rot, B.pos)) \in Triples BY <1>1, <1>3, PlusTriples
  <1>5. Codec!Times(A, B) \in Codec!Poses
    BY <1>2, <1>4 DEF Codec!Times, Codec!Poses, Triples
  <1>6. Back(A.rot) \in Codec!Rotations BY <1>1, TurnedBack
  <1>7. Codec!Turn(Back(A.rot), A.pos) \in Triples BY <1>1, <1>6, Turned
  <1>8. <<0, 0, 0>> \in Triples BY DEF Triples
  <1>9. Codec!Minus(<<0, 0, 0>>, Codec!Turn(Back(A.rot), A.pos)) \in Triples
    BY <1>7, <1>8, PlusTriples
  <1>10. Codec!Inverse(A) = [rot |-> Back(A.rot),
                             pos |-> Codec!Minus(<<0, 0, 0>>, Codec!Turn(Back(A.rot), A.pos))]
    BY DEF Codec!Inverse, Back
  <1>11. Codec!Inverse(A) \in Codec!Poses BY <1>6, <1>9, <1>10 DEF Codec!Poses, Triples
  <1>12. Codec!Unmoved \in Codec!Poses BY DEF Codec!Unmoved, Codec!Poses, Codec!Rotations
  <1> QED BY <1>5, <1>10, <1>11, <1>12

LEMMA TimesAssociative ==
  ASSUME NEW A \in Codec!Poses, NEW B \in Codec!Poses, NEW C \in Codec!Poses
  PROVE  Codec!Times(Codec!Times(A, B), C) = Codec!Times(A, Codec!Times(B, C))
  <1>1. /\ A.rot \in Codec!Rotations /\ A.pos \in Triples
        /\ B.rot \in Codec!Rotations /\ B.pos \in Triples
        /\ C.rot \in Codec!Rotations /\ C.pos \in Triples
    BY PoseParts
  <1>2. Codec!Turn(Codec!Turn(A.rot, B.rot), C.rot) = Codec!Turn(A.rot, Codec!Turn(B.rot, C.rot))
    BY <1>1, TurnTurn
  <1> DEFINE p == Codec!Turn(A.rot, B.pos)
             q == Codec!Turn(B.rot, C.pos)
  <1>3. p \in Triples /\ q \in Triples BY <1>1, Turned
  <1>4. Codec!Turn(A.rot, q) \in Triples BY <1>1, <1>3, Turned
  <1>5. Codec!Turn(Codec!Turn(A.rot, B.rot), C.pos) = Codec!Turn(A.rot, q) BY <1>1, TurnTurn
  <1>6. Codec!Turn(A.rot, Codec!Plus(B.pos, q)) = Codec!Plus(p, Codec!Turn(A.rot, q))
    BY <1>1, <1>3, TurnedPlus
  <1> HIDE DEF p, q
  <1>7. Codec!Plus(Codec!Plus(A.pos, p), Codec!Turn(A.rot, q))
          = Codec!Plus(A.pos, Codec!Plus(p, Codec!Turn(A.rot, q)))
    BY <1>1, <1>3, <1>4, PlusAssociative
  <1>8. Codec!Times(Codec!Times(A, B), C) =
          [rot |-> Codec!Turn(Codec!Turn(A.rot, B.rot), C.rot),
           pos |-> Codec!Plus(Codec!Plus(A.pos, p), Codec!Turn(Codec!Turn(A.rot, B.rot), C.pos))]
    BY DEF Codec!Times, p
  <1>9. Codec!Times(A, Codec!Times(B, C)) =
          [rot |-> Codec!Turn(A.rot, Codec!Turn(B.rot, C.rot)),
           pos |-> Codec!Plus(A.pos, Codec!Turn(A.rot, Codec!Plus(B.pos, q)))]
    BY DEF Codec!Times, q
  <1> QED BY <1>2, <1>5, <1>6, <1>7, <1>8, <1>9

LEMMA TimesUnmoved ==
  ASSUME NEW A \in Codec!Poses
  PROVE  Codec!Times(A, Codec!Unmoved) = A /\ Codec!Times(Codec!Unmoved, A) = A
  <1>1. A.rot \in Codec!Rotations /\ A.pos \in Triples /\ A = [rot |-> A.rot, pos |-> A.pos]
    BY PoseParts
  <1>2. Codec!Unmoved.rot = <<1, 2, 3>> /\ Codec!Unmoved.pos = <<0, 0, 0>> BY DEF Codec!Unmoved
  <1>3. Codec!Turn(A.rot, <<1, 2, 3>>) = A.rot BY <1>1, TurnByNothing
  <1>4. Codec!Turn(A.rot, <<0, 0, 0>>) = <<0, 0, 0>>
    <2>1. \A i \in 1..3 : <<0, 0, 0>>[i] = 0
      <3>1. \A i \in 1..3 : i = 1 \/ i = 2 \/ i = 3 OBVIOUS
      <3> QED BY <3>1
    <2>2. A.rot[1] \in 1..3 /\ A.rot[2] \in 1..3 /\ A.rot[3] \in 1..3 BY <1>1, Turned
    <2> QED BY <2>1, <2>2 DEF Codec!Turn
  <1>5. Codec!Turn(<<1, 2, 3>>, A.rot) = A.rot /\ Codec!Turn(<<1, 2, 3>>, A.pos) = A.pos
    BY <1>1, TurnNothing
  <1>6. Codec!Plus(A.pos, <<0, 0, 0>>) = A.pos /\ Codec!Plus(<<0, 0, 0>>, A.pos) = A.pos
    BY <1>1, PlusTriples
  <1> QED BY <1>1, <1>2, <1>3, <1>4, <1>5, <1>6 DEF Codec!Times

LEMMA TimesInverse ==
  ASSUME NEW A \in Codec!Poses
  PROVE  /\ Codec!Times(Codec!Inverse(A), A) = Codec!Unmoved
         /\ Codec!Times(A, Codec!Inverse(A)) = Codec!Unmoved
  <1>1. A.rot \in Codec!Rotations /\ A.pos \in Triples BY PoseParts
  <1> DEFINE b == Back(A.rot)
             t == Codec!Turn(b, A.pos)
             o == <<0, 0, 0>>
             n == Codec!Minus(o, t)
             m == Codec!Turn(A.rot, n)
  <1>2. /\ b \in Codec!Rotations /\ Codec!Turn(b, A.rot) = <<1, 2, 3>>
        /\ Codec!Turn(A.rot, b) = <<1, 2, 3>>
    BY <1>1, TurnedBack
  <1>3. Codec!Inverse(A) = [rot |-> b, pos |-> n] BY PosesClosed
  <1>4. t \in Triples /\ o \in Triples 
    <2>1. o \in Triples BY DEF Triples
    <2> QED BY <2>1, <1>1, <1>2, Turned
  <1>5. n \in Triples /\ Codec!Plus(t, n) = o BY <1>4, PlusTriples
  <1>6. Codec!Plus(n, t) = o
    <2>1. /\ t[1] \in Int /\ t[2] \in Int /\ t[3] \in Int BY <1>4 DEF Triples
    <2> HIDE DEF t
    <2>2. n = <<0 - t[1], 0 - t[2], 0 - t[3]>> BY DEF Codec!Minus
    <2> HIDE DEF n
    <2>3. Codec!Plus(n, t) = <<(0 - t[1]) + t[1], (0 - t[2]) + t[2], (0 - t[3]) + t[3]>>
      BY <2>2 DEF Codec!Plus
    <2>4. (0 - t[1]) + t[1] = 0 /\ (0 - t[2]) + t[2] = 0 /\ (0 - t[3]) + t[3] = 0 BY <2>1
    <2> QED BY <2>3, <2>4
  <1>7. Codec!Turn(A.rot, t) = A.pos
    <2>1. Codec!Turn(A.rot, t) = Codec!Turn(Codec!Turn(A.rot, b), A.pos) BY <1>1, <1>2, TurnTurn
    <2> QED BY <2>1, <1>1, <1>2, TurnNothing
  <1>8. Codec!Plus(A.pos, m) = o
    <2>1. Codec!Turn(A.rot, Codec!Plus(t, n)) = Codec!Plus(Codec!Turn(A.rot, t), m)
      BY <1>1, <1>4, <1>5, TurnedPlus
    <2>2. Codec!Turn(A.rot, o) = o
      <3>1. \A i \in 1..3 : o[i] = 0
        <4>1. \A i \in 1..3 : i = 1 \/ i = 2 \/ i = 3 OBVIOUS
        <4> QED BY <4>1
      <3>2. A.rot[1] \in 1..3 /\ A.rot[2] \in 1..3 /\ A.rot[3] \in 1..3 BY <1>1, Turned
      <3> QED BY <3>1, <3>2 DEF Codec!Turn
    <2> QED BY <2>1, <2>2, <1>5, <1>7
  <1> HIDE DEF b, t, n, m
  <1>9. Codec!Times(Codec!Inverse(A), A) = [rot |-> Codec!Turn(b, A.rot), pos |-> Codec!Plus(n, t)]
    BY <1>3 DEF Codec!Times, t
  <1>10. Codec!Times(A, Codec!Inverse(A)) = [rot |-> Codec!Turn(A.rot, b), pos |-> Codec!Plus(A.pos, m)]
    BY <1>3 DEF Codec!Times, m
  <1> QED BY <1>2, <1>6, <1>8, <1>9, <1>10 DEF Codec!Unmoved, o

\* A pose seen from a camera, and moved by a mount, is found again.
LEMMA SeenAndBack ==
  ASSUME NEW c \in Codec!Poses, NEW e \in Codec!Poses, NEW m \in Codec!Poses
  PROVE  LET w == Codec!Times(Codec!Times(Codec!Inverse(c), e), m)
         IN  /\ w \in Codec!Poses
             /\ Codec!Times(Codec!Times(c, w), Codec!Inverse(m)) = e
  <1> DEFINE v == Codec!Times(Codec!Inverse(c), e)
             w == Codec!Times(v, m)
  <1>1. Codec!Inverse(c) \in Codec!Poses /\ Codec!Inverse(m) \in Codec!Poses BY PosesClosed
  <1>2. v \in Codec!Poses BY <1>1, PosesClosed
  <1>3. Codec!Times(c, v) = e
    <2>1. Codec!Times(Codec!Times(c, Codec!Inverse(c)), e) = Codec!Times(c, v)
      BY <1>1, TimesAssociative
    <2> QED BY <2>1, TimesInverse, TimesUnmoved
  <1> HIDE DEF v
  <1>4. w \in Codec!Poses BY <1>2, PosesClosed
  <1>5. Codec!Times(c, w) = Codec!Times(e, m)
    <2>1. Codec!Times(Codec!Times(c, v), m) = Codec!Times(c, w) BY <1>2, TimesAssociative
    <2> QED BY <2>1, <1>3
  <1>6. Codec!Times(Codec!Times(e, m), Codec!Inverse(m)) = e
    <2>1. Codec!Times(Codec!Times(e, m), Codec!Inverse(m)) = Codec!Times(e, Codec!Times(m, Codec!Inverse(m)))
      BY <1>1, TimesAssociative
    <2> QED BY <2>1, TimesInverse, TimesUnmoved
  <1> QED BY <1>4, <1>5, <1>6 DEF v

\* A step leads where it was taken to.
LEMMA StepLeads ==
  ASSUME NEW A \in Codec!Poses, NEW B \in Codec!Poses
  PROVE  Codec!Advance(A, Codec!StepDelta(A, B)) = B
  <1>1. /\ A.rot \in Codec!Rotations /\ A.pos \in Triples
        /\ B.rot \in Codec!Rotations /\ B.pos \in Triples /\ B = [rot |-> B.rot, pos |-> B.pos]
    BY PoseParts
  <1>2. Codec!Inverse(A).rot = Back(A.rot)
    <2>1. Codec!Inverse(A) = [rot |-> Back(A.rot),
                              pos |-> Codec!Minus(<<0, 0, 0>>, Codec!Turn(Back(A.rot), A.pos))]
      BY PosesClosed
    <2> QED BY <2>1
  <1>3. Back(A.rot) \in Codec!Rotations /\ Codec!Turn(Back(A.rot), A.rot) = <<1, 2, 3>>
    BY <1>1, TurnedBack
  <1>4. Codec!Turn(Codec!Turn(B.rot, Back(A.rot)), A.rot) = B.rot
    <2>1. Codec!Turn(Codec!Turn(B.rot, Back(A.rot)), A.rot)
            = Codec!Turn(B.rot, Codec!Turn(Back(A.rot), A.rot))
      BY <1>1, <1>3, TurnTurn
    <2> QED BY <2>1, <1>1, <1>3, TurnByNothing
  <1>5. Codec!Plus(A.pos, Codec!Minus(B.pos, A.pos)) = B.pos BY <1>1, PlusTriples
  <1> QED BY <1>1, <1>2, <1>4, <1>5 DEF Codec!Advance, Codec!StepDelta

\* What the recording, the mapping and the representation of a behaviour are.
Joints == 1..Len(rec.hand["left"][0])
FrameCount == Cardinality(DOMAIN rec.camera)
CodecTypes ==
  /\ codecKind \in {"wuji20", "inspire12", "mano45"} /\ rec \in CodecRecordings
  /\ IF codecKind = "mano45"
     THEN table = <<>> /\ Joints = 1..Codec!Cardinality(Places)
     ELSE table \in Tables /\ Codec!Valid(table) /\ Joints = 1..Len(table)
  /\ codecKind = "inspire12" => \A f \in Codec!Frames : rec.camera[f] = Official

LEMMA RecordedPoses ==
  ASSUME CodecTypes
  PROVE  /\ Codec!Frames = 0..(FrameCount - 1) /\ FrameCount \in Nat \ {0}
         /\ \A f \in Codec!Frames : rec.camera[f] \in Codec!Poses /\ Codec!AnchorCamera(f) \in Codec!Poses
         /\ \A h \in Codec!Sides, f \in Codec!Frames :
              rec.ee[h][f] \in Codec!Poses /\ rec.command[h][f] \in [Joints -> Int]
         /\ \A h \in Codec!Sides : Codec!WristMount(h) \in Codec!Poses
  <1>1. Codec!Unmoved \in Codec!Poses
    BY DEF Codec!Unmoved, Codec!Poses, Codec!Rotations
  <1>2. \A h \in Codec!Sides : Codec!WristMount(h) \in Codec!Poses
    BY <1>1, CodecAssumption DEF Codec!WristMount
  <1>3. rec \in CodecRecordings BY DEF CodecTypes
  <1>4. LET frames == DOMAIN rec.camera
            Hands == [Codec!Sides -> [frames -> [Joints -> Int]]]
        IN  /\ frames = 0..(FrameCount - 1) /\ FrameCount \in Nat \ {0}
            /\ rec.camera \in [frames -> Codec!Poses]
            /\ rec.ee \in [Codec!Sides -> [frames -> Codec!Poses]]
            /\ rec.hand \in Hands /\ rec.command \in Hands
    BY <1>3, CodecAssumption DEF Joints, FrameCount
  <1>5. Codec!Frames = DOMAIN rec.camera BY DEF Codec!Frames
  <1>6. \A f \in Codec!Frames : rec.camera[f] \in Codec!Poses /\ Codec!AnchorCamera(f) \in Codec!Poses
    BY <1>4, <1>5, CodecAssumption DEF Codec!AnchorCamera
  <1>7. \A h \in Codec!Sides, f \in Codec!Frames :
              rec.ee[h][f] \in Codec!Poses /\ rec.command[h][f] \in [Joints -> Int]
    BY <1>4, <1>5
  <1> QED BY <1>2, <1>4, <1>5, <1>6, <1>7

\* A mapping file gives each joint a place of its own.
LEMMA PlacesDiffer ==
  ASSUME CodecTypes, codecKind # "mano45"
  PROVE  /\ DOMAIN table = Joints
         /\ \A s \in Joints : table[s].place \in Places /\ table[s].sign \in {1, -1}
         /\ \A s, t \in Joints : table[s].place = table[t].place => s = t
  <1>1. table \in Seq([place : Int, sign : Int]) /\ Codec!Valid(table) /\ Joints = 1..Len(table)
    BY CodecAssumption DEF CodecTypes
  <1>2. DOMAIN table = Joints /\ Len(table) \in Nat BY <1>1
  <1> DEFINE T == {table[s].place : s \in DOMAIN table}
             f == [s \in Joints |-> table[s].place]
  <1>3. \A s \in Joints : table[s].place \in Places /\ table[s].sign \in {1, -1}
    BY <1>1, <1>2 DEF Codec!Valid
  <1>4. Cardinality(T) = Len(table)
    <2>1. Codec!Cardinality(T) = Len(table) BY <1>1 DEF Codec!Valid
    <2> QED BY <2>1 DEF Cardinality, Codec!Cardinality
  <1>5. IsFiniteSet(Joints) /\ Cardinality(Joints) = Len(table)
    <2>1. Windows!Cardinality(Joints) = Len(table) BY <1>1, <1>2, FirstNumbers
    <2>2. Cardinality(Joints) = Len(table) BY <2>1 DEF Cardinality, Windows!Cardinality
    <2> QED BY <2>2, <1>1, <1>2, FS_Interval
  <1>6. f \in Surjection(Joints, T) BY <1>2 DEF Surjection
  <1>7. f \in Injection(Joints, T) BY <1>4, <1>5, <1>6, FS_Surjection
  <1>8. \A s, t \in Joints : f[s] = f[t] => s = t BY <1>7 DEF Injection, IsInjective
  <1> QED BY <1>2, <1>3, <1>8

\* The pose that a hand becomes.
PoseOf(hand) ==
  IF codecKind = "mano45" THEN [p \in Places |-> hand[p + 1]] ELSE Codec!Injected(hand)
Used == IF codecKind = "mano45" THEN Places ELSE {table[s].place : s \in DOMAIN table}
HandOf(pose) ==
  IF codecKind = "mano45" THEN [s \in 1..Codec!Cardinality(Places) |-> pose[s - 1]]
  ELSE Codec!Projected(pose)

\* A hand comes back from its pose, whatever is said in places without a joint.
LEMMA HandReturns ==
  ASSUME CodecTypes, NEW hand \in [Joints -> Int], NEW noise
  PROVE  HandOf([p \in Places |-> IF p \in Used THEN PoseOf(hand)[p] ELSE noise]) = hand
  <1> DEFINE pose == [p \in Places |-> IF p \in Used THEN PoseOf(hand)[p] ELSE noise]
  <1>1. CASE codecKind = "mano45"
    <2>1. Joints = 1..Codec!Cardinality(Places) BY <1>1 DEF CodecTypes
    <2>2. Places = 0..(Codec!Cardinality(Places) - 1) /\ Codec!Cardinality(Places) \in Nat
      BY CodecAssumption DEF Cardinality, Codec!Cardinality
    <2>3. ASSUME NEW s \in Joints PROVE pose[s - 1] = hand[s]
      <3>1. s - 1 \in Places /\ (s - 1) + 1 = s BY <2>1, <2>2
      <3>2. pose[s - 1] = [p \in Places |-> hand[p + 1]][s - 1] BY <3>1, <1>1 DEF Used, PoseOf
      <3> QED BY <3>1, <3>2
    <2> HIDE DEF pose
    <2>4. [s \in Joints |-> pose[s - 1]] = hand BY <2>3
    <2>5. HandOf(pose) = hand BY <2>1, <2>4, <1>1 DEF HandOf
    <2> QED BY <2>5 DEF pose
  <1>2. CASE codecKind # "mano45"
    <2>1. /\ DOMAIN table = Joints
          /\ \A s \in Joints : table[s].place \in Places /\ table[s].sign \in {1, -1}
          /\ \A s, t \in Joints : table[s].place = table[t].place => s = t
      BY <1>2, PlacesDiffer
    <2>2. ASSUME NEW s \in Joints PROVE pose[table[s].place] = table[s].sign * hand[s]
      <3> DEFINE p == table[s].place
      <3>1. p \in Places /\ p \in Used BY <2>1, <1>2 DEF Used
      <3>2. pose[p] = Codec!Injected(hand)[p] BY <3>1, <1>2 DEF PoseOf
      <3>3. (CHOOSE t \in Joints : table[t].place = p) = s BY <2>1
      <3>4. \E t \in Joints : table[t].place = p OBVIOUS
      <3>5. Codec!Injected(hand)[p] =
              IF \E t \in Joints : table[t].place = p
              THEN LET t == CHOOSE t \in Joints : table[t].place = p IN table[t].sign * hand[t]
              ELSE 0
        BY <3>1, <2>1 DEF Codec!Injected
      <3> HIDE DEF p
      <3> QED BY <3>2, <3>3, <3>4, <3>5 DEF p
    <2> HIDE DEF pose
    <2>3. ASSUME NEW s \in Joints PROVE table[s].sign * pose[table[s].place] = hand[s]
      <3>1. hand[s] \in Int /\ table[s].sign \in {1, -1} BY <2>1
      <3>2. pose[table[s].place] = table[s].sign * hand[s] BY <2>2
      <3>3. CASE table[s].sign = 1
        <4>1. pose[table[s].place] = 1 * hand[s] BY <3>2, <3>3
        <4>2. table[s].sign * pose[table[s].place] = 1 * (1 * hand[s]) BY <4>1, <3>3
        <4> QED BY <4>2, <3>1
      <3>4. CASE table[s].sign = -1
        <4>1. pose[table[s].place] = (-1) * hand[s] BY <3>2, <3>4
        <4>2. table[s].sign * pose[table[s].place] = (-1) * ((-1) * hand[s]) BY <4>1, <3>4
        <4> QED BY <4>2, <3>1
      <3> QED BY <3>1, <3>3, <3>4
    <2>4. [s \in Joints |-> table[s].sign * pose[table[s].place]] = hand BY <2>3
    <2>5. HandOf(pose) = hand BY <2>1, <2>4, <1>2 DEF HandOf, Codec!Projected
    <2> QED BY <2>5 DEF pose
  <1> QED BY <1>1, <1>2

\* The poses of a hand as seen from the camera of a frame, and the vector that
\* a row of labels becomes.
Wrist(f, h, t) == Codec!WristIn(Codec!AnchorCamera(f), h, rec.ee[h][t])
LoadedAt(f) ==
  [frame |-> f, state |-> Codec!Human(Codec!StateAt(Codec!AnchorCamera(f), f), Codec!Both),
   rows |-> [k \in 0..ChunkFuture |-> Codec!Row(f, f + k)]]
SeenIn(f) ==
  [frame |-> f, camera |-> Codec!AnchorCamera(f),
   state |-> Codec!Human(Codec!StateAt(Codec!AnchorCamera(f), f), Codec!Both),
   wrist |-> [h \in Codec!Sides |-> Wrist(f, h, f)]]

\* What the network says of a row, and the native row it becomes.
Said(k, h, noise) ==
  [sample.rows[k].value[h] EXCEPT !.pose = [p \in Places |-> IF p \in Used THEN @[p] ELSE noise]]
NativeRow(k, noise) == Codec!Native([h \in Codec!Sides |-> Said(k, h, noise)])
NativeRows(noise) == [k \in 0..ChunkFuture |-> NativeRow(k, noise)]

LEMMA RowValue ==
  ASSUME CodecTypes, NEW f, NEW t, t + 1 \in Codec!Frames, NEW h \in Codec!Sides
  PROVE  Codec!Row(f, t).value[h] =
           [wrist |-> Codec!StepDelta(Wrist(f, h, t), Wrist(f, h, t + 1)),
            pose |-> PoseOf(rec.command[h][t])]
  <1> DEFINE native == [g \in Codec!Sides |->
               [wrist |-> Codec!StepDelta(Wrist(f, g, t), Wrist(f, g, t + 1)),
                hand |-> rec.command[g][t]]]
  <1>1. Codec!Row(f, t) = Codec!Human(native, Codec!Both) BY DEF Codec!Row, Wrist
  <1>2. Codec!Both[h] = TRUE BY DEF Codec!Both
  <1>3. /\ native[h].wrist = Codec!StepDelta(Wrist(f, h, t), Wrist(f, h, t + 1))
        /\ native[h].hand = rec.command[h][t]
    OBVIOUS
  <1> HIDE DEF native
  <1>4. CASE codecKind = "mano45"
    <2>1. Codec!Row(f, t) = Codec!Padded(native, Codec!Both) BY <1>1, <1>4 DEF Codec!Human
    <2>2. Codec!Padded(native, Codec!Both).value[h] =
            [wrist |-> native[h].wrist, pose |-> [p \in Places |-> native[h].hand[p + 1]]]
      BY <1>2 DEF Codec!Padded
    <2> QED BY <2>1, <2>2, <1>3, <1>4 DEF PoseOf
  <1>5. CASE codecKind # "mano45"
    <2>1. Codec!Row(f, t) = Codec!Mapped(native, Codec!Both) BY <1>1, <1>5 DEF Codec!Human
    <2>2. Codec!Mapped(native, Codec!Both).value[h] =
            [wrist |-> native[h].wrist, pose |-> Codec!Injected(native[h].hand)]
      BY <1>2 DEF Codec!Mapped
    <2> QED BY <2>1, <2>2, <1>3, <1>5 DEF PoseOf
  <1> QED BY <1>4, <1>5

LEMMA RowReturns ==
  ASSUME CodecTypes, NEW f \in Codec!Frames, sample = LoadedAt(f), NEW noise,
         NEW k \in 0..ChunkFuture, f + k + 1 \in Codec!Frames, NEW h \in Codec!Sides
  PROVE  NativeRow(k, noise)[h] =
           [wrist |-> Codec!StepDelta(Wrist(f, h, f + k), Wrist(f, h, f + k + 1)),
            hand |-> rec.command[h][f + k]]
  <1> DEFINE hand == rec.command[h][f + k]
             wrist == Codec!StepDelta(Wrist(f, h, f + k), Wrist(f, h, f + k + 1))
             pose == [p \in Places |-> IF p \in Used THEN PoseOf(hand)[p] ELSE noise]
  <1>1. sample.rows[k] = Codec!Row(f, f + k) BY DEF LoadedAt
  <1>2. (f + k) + 1 \in Codec!Frames /\ f + k \in Codec!Frames
    BY RecordedPoses, CodecAssumption
  <1>3. sample.rows[k].value[h] = [wrist |-> wrist, pose |-> PoseOf(hand)]
    BY <1>1, <1>2, RowValue
  <1>4. hand \in [Joints -> Int] BY <1>2, RecordedPoses
  <1>5. HandOf(pose) = hand BY <1>4, HandReturns
  <1> HIDE DEF hand, wrist
  <1>6. Said(k, h, noise) = [wrist |-> wrist, pose |-> pose] BY <1>3 DEF Said
  <1> HIDE DEF pose
  <1> DEFINE said == [g \in Codec!Sides |-> Said(k, g, noise)]
  <1>7. said[h] = [wrist |-> wrist, pose |-> pose] BY <1>6
  <1>8. NativeRow(k, noise) = Codec!Native(said) BY DEF NativeRow
  <1> HIDE DEF said
  <1>9. Codec!Native(said)[h] = [wrist |-> said[h].wrist, hand |-> HandOf(said[h].pose)]
    BY DEF Codec!Native, Codec!Sliced, Codec!Unmapped, HandOf
  <1>10. NativeRow(k, noise)[h] = [wrist |-> wrist, hand |-> hand] BY <1>5, <1>7, <1>8, <1>9
  <1> QED BY <1>10 DEF wrist, hand

\* The poses from one that was observed on, step by step.
IsPath(p, n, h, lines) ==
  p = [k \in 0..n |-> IF k = 0 THEN seen.wrist[h]
                      ELSE Codec!Advance(p[k - 1], lines[k - 1][h].wrist)]
Path(h, lines) ==
  CHOOSE p : p = [k \in Nat |-> IF k = 0 THEN seen.wrist[h]
                                ELSE Codec!Advance(p[k - 1], lines[k - 1][h].wrist)]

LEMMA OnePath ==
  ASSUME NEW h, NEW lines, NEW n \in Nat, NEW f, IsPath(f, n, h, lines),
         NEW m \in Nat, NEW g, IsPath(g, m, h, lines)
  PROVE  \A e \in Nat : e <= n /\ e <= m => f[e] = g[e]
  <1> DEFINE T == {e \in Nat : e <= n /\ e <= m => f[e] = g[e]}
  <1>1. 0 \in T BY DEF IsPath
  <1>2. ASSUME NEW e \in Nat, e \in T PROVE e + 1 \in T
    <2> SUFFICES ASSUME e + 1 <= n, e + 1 <= m PROVE f[e + 1] = g[e + 1] OBVIOUS
    <2>1. f[e] = g[e] BY <1>2
    <2>2. f[e + 1] = Codec!Advance(f[e], lines[e][h].wrist) BY DEF IsPath
    <2>3. g[e + 1] = Codec!Advance(g[e], lines[e][h].wrist) BY DEF IsPath
    <2> QED BY <2>1, <2>2, <2>3
  <1> HIDE DEF T
  <1>3. \A e \in Nat : e \in T BY <1>1, <1>2, AllNumbers
  <1> QED BY <1>3 DEF T

LEMMA SomePath == ASSUME NEW h, NEW lines PROVE \A n \in Nat : \E f : IsPath(f, n, h, lines)
  <1> DEFINE T == {n \in Nat : \E f : IsPath(f, n, h, lines)}
  <1>1. 0 \in T
    <2>1. IsPath([e \in 0..0 |-> seen.wrist[h]], 0, h, lines) BY DEF IsPath
    <2> QED BY <2>1
  <1>2. ASSUME NEW n \in Nat, n \in T PROVE n + 1 \in T
    <2>1. PICK f : IsPath(f, n, h, lines) BY <1>2
    <2> DEFINE g == [e \in 0..(n + 1) |->
                       IF e = n + 1 THEN Codec!Advance(f[n], lines[n][h].wrist) ELSE f[e]]
    <2>2. ASSUME NEW e \in 0..(n + 1)
          PROVE  g[e] = IF e = 0 THEN seen.wrist[h] ELSE Codec!Advance(g[e - 1], lines[e - 1][h].wrist)
      <3>1. CASE e = n + 1 BY <3>1
      <3>2. CASE e = 0 BY <3>2, <2>1 DEF IsPath
      <3>3. CASE e \in 1..n
        <4>1. e \in 0..n /\ e # 0 /\ e - 1 \in 0..(n + 1) /\ e # n + 1 /\ e - 1 # n + 1
          BY <3>3
        <4>2. f = [k \in 0..n |-> IF k = 0 THEN seen.wrist[h]
                                  ELSE Codec!Advance(f[k - 1], lines[k - 1][h].wrist)]
          BY <2>1 DEF IsPath
        <4>3. f[e] = Codec!Advance(f[e - 1], lines[e - 1][h].wrist) BY <4>1, <4>2
        <4>4. g[e] = f[e] /\ g[e - 1] = f[e - 1] BY <4>1
        <4> QED BY <4>1, <4>3, <4>4
      <3> QED BY <3>1, <3>2, <3>3
    <2> DEFINE d == [e \in 0..(n + 1) |->
                       IF e = 0 THEN seen.wrist[h] ELSE Codec!Advance(g[e - 1], lines[e - 1][h].wrist)]
    <2>3. g = d BY <2>2
    <2>4. IsPath(g, n + 1, h, lines) BY <2>3 DEF IsPath
    <2> QED BY <2>4
  <1> HIDE DEF T
  <1>3. \A n \in Nat : n \in T BY <1>1, <1>2, AllNumbers
  <1> QED BY <1>3 DEF T

LEMMA PathIsDefined ==
  ASSUME NEW h, NEW lines
  PROVE  \A k \in Nat : Path(h, lines)[k] =
           IF k = 0 THEN seen.wrist[h] ELSE Codec!Advance(Path(h, lines)[k - 1], lines[k - 1][h].wrist)
  <1> DEFINE S(n) == CHOOSE f : IsPath(f, n, h, lines)
             c == [n \in Nat |-> S(n)[n]]
             d == [e \in Nat |-> IF e = 0 THEN seen.wrist[h]
                                 ELSE Codec!Advance(c[e - 1], lines[e - 1][h].wrist)]
  <1>1. \A n \in Nat : IsPath(S(n), n, h, lines) BY SomePath
  <1> HIDE DEF S
  <1>2. ASSUME NEW e \in Nat PROVE c[e] = d[e]
    <2>1. CASE e = 0 BY <2>1, <1>1 DEF IsPath
    <2>2. CASE e # 0
      <3>1. S(e)[e] = Codec!Advance(S(e)[e - 1], lines[e - 1][h].wrist) BY <1>1, <2>2 DEF IsPath
      <3>2. e - 1 \in Nat BY <2>2
      <3>3. S(e)[e - 1] = S(e - 1)[e - 1]
        <4>1. IsPath(S(e), e, h, lines) /\ IsPath(S(e - 1), e - 1, h, lines) BY <1>1, <3>2
        <4>2. e - 1 <= e OBVIOUS
        <4> HIDE DEF IsPath
        <4> QED BY <4>1, <4>2, <3>2, OnePath
      <3> QED BY <3>1, <3>2, <3>3, <2>2
    <2> QED BY <2>1, <2>2
  <1>3. c = d BY <1>2
  <1>4. c = [e \in Nat |-> IF e = 0 THEN seen.wrist[h]
                           ELSE Codec!Advance(c[e - 1], lines[e - 1][h].wrist)]
    BY <1>3
  <1> HIDE DEF c
  <1>5. Path(h, lines) = [e \in Nat |-> IF e = 0 THEN seen.wrist[h]
                           ELSE Codec!Advance(Path(h, lines)[e - 1], lines[e - 1][h].wrist)]
    BY <1>4 DEF Path
  <1> QED BY <1>5

LEMMA IntegratedIsPath ==
  ASSUME NEW h, NEW lines, NEW k \in DOMAIN lines
  PROVE  Codec!Integrated(h, lines)[k] = Path(h, lines)[k + 1]
  BY DEF Codec!Integrated, Path

\* The path that is followed is the recorded one, for as long as there is one.
LEMMA PathFollows ==
  ASSUME CodecTypes, NEW f \in Codec!Frames, sample = LoadedAt(f), seen = SeenIn(f), NEW noise,
         NEW k \in 0..ChunkFuture, f + k + 1 \in Codec!Frames, NEW h \in Codec!Sides
  PROVE  Path(h, NativeRows(noise))[k + 1] = Wrist(f, h, f + k + 1)
  <1> DEFINE path == Path(h, NativeRows(noise))
             T == {j \in Nat : j <= k + 1 => path[j] = Wrist(f, h, f + j)}
  <1>1. /\ Codec!Frames = 0..(FrameCount - 1) /\ FrameCount \in Nat
        /\ ChunkFuture \in Nat /\ f \in Nat /\ k \in Nat
    BY RecordedPoses, CodecAssumption
  <1>2. \A e \in Codec!Frames : Wrist(f, h, e) \in Codec!Poses
    <2> TAKE e \in Codec!Frames
    <2>1. Codec!AnchorCamera(f) \in Codec!Poses /\ rec.ee[h][e] \in Codec!Poses
          /\ Codec!WristMount(h) \in Codec!Poses
      BY RecordedPoses
    <2> QED BY <2>1, SeenAndBack DEF Wrist, Codec!WristIn
  <1>3. 0 \in T
    <2>1. path[0] = seen.wrist[h] BY PathIsDefined
    <2>2. f + 0 = f BY <1>1
    <2>3. seen.wrist[h] = Wrist(f, h, f) BY DEF SeenIn
    <2> HIDE DEF path
    <2> QED BY <2>1, <2>2, <2>3
  <1>4. ASSUME NEW j \in Nat, j \in T PROVE j + 1 \in T
    <2> SUFFICES ASSUME j + 1 <= k + 1 PROVE path[j + 1] = Wrist(f, h, f + (j + 1)) OBVIOUS
    <2>1. j \in 0..ChunkFuture /\ f + j \in Codec!Frames /\ f + j + 1 \in Codec!Frames
      BY <1>1
    <2>2. path[j] = Wrist(f, h, f + j) BY <1>4, <1>1
    <2>3. path[j + 1] = Codec!Advance(path[(j + 1) - 1], NativeRows(noise)[(j + 1) - 1][h].wrist)
      <3>1. j + 1 \in Nat /\ j + 1 # 0 OBVIOUS
      <3> QED BY <3>1, PathIsDefined
    <2>4. NativeRows(noise)[j][h].wrist = Codec!StepDelta(Wrist(f, h, f + j), Wrist(f, h, f + j + 1))
      <3>1. NativeRows(noise)[j] = NativeRow(j, noise) BY <2>1 DEF NativeRows
      <3>2. NativeRow(j, noise)[h] =
              [wrist |-> Codec!StepDelta(Wrist(f, h, f + j), Wrist(f, h, f + j + 1)),
               hand |-> rec.command[h][f + j]]
        BY <2>1, RowReturns
      <3> QED BY <3>1, <3>2
    <2>5. Codec!Advance(Wrist(f, h, f + j), Codec!StepDelta(Wrist(f, h, f + j), Wrist(f, h, f + j + 1)))
            = Wrist(f, h, f + j + 1)
      BY <2>1, <1>2, StepLeads
    <2>6. (j + 1) - 1 = j /\ f + (j + 1) = f + j + 1 BY <1>1
    <2> HIDE DEF path
    <2> QED BY <2>2, <2>3, <2>4, <2>5, <2>6
  <1> HIDE DEF T
  <1>5. k + 1 \in T BY <1>1, <1>3, <1>4, AllNumbers
  <1>6. f + (k + 1) = f + k + 1 /\ k + 1 <= k + 1 BY <1>1
  <1> HIDE DEF path
  <1>7. path[k + 1] = Wrist(f, h, f + (k + 1)) BY <1>5, <1>6 DEF T
  <1> QED BY <1>6, <1>7 DEF path

\* What answers bring back, and what samples and observations are.
Returned ==
  answer # None =>
    \A k \in 0..ChunkFuture :
      answer.frame + k + 1 \in Codec!Frames =>
        answer.command[k] = [h \in Codec!Sides |->
          [ee |-> rec.ee[h][answer.frame + k + 1],
           hand |-> rec.command[h][answer.frame + k]]]
OfFrames ==
  /\ sample # None => \E f \in Codec!Frames : sample = LoadedAt(f)
  /\ seen # None => \E f \in Codec!Frames : seen = SeenIn(f)
CodecInv == CodecTypes /\ OfFrames /\ Returned

LEMMA CodecBegins == TrainingInit => CodecInv
  <1> SUFFICES ASSUME TrainingInit PROVE CodecInv OBVIOUS
  <1>1. Codec!CodecInit BY DEF TrainingInit
  <1>2. rec \in CodecRecordings /\ Len(rec.hand["left"][0]) \in Nat
    BY <1>1, CodecAssumption DEF Codec!CodecInit
  <1>3. CASE codecKind = "mano45"
    <2>1. table = <<>> /\ Joints = 1..Codec!Cardinality(Places)
      BY <1>1, <1>3 DEF Codec!CodecInit, Joints
    <2> QED BY <1>1, <1>2, <1>3, <2>1 DEF Codec!CodecInit, CodecInv, CodecTypes, OfFrames, Returned
  <1>4. CASE codecKind # "mano45"
    <2>1. table \in Tables /\ Codec!Valid(table) /\ Joints = 1..Len(table)
      BY <1>1, <1>4 DEF Codec!CodecInit, Joints
    <2> QED BY <1>1, <1>2, <1>4, <2>1 DEF Codec!CodecInit, CodecInv, CodecTypes, OfFrames, Returned
  <1> QED BY <1>3, <1>4

\* Recording, mapping and representation stay as they are.
LEMMA CodecSame ==
  ASSUME UNCHANGED <<codecKind, rec, table>>
  PROVE  /\ CodecTypes' <=> CodecTypes
         /\ \A f : LoadedAt(f)' = LoadedAt(f) /\ SeenIn(f)' = SeenIn(f)
         /\ UNCHANGED answer => (Returned' <=> Returned)
         /\ Codec!Frames' = Codec!Frames
  <1>1. CodecTypes' <=> CodecTypes
    BY DEF CodecTypes, Joints, Codec!Valid, Codec!Frames
  <1>2. ASSUME NEW f PROVE LoadedAt(f)' = LoadedAt(f) /\ SeenIn(f)' = SeenIn(f)
    BY DEF LoadedAt, SeenIn, Wrist, Codec!Human, Codec!Mapped, Codec!Padded, Codec!Injected,
           Codec!StateAt, Codec!AnchorCamera, Codec!WristIn, Codec!WristMount, Codec!Row, Codec!Frames
  <1>3. UNCHANGED answer => (Returned' <=> Returned) BY DEF Returned, Codec!Frames
  <1>4. Codec!Frames' = Codec!Frames BY DEF Codec!Frames
  <1> QED BY <1>1, <1>2, <1>3, <1>4

LEMMA AnswerReturns ==
  ASSUME CodecInv, NEW noise, Codec!Answer(noise)
  PROVE  Returned'
  <1>1. /\ seen # None /\ sample # None /\ seen.frame = sample.frame
        /\ UNCHANGED <<codecKind, rec, table, sample, seen>>
        /\ answer' = [frame |-> seen.frame, rows |-> NativeRows(noise),
             command |-> [k \in 0..ChunkFuture |->
               [h \in Codec!Sides |->
                 Codec!Command(h, [g \in Codec!Sides |-> Codec!Integrated(g, NativeRows(noise))][h][k],
                               NativeRows(noise)[k][h].hand)]]]
    BY DEF Codec!Answer, NativeRows, NativeRow, Said, Used
  <1>2. PICK f \in Codec!Frames : sample = LoadedAt(f) BY <1>1 DEF CodecInv, OfFrames
  <1>3. seen = SeenIn(f)
    <2>1. PICK g \in Codec!Frames : seen = SeenIn(g) BY <1>1 DEF CodecInv, OfFrames
    <2>2. seen.frame = g /\ sample.frame = f BY <2>1, <1>2 DEF SeenIn, LoadedAt
    <2> QED BY <1>1, <2>1, <2>2
  <1>4. seen.frame = f /\ seen.camera = Codec!AnchorCamera(f) BY <1>3 DEF SeenIn
  <1>5. CodecTypes BY DEF CodecInv
  <1>6. ASSUME NEW k \in 0..ChunkFuture, f + k + 1 \in Codec!Frames, NEW h \in Codec!Sides
        PROVE  Codec!Command(h, [g \in Codec!Sides |-> Codec!Integrated(g, NativeRows(noise))][h][k],
                             NativeRows(noise)[k][h].hand)
                 = [ee |-> rec.ee[h][f + k + 1], hand |-> rec.command[h][f + k]]
    <2>1. NativeRows(noise)[k] = NativeRow(k, noise) /\ k \in DOMAIN NativeRows(noise)
      BY DEF NativeRows
    <2>2. NativeRow(k, noise)[h] =
              [wrist |-> Codec!StepDelta(Wrist(f, h, f + k), Wrist(f, h, f + k + 1)),
               hand |-> rec.command[h][f + k]]
      BY <1>2, <1>5, <1>6, RowReturns
    <2>3. NativeRows(noise)[k][h].hand = rec.command[h][f + k] BY <2>1, <2>2
    <2>4. Codec!Integrated(h, NativeRows(noise))[k] = Wrist(f, h, f + k + 1)
      <3>1. Codec!Integrated(h, NativeRows(noise))[k] = Path(h, NativeRows(noise))[k + 1]
        BY <2>1, IntegratedIsPath
      <3>2. Path(h, NativeRows(noise))[k + 1] = Wrist(f, h, f + k + 1)
        BY <1>2, <1>3, <1>5, <1>6, PathFollows
      <3> QED BY <3>1, <3>2
    <2>5. Codec!Times(Codec!Times(Codec!AnchorCamera(f), Wrist(f, h, f + k + 1)),
                      Codec!Inverse(Codec!WristMount(h))) = rec.ee[h][f + k + 1]
      <3>1. /\ Codec!AnchorCamera(f) \in Codec!Poses /\ rec.ee[h][f + k + 1] \in Codec!Poses
            /\ Codec!WristMount(h) \in Codec!Poses
        BY <1>5, <1>6, RecordedPoses
      <3> QED BY <3>1, SeenAndBack DEF Wrist, Codec!WristIn
    <2>6. [g \in Codec!Sides |-> Codec!Integrated(g, NativeRows(noise))][h][k]
            = Codec!Integrated(h, NativeRows(noise))[k]
      OBVIOUS
    <2> QED BY <2>3, <2>4, <2>5, <2>6, <1>4 DEF Codec!Command
  <1>7. answer'.frame = f BY <1>1, <1>4
  <1>8. ASSUME NEW k \in 0..ChunkFuture, f + k + 1 \in Codec!Frames
        PROVE  answer'.command[k] = [h \in Codec!Sides |->
                 [ee |-> rec.ee[h][f + k + 1], hand |-> rec.command[h][f + k]]]
    <2>1. answer'.command[k] = [h \in Codec!Sides |->
                 Codec!Command(h, [g \in Codec!Sides |-> Codec!Integrated(g, NativeRows(noise))][h][k],
                               NativeRows(noise)[k][h].hand)]
      BY <1>1
    <2> QED BY <2>1, <1>6, <1>8
  <1>9. Codec!Frames' = Codec!Frames /\ rec' = rec BY <1>1 DEF Codec!Frames
  <1> QED BY <1>7, <1>8, <1>9 DEF Returned

LEMMA CodecStepInv == ASSUME CodecInv, [Codec!CodecNext]_(Codec!codecVars) PROVE CodecInv'
  <1>1. ASSUME NEW f \in Codec!Frames, Codec!Load(f) PROVE CodecInv'
    <2>1. sample' = LoadedAt(f) /\ UNCHANGED <<codecKind, rec, table, seen, answer>>
      BY <1>1 DEF Codec!Load, LoadedAt
    <2>2. OfFrames'
      <3>1. LoadedAt(f)' = LoadedAt(f) /\ Codec!Frames' = Codec!Frames
            /\ \A g : SeenIn(g)' = SeenIn(g)
        BY <2>1, CodecSame
      <3> QED BY <2>1, <3>1 DEF CodecInv, OfFrames
    <2> QED BY <2>1, <2>2, CodecSame DEF CodecInv
  <1>2. ASSUME NEW f \in Codec!Frames, NEW extrinsics \in BOOLEAN, Codec!Observe(f, extrinsics)
        PROVE  CodecInv'
    <2>1. Codec!Camera(f, extrinsics) = Codec!AnchorCamera(f)
      BY <1>2 DEF Codec!Observe, Codec!Camera, Codec!AnchorCamera, CodecInv, CodecTypes
    <2>2. seen' = SeenIn(f) /\ UNCHANGED <<codecKind, rec, table, sample, answer>>
      BY <1>2, <2>1 DEF Codec!Observe, SeenIn, Wrist, Codec!StateAt
    <2>3. OfFrames'
      <3>1. SeenIn(f)' = SeenIn(f) /\ Codec!Frames' = Codec!Frames
            /\ \A g : LoadedAt(g)' = LoadedAt(g)
        BY <2>2, CodecSame
      <3> QED BY <2>2, <3>1 DEF CodecInv, OfFrames
    <2> QED BY <2>2, <2>3, CodecSame DEF CodecInv
  <1>3. ASSUME NEW noise \in {0, 1}, Codec!Answer(noise) PROVE CodecInv'
    <2>1. UNCHANGED <<codecKind, rec, table, sample, seen>> BY <1>3 DEF Codec!Answer
    <2>2. OfFrames'
      <3>1. Codec!Frames' = Codec!Frames
            /\ \A g : LoadedAt(g)' = LoadedAt(g) /\ SeenIn(g)' = SeenIn(g)
        BY <2>1, CodecSame
      <3> QED BY <2>1, <3>1 DEF CodecInv, OfFrames
    <2> QED BY <1>3, <2>1, <2>2, AnswerReturns, CodecSame DEF CodecInv
  <1>4. CASE UNCHANGED Codec!codecVars
    <2>1. UNCHANGED <<codecKind, rec, table, sample, seen, answer>> BY <1>4 DEF Codec!codecVars
    <2>2. OfFrames'
      <3>1. Codec!Frames' = Codec!Frames
            /\ \A g : LoadedAt(g)' = LoadedAt(g) /\ SeenIn(g)' = SeenIn(g)
        BY <2>1, CodecSame
      <3> QED BY <2>1, <3>1 DEF CodecInv, OfFrames
    <2> QED BY <2>1, <2>2, CodecSame DEF CodecInv
  <1> QED BY <1>1, <1>2, <1>3, <1>4 DEF Codec!CodecNext

\* What the network is trained with comes back as what was recorded, for any
\* recording, camera, mounting, mapping and chunk, through a policy that answers
\* as it was trained.
THEOREM ActionsAlwaysReturn == TrainingSpec => []ActionsReturn
  <1>1. CodecInv /\ [TrainingNext]_trainVars => CodecInv'
    BY PartSteps, CodecStepInv
  <1>2. CodecInv => ActionsReturn
    <2> SUFFICES ASSUME CodecInv PROVE ActionsReturn OBVIOUS
    <2>1. ASSUME seen # None, sample # None, seen.frame = sample.frame
          PROVE  seen.state = sample.state
      <3>1. PICK f \in Codec!Frames : sample = LoadedAt(f) BY <2>1 DEF CodecInv, OfFrames
      <3>2. PICK g \in Codec!Frames : seen = SeenIn(g) BY <2>1 DEF CodecInv, OfFrames
      <3> QED BY <2>1, <3>1, <3>2 DEF LoadedAt, SeenIn
    <2> QED BY <2>1 DEF CodecInv, Returned, ActionsReturn, Codec!ActionsReturn
  <1> QED BY <1>1, <1>2, CodecBegins, PTL DEF TrainingSpec
-----------------------------------------------------------------------------
(* The sampler of each rank.                                                *)

LEMMA DrawsAreDefined ==
  \A n \in Nat : Sampler!Draws[n] = IF n = 0 THEN 0 ELSE Sampler!Draws[n - 1] + SampleSize[n]
  <1>1. PICK f : TotalOf(f, SampleSize) BY TotalExists
  <1>2. Sampler!Draws = [n \in Nat |-> IF n = 0 THEN 0 ELSE Sampler!Draws[n - 1] + SampleSize[n]]
    BY <1>1 DEF TotalOf, Sampler!Draws
  <1> QED BY <1>2

LEMMA TotalSizeIsNumber == Sampler!TotalSize \in Nat
  <1> DEFINE c == Sampler!Draws
             L == Len(SampleSize)
             T == {n \in Nat : n <= L => c[n] \in Nat}
  <1>1. \A n \in Nat : c[n] = IF n = 0 THEN 0 ELSE c[n - 1] + SampleSize[n]
    BY DrawsAreDefined
  <1>2. L \in Nat /\ \A n \in 1..L : SampleSize[n] \in Nat
    <2>1. DOMAIN SampleSize = 1..Len(Length) /\ Len(Length) \in Nat BY SamplerAssumption
    <2>2. SampleSize \in Seq(Nat) BY <2>1, SamplerAssumption
    <2> QED BY <2>2
  <1>3. Sampler!TotalSize = c[L] BY DEF Sampler!TotalSize
  <1> HIDE DEF c, L
  <1>4. 0 \in T BY <1>1
  <1>5. ASSUME NEW n \in Nat, n \in T PROVE n + 1 \in T
    <2>1. c[n + 1] = c[n] + SampleSize[n + 1] BY <1>1
    <2> QED BY <2>1, <1>5, <1>2
  <1> HIDE DEF T
  <1>6. \A n \in Nat : n \in T BY <1>4, <1>5, AllNumbers
  <1>7. L \in T BY <1>6, <1>2
  <1> QED BY <1>7, <1>2, <1>3 DEF T

LEMMA ItersAreNumbers ==
  /\ Sampler!NumIters \in Nat /\ Sampler!NumSamples \in Nat
  /\ Sampler!NumIters * BatchSize \in Nat
  /\ Sampler!NumSamples = (Sampler!NumIters * BatchSize) * Replicas
  <1> DEFINE n == Sampler!NumIters
             z == Sampler!IterSize
             t == Sampler!TotalSize
  <1>1. z \in Nat \ {0} /\ z = BatchSize * Replicas
    BY SamplerAssumption DEF Sampler!IterSize
  <1>2. t \in Nat BY TotalSizeIsNumber
  <1>3. n = IF dropLast THEN t \div z ELSE (t + z - 1) \div z BY DEF Sampler!NumIters
  <1>4. Sampler!NumSamples = n * z BY DEF Sampler!NumSamples
  <1> HIDE DEF n, z, t
  <1>5. \A k \in Nat : k \div z \in Nat BY <1>1
  <1>6. t + z - 1 \in Nat BY <1>1, <1>2
  <1>7. n \in Nat BY <1>2, <1>3, <1>5, <1>6
  <1>8. n * z \in Nat /\ n * BatchSize \in Nat BY <1>1, <1>7, SamplerAssumption
  <1>9. n * (BatchSize * Replicas) = (n * BatchSize) * Replicas
    BY <1>7, SamplerAssumption
  <1> QED BY <1>1, <1>4, <1>7, <1>8, <1>9 DEF n

\* What a concatenation of sequences is, given what its beginnings are.
LEMMA FlattenIs ==
  ASSUME NEW seqs, NEW m \in Nat, m # 0, Len(seqs) = m,
         NEW g \in [1..m -> Seq(Int)],
         \A i \in 1..m : g[i] = IF i = 1 THEN seqs[i] ELSE g[i - 1] \o seqs[i]
  PROVE  Sampler!FlattenSeq(seqs) = g[m]
  <1> DEFINE P(f) == f = [i \in 1..Len(seqs) |-> IF i = 1 THEN seqs[i] ELSE f[i - 1] \o seqs[i]]
             h == CHOOSE f : P(f)
             T == {n \in Nat : n + 1 <= m => h[n + 1] = g[n + 1]}
  <1>1. P(g)
    <2> DEFINE f == [i \in 1..m |-> IF i = 1 THEN seqs[i] ELSE g[i - 1] \o seqs[i]]
    <2>1. g = f OBVIOUS
    <2> QED BY <2>1
  <1>2. P(h) BY <1>1
  <1>3. Sampler!FlattenSeq(seqs) = h[Len(seqs)] BY DEF Sampler!FlattenSeq
  <1>4. \A i \in 1..m : h[i] = IF i = 1 THEN seqs[i] ELSE h[i - 1] \o seqs[i] BY <1>2
  <1>5. \A i \in 1..m : g[i] = IF i = 1 THEN seqs[i] ELSE g[i - 1] \o seqs[i] OBVIOUS
  <1> HIDE DEF h
  <1>6. 0 \in T
    <2>1. 1 \in 1..m OBVIOUS
    <2>2. h[1] = seqs[1] BY <1>4, <2>1
    <2>3. g[1] = seqs[1] BY <1>5, <2>1
    <2> QED BY <2>2, <2>3
  <1>7. ASSUME NEW n \in Nat, n \in T PROVE n + 1 \in T
    <2> SUFFICES ASSUME (n + 1) + 1 <= m PROVE h[(n + 1) + 1] = g[(n + 1) + 1] OBVIOUS
    <2>1. h[n + 1] = g[n + 1] BY <1>7
    <2>2. (n + 1) + 1 \in 1..m /\ (n + 1) + 1 # 1 /\ ((n + 1) + 1) - 1 = n + 1 OBVIOUS
    <2>3. h[(n + 1) + 1] = h[n + 1] \o seqs[(n + 1) + 1] BY <1>4, <2>2
    <2>4. g[(n + 1) + 1] = g[n + 1] \o seqs[(n + 1) + 1] BY <1>5, <2>2
    <2> QED BY <2>1, <2>3, <2>4
  <1> HIDE DEF T
  <1>8. m - 1 \in T
    <2>1. \A n \in Nat : n \in T BY <1>6, <1>7, AllNumbers
    <2>2. m - 1 \in Nat OBVIOUS
    <2> QED BY <2>1, <2>2
  <1>9. (m - 1) + 1 = m /\ (m - 1) + 1 <= m OBVIOUS
  <1> QED BY <1>3, <1>8, <1>9 DEF T

\* Draw n of a dataset, when all its permutations are laid end to end.
Draw(d, n) == Sampler!CreateIndices(d, n \div Length[d])[(n % Length[d]) + 1]

LEMMA PermutationIs ==
  ASSUME NEW d \in DOMAIN Length, NEW round \in Nat
  PROVE  /\ Length[d] \in Nat \ {0}
         /\ Sampler!CreateIndices(d, round) \in Seq(Int)
         /\ Len(Sampler!CreateIndices(d, round)) = Length[d]
         /\ \A j \in 0..(Length[d] - 1) :
              Sampler!CreateIndices(d, round)[j + 1] = Draw(d, round * Length[d] + j)
  <1> DEFINE n == Length[d]
             p == Sampler!CreateIndices(d, round)
  <1>1. n \in Nat \ {0} /\ d \in Nat BY SamplerAssumption
  <1>2. p = [i \in 1..n |-> (i + (round + d)) % n] BY DEF Sampler!CreateIndices
  <1>3. \A i \in 1..n : (i + (round + d)) % n \in Int
    <2> TAKE i \in 1..n
    <2>1. i + (round + d) \in Int BY <1>1
    <2> HIDE DEF n
    <2> QED BY <1>1, <2>1
  <1>4. p \in [1..n -> Int] BY <1>2, <1>3
  <1>5. p \in Seq(Int) /\ Len(p) = n
    <2> HIDE DEF p, n
    <2> QED BY <1>1, <1>4
  <1>6. ASSUME NEW j \in 0..(n - 1) PROVE p[j + 1] = Draw(d, round * n + j)
    <2>1. (round * n + j) \div n = round /\ (round * n + j) % n = j
      BY <1>1, QuotientAndRest
    <2> QED BY <2>1 DEF Draw
  <1> QED BY <1>1, <1>5, <1>6

\* The slice of a round is the draws from one to another.
LEMMA SliceIs ==
  ASSUME NEW d \in DOMAIN Length, NEW round \in Nat,
         NEW a \in 1..(Length[d] + 1), NEW b \in 0..Length[d], a <= b + 1
  PROVE  LET s == SubSeq(Sampler!CreateIndices(d, round), a, b)
         IN  /\ s \in Seq(Int) /\ Len(s) = b - a + 1
             /\ \A i \in 1..(b - a + 1) : s[i] = Draw(d, round * Length[d] + (a - 1) + (i - 1))
  <1> DEFINE n == Length[d]
             p == Sampler!CreateIndices(d, round)
             s == SubSeq(p, a, b)
  <1>1. /\ n \in Nat \ {0} /\ p \in Seq(Int) /\ Len(p) = n
        /\ \A j \in 0..(n - 1) : p[j + 1] = Draw(d, round * n + j)
    BY PermutationIs
  <1>2. round * n \in Nat BY <1>1
  <1> HIDE DEF p
  <1>3. a \in 1..(Len(p) + 1) /\ b \in (a - 1)..Len(p) BY <1>1
  <1>4. /\ s \in Seq(Int) /\ Len(s) = b - a + 1
        /\ \A i \in 1..(b - a + 1) : s[i] = p[a + i - 1]
    BY <1>1, <1>3, SubSeqProperties
  <1>5. ASSUME NEW i \in 1..(b - a + 1)
        PROVE  s[i] = Draw(d, round * n + (a - 1) + (i - 1))
    <2>1. (a - 1) + (i - 1) \in 0..(n - 1) /\ ((a - 1) + (i - 1)) + 1 = a + i - 1 BY <1>1
    <2>2. p[a + i - 1] = Draw(d, round * n + ((a - 1) + (i - 1))) BY <1>1, <2>1
    <2>3. round * n + ((a - 1) + (i - 1)) = round * n + (a - 1) + (i - 1) BY <1>2
    <2> QED BY <1>4, <2>2, <2>3
  <1> HIDE DEF s, n
  <1> QED BY <1>4, <1>5 DEF s, n, p

LEMMA DrawIsInt ==
  ASSUME NEW d \in DOMAIN Length, NEW x \in Nat PROVE Draw(d, x) \in Int
  <1> DEFINE n == Length[d]
  <1>1. n \in Nat \ {0} BY PermutationIs
  <1>2. x \div n \in Nat /\ x % n \in 0..(n - 1) /\ x = (x \div n) * n + (x % n)
    BY <1>1, QuotientTimes
  <1>3. /\ Sampler!CreateIndices(d, x \div n) \in Seq(Int)
        /\ Len(Sampler!CreateIndices(d, x \div n)) = n
    BY <1>2, PermutationIs
  <1>4. (x % n) + 1 \in 1..n
    <2> HIDE DEF n
    <2> QED BY <1>1, <1>2
  <1> QED BY <1>3, <1>4, ElementOfSeq DEF Draw

\* What an epoch takes of a dataset is the draws from one to another, over as
\* many rounds as they reach.
LEMMA RangeIsDraws ==
  ASSUME NEW d \in DOMAIN Length, NEW start \in Nat, NEW size \in Nat
  PROVE  Sampler!CreateIndicesRange(d, start, start + size) = [i \in 1..size |-> Draw(d, start + i - 1)]
  <1> DEFINE n == Length[d]
             end == start + size
             q == start \div n
             s == start % n
             last == Sampler!Boundary(d, end)
             m == last.round - q + 1
             From(k) == IF q + k - 1 = q THEN s + 1 ELSE 1
             Upto(k) == IF q + k - 1 = last.round THEN last.idx ELSE n
             slices == [k \in 1..m |-> SubSeq(Sampler!CreateIndices(d, q + k - 1), From(k), Upto(k))]
             Before(k) == (q + k - 1) * n
             Drawn(k) == IF k = m THEN size ELSE Before(k) + n - start
             Taken(k) == [i \in 1..Drawn(k) |-> Draw(d, start + i - 1)]
             g == [k \in 1..m |-> Taken(k)]
  <1>1. n \in Nat \ {0} BY PermutationIs
  <1>2. q \in Nat /\ s \in 0..(n - 1) /\ start = q * n + s
    <2> HIDE DEF n
    <2> QED BY <1>1, QuotientTimes
  <1>3. end \in Nat /\ end = start + size OBVIOUS
  <1>4. last.round \in Int /\ last.idx \in 1..n /\ last.round * n + last.idx = end
    <2>1. end \div n \in Nat /\ end % n \in 0..(n - 1) /\ end = (end \div n) * n + (end % n)
      <3> HIDE DEF n, end
      <3> QED BY <1>1, <1>3, QuotientTimes
    <2>2. last = IF end % n = 0 THEN [round |-> end \div n - 1, idx |-> n]
                 ELSE [round |-> end \div n, idx |-> end % n]
      BY DEF Sampler!Boundary
    <2>3. (end \div n - 1) * n + n = (end \div n) * n
      <3> HIDE DEF n, end
      <3> QED BY <1>1, <2>1
    <2> HIDE DEF last, end, n
    <2>4. CASE end % n = 0
      <3>1. last.round = end \div n - 1 /\ last.idx = n BY <2>2, <2>4
      <3> QED BY <3>1, <2>1, <2>3, <2>4, <1>1, <1>3
    <2>5. CASE end % n # 0
      <3>1. last.round = end \div n /\ last.idx = end % n BY <2>2, <2>5
      <3> QED BY <3>1, <2>1, <2>5, <1>1, <1>3
    <2> QED BY <2>4, <2>5
  <1>5. Sampler!CreateIndicesRange(d, start, end) = Sampler!FlattenSeq(slices)
    <2>1. Sampler!FirstIdx(d, start) = s + 1 BY DEF Sampler!FirstIdx
    <2> QED BY <2>1 DEF Sampler!CreateIndicesRange
  <1>6. ASSUME NEW x \in Nat PROVE Draw(d, x) \in Int BY DrawIsInt
  <1> HIDE DEF n, q, s, end, last
  <1>7. q * n \in Nat /\ last.round * n \in Int /\ last.round * n + last.idx = q * n + s + size
    <2>1. q * n \in Nat BY <1>1, <1>2
    <2>2. last.round * n \in Int BY <1>1, <1>4
    <2> QED BY <2>1, <2>2, <1>2, <1>3, <1>4
  <1>8. m \in Nat
    <2> SUFFICES ASSUME last.round < q - 1 PROVE FALSE BY <1>2, <1>4
    <2>1. last.round <= q - 2 BY <1>2, <1>4
    <2>2. last.round * n <= (q - 2) * n BY <2>1, <1>1, <1>2, <1>4, TimesOrdered
    <2>3. (q - 2) * n = q * n - n - n
      <3>1. (q - 1) * n = q * n - n BY <1>1, <1>2, TimesNext
      <3>2. ((q - 1) - 1) * n = (q - 1) * n - n BY <1>1, <1>2, TimesNext
      <3>3. (q - 1) - 1 = q - 2 BY <1>2
      <3> QED BY <3>1, <3>2, <3>3
    <2> QED BY <2>2, <2>3, <1>1, <1>2, <1>4, <1>7
  <1>9. CASE m = 0
    <2>1. last.round = q - 1 BY <1>9, <1>2, <1>4
    <2>2. last.round * n = q * n - n BY <2>1, <1>1, <1>2, TimesNext
    <2>3. size = 0 BY <2>2, <1>1, <1>2, <1>4, <1>7
    <2>4. slices = <<>> BY <1>9
    <2>5. Sampler!FlattenSeq(slices) = slices BY <2>4 DEF Sampler!FlattenSeq
    <2>6. [i \in 1..size |-> Draw(d, start + i - 1)] = <<>> BY <2>3
    <2> QED BY <1>5, <2>4, <2>5, <2>6 DEF end
  <1>10. CASE m # 0
    <2>1. /\ Before(1) = q * n /\ Before(m) = last.round * n
          /\ \A k \in 1..m : Before(k) \in Int /\ q * n <= Before(k)
          /\ \A k \in 2..m : Before(k) = Before(k - 1) + n
      <3>1. q + 1 - 1 = q /\ q + m - 1 = last.round BY <1>2, <1>4
      <3>2. ASSUME NEW k \in 1..m PROVE Before(k) \in Int /\ q * n <= Before(k)
        <4>1. q + k - 1 \in Int /\ q <= q + k - 1 BY <1>2, <1>8
        <4> QED BY <4>1, <1>1, <1>2, TimesOrdered
      <3>3. ASSUME NEW k \in 2..m PROVE Before(k) = Before(k - 1) + n
        <4>1. q + (k - 1) - 1 \in Int /\ (q + (k - 1) - 1) + 1 = q + k - 1 BY <1>2, <1>8
        <4> QED BY <4>1, <1>1, TimesNext
      <3> QED BY <3>1, <3>2, <3>3
    <2>2. /\ From(1) = s + 1 /\ \A k \in 2..m : From(k) = 1
          /\ Upto(m) = last.idx /\ \A k \in 1..(m - 1) : Upto(k) = n
          /\ \A k \in 1..m : From(k) \in 1..n /\ Upto(k) \in 1..n
      BY <1>1, <1>2, <1>4, <1>8, <1>10
    <2>3. \A k \in 1..m : From(k) <= Upto(k) + 1
      <3> SUFFICES ASSUME m = 1 PROVE From(1) <= Upto(1) + 1 BY <2>2, <1>1, <1>2, <1>8, <1>10
      <3>1. last.idx = s + size BY <2>1, <1>1, <1>2, <1>4, <1>7
      <3> QED BY <3>1, <2>2, <1>2
    <2>4. \A k \in 1..m :
            /\ slices[k] \in Seq(Int) /\ Len(slices[k]) = Upto(k) - From(k) + 1
            /\ \A i \in 1..(Upto(k) - From(k) + 1) :
                 slices[k][i] = Draw(d, Before(k) + (From(k) - 1) + (i - 1))
      <3> TAKE k \in 1..m
      <3>1. q + k - 1 \in Nat BY <1>2, <1>8
      <3>2. From(k) \in 1..(n + 1) /\ Upto(k) \in 0..n /\ From(k) <= Upto(k) + 1
        BY <2>2, <2>3, <1>1
      <3> HIDE DEF From, Upto
      <3> QED BY <3>1, <3>2, SliceIs DEF n
    <2>5. /\ Drawn(1) = Upto(1) - From(1) + 1
          /\ \A k \in 2..m : Drawn(k) = Drawn(k - 1) + Upto(k) /\ start + Drawn(k - 1) = Before(k)
          /\ \A k \in 1..m : Drawn(k) \in Nat
      <3>1. Before(1) + s = start /\ Before(m) + last.idx = start + size
        BY <2>1, <1>2, <1>7
      <3>2. \A k \in 1..m : Before(k) \in Int /\ Before(1) <= Before(k)
        BY <2>1
      <3>3. m \in 1..m /\ 1 \in 1..m /\ s \in 0..(n - 1) /\ last.idx \in 1..n /\ n \in Nat
        BY <1>1, <1>2, <1>4, <1>8, <1>10
      <3> HIDE DEF Before, From, Upto, m
      <3>4. Drawn(1) = Upto(1) - From(1) + 1
        <4>1. CASE m = 1
          <5>1. Drawn(1) = size /\ Upto(1) = last.idx /\ From(1) = s + 1 BY <4>1, <2>2
          <5>2. Before(1) \in Int /\ Before(1) + last.idx = start + size BY <4>1, <3>1, <3>2
          <5> QED BY <5>1, <5>2, <3>1, <3>3
        <4>2. CASE m # 1
          <5>1. 1 \in 1..(m - 1) BY <4>2, <3>3, <1>8
          <5>2. Drawn(1) = Before(1) + n - start /\ Upto(1) = n /\ From(1) = s + 1
            BY <5>1, <4>2, <2>2
          <5>3. Before(1) \in Int BY <3>2, <3>3
          <5> QED BY <5>2, <5>3, <3>1, <3>3
        <4> QED BY <4>1, <4>2
      <3>5. ASSUME NEW k \in 2..m
            PROVE  Drawn(k) = Drawn(k - 1) + Upto(k) /\ start + Drawn(k - 1) = Before(k)
        <4>1. k - 1 \in 1..m /\ k - 1 # m /\ k \in 1..m BY <1>8
        <4>2. Before(k) = Before(k - 1) + n /\ Before(k - 1) \in Int BY <2>1, <3>2, <4>1
        <4>3. Drawn(k - 1) = Before(k - 1) + n - start BY <4>1
        <4>4. Drawn(k - 1) = Before(k) - start BY <4>2, <4>3, <3>3
        <4>5. CASE k = m
          <5>1. Drawn(k) = size /\ Upto(k) = last.idx BY <4>5, <2>2
          <5>2. Before(k) \in Int /\ Before(k) + last.idx = start + size BY <4>5, <3>1, <3>2, <3>3
          <5> QED BY <5>1, <5>2, <4>4, <3>3
        <4>6. CASE k # m
          <5>1. k \in 1..(m - 1) BY <4>6, <1>8
          <5>2. Drawn(k) = Before(k) + n - start /\ Upto(k) = n BY <4>6, <5>1, <2>2
          <5>3. Before(k) \in Int BY <4>1, <3>2
          <5> QED BY <5>2, <5>3, <4>4, <3>3
        <4> QED BY <4>5, <4>6
      <3>6. ASSUME NEW k \in 1..m PROVE Drawn(k) \in Nat
        <4>1. Before(1) <= Before(k) /\ Before(k) \in Int /\ Before(1) \in Int BY <3>2, <3>3
        <4> QED BY <4>1, <3>1, <3>3
      <3> QED BY <3>4, <3>5, <3>6
    <2>6. \A k \in 1..m : Taken(k) \in Seq(Int) /\ Len(Taken(k)) = Drawn(k)
      <3> TAKE k \in 1..m
      <3>1. Drawn(k) \in Nat BY <2>5
      <3> HIDE DEF Drawn
      <3>2. \A i \in 1..Drawn(k) : Draw(d, start + i - 1) \in Int BY <1>6, <3>1
      <3> QED BY <3>1, <3>2
    <2> HIDE DEF From, Upto, Before, Drawn, slices, m
    <2>7. Taken(1) = slices[1]
      <3>1. 1 \in 1..m BY <1>8, <1>10
      <3>2. ASSUME NEW i \in 1..Drawn(1) PROVE Taken(1)[i] = slices[1][i]
        <4>1. start + i - 1 = Before(1) + (From(1) - 1) + (i - 1)
          BY <2>1, <2>2, <1>2, <1>7
        <4> QED BY <4>1, <3>1, <2>4, <2>5
      <3>3. Len(slices[1]) = Drawn(1) /\ slices[1] \in Seq(Int) BY <3>1, <2>4, <2>5
      <3>4. Len(Taken(1)) = Drawn(1) /\ Taken(1) \in Seq(Int) BY <3>1, <2>6
      <3> HIDE DEF Taken
      <3> QED BY <3>2, <3>3, <3>4, SeqEqual
    <2>8. ASSUME NEW k \in 2..m PROVE Taken(k) = Taken(k - 1) \o slices[k]
      <3>1. k \in 1..m /\ k - 1 \in 1..m BY <1>8
      <3>2. /\ Taken(k - 1) \in Seq(Int) /\ Len(Taken(k - 1)) = Drawn(k - 1)
            /\ slices[k] \in Seq(Int) /\ Len(slices[k]) = Upto(k)
            /\ Drawn(k) = Drawn(k - 1) + Upto(k) /\ start + Drawn(k - 1) = Before(k)
            /\ Drawn(k - 1) \in Nat /\ Upto(k) \in Nat
        <4>1. Taken(k - 1) \in Seq(Int) /\ Len(Taken(k - 1)) = Drawn(k - 1) /\ Drawn(k - 1) \in Nat
          BY <3>1, <2>5, <2>6
        <4>2. Drawn(k) = Drawn(k - 1) + Upto(k) /\ start + Drawn(k - 1) = Before(k) BY <2>5
        <4>3. Upto(k) \in 1..n /\ From(k) = 1 BY <3>1, <2>2
        <4>4. slices[k] \in Seq(Int) /\ Len(slices[k]) = Upto(k) - From(k) + 1 BY <3>1, <2>4
        <4> HIDE DEF Taken
        <4> QED BY <4>1, <4>2, <4>3, <4>4, <1>1
      <3>3. ASSUME NEW i \in 1..Upto(k) PROVE Taken(k)[Drawn(k - 1) + i] = slices[k][i]
        <4>1. Drawn(k - 1) + i \in 1..Drawn(k) BY <3>2
        <4>2. Taken(k)[Drawn(k - 1) + i] = Draw(d, start + (Drawn(k - 1) + i) - 1) BY <4>1
        <4>3. slices[k][i] = Draw(d, Before(k) + (From(k) - 1) + (i - 1))
          BY <3>1, <3>2, <2>2, <2>4
        <4>4. start + (Drawn(k - 1) + i) - 1 = Before(k) + (From(k) - 1) + (i - 1)
          BY <3>2, <2>2, <2>1
        <4> QED BY <4>2, <4>3, <4>4
      <3>4. ASSUME NEW i \in 1..Drawn(k - 1) PROVE Taken(k)[i] = Taken(k - 1)[i]
        <4>1. i \in 1..Drawn(k) BY <3>2
        <4> QED BY <4>1
      <3>5. Taken(k) \in Seq(Int) /\ Len(Taken(k)) = Drawn(k) BY <3>1, <2>6
      <3> HIDE DEF Taken
      <3>6. /\ Taken(k - 1) \o slices[k] \in Seq(Int)
            /\ Len(Taken(k - 1) \o slices[k]) = Drawn(k - 1) + Upto(k)
            /\ \A i \in 1..Drawn(k - 1) : (Taken(k - 1) \o slices[k])[i] = Taken(k - 1)[i]
            /\ \A i \in 1..Upto(k) : (Taken(k - 1) \o slices[k])[Drawn(k - 1) + i] = slices[k][i]
        <4> DEFINE t == Taken(k - 1)
                   u == slices[k]
                   x == Drawn(k - 1)
                   y == Upto(k)
        <4>1. x \in Nat /\ y \in Nat /\ t \in Seq(Int) /\ u \in Seq(Int) /\ Len(t) = x /\ Len(u) = y
          BY <3>2
        <4> HIDE DEF t, u, x, y
        <4>2. /\ t \o u \in Seq(Int) /\ Len(t \o u) = Len(t) + Len(u)
              /\ \A i \in 1..(Len(t) + Len(u)) :
                   (t \o u)[i] = IF i <= Len(t) THEN t[i] ELSE u[i - Len(t)]
          BY <4>1, ConcatProperties
        <4>3. ASSUME NEW i \in 1..x PROVE (t \o u)[i] = t[i] BY <4>1, <4>2
        <4>4. ASSUME NEW i \in 1..y PROVE (t \o u)[x + i] = u[i]
          <5>1. x + i \in 1..(x + y) /\ ~ (x + i <= x) /\ (x + i) - x = i BY <4>1
          <5> QED BY <5>1, <4>1, <4>2
        <4> QED BY <4>1, <4>2, <4>3, <4>4 DEF t, u, x, y
      <3>7. ASSUME NEW i \in 1..Drawn(k) PROVE Taken(k)[i] = (Taken(k - 1) \o slices[k])[i]
        <4>1. CASE i \in 1..Drawn(k - 1) BY <4>1, <3>4, <3>6
        <4>2. CASE i \notin 1..Drawn(k - 1)
          <5>1. i - Drawn(k - 1) \in 1..Upto(k) /\ i = Drawn(k - 1) + (i - Drawn(k - 1))
            BY <4>2, <3>2
          <5> QED BY <5>1, <3>3, <3>6
        <4> QED BY <4>1, <4>2
      <3> QED BY <3>2, <3>5, <3>6, <3>7, SeqEqual
    <2>9. ASSUME NEW k \in 1..m
          PROVE  g[k] = IF k = 1 THEN slices[k] ELSE g[k - 1] \o slices[k]
      <3>1. g[k] = Taken(k) OBVIOUS
      <3>2. CASE k = 1 BY <3>1, <3>2, <2>7
      <3>3. CASE k # 1
        <4>1. k \in 2..m /\ k - 1 \in 1..m BY <3>3, <1>8
        <4>2. g[k - 1] = Taken(k - 1) BY <4>1
        <4> HIDE DEF g, Taken
        <4> QED BY <3>1, <4>1, <4>2, <3>3, <2>8
      <3> QED BY <3>2, <3>3
    <2>10. Len(slices) = m BY <1>8 DEF slices
    <2>11. g[m] = Taken(m) /\ Drawn(m) = size
      <3>1. m \in 1..m BY <1>8, <1>10
      <3>2. Drawn(m) = size BY DEF Drawn
      <3> HIDE DEF Taken
      <3> QED BY <3>1, <3>2
    <2> HIDE DEF g
    <2>12. Sampler!FlattenSeq(slices) = g[m]
      <3>1. g \in [1..m -> Seq(Int)]
        <4>1. \A k \in 1..m : Taken(k) \in Seq(Int) BY <2>6
        <4> HIDE DEF Taken
        <4> QED BY <4>1 DEF g
      <3>2. \A k \in 1..m : g[k] = IF k = 1 THEN slices[k] ELSE g[k - 1] \o slices[k] BY <2>9
      <3> QED BY <3>1, <3>2, <2>10, <1>8, <1>10, FlattenIs
    <2> QED BY <1>5, <2>11, <2>12 DEF end
  <1> QED BY <1>9, <1>10

\* A share of an epoch: the batches of a rank's shard from one to another.
RanksOf == Sampler!RankIds
ShardLength == Sampler!NumIters * BatchSize
Items == {Sampler!Shard(e, r)[i] : e \in 0..MaxEpoch, r \in RanksOf, i \in 1..ShardLength}
Share(e, r, from, to) ==
  [i \in 1..((to - from) * BatchSize) |-> Sampler!Shard(e, r)[from * BatchSize + i]]

\* The batches of an epoch that a rank has come to.
Reached(r, e) == IF e < rankEpoch[r] THEN Sampler!NumIters ELSE rankStep[r]

SamplerTypes ==
  /\ rankEpoch \in [RanksOf -> 0..MaxEpoch] /\ rankStep \in [RanksOf -> 0..Sampler!NumIters]
  /\ yielded \in [RanksOf -> [0..MaxEpoch -> Seq(Items)]]
\* Of every epoch a rank has yielded a share up to where it is, and from its
\* start on unless it was resumed in that epoch.
ShareOf(r, e, from) ==
  /\ from \in 0..Reached(r, e) /\ yielded[r][e] = Share(e, r, from, Reached(r, e))
  /\ from = 0 \/ \A earlier \in 0..(e - 1) : yielded[r][earlier] = <<>>
Shares ==
  \A r \in RanksOf, e \in 0..MaxEpoch :
    IF e > rankEpoch[r] THEN yielded[r][e] = <<>> ELSE \E from : ShareOf(r, e, from)
SamplerInv == SamplerTypes /\ Shares

LEMMA BatchNumbers ==
  ASSUME NEW from \in Nat, NEW to \in Nat, from <= to, to <= Sampler!NumIters
  PROVE  /\ from * BatchSize \in Nat /\ to * BatchSize \in Nat /\ ShardLength \in Nat
         /\ (to - from) * BatchSize = to * BatchSize - from * BatchSize
         /\ from * BatchSize <= to * BatchSize /\ to * BatchSize <= ShardLength
  <1> DEFINE n == Sampler!NumIters
  <1>1. n \in Nat /\ BatchSize \in Nat BY ItersAreNumbers, SamplerAssumption
  <1>2. ShardLength = n * BatchSize BY DEF ShardLength
  <1> HIDE DEF n
  <1>3. from * BatchSize \in Nat /\ to * BatchSize \in Nat /\ n * BatchSize \in Nat BY <1>1
  <1>4. from * BatchSize <= to * BatchSize BY <1>1, TimesOrdered
  <1>5. to * BatchSize <= n * BatchSize BY <1>1, TimesOrdered DEF n
  <1>6. (to - from) * BatchSize = to * BatchSize - from * BatchSize BY <1>1, SMTT(60)
  <1> QED BY <1>2, <1>3, <1>4, <1>5, <1>6

LEMMA ItemsOfShard ==
  \A e \in 0..MaxEpoch, r \in RanksOf, i \in 1..ShardLength : Sampler!Shard(e, r)[i] \in Items
  BY DEF Items

LEMMA ShareIs ==
  ASSUME NEW e \in 0..MaxEpoch, NEW r \in RanksOf,
         NEW from \in Nat, NEW to \in Nat, from <= to, to <= Sampler!NumIters
  PROVE  /\ Share(e, r, from, to) \in Seq(Items)
         /\ Len(Share(e, r, from, to)) = to * BatchSize - from * BatchSize
         /\ DOMAIN Share(e, r, from, to) = 1..(to * BatchSize - from * BatchSize)
         /\ \A i \in 1..(to * BatchSize - from * BatchSize) :
              Share(e, r, from, to)[i] = Sampler!Shard(e, r)[from * BatchSize + i]
  <1> DEFINE a == from * BatchSize
             b == to * BatchSize
             s == Share(e, r, from, to)
  <1>1. /\ a \in Nat /\ b \in Nat /\ a <= b /\ b <= ShardLength /\ ShardLength \in Nat
        /\ (to - from) * BatchSize = b - a
    BY BatchNumbers
  <1>2. s = [i \in 1..(b - a) |-> Sampler!Shard(e, r)[a + i]] BY <1>1 DEF Share
  <1> HIDE DEF a, b, s
  <1>3. \A i \in 1..(b - a) : Sampler!Shard(e, r)[a + i] \in Items
    <2> TAKE i \in 1..(b - a)
    <2>1. a + i \in 1..ShardLength BY <1>1
    <2> QED BY <2>1, ItemsOfShard
  <1>4. b - a \in Nat BY <1>1
  <1>5. s \in Seq(Items) /\ Len(s) = b - a BY <1>2, <1>3, <1>4
  <1> QED BY <1>2, <1>4, <1>5 DEF a, b, s

LEMMA NoShare ==
  ASSUME NEW e, NEW r, NEW n \in Nat PROVE Share(e, r, n, n) = <<>>
  <1>1. (n - n) * BatchSize = 0 BY SamplerAssumption
  <1> QED BY <1>1 DEF Share

LEMMA ShareGrows ==
  ASSUME NEW e \in 0..MaxEpoch, NEW r \in RanksOf,
         NEW from \in Nat, NEW to \in Nat, from <= to, to < Sampler!NumIters
  PROVE  Share(e, r, from, to) \o SubSeq(Sampler!Shard(e, r), to * BatchSize + 1, (to + 1) * BatchSize)
           = Share(e, r, from, to + 1)
  <1> DEFINE a == from * BatchSize
             b == to * BatchSize
             c == (to + 1) * BatchSize
             p == Sampler!Shard(e, r)
             s == Share(e, r, from, to)
             t == SubSeq(p, b + 1, c)
             u == Share(e, r, from, to + 1)
  <1>1. to + 1 <= Sampler!NumIters /\ to <= Sampler!NumIters /\ to + 1 \in Nat
        /\ from <= to + 1
    BY ItersAreNumbers
  <1>2. /\ a \in Nat /\ b \in Nat /\ a <= b /\ c \in Nat /\ c <= ShardLength /\ ShardLength \in Nat
    BY <1>1, BatchNumbers
  <1>3. c = b + BatchSize /\ BatchSize \in Nat BY TimesNext, SamplerAssumption
  <1>4. /\ s \in Seq(Items) /\ Len(s) = b - a /\ \A i \in 1..(b - a) : s[i] = p[a + i]
    BY <1>1, ShareIs
  <1>5. /\ u \in Seq(Items) /\ Len(u) = c - a /\ \A i \in 1..(c - a) : u[i] = p[a + i]
    BY <1>1, ShareIs
  <1>6. \A i \in 1..ShardLength : p[i] \in Items BY ItemsOfShard
  <1> HIDE DEF a, b, c, p, s, u
  <1>7. \A i \in (b + 1)..c : p[i] \in Items BY <1>2, <1>6
  <1>8. /\ t \in Seq(Items) /\ Len(t) = c - b /\ \A i \in 1..(c - b) : t[i] = p[b + i]
    <2>1. b + 1 \in Int /\ c \in Int BY <1>2
    <2>2. /\ t \in Seq(Items) /\ Len(t) = IF b + 1 <= c THEN c - (b + 1) + 1 ELSE 0
          /\ \A i \in 1..(c - (b + 1) + 1) : t[i] = p[(b + 1) + i - 1]
      BY <1>7, <2>1, SubSeqProperties
    <2> HIDE DEF t
    <2> QED BY <2>2, <1>2, <1>3
  <1> HIDE DEF t
  <1>9. /\ s \o t \in Seq(Items) /\ Len(s \o t) = Len(s) + Len(t)
        /\ \A i \in 1..(Len(s) + Len(t)) :
             (s \o t)[i] = IF i <= Len(s) THEN s[i] ELSE t[i - Len(s)]
    BY <1>4, <1>8, ConcatProperties
  <1>10. ASSUME NEW i \in 1..(c - a) PROVE (s \o t)[i] = u[i]
    <2>1. i \in 1..(Len(s) + Len(t)) BY <1>2, <1>4, <1>8
    <2>2. CASE i <= b - a
      <3>1. i \in 1..(b - a) BY <2>2, <1>2
      <3> QED BY <3>1, <2>1, <2>2, <1>4, <1>5, <1>9
    <2>3. CASE ~ (i <= b - a)
      <3>1. i - (b - a) \in 1..(c - b) /\ b + (i - (b - a)) = a + i BY <2>3, <1>2
      <3>2. (s \o t)[i] = t[i - (b - a)] BY <2>1, <2>3, <1>4, <1>9
      <3> QED BY <3>1, <3>2, <1>5, <1>8
    <2> QED BY <2>2, <2>3
  <1>11. Len(s \o t) = Len(u) BY <1>2, <1>4, <1>5, <1>8, <1>9
  <1>12. s \o t = u BY <1>5, <1>9, <1>10, <1>11, SeqEqual
  <1> QED BY <1>12 DEF s, t, u, p, b, c

LEMMA SamplerBegins == TrainingInit => SamplerInv
  <1> SUFFICES ASSUME TrainingInit PROVE SamplerInv OBVIOUS
  <1> DEFINE n == Sampler!NumIters
  <1>1. n \in Nat /\ MaxEpoch \in Nat BY ItersAreNumbers, SamplerAssumption
  <1>2. PICK e \in 0..MaxEpoch, s \in 0..n : Sampler!StartAt(e, s)
    <2>1. CASE part = "sampler"
      <3>1. Sampler!Init BY <2>1 DEF TrainingInit
      <3>2. PICK e \in 0..(MaxEpoch - 1), s \in 0..(n - 1) : Sampler!StartAt(e, s)
        BY <3>1 DEF Sampler!Init
      <3>3. e \in 0..MaxEpoch /\ s \in 0..n
        <4> HIDE DEF n
        <4> QED BY <1>1
      <3> QED BY <3>2, <3>3
    <2>2. CASE part # "sampler"
      <3>1. Sampler!StartAt(0, 0) BY <2>2 DEF TrainingInit
      <3>2. 0 \in 0..MaxEpoch /\ 0 \in 0..n
        <4> HIDE DEF n
        <4> QED BY <1>1
      <3> QED BY <3>1, <3>2
    <2> QED BY <2>1, <2>2
  <1>3. /\ rankEpoch = [r \in RanksOf |-> e] /\ rankStep = [r \in RanksOf |-> s]
        /\ yielded = [r \in RanksOf |-> [k \in 0..MaxEpoch |-> <<>>]]
    BY <1>2 DEF Sampler!StartAt, RanksOf
  <1>4. SamplerTypes BY <1>2, <1>3 DEF SamplerTypes
  <1>5. ASSUME NEW r \in RanksOf, NEW k \in 0..MaxEpoch, ~ (k > rankEpoch[r])
        PROVE  ShareOf(r, k, Reached(r, k))
    <2>1. rankEpoch[r] = e /\ rankStep[r] = s BY <1>3
    <2>2. Reached(r, k) \in 0..n /\ Reached(r, k) \in Nat BY <2>1, <1>1, <1>2 DEF Reached
    <2>3. yielded[r][k] = <<>> BY <1>3
    <2>4. \A earlier \in 0..(k - 1) : yielded[r][earlier] = <<>>
      <3> TAKE earlier \in 0..(k - 1)
      <3>1. earlier \in 0..MaxEpoch BY <1>1
      <3> QED BY <3>1, <1>3
    <2> HIDE DEF n
    <2> QED BY <2>2, <2>3, <2>4, NoShare DEF ShareOf
  <1>6. ASSUME NEW r \in RanksOf, NEW k \in 0..MaxEpoch PROVE yielded[r][k] = <<>>
    BY <1>3
  <1>7. Shares BY <1>5, <1>6 DEF Shares
  <1> QED BY <1>4, <1>7 DEF SamplerInv

\* Lists and shards of an epoch stay as they are.
LEMMA SamplerSame ==
  ASSUME UNCHANGED dropLast
  PROVE  /\ Sampler!NumIters' = Sampler!NumIters
         /\ Items' = Items
         /\ \A e, r, from, to : Share(e, r, from, to)' = Share(e, r, from, to)
  BY DEF Sampler!NumIters, Items, ShardLength, Share, Sampler!Shard, Sampler!Stride, Sampler!Sized,
         Sampler!NumSamples

LEMMA YieldShares ==
  ASSUME SamplerInv, NEW r \in RanksOf, Sampler!Yield(r) PROVE SamplerInv'
  <1> DEFINE e0 == rankEpoch[r]
             s == rankStep[r]
             batch == SubSeq(Sampler!Shard(e0, r), s * BatchSize + 1, (s + 1) * BatchSize)
             n == Sampler!NumIters
  <1>1. /\ e0 <= MaxEpoch /\ s < n
        /\ yielded' = [yielded EXCEPT ![r][e0] = @ \o batch]
        /\ rankStep' = [rankStep EXCEPT ![r] = @ + 1]
        /\ UNCHANGED <<dropLast, rankEpoch>>
    BY DEF Sampler!Yield
  <1>2. SamplerTypes /\ Shares BY DEF SamplerInv
  <1>3. e0 \in 0..MaxEpoch /\ s \in 0..n /\ n \in Nat /\ MaxEpoch \in Nat /\ s + 1 \in 0..n
    <2>1. rankEpoch \in [RanksOf -> 0..MaxEpoch] /\ rankStep \in [RanksOf -> 0..n]
      BY <1>2 DEF SamplerTypes
    <2>2. n \in Nat /\ MaxEpoch \in Nat BY ItersAreNumbers, SamplerAssumption
    <2>3. s < n BY <1>1
    <2> HIDE DEF n
    <2>4. e0 \in 0..MaxEpoch /\ s \in 0..n BY <2>1
    <2> HIDE DEF e0, s
    <2> QED BY <2>2, <2>3, <2>4
  <1>4. PICK from : ShareOf(r, e0, from) BY <1>2, <1>3 DEF Shares
  <1>5. from \in 0..s /\ yielded[r][e0] = Share(e0, r, from, s)
        /\ (from = 0 \/ \A earlier \in 0..(e0 - 1) : yielded[r][earlier] = <<>>)
    BY <1>3, <1>4 DEF ShareOf, Reached
  <1> HIDE DEF batch, n, e0, s
  <1>6. yielded[r][e0] \o batch = Share(e0, r, from, s + 1)
    <2>1. from \in Nat /\ s \in Nat /\ from <= s BY <1>3, <1>5
    <2>2. s < Sampler!NumIters BY <1>1 DEF n
    <2>3. Share(e0, r, from, s)
            \o SubSeq(Sampler!Shard(e0, r), s * BatchSize + 1, (s + 1) * BatchSize)
            = Share(e0, r, from, s + 1)
      BY <2>1, <2>2, <1>3, ShareGrows
    <2> QED BY <2>3, <1>5 DEF batch
  <1>7. Share(e0, r, from, s + 1) \in Seq(Items)
    <2>1. from \in Nat /\ s + 1 \in Nat /\ from <= s + 1 BY <1>3, <1>5
    <2> QED BY <2>1, <1>3, ShareIs DEF n
  <1>8. yielded \in [RanksOf -> [0..MaxEpoch -> Seq(Items)]]
        /\ rankStep \in [RanksOf -> 0..n] /\ rankEpoch \in [RanksOf -> 0..MaxEpoch]
    BY <1>2 DEF SamplerTypes, n
  <1>9. yielded' = [yielded EXCEPT ![r] = [yielded[r] EXCEPT ![e0] = Share(e0, r, from, s + 1)]]
    BY <1>1, <1>6
  <1>10. rankStep' = [rankStep EXCEPT ![r] = s + 1] BY <1>1 DEF s
  <1>11. n' = n /\ Items' = Items /\ \A e, q, a, b : Share(e, q, a, b)' = Share(e, q, a, b)
    BY <1>1, SamplerSame DEF n
  <1>12. SamplerTypes'
    <2>1. yielded[r] \in [0..MaxEpoch -> Seq(Items)] BY <1>8
    <2>2. [yielded[r] EXCEPT ![e0] = Share(e0, r, from, s + 1)] \in [0..MaxEpoch -> Seq(Items)]
      BY <2>1, <1>7
    <2>3. yielded' \in [RanksOf -> [0..MaxEpoch -> Seq(Items)]] BY <2>2, <1>8, <1>9
    <2>4. rankStep' \in [RanksOf -> 0..n] BY <1>3, <1>8, <1>10
    <2> QED BY <2>3, <2>4, <1>1, <1>8, <1>11 DEF SamplerTypes, RanksOf, Sampler!RankIds, n
  <1>13. ASSUME NEW q \in RanksOf, NEW e \in 0..MaxEpoch, q # r \/ e # e0
         PROVE  yielded'[q][e] = yielded[q][e]
    BY <1>8, <1>9, <1>13
  <1>14. yielded'[r][e0] = Share(e0, r, from, s + 1) BY <1>3, <1>8, <1>9
  <1>15. ASSUME NEW q \in RanksOf, NEW e \in 0..MaxEpoch, q # r \/ e < e0
         PROVE  Reached(q, e)' = Reached(q, e)
    BY <1>1, <1>3, <1>8, <1>10, <1>11, <1>15 DEF Reached, e0, n
  <1>16. ASSUME NEW q \in RanksOf, NEW e \in 0..MaxEpoch, q = r, e = e0
         PROVE  Reached(q, e)' = s + 1
    <2>1. rankEpoch'[q] = e0 /\ rankStep'[q] = s + 1 BY <1>1, <1>8, <1>10, <1>16 DEF e0
    <2>2. ~ (e < e0) BY <1>3, <1>16
    <2> QED BY <2>1, <2>2 DEF Reached
  <1>17. ASSUME NEW q \in RanksOf, NEW e \in 0..MaxEpoch
         PROVE  IF e > rankEpoch'[q] THEN yielded'[q][e] = <<>> ELSE \E a : ShareOf(q, e, a)'
    <2>1. rankEpoch' = rankEpoch BY <1>1
    <2>2. IF e > rankEpoch[q] THEN yielded[q][e] = <<>> ELSE \E a : ShareOf(q, e, a)
      BY <1>2 DEF Shares
    <2>3. CASE e > rankEpoch[q]
      <3>1. q # r \/ e # e0 BY <2>3, <1>3 DEF e0
      <3>2. yielded'[q][e] = yielded[q][e] BY <3>1, <1>13
      <3> QED BY <3>2, <2>1, <2>2, <2>3
    <2>4. CASE ~ (e > rankEpoch[q]) /\ (q # r \/ e # e0)
      <3>1. q # r \/ e < e0 BY <2>4, <1>3 DEF e0
      <3>2. PICK a : ShareOf(q, e, a) BY <2>2, <2>4
      <3>3. yielded'[q][e] = yielded[q][e] BY <2>4, <1>13
      <3>4. ASSUME NEW earlier \in 0..(e - 1) PROVE yielded'[q][earlier] = yielded[q][earlier]
        <4>1. earlier \in 0..MaxEpoch /\ earlier < e BY <1>3
        <4>2. q # r \/ earlier # e0 BY <3>1, <4>1, <1>3
        <4> QED BY <4>1, <4>2, <1>13
      <3>5. Reached(q, e)' = Reached(q, e) BY <3>1, <1>15
      <3>6. Share(e, q, a, Reached(q, e))' = Share(e, q, a, Reached(q, e))
        BY <3>5, <1>1, SamplerSame DEF Share, Sampler!Shard, Sampler!Stride, Sampler!Sized,
           Sampler!NumSamples, Sampler!NumIters
      <3>7. ShareOf(q, e, a)' BY <3>2, <3>3, <3>4, <3>5, <3>6 DEF ShareOf
      <3> QED BY <3>7, <2>1, <2>4
    <2>5. CASE q = r /\ e = e0
      <3>1. ASSUME NEW earlier \in 0..(e - 1) PROVE yielded'[q][earlier] = yielded[q][earlier]
        <4>1. earlier \in 0..MaxEpoch /\ (q # r \/ earlier # e0) BY <1>3, <2>5
        <4> QED BY <4>1, <1>13
      <3>2. from \in 0..(s + 1) BY <1>3, <1>5
      <3>3. Reached(q, e)' = s + 1 BY <2>5, <1>16
      <3>4. Share(e, q, from, Reached(q, e))' = Share(e, q, from, s + 1)
        BY <3>3, <1>1 DEF Share, Sampler!Shard, Sampler!Stride, Sampler!Sized,
           Sampler!NumSamples, Sampler!NumIters
      <3>5. yielded'[q][e] = Share(e, q, from, s + 1) BY <2>5, <1>14
      <3>6. ShareOf(q, e, from)' BY <3>1, <3>2, <3>3, <3>4, <3>5, <1>5, <2>5 DEF ShareOf
      <3>7. ~ (e > rankEpoch[q]) BY <2>5, <1>3 DEF e0
      <3> QED BY <3>6, <3>7, <2>1
    <2> QED BY <2>3, <2>4, <2>5
  <1>18. Shares' BY <1>17 DEF Shares, RanksOf, Sampler!RankIds
  <1> QED BY <1>12, <1>18 DEF SamplerInv

\* Going on to the next epoch ends the share of the one before.
LEMMA NextEpochShares ==
  ASSUME SamplerInv, NEW r \in RanksOf, Sampler!NextEpoch(r) PROVE SamplerInv'
  <1> DEFINE e0 == rankEpoch[r]
             n == Sampler!NumIters
  <1>1. /\ e0 < MaxEpoch /\ rankStep[r] = n
        /\ rankEpoch' = [rankEpoch EXCEPT ![r] = @ + 1]
        /\ rankStep' = [rankStep EXCEPT ![r] = 0]
        /\ UNCHANGED <<dropLast, yielded>>
    BY DEF Sampler!NextEpoch, Sampler!FirstStep
  <1>2. SamplerTypes /\ Shares BY DEF SamplerInv
  <1>3. n \in Nat /\ MaxEpoch \in Nat BY ItersAreNumbers, SamplerAssumption
  <1>4. /\ yielded \in [RanksOf -> [0..MaxEpoch -> Seq(Items)]]
        /\ rankStep \in [RanksOf -> 0..n] /\ rankEpoch \in [RanksOf -> 0..MaxEpoch]
    BY <1>2 DEF SamplerTypes
  <1>5. n' = n /\ Items' = Items BY <1>1, SamplerSame
  <1> HIDE DEF n
  <1>6. e0 \in 0..MaxEpoch BY <1>4
  <1>7. rankEpoch' = [rankEpoch EXCEPT ![r] = e0 + 1] BY <1>1
  <1> HIDE DEF e0
  <1>8. e0 + 1 \in 0..MaxEpoch /\ e0 \in Nat BY <1>1, <1>3, <1>6
  <1>9. SamplerTypes'
    <2>1. rankEpoch' \in [RanksOf -> 0..MaxEpoch] BY <1>4, <1>7, <1>8
    <2>2. rankStep' \in [RanksOf -> 0..n] BY <1>1, <1>3, <1>4
    <2> QED BY <2>1, <2>2, <1>1, <1>4, <1>5 DEF SamplerTypes, RanksOf, Sampler!RankIds, n
  <1>10. ASSUME NEW q \in RanksOf, NEW e \in 0..MaxEpoch,
                IF e > rankEpoch[q] THEN yielded[q][e] = <<>> ELSE \E a : ShareOf(q, e, a)
         PROVE  IF e > rankEpoch'[q] THEN yielded'[q][e] = <<>> ELSE \E a : ShareOf(q, e, a)'
    <2>1. e \in Nat BY <1>3
    <2>2. rankEpoch[q] \in Nat BY <1>3, <1>4
    <2>3. yielded' = yielded BY <1>1
    <2>4. rankEpoch'[q] = (IF q = r THEN e0 + 1 ELSE rankEpoch[q]) BY <1>4, <1>7
    <2>5. rankStep'[q] = IF q = r THEN 0 ELSE rankStep[q] BY <1>1, <1>4
    <2>6. \A a, b : Share(e, q, a, b)' = Share(e, q, a, b) BY <1>1, SamplerSame
    <2>7. CASE e > rankEpoch[q] /\ ~ (q = r /\ e = e0 + 1)
      <3>1. q = r => rankEpoch[q] = e0 BY DEF e0
      <3>2. e > rankEpoch'[q] BY <2>1, <2>2, <2>4, <2>7, <3>1, <1>8
      <3> QED BY <3>2, <2>3, <2>7, <1>10
    <2>8. CASE q = r /\ e = e0 + 1
      <3>1. rankEpoch'[q] = e /\ rankStep'[q] = 0 BY <2>4, <2>5, <2>8
      <3>2. Reached(q, e)' = 0 BY <3>1, <2>1 DEF Reached
      <3>3. rankEpoch[q] = e0 BY <2>8 DEF e0
      <3>4. yielded[q][e] = <<>> BY <1>10, <3>3, <2>8, <1>8
      <3>5. Share(e, q, 0, 0) = <<>> BY NoShare
      <3>6. Share(e, q, 0, Reached(q, e))' = <<>>
        BY <3>2, <3>5, <1>1 DEF Share, Sampler!Shard, Sampler!Stride, Sampler!Sized,
           Sampler!NumSamples, Sampler!NumIters
      <3>7. 0 \in 0..0 OBVIOUS
      <3>8. ShareOf(q, e, 0)' BY <3>2, <3>4, <3>6, <3>7, <2>3 DEF ShareOf
      <3>9. ~ (e > rankEpoch'[q]) BY <3>1, <2>1
      <3> QED BY <3>8, <3>9
    <2>9. CASE ~ (e > rankEpoch[q])
      <3>1. PICK a : ShareOf(q, e, a) BY <1>10, <2>9
      <3>2. Reached(q, e)' = Reached(q, e)
        <4>1. CASE q = r
          <5>1. rankEpoch[q] = e0 /\ rankStep[q] = n BY <4>1, <1>1 DEF e0
          <5>2. e < rankEpoch'[q] BY <4>1, <5>1, <2>1, <2>4, <2>9, <1>8
          <5>3. Reached(q, e)' = n BY <5>2, <1>5 DEF Reached, n
          <5>4. Reached(q, e) = n BY <5>1 DEF Reached, n
          <5> QED BY <5>3, <5>4
        <4>2. CASE q # r
          BY <4>2, <2>4, <2>5, <1>5 DEF Reached, n
        <4> QED BY <4>1, <4>2
      <3>3. Share(e, q, a, Reached(q, e))' = Share(e, q, a, Reached(q, e))
        BY <3>2, <1>1 DEF Share, Sampler!Shard, Sampler!Stride, Sampler!Sized,
           Sampler!NumSamples, Sampler!NumIters
      <3>4. ShareOf(q, e, a)' BY <3>1, <3>2, <3>3, <2>3 DEF ShareOf
      <3>5. ~ (e > rankEpoch'[q])
        <4>1. q = r => rankEpoch[q] = e0 BY DEF e0
        <4> QED BY <4>1, <2>1, <2>2, <2>4, <2>9, <1>8
      <3> QED BY <3>4, <3>5
    <2> QED BY <2>7, <2>8, <2>9
  <1>11. Shares' BY <1>2, <1>10 DEF Shares, RanksOf, Sampler!RankIds
  <1> QED BY <1>9, <1>11 DEF SamplerInv

LEMMA SamplerKeeps ==
  ASSUME SamplerInv, [Sampler!Next]_(Sampler!vars) PROVE SamplerInv'
  <1>1. CASE Sampler!Next
    <2>1. PICK r \in RanksOf : Sampler!Yield(r) \/ Sampler!NextEpoch(r)
      BY <1>1 DEF Sampler!Next, RanksOf
    <2> QED BY <2>1, YieldShares, NextEpochShares
  <1>2. CASE UNCHANGED Sampler!vars
    <2>1. UNCHANGED <<dropLast, rankEpoch, rankStep, yielded>> BY <1>2 DEF Sampler!vars
    <2>2. /\ Sampler!NumIters' = Sampler!NumIters /\ Items' = Items
          /\ \A e, r, from, to : Share(e, r, from, to)' = Share(e, r, from, to)
      BY <2>1, SamplerSame
    <2>3. \A r, e : Reached(r, e)' = Reached(r, e) BY <2>1, <2>2 DEF Reached
    <2>4. SamplerTypes' BY <2>1, <2>2 DEF SamplerInv, SamplerTypes, RanksOf, Sampler!RankIds
    <2>5. ASSUME NEW r, NEW e, NEW from, ShareOf(r, e, from) PROVE ShareOf(r, e, from)'
      <3>1. Share(e, r, from, Reached(r, e))' = Share(e, r, from, Reached(r, e))
        BY <2>1, <2>3 DEF Share, Sampler!Shard, Sampler!Stride, Sampler!Sized,
           Sampler!NumSamples, Sampler!NumIters
      <3> QED BY <3>1, <2>1, <2>3, <2>5 DEF ShareOf
    <2>6. Shares' BY <2>1, <2>5 DEF SamplerInv, Shares, RanksOf, Sampler!RankIds
    <2> QED BY <2>4, <2>6 DEF SamplerInv
  <1> QED BY <1>1, <1>2

\* A rank's shard is a sequence, and its i-th entry is an entry of the list.
LEMMA ShardIs ==
  ASSUME NEW e \in 0..MaxEpoch, NEW r \in RanksOf
  PROVE  /\ ShardLength \in Nat /\ Sampler!Shard(e, r) \in Seq(Items)
         /\ Len(Sampler!Shard(e, r)) = ShardLength
         /\ \A i \in 1..ShardLength : Sampler!Shard(e, r)[i]
              = Sampler!Sized(Sampler!PrepareIndices(e))[(i - 1) * Replicas + r + 1]
  <1> DEFINE list == Sampler!Sized(Sampler!PrepareIndices(e))
             p == Sampler!Shard(e, r)
  <1>1. ShardLength \in Nat BY ItersAreNumbers DEF ShardLength
  <1>2. p = [i \in 1..ShardLength |-> list[(i - 1) * Replicas + r + 1]]
    BY DEF Sampler!Shard, Sampler!Stride, ShardLength
  <1>3. \A i \in 1..ShardLength : p[i] \in Items BY ItemsOfShard
  <1> HIDE DEF p, list
  <1>4. p \in Seq(Items) /\ Len(p) = ShardLength BY <1>1, <1>2, <1>3
  <1> QED BY <1>1, <1>2, <1>4 DEF p, list

LEMMA RangesAreRounds == SamplerTypes => Sampler!DrawsAreRounds
  <1> SUFFICES ASSUME SamplerTypes PROVE Sampler!DrawsAreRounds OBVIOUS
  <1>1. ASSUME NEW r \in RanksOf, NEW d \in DOMAIN Length
        PROVE  Sampler!CreateIndicesRange(d, rankEpoch[r] * SampleSize[d],
                                          rankEpoch[r] * SampleSize[d] + SampleSize[d])
                 = [i \in 1..SampleSize[d] |-> Draw(d, rankEpoch[r] * SampleSize[d] + i - 1)]
    <2>1. rankEpoch[r] \in Nat BY SamplerAssumption DEF SamplerTypes
    <2>2. SampleSize[d] \in Nat BY SamplerAssumption
    <2>3. rankEpoch[r] * SampleSize[d] \in Nat BY <2>1, <2>2
    <2> QED BY <2>2, <2>3, RangeIsDraws
  <1> QED BY <1>1 DEF Sampler!DrawsAreRounds, RanksOf, Sampler!Datasets, Draw

LEMMA SharesEndEpochs == SamplerInv => Sampler!EpochsComplete
  <1> SUFFICES ASSUME SamplerInv PROVE Sampler!EpochsComplete OBVIOUS
  <1>1. SamplerTypes /\ Shares BY DEF SamplerInv
  <1>2. ASSUME NEW r \in RanksOf, NEW e \in 0..MaxEpoch, e < rankEpoch[r]
        PROVE  LET n == Len(yielded[r][e])
                   shard == Sampler!Shard(e, r)
               IN  /\ yielded[r][e] = SubSeq(shard, Len(shard) - n + 1, Len(shard))
                   /\ ~ (\A earlier \in 0..(e - 1) : yielded[r][earlier] = <<>>) => n = Len(shard)
    <2> DEFINE iters == Sampler!NumIters
               shard == Sampler!Shard(e, r)
               y == yielded[r][e]
    <2>1. rankEpoch[r] \in Nat /\ e \in Nat BY <1>1, SamplerAssumption DEF SamplerTypes
    <2>2. PICK from : ShareOf(r, e, from) BY <1>1, <1>2, <2>1 DEF Shares
    <2>3. Reached(r, e) = iters BY <1>2 DEF Reached
    <2>4. /\ from \in 0..iters /\ y = Share(e, r, from, iters)
          /\ (from = 0 \/ \A earlier \in 0..(e - 1) : yielded[r][earlier] = <<>>)
      BY <2>2, <2>3 DEF ShareOf
    <2>5. iters \in Nat BY ItersAreNumbers
    <2> DEFINE a == from * BatchSize
    <2>6. from \in Nat /\ from <= iters /\ iters <= iters BY <2>4, <2>5
    <2>7. /\ y \in Seq(Items) /\ Len(y) = iters * BatchSize - a
          /\ \A i \in 1..(iters * BatchSize - a) : y[i] = shard[a + i]
      BY <2>4, <2>5, <2>6, ShareIs
    <2>8. a \in Nat /\ a <= iters * BatchSize BY <2>5, <2>6, BatchNumbers
    <2>9. /\ ShardLength \in Nat /\ shard \in Seq(Items) /\ Len(shard) = ShardLength
          /\ \A i \in 1..ShardLength : shard[i] \in Items
      BY ShardIs, ItemsOfShard
    <2>10. ShardLength = iters * BatchSize BY DEF ShardLength
    <2>11. from = 0 => a = 0 BY SamplerAssumption
    <2> HIDE DEF a, iters, y, shard
    <2>12. Len(y) = ShardLength - a BY <2>7, <2>10
    <2>13. Len(shard) - Len(y) + 1 = a + 1 BY <2>8, <2>9, <2>10, <2>12
    <2>14. y = SubSeq(shard, a + 1, ShardLength)
      <3> DEFINE t == SubSeq(shard, a + 1, ShardLength)
      <3>1. a + 1 \in Int /\ ShardLength \in Int BY <2>8, <2>9
      <3>2. \A i \in (a + 1)..ShardLength : shard[i] \in Items BY <2>8, <2>9
      <3>3. /\ t \in Seq(Items)
            /\ Len(t) = IF a + 1 <= ShardLength THEN ShardLength - (a + 1) + 1 ELSE 0
            /\ \A i \in 1..(ShardLength - (a + 1) + 1) : t[i] = shard[(a + 1) + i - 1]
        BY <3>1, <3>2, SubSeqProperties
      <3> HIDE DEF t
      <3>4. Len(t) = Len(y) BY <3>3, <2>8, <2>9, <2>10, <2>12
      <3>5. ASSUME NEW i \in 1..Len(t) PROVE y[i] = t[i]
        <4>1. i \in 1..(ShardLength - a) BY <3>4, <3>5, <2>12
        <4>2. i \in 1..(ShardLength - (a + 1) + 1) /\ (a + 1) + i - 1 = a + i BY <4>1, <2>8, <2>9
        <4> QED BY <4>1, <4>2, <3>3, <2>7, <2>10
      <3>6. y = t BY <3>3, <3>4, <3>5, <2>7, SeqEqual
      <3> QED BY <3>6 DEF t
    <2>15. from = 0 => Len(y) = Len(shard) BY <2>8, <2>9, <2>11, <2>12
    <2> QED BY <2>4, <2>9, <2>13, <2>14, <2>15 DEF y, shard
  <1> QED BY <1>2 DEF Sampler!EpochsComplete, RanksOf

\* What the ranks have yielded of an entry came from different places of the
\* list: the place tells the rank and the number in its shard.
LEMMA SharesAreDisjoint == SamplerInv => Sampler!ShardsDisjoint
  <1> SUFFICES ASSUME SamplerInv PROVE Sampler!ShardsDisjoint OBVIOUS
  <1>1. SamplerTypes /\ Shares BY DEF SamplerInv
  <1> SUFFICES ASSUME NEW e \in 0..MaxEpoch, NEW x
               PROVE  LET list == Sampler!Sized(Sampler!PrepareIndices(e))
                          Drawn(r) == {i \in DOMAIN yielded[r][e] : yielded[r][e][i] = x}
                      IN  Sampler!Cardinality(UNION {{r} \X Drawn(r) : r \in RanksOf})
                            <= Sampler!Cardinality({j \in DOMAIN list : list[j] = x})
    BY DEF Sampler!ShardsDisjoint, Sampler!Count, RanksOf
  <1> DEFINE list == Sampler!Sized(Sampler!PrepareIndices(e))
             Drawn(r) == {i \in DOMAIN yielded[r][e] : yielded[r][e][i] = x}
             S == UNION {{r} \X Drawn(r) : r \in RanksOf}
             T == {j \in DOMAIN list : list[j] = x}
             Before(r) == (CHOOSE from : ShareOf(r, e, from)) * BatchSize
             Entry(p) == Before(p[1]) + p[2] - 1
             f == [p \in S |-> Entry(p) * Replicas + p[1] + 1]
  <1>2. /\ Replicas \in Nat \ {0} /\ ShardLength \in Nat
        /\ Sampler!NumSamples = ShardLength * Replicas /\ Sampler!NumSamples \in Nat
        /\ MaxEpoch \in Nat
    BY SamplerAssumption, ItersAreNumbers DEF ShardLength
  <1>3. DOMAIN list = 1..Sampler!NumSamples BY DEF Sampler!Sized
  <1>4. RanksOf = 0..(Replicas - 1) BY DEF RanksOf, Sampler!RankIds
  <1>5. ASSUME NEW r \in RanksOf, NEW i \in Drawn(r)
        PROVE  /\ Before(r) \in Nat /\ i \in Nat \ {0} /\ Before(r) + i \in 1..ShardLength
               /\ list[(Before(r) + i - 1) * Replicas + r + 1] = x
    <2>1. rankEpoch[r] \in Nat /\ e \in Nat BY <1>1, <1>2 DEF SamplerTypes
    <2>2. i \in DOMAIN yielded[r][e] /\ yielded[r][e][i] = x OBVIOUS
    <2>3. yielded[r][e] # <<>>
      <3>1. DOMAIN <<>> = {} OBVIOUS
      <3> QED BY <3>1, <2>2
    <2>4. \E from : ShareOf(r, e, from) BY <1>1, <2>3 DEF Shares
    <2> DEFINE from == CHOOSE k : ShareOf(r, e, k)
               to == Reached(r, e)
    <2>5. ShareOf(r, e, from) BY <2>4
    <2>6. from \in 0..to /\ yielded[r][e] = Share(e, r, from, to) BY <2>5 DEF ShareOf
    <2>7. to \in 0..Sampler!NumIters
      <3>1. Sampler!NumIters \in Nat BY ItersAreNumbers
      <3>2. rankStep[r] \in 0..Sampler!NumIters BY <1>1 DEF SamplerTypes
      <3>3. to = Sampler!NumIters \/ to = rankStep[r] BY DEF Reached
      <3> HIDE DEF to
      <3>4. \A n \in Nat : n \in 0..n OBVIOUS
      <3> QED BY <3>1, <3>2, <3>3, <3>4
    <2> DEFINE a == from * BatchSize
               b == to * BatchSize
    <2> HIDE DEF from, to
    <2>8. from \in Nat /\ to \in Nat /\ from <= to /\ to <= Sampler!NumIters
      <3> DEFINE n == Sampler!NumIters
      <3>1. n \in Nat /\ to \in 0..n BY ItersAreNumbers, <2>7
      <3> HIDE DEF n
      <3>2. to \in Nat /\ to <= n BY <3>1
      <3> QED BY <3>2, <2>6 DEF n
    <2>9. /\ a \in Nat /\ b \in Nat /\ a <= b /\ b <= ShardLength
      BY <2>8, BatchNumbers
    <2>10. /\ DOMAIN yielded[r][e] = 1..(b - a)
           /\ \A k \in 1..(b - a) : yielded[r][e][k] = Sampler!Shard(e, r)[a + k]
      BY <2>6, <2>8, ShareIs
    <2>11. Before(r) = a BY DEF from
    <2> HIDE DEF a, b, Before
    <2>12. i \in 1..(b - a) BY <2>2, <2>10
    <2>13. a + i \in 1..ShardLength BY <2>9, <2>12, <1>2
    <2>14. Sampler!Shard(e, r)[a + i] = list[(a + i - 1) * Replicas + r + 1]
      <3> HIDE DEF list
      <3>1. \A k \in 1..ShardLength : Sampler!Shard(e, r)[k] = list[(k - 1) * Replicas + r + 1]
        BY ShardIs DEF list
      <3> DEFINE k == a + i
      <3>2. k \in 1..ShardLength BY <2>13
      <3>3. k - 1 = a + i - 1 BY <2>9, <2>12
      <3> HIDE DEF k
      <3>4. Sampler!Shard(e, r)[k] = list[(k - 1) * Replicas + r + 1] BY <3>1, <3>2
      <3> QED BY <3>3, <3>4 DEF k
    <2> HIDE DEF list, Drawn
    <2> QED BY <2>2, <2>9, <2>10, <2>11, <2>12, <2>13, <2>14
  <1>6. ASSUME NEW p \in S
        PROVE  /\ p[1] \in RanksOf /\ p[2] \in Drawn(p[1]) /\ p = <<p[1], p[2]>>
    <2> HIDE DEF Drawn
    <2>1. PICK r \in RanksOf : p \in {r} \X Drawn(r) OBVIOUS
    <2> QED BY <2>1
  <1> HIDE DEF Drawn, list, Before, S
  <1>7. ASSUME NEW p \in S
        PROVE  /\ p[1] \in 0..(Replicas - 1) /\ p[2] \in Nat \ {0} /\ Before(p[1]) \in Nat
               /\ Entry(p) \in 0..(ShardLength - 1)
               /\ list[Entry(p) * Replicas + p[1] + 1] = x
    <2>1. p[1] \in RanksOf /\ p[2] \in Drawn(p[1]) BY <1>6
    <2>2. /\ Before(p[1]) \in Nat /\ p[2] \in Nat \ {0} /\ Before(p[1]) + p[2] \in 1..ShardLength
          /\ list[(Before(p[1]) + p[2] - 1) * Replicas + p[1] + 1] = x
      BY <2>1, <1>5
    <2> QED BY <2>1, <2>2, <1>2, <1>4
  <1>8. ASSUME NEW k \in 0..(ShardLength - 1), NEW r \in 0..(Replicas - 1)
        PROVE  /\ k * Replicas + r + 1 \in 1..Sampler!NumSamples
               /\ (k * Replicas + r) \div Replicas = k /\ (k * Replicas + r) % Replicas = r
               /\ k * Replicas \in Nat
    <2>1. k \in Nat /\ k \in Int /\ ShardLength - 1 \in Int /\ k <= ShardLength - 1 BY <1>2
    <2>2. k * Replicas \in Nat /\ k * Replicas <= (ShardLength - 1) * Replicas
      BY <2>1, <1>2, TimesOrdered
    <2>3. (ShardLength - 1) * Replicas = ShardLength * Replicas - Replicas BY <1>2, TimesNext
    <2>4. ShardLength * Replicas \in Int BY <1>2, TimesNext
    <2>5. k * Replicas + r + 1 \in 1..Sampler!NumSamples
      <3> DEFINE u == k * Replicas
                 v == ShardLength * Replicas
      <3>1. u \in Nat /\ v \in Int /\ u <= v - Replicas /\ Sampler!NumSamples = v
        BY <2>2, <2>3, <2>4, <1>2
      <3> HIDE DEF u, v
      <3>2. u + r + 1 \in 1..v BY <3>1, <1>2
      <3> QED BY <3>1, <3>2 DEF u
    <2> QED BY <2>1, <2>2, <2>5, <1>2, QuotientAndRest
  <1> HIDE DEF Entry
  <1>9. f \in [S -> T]
    <2>1. ASSUME NEW p \in S PROVE Entry(p) * Replicas + p[1] + 1 \in T
      <3>1. Entry(p) \in 0..(ShardLength - 1) /\ p[1] \in 0..(Replicas - 1) BY <1>7
      <3> DEFINE j == Entry(p) * Replicas + p[1] + 1
      <3>2. j \in 1..Sampler!NumSamples /\ list[j] = x BY <3>1, <1>7, <1>8
      <3> HIDE DEF j
      <3>3. j \in T BY <3>2, <1>3
      <3> QED BY <3>3 DEF j
    <2> HIDE DEF T
    <2> QED BY <2>1
  <1>10. ASSUME NEW p \in S, NEW q \in S, f[p] = f[q] PROVE p = q
    <2>1. /\ Entry(p) \in 0..(ShardLength - 1) /\ p[1] \in 0..(Replicas - 1)
          /\ Entry(q) \in 0..(ShardLength - 1) /\ q[1] \in 0..(Replicas - 1)
      BY <1>7
    <2>2. Entry(p) * Replicas + p[1] + 1 = Entry(q) * Replicas + q[1] + 1 BY <1>10
    <2>3. /\ Entry(p) * Replicas \in Nat /\ Entry(q) * Replicas \in Nat
          /\ (Entry(p) * Replicas + p[1]) \div Replicas = Entry(p)
          /\ (Entry(p) * Replicas + p[1]) % Replicas = p[1]
          /\ (Entry(q) * Replicas + q[1]) \div Replicas = Entry(q)
          /\ (Entry(q) * Replicas + q[1]) % Replicas = q[1]
      BY <2>1, <1>8
    <2>4. Entry(p) * Replicas + p[1] = Entry(q) * Replicas + q[1]
      <3> DEFINE u == Entry(p) * Replicas
                 v == Entry(q) * Replicas
      <3>1. u \in Nat /\ v \in Nat /\ u + p[1] + 1 = v + q[1] + 1 BY <2>2, <2>3
      <3> HIDE DEF u, v
      <3>2. u + p[1] = v + q[1] BY <3>1, <2>1
      <3> QED BY <3>2 DEF u, v
    <2>5. Entry(p) = Entry(q) /\ p[1] = q[1] BY <2>3, <2>4
    <2>6. Before(p[1]) + p[2] - 1 = Before(q[1]) + q[2] - 1 BY <2>5 DEF Entry
    <2>7. Before(p[1]) = Before(q[1]) BY <2>5
    <2>8. p[2] = q[2] BY <2>6, <2>7, <1>7
    <2> QED BY <2>5, <2>8, <1>6
  <1>11. f \in Injection(S, T)
    <2> HIDE DEF f
    <2> QED BY <1>9, <1>10 DEF Injection, IsInjective
  <1>12. IsFiniteSet(T)
    <2>1. IsFiniteSet(1..Sampler!NumSamples) BY <1>2, FS_Interval
    <2>2. T \in SUBSET (1..Sampler!NumSamples) BY <1>3
    <2> QED BY <2>1, <2>2, FS_Subset
  <1>13. Cardinality(S) <= Cardinality(T)
    <2> HIDE DEF f, T
    <2> QED BY <1>11, <1>12, FS_Injection
  <1>14. Sampler!Cardinality(S) = Cardinality(S) /\ Sampler!Cardinality(T) = Cardinality(T)
    BY DEF Cardinality, Sampler!Cardinality
  <1> QED BY <1>13, <1>14 DEF S, T, Drawn, list

\* EpochsAreShared: whatever the datasets' lengths and weights, the batch size
\* and the number of ranks, an epoch's draws are whole permutations, no two
\* ranks train on the same draw of it, and an epoch walked to its end was walked
\* through whole (MultipleDatasetWeightedDistributedBatchSampler).
THEOREM EpochsAlwaysShared == TrainingSpec => []EpochsAreShared
  <1>1. TrainingInit => SamplerInv BY SamplerBegins
  <1>2. SamplerInv /\ [TrainingNext]_trainVars => SamplerInv' BY PartSteps, SamplerKeeps
  <1>3. SamplerInv => EpochsAreShared
    BY RangesAreRounds, SharesEndEpochs, SharesAreDisjoint DEF SamplerInv, EpochsAreShared
  <1> QED BY <1>1, <1>2, <1>3, PTL DEF TrainingSpec

-----------------------------------------------------------------------------
(* The preparation of the data.                                             *)

\* A place is empty or holds a recording that belongs there.
WellPlaced(f) ==
  /\ f \in [Preparation!Dests -> Recordings \cup {None}]
  /\ \A d \in Preparation!Dests : f[d] # None => Preparation!Dest(f[d]) = d

PrepTypes ==
  /\ pipeline \in Preparation!Pipelines
  /\ prepPc \in {"idle", "wrap", "link", "statistics", "check", "mark"}
  /\ source \subseteq Recordings /\ chosen \subseteq Recordings /\ toPrepare \subseteq chosen
  /\ WellPlaced(tree) /\ WellPlaced(wrappers)
  /\ pipeline # "bench" => prepPc # "wrap"
  /\ pipeline # "inspire" => prepPc \notin {"check", "mark"}
  /\ pipeline = "humanoid" => ~repair /\ prepPc # "statistics"

\* A program that wants a fresh root fills it once.
FilledOnce ==
  pipeline \in Preparation!Fresh =>
    /\ ~made => /\ prepPc = "idle" /\ rep = None
                /\ \A d \in Preparation!Dests : tree[d] = None
    /\ ~made \/ prepPc = "link" =>
         manifest = None /\ stats = None /\ sums = None /\ marker = None
    /\ \A d \in Preparation!Dests : tree[d] # None => tree[d] \in chosen

\* What was asked for comes into the tree, one recording for each place but for
\* the inspire program, and nothing else is in it.
Linking ==
  prepPc = "link" =>
    /\ \A d \in Preparation!Dests : tree[d] # None => \E e \in chosen : Preparation!Dest(e) = d
    /\ \A e \in chosen \ toPrepare :
         \/ tree[Preparation!Dest(e)] # None
         \/ /\ toPrepare # {}
            /\ Preparation!Dest(Preparation!First(toPrepare)) = Preparation!Dest(e)
    /\ pipeline # "inspire" => \A e \in chosen \ toPrepare : tree[Preparation!Dest(e)] = e
    /\ pipeline \in {"process", "bench"} =>
         \A e, f \in chosen : Preparation!Dest(e) = Preparation!Dest(f) => e = f

\* The number of frames is that of the records.
Counted ==
  /\ manifest # None => manifest.frames = Preparation!Frames(manifest.rep, manifest.records)
  /\ stats # None => stats.samples = Preparation!Frames(stats.rep, stats.records)

\* A wrapper that is linked is the one that is there, so that no link is wrong.
Wrapped ==
  pipeline = "bench" =>
    /\ \A d \in Preparation!Dests : tree[d] # None => tree[d] = wrappers[d]
    /\ prepPc = "link" => \A e \in toPrepare : wrappers[Preparation!Dest(e)] = e

\* What the files speak of stays in the tree, where no wrong link is repaired.
Present(records) == \A p \in records : p[1] \in Preparation!Dests /\ tree[p[1]] # None
StillThere == pipeline # "process" =>
  /\ manifest # None => Present(manifest.records)
  /\ stats # None => Present(stats.records)

\* The files of a program that may be started again are of one piece unless
\* it is behind.
Refilled ==
  pipeline \in {"process", "bench"} =>
    /\ prepPc = "statistics" => manifest.records = Preparation!Tree
    /\ ~behind =>
         /\ manifest # None => manifest.records = Preparation!Tree
         /\ stats # None => stats.records = Preparation!Tree

ByHand ==
  pipeline = "humanoid" =>
    /\ manifest # None => manifest.records = Preparation!Tree
    /\ stats # None => stats.records = Preparation!Tree

\* The inspire program has linked all it counted, so that as many places as
\* recordings mean that each has its own.
Certified ==
  pipeline = "inspire" =>
    /\ manifest # None => manifest.rep = "inspire12"
    /\ rep \in {None, "inspire12"} /\ (prepPc # "idle" => rep = "inspire12")
    /\ prepPc \in {"statistics", "check"} =>
         /\ sums = None /\ marker = None
         /\ Cardinality(chosen) = Expected
         /\ \A e \in chosen : tree[Preparation!Dest(e)] # None
         /\ manifest.records = Preparation!Records(chosen)
    /\ prepPc = "check" => stats.records = Preparation!Tree
    /\ prepPc = "mark" \/ sums # None \/ marker # None =>
         manifest.records = Preparation!Tree /\ stats.records = Preparation!Tree

PrepInv ==
  PrepTypes /\ FilledOnce /\ Linking /\ Wrapped /\ Counted /\ StillThere /\ Refilled /\ ByHand /\ Certified

LEMMA FirstIsOne ==
  ASSUME NEW S, S \subseteq Recordings, S # {}
  PROVE  Preparation!First(S) \in S
  <1> DEFINE ids == {e.id : e \in S}
  <1>1. ids \subseteq Nat /\ ids # {} BY DataAssumption
  <1>2. PICK n \in ids : \A m \in ids : n <= m BY <1>1, Least
  <1>3. PICK e \in S : e.id = n BY <1>2
  <1>4. \A f \in S : e.id <= f.id BY <1>2, <1>3
  <1> QED BY <1>4 DEF Preparation!First

LEMMA TreeSame == ASSUME tree' = tree PROVE Preparation!Tree' = Preparation!Tree
  BY DEF Preparation!Tree

\* The tree is the chosen recordings when each is at its place and no place
\* holds another.
LEMMA TreeIsChosen ==
  ASSUME PrepTypes, \A e \in chosen : tree[Preparation!Dest(e)] = e,
         \A d \in Preparation!Dests : tree[d] # None => \E e \in chosen : Preparation!Dest(e) = d
  PROVE  Preparation!Records(chosen) = Preparation!Tree
  <1>1. \A e \in chosen : e # None /\ Preparation!Dest(e) \in Preparation!Dests
    BY DataAssumption DEF PrepTypes, Preparation!Dests
  <1>2. ASSUME NEW p \in Preparation!Records(chosen) PROVE p \in Preparation!Tree
    <2>1. PICK e \in chosen : p = <<Preparation!Dest(e), e>> BY DEF Preparation!Records
    <2> QED BY <2>1, <1>1 DEF Preparation!Tree
  <1>3. ASSUME NEW p \in Preparation!Tree PROVE p \in Preparation!Records(chosen)
    <2>1. PICK d \in Preparation!Dests : tree[d] # None /\ p = <<d, tree[d]>>
      BY DEF Preparation!Tree
    <2>2. PICK e \in chosen : Preparation!Dest(e) = d BY <2>1
    <2>3. p = <<Preparation!Dest(e), e>> BY <2>1, <2>2
    <2> QED BY <2>3 DEF Preparation!Records
  <1> QED BY <1>2, <1>3

\* What is written about a tree stays present when no place is emptied.
LEMMA PresentKept ==
  ASSUME NEW records, Present(records),
         \A d \in Preparation!Dests : tree[d] # None => tree'[d] # None
  PROVE  Present(records)'
  BY DEF Present

LEMMA TreePresent == Present(Preparation!Tree)
  BY DEF Present, Preparation!Tree

\* Steps that leave all files alone.
LEMMA QuietInv ==
  ASSUME PrepInv,
         UNCHANGED <<pipeline, wrappers, tree, manifest, stats, sums, marker, made, rep, chosen,
                     toPrepare, repair, behind>>,
         source' \subseteq Recordings,
         prepPc' = prepPc \/ (prepPc # "idle" /\ prepPc' = "idle")
  PROVE  PrepInv'
  <1>1. Preparation!Tree' = Preparation!Tree BY TreeSame
  <1>2. PrepTypes' BY DEF PrepInv, PrepTypes, WellPlaced
  <1>3. FilledOnce' BY DEF PrepInv, FilledOnce
  <1>4. Linking' /\ Wrapped' BY DEF PrepInv, Linking, Wrapped
  <1>5. Counted' /\ StillThere'
    BY DEF PrepInv, Counted, StillThere, Present
  <1>6. Refilled' /\ ByHand' BY <1>1 DEF PrepInv, Refilled, ByHand
  <1>7. Certified' BY <1>1 DEF PrepInv, Certified
  <1> QED BY <1>2, <1>3, <1>4, <1>5, <1>6, <1>7 DEF PrepInv

\* A run begins with what was chosen.
LEMMA BeginInv ==
  ASSUME PrepInv, NEW r, NEW S, NEW at \in {"wrap", "link"}, Preparation!Begin(r, S, at),
         S \subseteq Recordings, repair' \in BOOLEAN,
         at = "wrap" => pipeline = "bench",
         pipeline # "bench" <=> at = "link",
         pipeline \in {"process", "bench"} /\ at = "link" =>
           /\ \A d \in Preparation!Dests : tree[d] # None => \E e \in S : Preparation!Dest(e) = d
           /\ \A e, f \in S : Preparation!Dest(e) = Preparation!Dest(f) => e = f,
         pipeline \in Preparation!Fresh => ~made,
         pipeline = "humanoid" => ~repair',
         pipeline = "inspire" => r = "inspire12"
  PROVE  PrepInv'
  <1>1. /\ prepPc = "idle" /\ prepPc' = at /\ rep' = r /\ chosen' = S /\ toPrepare' = S
        /\ at = "link" => made'
        /\ UNCHANGED <<pipeline, source, wrappers, tree, manifest, stats, sums, marker, behind>>
    BY DEF Preparation!Begin, Preparation!content
  <1>2. Preparation!Tree' = Preparation!Tree BY <1>1, TreeSame
  <1>3. pipeline \in {"process", "bench"} \/ pipeline \in Preparation!Fresh
    BY DEF PrepInv, PrepTypes, Preparation!Pipelines, Preparation!Fresh
  <1>4. PrepTypes' BY <1>1 DEF PrepInv, PrepTypes, WellPlaced
  <1>5. ASSUME pipeline \in Preparation!Fresh
        PROVE  /\ at = "link" /\ made' /\ \A d \in Preparation!Dests : tree[d] = None
               /\ manifest = None /\ stats = None /\ sums = None /\ marker = None
    <2>1. pipeline # "bench" BY <1>5 DEF Preparation!Fresh
    <2> QED BY <2>1, <1>1, <1>5 DEF PrepInv, FilledOnce
  <1>6. FilledOnce' BY <1>1, <1>5 DEF FilledOnce
  <1>7. Linking' /\ Wrapped'
    BY <1>1, <1>3, <1>5 DEF PrepInv, Linking, Wrapped
  <1>8. Counted' /\ StillThere'
    BY <1>1 DEF PrepInv, Counted, StillThere, Present
  <1>9. Refilled'
    BY <1>1, <1>2 DEF PrepInv, Refilled
  <1>10. ByHand'
    BY <1>1, <1>2 DEF PrepInv, ByHand
  <1>11. Certified'
    BY <1>1, <1>2, <1>5 DEF Certified, Preparation!Fresh
  <1> QED BY <1>4, <1>6, <1>7, <1>8, <1>9, <1>10, <1>11 DEF PrepInv

\* Recordings of one source have places of their own.
LEMMA OwnPlaces ==
  ASSUME pipeline = "process", source \subseteq Recordings, NEW root, NEW n,
         NEW e \in Preparation!Limited(Preparation!Found(root), n),
         NEW f \in Preparation!Limited(Preparation!Found(root), n),
         Preparation!Dest(e) = Preparation!Dest(f)
  PROVE  e = f
  <1>1. /\ e \in source /\ f \in source /\ e.root = root /\ f.root = root
        /\ e.dir = "data" /\ f.dir = "data"
    BY DEF Preparation!Limited, Preparation!Found
  <1>2. e.task = f.task /\ e.name = f.name BY DEF Preparation!Dest
  <1> QED BY <1>1, <1>2, DataAssumption

LEMMA StartInv ==
  ASSUME PrepInv, NEW root, NEW n,
         \/ Preparation!StartFresh(root, n)
         \/ \E r \in Preparation!Representations :
              \/ \E counted, fix \in BOOLEAN : Preparation!StartProcess(root, r, n, counted, fix)
              \/ Preparation!StartBench(root, r, n)
  PROVE  PrepInv'
  <1> DEFINE S == Preparation!Limited(Preparation!Found(root), n)
  <1>1. S \subseteq Recordings
    BY DEF Preparation!Limited, Preparation!Found, PrepInv, PrepTypes
  <1>2. CASE Preparation!StartFresh(root, n)
    <2> DEFINE r == IF pipeline = "inspire" THEN "inspire12" ELSE "mano45"
    <2>1. /\ pipeline \in Preparation!Fresh /\ ~made /\ Preparation!Begin(r, S, "link")
          /\ repair' = FALSE
      BY <1>2 DEF Preparation!StartFresh
    <2>2. pipeline \notin {"process", "bench"} BY <2>1 DEF Preparation!Fresh
    <2>3. pipeline = "inspire" => r = "inspire12" OBVIOUS
    <2> HIDE DEF S, r
    <2> QED BY <2>1, <2>2, <2>3, <1>1, BeginInv
  <1>3. ASSUME NEW r \in Preparation!Representations, NEW counted \in BOOLEAN, NEW fix \in BOOLEAN,
               Preparation!StartProcess(root, r, n, counted, fix)
        PROVE  PrepInv'
    <2>1. /\ pipeline = "process" /\ Preparation!NothingStale(S) /\ Preparation!Begin(r, S, "link")
          /\ repair' \in BOOLEAN
      BY <1>3 DEF Preparation!StartProcess
    <2>2. \A d \in Preparation!Dests : tree[d] # None => \E e \in S : Preparation!Dest(e) = d
      BY <2>1 DEF Preparation!NothingStale
    <2>3. \A e, f \in S : Preparation!Dest(e) = Preparation!Dest(f) => e = f
      BY <2>1, OwnPlaces DEF PrepInv, PrepTypes
    <2>4. pipeline \notin Preparation!Fresh BY <2>1 DEF Preparation!Fresh
    <2> HIDE DEF S
    <2> QED BY <2>1, <2>2, <2>3, <2>4, <1>1, BeginInv
  <1>4. ASSUME NEW r \in Preparation!Representations, Preparation!StartBench(root, r, n)
        PROVE  PrepInv'
    <2>1. pipeline = "bench" /\ Preparation!Begin(r, S, "wrap") /\ repair' = TRUE
      BY <1>4 DEF Preparation!StartBench
    <2>2. pipeline \notin Preparation!Fresh BY <2>1 DEF Preparation!Fresh
    <2> HIDE DEF S
    <2> QED BY <2>1, <2>2, <1>1, BeginInv
  <1> QED BY <1>2, <1>3, <1>4

LEMMA WrapInv == ASSUME PrepInv, Preparation!Wrap PROVE PrepInv'
  <1> DEFINE e == Preparation!First(toPrepare)
             d == Preparation!Dest(e)
  <1>1. /\ prepPc = "wrap" /\ prepPc' = "wrap" /\ toPrepare # {}
        /\ wrappers' = [wrappers EXCEPT ![d] = e]
        /\ tree' = IF tree[d] = None THEN tree ELSE [tree EXCEPT ![d] = e]
        /\ toPrepare' \subseteq toPrepare
        /\ behind' = (behind \/ tree' # tree)
        /\ UNCHANGED <<pipeline, source, manifest, stats, sums, marker, made, rep, chosen, repair>>
    BY DEF Preparation!Wrap
  <1>2. pipeline = "bench" BY <1>1 DEF PrepInv, PrepTypes
  <1>3. e \in Recordings /\ d \in Preparation!Dests /\ e # None
    BY <1>1, FirstIsOne, DataAssumption DEF PrepInv, PrepTypes, Preparation!Dests
  <1> HIDE DEF e
  <1>4. WellPlaced(tree') /\ WellPlaced(wrappers')
    BY <1>1, <1>3 DEF PrepInv, PrepTypes, WellPlaced
  <1>5. PrepTypes'
    BY <1>1, <1>2, <1>4 DEF PrepInv, PrepTypes, WellPlaced
  <1>6. \A c \in Preparation!Dests : tree[c] # None => tree'[c] # None
    BY <1>1, <1>3 DEF PrepInv, PrepTypes, WellPlaced
  <1>7. StillThere'
    BY <1>1, <1>6 DEF PrepInv, StillThere, Present
  <1>8. Counted' BY <1>1 DEF PrepInv, Counted
  <1>9. Refilled'
    <2>1. CASE tree' = tree
      BY <2>1, <1>1, TreeSame DEF PrepInv, Refilled
    <2>2. CASE tree' # tree
      BY <2>2, <1>1 DEF Refilled
    <2> QED BY <2>1, <2>2
  <1>11. Wrapped'
    BY <1>1, <1>3 DEF PrepInv, PrepTypes, WellPlaced, Wrapped
  <1>10. FilledOnce' /\ Linking' /\ ByHand' /\ Certified'
    BY <1>1, <1>2 DEF FilledOnce, Linking, ByHand, Certified, Preparation!Fresh
  <1> QED BY <1>5, <1>7, <1>8, <1>9, <1>10, <1>11 DEF PrepInv

LEMMA PrepareInv == ASSUME PrepInv, Preparation!Prepare PROVE PrepInv'
  <1> DEFINE S == {wrappers[d] : d \in {d \in Preparation!Dests : wrappers[d] # None}}
  <1>1. /\ prepPc = "wrap" /\ prepPc' = "link" /\ Preparation!NothingStale(S)
        /\ chosen' = S /\ toPrepare' = S /\ made'
        /\ UNCHANGED <<pipeline, source, wrappers, tree, manifest, stats, sums, marker, rep, repair,
                       behind>>
    BY DEF Preparation!Prepare, Preparation!content
  <1>2. pipeline = "bench" BY <1>1 DEF PrepInv, PrepTypes
  <1>3. S \subseteq Recordings BY DEF PrepInv, PrepTypes, WellPlaced
  <1>4. \A e, f \in S : Preparation!Dest(e) = Preparation!Dest(f) => e = f
    BY DEF PrepInv, PrepTypes, WellPlaced
  <1>5. \A d \in Preparation!Dests : tree[d] # None => \E e \in S : Preparation!Dest(e) = d
    BY <1>1 DEF Preparation!NothingStale
  <1>11. \A e \in S : wrappers[Preparation!Dest(e)] = e
    BY DEF PrepInv, PrepTypes, WellPlaced
  <1> HIDE DEF S
  <1>6. PrepTypes' BY <1>1, <1>2, <1>3 DEF PrepInv, PrepTypes, WellPlaced
  <1>7. Linking' /\ Wrapped' BY <1>1, <1>4, <1>5, <1>11 DEF PrepInv, Linking, Wrapped
  <1>8. Counted' /\ StillThere' BY <1>1 DEF PrepInv, Counted, StillThere, Present
  <1>9. Refilled' BY <1>1, TreeSame DEF PrepInv, Refilled
  <1>10. FilledOnce' /\ ByHand' /\ Certified'
    BY <1>1, <1>2 DEF FilledOnce, ByHand, Certified, Preparation!Fresh
  <1> QED BY <1>6, <1>7, <1>8, <1>9, <1>10 DEF PrepInv

LEMMA UnlinkInv == ASSUME PrepInv, Preparation!Unlink PROVE PrepInv'
  <1> DEFINE e == Preparation!First(toPrepare)
             d == Preparation!Dest(e)
  <1>1. /\ prepPc = "link" /\ prepPc' = "link" /\ toPrepare # {}
        /\ tree[d] \notin {None, e} /\ Preparation!Replaces
        /\ tree' = [tree EXCEPT ![d] = None] /\ behind'
        /\ UNCHANGED <<pipeline, source, wrappers, manifest, stats, sums, marker, made, rep, chosen,
                       toPrepare, repair>>
    BY DEF Preparation!Unlink, Preparation!run
  <1>2. e \in toPrepare /\ e \in chosen /\ e \in Recordings /\ d \in Preparation!Dests
    BY <1>1, FirstIsOne, DataAssumption DEF PrepInv, PrepTypes, Preparation!Dests
  <1>3. pipeline \in {"process", "inspire"}
    <2>1. pipeline # "humanoid" BY <1>1 DEF Preparation!Replaces, PrepInv, PrepTypes
    <2>2. pipeline # "bench" BY <1>1, <1>2 DEF PrepInv, Wrapped
    <2> QED BY <2>1, <2>2 DEF PrepInv, PrepTypes, Preparation!Pipelines
  <1>4. Preparation!First(toPrepare') = e BY <1>1
  <1> HIDE DEF e
  <1>5. /\ tree'[d] = None /\ \A c \in Preparation!Dests \ {d} : tree'[c] = tree[c]
    BY <1>1, <1>2 DEF PrepInv, PrepTypes, WellPlaced
  <1>6. PrepTypes'
    BY <1>1, <1>2 DEF PrepInv, PrepTypes, WellPlaced
  <1>7. FilledOnce'
    BY <1>1, <1>5 DEF PrepInv, FilledOnce
  <1>8. Linking'
    <2>1. ASSUME NEW c \in Preparation!Dests, tree'[c] # None
          PROVE  \E f \in chosen : Preparation!Dest(f) = c
      BY <2>1, <1>1, <1>5 DEF PrepInv, Linking
    <2>2. ASSUME NEW f \in chosen \ toPrepare, Preparation!Dest(f) # d
          PROVE  tree'[Preparation!Dest(f)] = tree[Preparation!Dest(f)]
                 /\ tree[Preparation!Dest(f)] # None
      <3>1. Preparation!Dest(f) \in Preparation!Dests
        BY DEF PrepInv, PrepTypes, Preparation!Dests
      <3> QED BY <3>1, <2>2, <1>1, <1>5 DEF PrepInv, Linking, e
    <2>3. ASSUME pipeline # "inspire", NEW f \in chosen \ toPrepare
          PROVE  tree'[Preparation!Dest(f)] = f
      <3>1. Preparation!Dest(f) # d
        BY <2>3, <1>1, <1>2, <1>3 DEF PrepInv, Linking
      <3> QED BY <3>1, <2>2, <2>3, <1>1 DEF PrepInv, Linking
    <2> QED BY <1>1, <1>4, <2>1, <2>2, <2>3 DEF PrepInv, Linking
  <1>9. Wrapped' /\ ByHand' BY <1>1, <1>3 DEF Wrapped, ByHand
  <1>10. Counted' BY <1>1 DEF PrepInv, Counted
  <1>11. StillThere' /\ Certified'
    <2>1. pipeline = "inspire" => pipeline \in Preparation!Fresh
      BY DEF Preparation!Fresh
    <2> QED BY <2>1, <1>1, <1>3 DEF PrepInv, FilledOnce, StillThere, Certified
  <1>12. Refilled' BY <1>1 DEF Refilled
  <1> QED BY <1>6, <1>7, <1>8, <1>9, <1>10, <1>11, <1>12 DEF PrepInv

LEMMA LinkInv == ASSUME PrepInv, Preparation!Link PROVE PrepInv'
  <1> DEFINE e == Preparation!First(toPrepare)
             d == Preparation!Dest(e)
  <1>1. /\ prepPc = "link" /\ prepPc' = "link" /\ toPrepare # {}
        /\ tree[d] \in {None, e}
        /\ tree' = [tree EXCEPT ![d] = e]
        /\ wrappers' = IF pipeline = "humanoid" THEN [wrappers EXCEPT ![d] = e] ELSE wrappers
        /\ toPrepare' = toPrepare \ {e}
        /\ behind' = (behind \/ tree' # tree)
        /\ UNCHANGED <<pipeline, source, manifest, stats, sums, marker, made, rep, chosen, repair>>
    BY DEF Preparation!Link
  <1>2. e \in toPrepare /\ e \in chosen /\ e \in Recordings /\ d \in Preparation!Dests /\ e # None
    BY <1>1, FirstIsOne, DataAssumption DEF PrepInv, PrepTypes, Preparation!Dests
  <1> HIDE DEF e
  <1>3. /\ DOMAIN tree = Preparation!Dests
        /\ tree'[d] = e /\ \A c \in Preparation!Dests \ {d} : tree'[c] = tree[c]
    BY <1>1, <1>2 DEF PrepInv, PrepTypes, WellPlaced
  <1>4. WellPlaced(tree') /\ WellPlaced(wrappers')
    BY <1>1, <1>2 DEF PrepInv, PrepTypes, WellPlaced
  <1>5. PrepTypes'
    BY <1>1, <1>4 DEF PrepInv, PrepTypes, WellPlaced
  <1>6. \A c \in Preparation!Dests : tree[c] # None => tree'[c] # None
    BY <1>2, <1>3
  <1>7. StillThere'
    BY <1>1, <1>6 DEF PrepInv, StillThere, Present
  <1>8. Counted' BY <1>1 DEF PrepInv, Counted
  <1>9. Refilled'
    <2>1. CASE tree' = tree
      BY <2>1, <1>1, TreeSame DEF PrepInv, Refilled
    <2>2. CASE tree' # tree
      BY <2>2, <1>1 DEF Refilled
    <2> QED BY <2>1, <2>2
  <1>10. FilledOnce'
    BY <1>1, <1>2, <1>3 DEF PrepInv, FilledOnce
  <1>11. Linking'
    <2>1. ASSUME NEW c \in Preparation!Dests, tree'[c] # None
          PROVE  \E f \in chosen : Preparation!Dest(f) = c
      BY <2>1, <1>1, <1>2, <1>3 DEF PrepInv, Linking
    <2>2. ASSUME NEW f \in chosen \ toPrepare' PROVE tree'[Preparation!Dest(f)] # None
      <3>1. CASE f = e BY <3>1, <1>2, <1>3
      <3>2. CASE f # e
        <4>1. Preparation!Dest(f) \in Preparation!Dests
          BY DEF PrepInv, PrepTypes, Preparation!Dests
        <4>2. CASE Preparation!Dest(f) = d BY <4>2, <1>2, <1>3
        <4>3. CASE Preparation!Dest(f) # d
          <5>1. tree[Preparation!Dest(f)] # None
            BY <4>3, <2>2, <3>2, <1>1 DEF PrepInv, Linking, e
          <5> QED BY <5>1, <4>1, <1>6
        <4> QED BY <4>2, <4>3
      <3> QED BY <3>1, <3>2
    <2>3. ASSUME pipeline # "inspire", NEW f \in chosen \ toPrepare'
          PROVE  tree'[Preparation!Dest(f)] = f
      <3>1. CASE f = e BY <3>1, <1>2, <1>3
      <3>2. CASE f # e
        <4>1. Preparation!Dest(f) \in Preparation!Dests
          BY DEF PrepInv, PrepTypes, Preparation!Dests
        <4>2. f \in chosen \ toPrepare BY <3>2, <1>1
        <4>3. tree[Preparation!Dest(f)] = f
          BY <2>3, <4>2, <1>1 DEF PrepInv, Linking
        <4>4. Preparation!Dest(f) # d
          <5>1. f # None BY DataAssumption DEF PrepInv, PrepTypes
          <5> QED BY <5>1, <1>1, <4>3, <3>2
        <4> QED BY <4>1, <4>3, <4>4, <1>3
      <3> QED BY <3>1, <3>2
    <2>4. pipeline \in {"process", "bench"} =>
            \A g, f \in chosen : Preparation!Dest(g) = Preparation!Dest(f) => g = f
      BY <1>1 DEF PrepInv, Linking
    <2> QED BY <1>1, <2>1, <2>2, <2>3, <2>4 DEF Linking
  <1>13. Wrapped'
    BY <1>1, <1>2, <1>3 DEF PrepInv, Wrapped
  <1>12. ByHand' /\ Certified'
    <2>1. pipeline = "humanoid" \/ pipeline = "inspire" => pipeline \in Preparation!Fresh
      BY DEF Preparation!Fresh
    <2> QED BY <2>1, <1>1 DEF PrepInv, FilledOnce, ByHand, Certified
  <1> QED BY <1>5, <1>7, <1>8, <1>9, <1>10, <1>11, <1>12, <1>13 DEF PrepInv

LEMMA ManifestInv == ASSUME PrepInv, Preparation!WriteManifest PROVE PrepInv'
  <1>1. /\ prepPc = "link" /\ toPrepare = {}
        /\ pipeline = "inspire" => Preparation!Cardinality(chosen) = Expected
        /\ manifest' = [rep |-> rep, records |-> Preparation!Records(chosen),
                        count |-> Preparation!Cardinality(chosen),
                        frames |-> Preparation!Frames(rep, Preparation!Records(chosen))]
        /\ prepPc' = IF pipeline = "humanoid" THEN "idle" ELSE "statistics"
        /\ UNCHANGED <<pipeline, source, wrappers, tree, stats, sums, marker, made, rep, chosen,
                       toPrepare, repair, behind>>
    BY DEF Preparation!WriteManifest, Preparation!content, Preparation!run
  <1>2. /\ manifest'.rep = rep /\ manifest'.records = Preparation!Records(chosen)
        /\ manifest'.frames = Preparation!Frames(rep, Preparation!Records(chosen))
    BY <1>1
  <1>3. \A f \in chosen : /\ tree[Preparation!Dest(f)] # None
                          /\ Preparation!Dest(f) \in Preparation!Dests
    BY <1>1 DEF PrepInv, PrepTypes, Linking, Preparation!Dests
  <1>4. pipeline # "inspire" => Preparation!Records(chosen) = Preparation!Tree
    <2>1. ASSUME pipeline # "inspire" PROVE \A f \in chosen : tree[Preparation!Dest(f)] = f
      BY <2>1, <1>1 DEF PrepInv, Linking
    <2> QED BY <2>1, <1>1, TreeIsChosen DEF PrepInv, Linking
  <1>5. Preparation!Tree' = Preparation!Tree BY <1>1, TreeSame
  <1>6. PrepTypes' BY <1>1 DEF PrepInv, PrepTypes, WellPlaced
  <1>7. FilledOnce' BY <1>1 DEF PrepInv, FilledOnce
  <1>8. Linking' /\ Wrapped' BY <1>1 DEF PrepInv, Linking, Wrapped
  <1>9. Counted' BY <1>1, <1>2 DEF PrepInv, Counted
  <1>10. StillThere'
    <2>1. Present(Preparation!Records(chosen))
      BY <1>3 DEF Present, Preparation!Records
    <2> QED BY <2>1, <1>1, <1>2 DEF PrepInv, StillThere, Present
  <1>11. Refilled' /\ ByHand'
    BY <1>1, <1>2, <1>4, <1>5 DEF PrepInv, Refilled, ByHand
  <1>12. Certified'
    <2> SUFFICES ASSUME pipeline = "inspire" PROVE Certified'
      BY <1>1 DEF Certified
    <2>1. Cardinality(chosen) = Expected
      BY <1>1 DEF Cardinality, Preparation!Cardinality
    <2>2. sums = None /\ marker = None
      BY <1>1 DEF PrepInv, FilledOnce, Preparation!Fresh
    <2>3. rep = "inspire12" BY <1>1 DEF PrepInv, Certified
    <2> QED BY <1>1, <1>2, <1>3, <2>1, <2>2, <2>3 DEF Certified
  <1> QED BY <1>6, <1>7, <1>8, <1>9, <1>10, <1>11, <1>12 DEF PrepInv

LEMMA StatisticsInv == ASSUME PrepInv, Preparation!WriteStatistics PROVE PrepInv'
  <1>1. /\ prepPc = "statistics" \/ (prepPc = "idle" /\ pipeline = "humanoid" /\ rep # None)
        /\ stats' = [rep |-> rep, records |-> Preparation!Tree,
                     samples |-> Preparation!Frames(rep, Preparation!Tree)]
        /\ prepPc' = IF pipeline = "inspire" THEN "check" ELSE "idle"
        /\ behind' = FALSE
        /\ UNCHANGED <<pipeline, source, wrappers, tree, manifest, sums, marker, made, rep, chosen,
                       toPrepare, repair>>
    BY DEF Preparation!WriteStatistics, Preparation!content, Preparation!run
  <1>2. /\ stats'.rep = rep /\ stats'.records = Preparation!Tree
        /\ stats'.samples = Preparation!Frames(rep, Preparation!Tree)
    BY <1>1
  <1>3. Preparation!Tree' = Preparation!Tree BY <1>1, TreeSame
  <1>4. PrepTypes' BY <1>1 DEF PrepInv, PrepTypes, WellPlaced
  <1>5. FilledOnce' BY <1>1 DEF PrepInv, FilledOnce
  <1>6. Linking' /\ Wrapped' BY <1>1 DEF PrepInv, Linking, Wrapped
  <1>7. Counted' BY <1>1, <1>2 DEF PrepInv, Counted
  <1>8. StillThere' BY <1>1, <1>2, TreePresent DEF PrepInv, StillThere, Present
  <1>9. Refilled'
    <2> SUFFICES ASSUME pipeline \in {"process", "bench"} PROVE Refilled'
      BY <1>1 DEF Refilled
    <2>1. manifest.records = Preparation!Tree BY <1>1 DEF PrepInv, Refilled
    <2> QED BY <2>1, <1>1, <1>2, <1>3 DEF Refilled
  <1>10. ByHand' BY <1>1, <1>2, <1>3 DEF PrepInv, ByHand
  <1>11. Certified' BY <1>1, <1>2, <1>3 DEF PrepInv, Certified
  <1> QED BY <1>4, <1>5, <1>6, <1>7, <1>8, <1>9, <1>10, <1>11 DEF PrepInv

\* As many places as recordings: each place holds the one that was listed.
LEMMA OnePlaceEach ==
  ASSUME PrepTypes, Cardinality(chosen) = Cardinality(Preparation!Tree),
         \A e \in chosen : tree[Preparation!Dest(e)] # None,
         \A d \in Preparation!Dests : tree[d] # None => tree[d] \in chosen
  PROVE  Preparation!Records(chosen) = Preparation!Tree
  <1>1. IsFiniteSet(chosen)
    BY DataAssumption, FS_Subset DEF PrepTypes
  <1> DEFINE f == [e \in chosen |-> <<Preparation!Dest(e), tree[Preparation!Dest(e)]>>]
  <1>2. ASSUME NEW e \in chosen PROVE Preparation!Dest(e) \in Preparation!Dests
    BY DEF PrepTypes, Preparation!Dests
  <1>3. f \in [chosen -> Preparation!Tree]
    BY <1>2 DEF Preparation!Tree
  <1>4. ASSUME NEW p \in Preparation!Tree PROVE \E e \in chosen : f[e] = p
    <2>1. PICK d \in Preparation!Dests : tree[d] # None /\ p = <<d, tree[d]>>
      BY DEF Preparation!Tree
    <2>2. tree[d] \in chosen /\ Preparation!Dest(tree[d]) = d
      BY <2>1 DEF PrepTypes, WellPlaced
    <2> QED BY <2>1, <2>2
  <1>5. f \in Surjection(chosen, Preparation!Tree)
    BY <1>3, <1>4 DEF Surjection
  <1>6. f \in Injection(chosen, Preparation!Tree)
    BY <1>1, <1>5, FS_Surjection
  <1>7. ASSUME NEW e \in chosen PROVE tree[Preparation!Dest(e)] = e
    <2> DEFINE g == tree[Preparation!Dest(e)]
    <2>1. g \in chosen /\ Preparation!Dest(g) = Preparation!Dest(e)
      BY <1>2 DEF PrepTypes, WellPlaced
    <2>2. f[g] = f[e] BY <2>1
    <2> HIDE DEF f, g
    <2>3. g = e BY <2>1, <2>2, <1>6 DEF Injection, IsInjective
    <2> QED BY <2>3 DEF g
  <1>8. \A d \in Preparation!Dests : tree[d] # None => \E e \in chosen : Preparation!Dest(e) = d
    BY DEF PrepTypes, WellPlaced
  <1> QED BY <1>7, <1>8, TreeIsChosen

LEMMA ChecksumsInv == ASSUME PrepInv, Preparation!WriteChecksums PROVE PrepInv'
  <1>1. /\ prepPc = "check" /\ prepPc' = "mark" /\ Preparation!Contract
        /\ UNCHANGED <<pipeline, source, wrappers, tree, manifest, stats, marker, made, rep, chosen,
                       toPrepare, repair, behind>>
    BY DEF Preparation!WriteChecksums, Preparation!content, Preparation!run
  <1>2. pipeline = "inspire" BY <1>1 DEF PrepInv, PrepTypes
  <1>3. Preparation!Tree' = Preparation!Tree BY <1>1, TreeSame
  <1>4. Cardinality(chosen) = Cardinality(Preparation!Tree)
    BY <1>1, <1>2 DEF PrepInv, Certified, Preparation!Contract, Cardinality, Preparation!Cardinality
  <1>5. Preparation!Records(chosen) = Preparation!Tree
    BY <1>1, <1>2, <1>4, OnePlaceEach DEF PrepInv, Certified, FilledOnce, Preparation!Fresh
  <1>6. Certified'
    BY <1>1, <1>2, <1>3, <1>5 DEF PrepInv, Certified
  <1>7. PrepTypes' BY <1>1, <1>2 DEF PrepInv, PrepTypes, WellPlaced
  <1>8. FilledOnce'
    BY <1>1 DEF PrepInv, FilledOnce
  <1>9. Linking' /\ Wrapped' /\ Counted' /\ StillThere' /\ Refilled' /\ ByHand'
    BY <1>1, <1>2 DEF PrepInv, Linking, Wrapped, Counted, StillThere, Present, Refilled, ByHand
  <1> QED BY <1>6, <1>7, <1>8, <1>9 DEF PrepInv

LEMMA MarkerInv == ASSUME PrepInv, Preparation!WriteMarker PROVE PrepInv'
  <1>1. /\ prepPc = "mark" /\ prepPc' = "idle"
        /\ UNCHANGED <<pipeline, source, wrappers, tree, manifest, stats, sums, made, rep, chosen,
                       toPrepare, repair, behind>>
    BY DEF Preparation!WriteMarker, Preparation!content, Preparation!run
  <1>2. pipeline = "inspire" BY <1>1 DEF PrepInv, PrepTypes
  <1>3. Preparation!Tree' = Preparation!Tree BY <1>1, TreeSame
  <1>4. Certified' BY <1>1, <1>2, <1>3 DEF PrepInv, Certified
  <1>5. PrepTypes' BY <1>1, <1>2 DEF PrepInv, PrepTypes, WellPlaced
  <1>6. FilledOnce' BY <1>1 DEF PrepInv, FilledOnce
  <1>7. Linking' /\ Wrapped' /\ Counted' /\ StillThere' /\ Refilled' /\ ByHand'
    BY <1>1, <1>2 DEF PrepInv, Linking, Wrapped, Counted, StillThere, Present, Refilled, ByHand
  <1> QED BY <1>4, <1>5, <1>6, <1>7 DEF PrepInv

LEMMA PrepNextInv ==
  ASSUME PrepInv, [Preparation!PrepNext]_(Preparation!prepVars) PROVE PrepInv'
  <1>1. ASSUME NEW e \in Recordings, Preparation!Record(e) PROVE PrepInv'
    <2>1. source' \subseteq Recordings
      BY <1>1 DEF Preparation!Record, PrepInv, PrepTypes
    <2> QED BY <2>1, <1>1, QuietInv DEF Preparation!Record, Preparation!run
  <1>2. CASE Preparation!Stop
    <2>1. source' \subseteq Recordings
      BY <1>2 DEF Preparation!Stop, Preparation!content, PrepInv, PrepTypes
    <2> QED
      BY <2>1, <1>2, QuietInv DEF Preparation!Stop, Preparation!content, Preparation!run
  <1>3. CASE UNCHANGED Preparation!prepVars
    <2>1. source' \subseteq Recordings
      BY <1>3 DEF Preparation!prepVars, PrepInv, PrepTypes
    <2> QED BY <2>1, <1>3, QuietInv DEF Preparation!prepVars
  <1> QED
    BY <1>1, <1>2, <1>3, StartInv, WrapInv, PrepareInv, UnlinkInv, LinkInv, ManifestInv, StatisticsInv,
       ChecksumsInv, MarkerInv
    DEF Preparation!PrepNext

LEMMA PrepInvSuffices == PrepInv => DataIsConsistent
  <1> SUFFICES ASSUME PrepInv, NEW r \in Preparation!Representations, Preparation!Accepts(r)
               PROVE  /\ pipeline \in Preparation!Fresh \/ ~behind =>
                           /\ manifest.records = Preparation!Tree
                           /\ stats.records = Preparation!Tree
                           /\ manifest.frames = stats.samples
                      /\ pipeline # "process" =>
                           \A p \in manifest.records \cup stats.records : tree[p[1]] # None
    BY DEF DataIsConsistent, Preparation!AcceptedIsConsistent
  <1>1. stats # None /\ manifest # None /\ manifest.rep = r /\ stats.rep = r
    BY DEF Preparation!Accepts
  <1>2. pipeline # "process" =>
          \A p \in manifest.records \cup stats.records : tree[p[1]] # None
    BY <1>1 DEF PrepInv, StillThere, Present
  <1>3. ASSUME pipeline \in Preparation!Fresh \/ ~behind
        PROVE  manifest.records = Preparation!Tree /\ stats.records = Preparation!Tree
    <2>1. CASE pipeline = "inspire"
      <3>1. r = "inspire12" BY <2>1, <1>1 DEF PrepInv, Certified
      <3>2. /\ sums = [manifest |-> manifest, stats |-> stats]
            /\ marker = [manifest |-> manifest, stats |-> stats, sums |-> sums]
        BY <3>1 DEF Preparation!Accepts
      <3>3. DOMAIN sums = {"manifest", "stats"} /\ DOMAIN marker = {"manifest", "stats", "sums"}
        BY <3>2
      <3>4. sums # marker BY <3>3
      <3> QED BY <2>1, <3>4 DEF PrepInv, Certified
    <2>2. CASE pipeline = "humanoid"
      BY <2>2, <1>1 DEF PrepInv, ByHand
    <2>3. CASE pipeline \in {"process", "bench"}
      BY <2>3, <1>1, <1>3 DEF PrepInv, Refilled, Preparation!Fresh
    <2> QED BY <2>1, <2>2, <2>3 DEF PrepInv, PrepTypes, Preparation!Pipelines
  <1>4. ASSUME pipeline \in Preparation!Fresh \/ ~behind PROVE manifest.frames = stats.samples
    BY <1>1, <1>3, <1>4 DEF PrepInv, Counted
  <1> QED BY <1>2, <1>3, <1>4

\* What train.sh accepts is of one piece - the tree, the manifest, the statistics
\* and the numbers in both - wherever preparations stopped or were started
\* again, unless one that changed the tree was broken off before the statistics.
\* Even then no episode they speak of is gone, but where prepare_vitra_data.py was
\* broken off between unlinking a wrong link and making the right one.
THEOREM DataAlwaysConsistent == TrainingSpec => []DataIsConsistent
  <1>1. TrainingInit => PrepInv
    <2> SUFFICES ASSUME TrainingInit PROVE PrepInv
      OBVIOUS
    <2>1. /\ pipeline \in Preparation!Pipelines /\ source \subseteq Recordings
          /\ wrappers = [d \in Preparation!Dests |-> None]
          /\ tree = [d \in Preparation!Dests |-> None]
          /\ manifest = None /\ stats = None /\ sums = None /\ marker = None /\ made = FALSE
          /\ prepPc = "idle" /\ rep = None /\ chosen = {} /\ toPrepare = {} /\ repair = FALSE
      BY DEF TrainingInit, Preparation!PrepInit
    <2>2. PrepTypes BY <2>1 DEF PrepTypes, WellPlaced
    <2>3. FilledOnce BY <2>1 DEF FilledOnce
    <2>4. Linking /\ Wrapped /\ Counted /\ StillThere
      BY <2>1 DEF Linking, Wrapped, Counted, StillThere
    <2>5. Refilled /\ ByHand /\ Certified BY <2>1 DEF Refilled, ByHand, Certified
    <2> QED BY <2>2, <2>3, <2>4, <2>5 DEF PrepInv
  <1>2. PrepInv /\ [TrainingNext]_trainVars => PrepInv'
    BY PartSteps, PrepNextInv
  <1> QED BY <1>1, <1>2, PrepInvSuffices, PTL DEF TrainingSpec

=============================================================================
