---------------------------- MODULE BatchSampler ----------------------------
(***************************************************************************)
(* MultipleDatasetWeightedDistributedBatchSampler of datasets/dataset.py:  *)
(* every rank draws the same list of (dataset, sample) pairs for an epoch, *)
(* pads or truncates it to whole batches of all ranks, and walks through   *)
(* its own stride of it.  Ranks are separate processes that prefetch at    *)
(* their own pace; nothing but the seed keeps them together.               *)
(***************************************************************************)
EXTENDS Naturals, Sequences, FiniteSets, SequencesExt

CONSTANTS
  Length,      \* [1..n -> lengths of the datasets]
  SampleSize,  \* [1..n -> int(weight * length)], the draws of an epoch
  BatchSize, Replicas,
  MaxEpoch     \* bound: epochs walked through

Datasets == DOMAIN Length
RankIds == 0..(Replicas - 1)

VARIABLES
  dropLast, \* drop_last
  epoch,    \* [RankIds -> epoch]
  step,     \* [RankIds -> batches yielded in the epoch]
  yielded   \* history: [RankIds -> epochs -> indices yielded, in order]

vars == <<dropLast, epoch, step, yielded>>

-----------------------------------------------------------------------------
\* prepare_sample_size: the draws of the first datasets, and of all.
Draws[n \in Nat] == IF n = 0 THEN 0 ELSE Draws[n - 1] + SampleSize[n]
TotalSize == Draws[Len(SampleSize)]

IterSize == BatchSize * Replicas

NumIters ==
  IF dropLast THEN TotalSize \div IterSize
  ELSE (TotalSize + IterSize - 1) \div IterSize

NumSamples == NumIters * IterSize

\* create_indices: a permutation that depends on the dataset and on how often
\* it has been gone through.  A rotation stands for torch.randperm.
CreateIndices(d, round) == [i \in 1..Length[d] |-> (i + (round + d)) % Length[d]]

\* create_indices_range: where the first round is entered.
FirstIdx(d, start) == (start % Length[d]) + 1

\* create_indices_range: the last round and where it ends; an end at a boundary
\* belongs to the round before it.
Boundary(d, end) ==
  IF end % Length[d] = 0
  THEN [round |-> end \div Length[d] - 1, idx |-> Length[d]]
  ELSE [round |-> end \div Length[d], idx |-> end % Length[d]]

\* create_indices_range: the slices of all rounds from start to end.
CreateIndicesRange(d, start, end) ==
  LET first == start \div Length[d]
      last == Boundary(d, end)
      Slice(round) ==
        SubSeq(CreateIndices(d, round),
               IF round = first THEN FirstIdx(d, start) ELSE 1,
               IF round = last.round THEN last.idx ELSE Length[d])
  IN FlattenSeq([k \in 1..(last.round - first + 1) |-> Slice(first + k - 1)])

\* shuffle_dataset_indices: the dataset ids in an order of their own, each
\* taking the next index of its dataset.  Round robin by epoch stands for
\* rng.shuffle, which all ranks seed alike.
Mixed(lists, e) ==
  LET n == Len(lists)
      all == FlattenSeq([k \in 1..n |->
               LET d == ((k + e) % n) + 1
               IN [i \in 1..Len(lists[d]) |-> <<d, lists[d][i]>>]])
      half == Len(all) \div 2
  IN SubSeq(all, half + 1, Len(all)) \o SubSeq(all, 1, half)

\* prepare_indices
PrepareIndices(e) ==
  Mixed([d \in Datasets |->
           CreateIndicesRange(d, e * SampleSize[d], (e + 1) * SampleSize[d])], e)

\* __iter__: padded with its own head, repeated as often as it takes, or cut.
Sized(list) == [i \in 1..NumSamples |-> list[((i - 1) % Len(list)) + 1]]

\* Mutant of Stride: each rank takes a block, of the unsized list's length.
BlockWise(list, r) ==
  SubSeq(list, r * BatchSize + 1, r * BatchSize + NumIters * BatchSize)

\* __iter__: every Replicas-th entry, from rank r on.
Stride(list, r) ==
  [i \in 1..(NumIters * BatchSize) |-> list[(i - 1) * Replicas + r + 1]]

Shard(e, r) == Stride(Sized(PrepareIndices(e)), r)

-----------------------------------------------------------------------------
\* set_epoch at a launch: any epoch and step, the same on all ranks.
StartAt(e, s) ==
  /\ epoch = [r \in RankIds |-> e]
  /\ step = [r \in RankIds |-> s]
  /\ yielded = [r \in RankIds |-> [k \in 0..MaxEpoch |-> <<>>]]

Init ==
  /\ dropLast \in BOOLEAN
  /\ \E e \in 0..(MaxEpoch - 1), s \in 0..(NumIters - 1) : StartAt(e, s)

\* The next batch of rank r.
Yield(r) ==
  /\ epoch[r] <= MaxEpoch /\ step[r] < NumIters
  /\ yielded' = [yielded EXCEPT ![r][epoch[r]] =
       @ \o SubSeq(Shard(epoch[r], r), step[r] * BatchSize + 1, (step[r] + 1) * BatchSize)]
  /\ step' = [step EXCEPT ![r] = @ + 1]
  /\ UNCHANGED <<dropLast, epoch>>

\* The default of set_epoch.
FirstStep == 0

\* The iterator is exhausted and the next one starts: set_epoch(epoch + 1).
NextEpoch(r) ==
  /\ epoch[r] < MaxEpoch /\ step[r] = NumIters
  /\ epoch' = [epoch EXCEPT ![r] = @ + 1]
  /\ step' = [step EXCEPT ![r] = FirstStep]
  /\ UNCHANGED <<dropLast, yielded>>

Next == \E r \in RankIds : Yield(r) \/ NextEpoch(r)

Spec == Init /\ [][Next]_vars
-----------------------------------------------------------------------------
\* Occurrences of x in a sequence.
Count(seq, x) == Cardinality({i \in DOMAIN seq : seq[i] = x})

\* The list every rank draws for epoch e holds each index exactly as often as
\* the rounds through its dataset call for: the draws of all epochs, end to
\* end, are whole permutations one after another.
DrawsAreRounds ==
  \A r \in RankIds, d \in Datasets :
    LET start == epoch[r] * SampleSize[d]
        Draw(n) == CreateIndices(d, n \div Length[d])[(n % Length[d]) + 1]
    IN CreateIndicesRange(d, start, start + SampleSize[d])
         = [i \in 1..SampleSize[d] |-> Draw(start + i - 1)]

\* No rank trains on an index more often than its share, and together the
\* ranks use the epoch's list once: what all of them have yielded of an index
\* never exceeds what the (padded) list holds of it.
ShardsDisjoint ==
  \A e \in 0..MaxEpoch :
    LET list == Sized(PrepareIndices(e))
        Taken(r, x) == {i \in DOMAIN yielded[r][e] : yielded[r][e][i] = x}
    IN \A x \in ToSet(list) :
         Cardinality(UNION {{r} \X Taken(r, x) : r \in RankIds}) <= Count(list, x)

\* A rank that resumed inside an epoch and walked to its end has yielded just
\* the rest of its shard, and a whole shard of every epoch after it.
EpochsComplete ==
  \A r \in RankIds : \A e \in 0..MaxEpoch :
    LET n == Len(yielded[r][e])
        shard == Shard(e, r)
        resumed == \A earlier \in 0..(e - 1) : yielded[r][earlier] = <<>>
    IN e < epoch[r] /\ n > 0 =>
         /\ yielded[r][e] = SubSeq(shard, Len(shard) - n + 1, Len(shard))
         /\ ~resumed => n = Len(shard)
=============================================================================
