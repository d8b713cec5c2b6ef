-------------------------- MODULE CheckpointProofs ---------------------------
(***************************************************************************)
(* Saving and resuming, for any number of ranks, saves, launches, crashes  *)
(* and failed writes: the machine of two writer threads, three files and   *)
(* reused directories is one atomic save.                                  *)
(***************************************************************************)
EXTENDS Checkpoint, WellFoundedInduction, SequenceTheorems, TLAPS

Quiet == \A r \in Ranks : phase[r] = "training"

\* Rank zero left before the gathering: nothing but a crash can follow.
Alone == phase[Zero] = "alone"

\* A process that runs was launched.
Types == TypeOK /\ (job # "down" => runs > 0)

\* How far the ranks are apart inside one save, by what rank zero has told.
Protocol ==
  /\ job # "up" => Quiet
  /\ phase[Zero] # "writing" <=> writer = [f \in StateFiles |-> "idle"]
  /\ phase[Zero] = "writing" => \A f \in StateFiles : writer[f] # "idle"
  /\ Alone =>
       verdict = "none" /\ job = "up" /\ \A r \in Ranks \ {Zero} : phase[r] = "gather"
  /\ verdict = "none" => Quiet \/ Alone \/ \A r \in Ranks :
       phase[r] \in IF r = Zero THEN {"gather", "writing"} ELSE {"gather", "broadcast"}
  /\ verdict # "none" =>
       phase[Zero] # "gather" /\ step \in Steps /\ job # "down"
       /\ \A r \in Ranks : phase[r] # "writing"
  /\ verdict = "saved" =>
       /\ \A r \in Ranks : phase[r] # "raised"
       /\ (\E r \in Ranks : phase[r] = "training")
            => \A r \in Ranks : phase[r] \in {"barrier", "training"}
  /\ verdict = "failed" => \A r \in Ranks : phase[r] \in {"gather", "broadcast", "raised"}
  /\ ~Quiet /\ ~Alone => step \in Steps /\ disk[step].exists

\* A directory that is not there holds nothing, and weights have the length
\* of the step they are named after.
Dirs ==
  /\ \A s \in Steps : ~disk[s].exists =>
       ~disk[s].complete /\ \A f \in StateFiles : ~HasFile(s, f)
  /\ \A s \in Steps : HasFile(s, "weights") => Len(disk[s]["weights"]) = s
  /\ Len(memory["weights"]) = step

\* Between the first gather and the verdict.
Saving == verdict = "none" /\ ~Quiet /\ ~Alone

\* The run is where its newest directory is.
AtSave == verdict = "saved" \/ (verdict = "none" /\ Quiet)

\* What train.sh keeps true of the directories: all but the newest are complete.
OneHistory ==
  /\ memory["weights"] = memory["optimizer"]
  /\ \A s \in Steps : Complete(s) => disk[s]["weights"] = disk[s]["optimizer"]
  /\ \A s, t \in Steps : s < t /\ disk[t].exists => Complete(s)
  /\ job # "down" /\ ~Alone => \A s \in Steps : disk[s].exists <=> s <= step
  /\ step <= MaxSave
  /\ job = "up" /\ verdict = "none" /\ Quiet => step < MaxSave
  /\ job = "finished" => verdict = "saved" /\ step >= MaxSave

\* What the directory of the current step holds, and the one before it.
Newest ==
  /\ Saving =>
       /\ ~disk[step].complete
       /\ phase[Zero] = "gather" => \A f \in StateFiles : ~HasFile(step, f)
       /\ phase[Zero] = "writing" => \A f \in StateFiles :
            disk[step][f] = IF writer[f] = "done" THEN memory[f] ELSE None
       /\ step > 1 => disk[step - 1]["weights"] = SubSeq(memory["weights"], 1, step - 1)
  /\ job # "down" /\ AtSave /\ step > 0 =>
       Complete(step) /\ disk[step]["weights"] = memory["weights"]
  /\ verdict = "failed" => ~disk[step].complete

SaveInv == launcher = "train.sh" => OneHistory /\ Newest

IInv == Types /\ Protocol /\ Dirs /\ SaveInv
-----------------------------------------------------------------------------
(* The greatest of the saves.                                              *)

\* A set of numbers with a bound has a greatest element: the least of what is
\* left up to the bound.
LEMMA Maximum ==
  ASSUME NEW n \in Nat, NEW T \in SUBSET (0..n), T # {}
  PROVE  \E s \in T : \A t \in T : t <= s
PROOF
  <1> DEFINE left == {n - t : t \in T}
  <1>1. left \subseteq Nat /\ left # {}
    <2>1. PICK t \in T : TRUE
      OBVIOUS
    <2>2. n - t \in left
      OBVIOUS
    <2>3. \A u \in T : n - u \in Nat
      OBVIOUS
    <2> QED BY <2>2, <2>3
  <1>2. \E x \in left : \A y \in left : <<y, x>> \notin OpToRel(<, Nat)
    BY <1>1, WFMin, NatLessThanWellFounded
  <1>3. PICK x \in left : \A y \in left : <<y, x>> \notin OpToRel(<, Nat)
    BY <1>2
  <1>4. \A y \in left : ~ (y < x)
    BY <1>1, <1>3 DEF OpToRel
  <1>5. PICK s \in T : x = n - s
    OBVIOUS
  <1>6. ASSUME NEW t \in T PROVE t <= s
    <2>1. n - t \in left
      OBVIOUS
    <2>2. ~ (n - t < n - s)
      BY <1>4, <1>5, <2>1
    <2> QED BY <2>2
  <1> QED BY <1>6

\* Latest chooses the greatest step.
LEMMA LatestIsGreatest ==
  ASSUME NEW S \in SUBSET Steps, S # {}
  PROVE  Latest(S) \in S /\ \A t \in S : t <= Latest(S)
PROOF
  <1>1. MaxSave + 1 \in Nat /\ S \in SUBSET (0..(MaxSave + 1))
    BY BoundsAssumption DEF Steps
  <1>2. \E s \in S : \A t \in S : t <= s
    BY <1>1, Maximum
  <1> QED BY <1>2 DEF Latest

-----------------------------------------------------------------------------
(* What the actions do to the directories, step by step.                   *)

LEMMA TrainDisk ==
  ASSUME Types, Train
  PROVE  /\ step + 1 \in Steps
         /\ \A s \in Steps :
              /\ disk'[s].exists <=> (disk[s].exists \/ s = step + 1)
              /\ disk'[s].complete = disk[s].complete
              /\ disk'[s].weights = disk[s].weights
              /\ disk'[s].optimizer = disk[s].optimizer
PROOF
  <1>1. step + 1 \in Steps
    BY BoundsAssumption DEF Types, TypeOK, Train, Interval, Steps
  <1> QED BY <1>1 DEF Types, TypeOK, Train, Interval

LEMMA GatherDisk ==
  ASSUME Types, NEW r \in Ranks, PassGather(r)
  PROVE  disk' = disk
PROOF
  <1>1. CASE r = Zero
    <2>1. disk' = [disk EXCEPT ![step] = WhileWriting(disk[step])]
      BY <1>1 DEF PassGather
    <2>2. CASE step \in Steps
      <3>1. WhileWriting(disk[step]) = disk[step]
        BY <2>2 DEF WhileWriting, Published, Types, TypeOK
      <3>2. disk' = [disk EXCEPT ![step] = disk[step]]
        BY <2>1, <3>1
      <3> QED BY <3>2 DEF Types, TypeOK
    <2>3. CASE step \notin Steps
      BY <2>1, <2>3 DEF Types, TypeOK
    <2> QED BY <2>2, <2>3
  <1>2. CASE r # Zero
    BY <1>2 DEF PassGather
  <1> QED BY <1>1, <1>2

LEMMA PublishDisk ==
  ASSUME Types, NEW f \in StateFiles, PublishFile(f), step \in Steps
  PROVE  /\ \A s \in Steps, g \in StateFiles :
              disk'[s][g] = IF s = step /\ g = f THEN memory[f] ELSE disk[s][g]
         /\ \A s \in Steps :
              disk'[s].exists = disk[s].exists /\ disk'[s].complete = disk[s].complete
PROOF
  <1>1. CASE f = "weights"
    BY <1>1 DEF Types, TypeOK, PublishFile, StateFiles
  <1>2. CASE f = "optimizer"
    BY <1>2 DEF Types, TypeOK, PublishFile, StateFiles
  <1> QED BY <1>1, <1>2 DEF StateFiles

LEMMA MetaDisk ==
  ASSUME Types, NEW ok \in BOOLEAN, WriteMeta(ok), step \in Steps
  PROVE  /\ \A s \in Steps, g \in StateFiles : disk'[s][g] = disk[s][g]
         /\ \A s \in Steps :
              /\ disk'[s].exists = disk[s].exists
              /\ disk'[s].complete = (disk[s].complete \/ (ok /\ s = step))
PROOF
  <1>1. CASE ok
    <2>1. disk' = [disk EXCEPT ![step].complete = TRUE]
      BY <1>1 DEF WriteMeta
    <2>2. \A s \in Steps : disk'[s].exists = disk[s].exists
            /\ disk'[s].weights = disk[s].weights /\ disk'[s].optimizer = disk[s].optimizer
      BY <2>1 DEF Types, TypeOK
    <2>3. \A s \in Steps : disk'[s].complete = IF s = step THEN TRUE ELSE disk[s].complete
      BY <2>1 DEF Types, TypeOK
    <2>4. \A s \in Steps : disk[s].complete \in BOOLEAN
      BY DEF Types, TypeOK
    <2> QED BY <1>1, <2>2, <2>3, <2>4 DEF StateFiles
  <1>2. CASE ~ok
    BY <1>2 DEF Types, TypeOK, WriteMeta, StateFiles
  <1> QED BY <1>1, <1>2

LEMMA QuarantineDisk ==
  ASSUME Types, NEW q \in Steps, Quarantine(q)
  PROVE  \A s \in Steps : disk'[s] = IF s = q THEN NoDir ELSE disk[s]
  BY DEF Types, TypeOK, Quarantine

\* A directory's entry, whatever the action did to it.
Entry == [exists : BOOLEAN, complete : BOOLEAN,
          weights : Content \cup {None}, optimizer : Content \cup {None}]

-----------------------------------------------------------------------------
(* Types.                                                                  *)

\* What a launch reads is a content.
LEMMA LoadedType ==
  ASSUME Types, NEW s \in Steps, NEW f \in StateFiles
  PROVE  Loaded(s, f) \in Content
PROOF
  <1>1. <<>> \in Content
    BY DEF Content
  <1>2. CASE f = "weights"
    BY <1>1, <1>2 DEF Types, TypeOK, Loaded, HasFile
  <1>3. CASE f = "optimizer"
    BY <1>1, <1>3 DEF Types, TypeOK, Loaded, HasFile
  <1> QED BY <1>2, <1>3 DEF StateFiles

\* The directories that a launch looks at.
LEMMA WithWeightsLatest ==
  ASSUME WithWeights # {}
  PROVE  /\ Latest(WithWeights) \in Steps /\ HasFile(Latest(WithWeights), "weights")
         /\ \A s \in WithWeights : s <= Latest(WithWeights)
PROOF
  <1>1. WithWeights \in SUBSET Steps
    BY DEF WithWeights, Existing
  <1>2. Latest(WithWeights) \in WithWeights /\ \A s \in WithWeights : s <= Latest(WithWeights)
    BY <1>1, LatestIsGreatest
  <1> QED BY <1>2 DEF WithWeights, Existing

LEMMA CompleteLatest ==
  ASSUME CompleteSteps # {}
  PROVE  /\ Latest(CompleteSteps) \in Steps /\ Complete(Latest(CompleteSteps))
         /\ \A s \in CompleteSteps : s <= Latest(CompleteSteps)
PROOF
  <1>1. CompleteSteps \in SUBSET Steps
    BY DEF CompleteSteps, Existing
  <1>2. Latest(CompleteSteps) \in CompleteSteps
        /\ \A s \in CompleteSteps : s <= Latest(CompleteSteps)
    BY <1>1, LatestIsGreatest
  <1> QED BY <1>2 DEF CompleteSteps, Existing

LEMMA LaunchTypes ==
  ASSUME Types, NEW s \in 0..(MaxSave + 1), NEW content \in [StateFiles -> Content],
         LaunchFrom(s, content)
  PROVE  Types'
  BY BoundsAssumption DEF Types, TypeOK, LaunchFrom

LEMMA TypesStep ==
  ASSUME Types, Next
  PROVE  Types'
PROOF
  <1> USE BoundsAssumption, RanksAssumption
  <1>1. CASE Train
    <2>1. runs \in 1..MaxRuns
      BY <1>1 DEF Train, Interval, Types, TypeOK
    <2>2. \A f \in StateFiles : Append(memory[f], runs) \in Content
      BY <2>1 DEF Types, TypeOK, Content
    <2>3. memory' \in [StateFiles -> Content]
      BY <1>1, <2>2 DEF Train, Interval
    <2>4. disk' \in [Steps -> Entry]
      BY <1>1 DEF Train, Interval, Types, TypeOK, Entry
    <2>5. step' \in 0..(MaxSave + 1)
      BY <1>1 DEF Train, Interval, Types, TypeOK
    <2> QED BY <1>1, <2>3, <2>4, <2>5 DEF Train, Interval, Types, TypeOK, Entry
  <1>2. CASE \E r \in Ranks : PassGather(r)
    <2>1. PICK r \in Ranks : PassGather(r)
      BY <1>2
    <2>2. disk' = disk
      BY <2>1, GatherDisk
    <2> QED BY <2>1, <2>2 DEF PassGather, Types, TypeOK
  <1>3. CASE \E r \in Ranks : Broadcast(r)
    BY <1>3 DEF Broadcast, Types, TypeOK
  <1>4. CASE \E r \in Ranks : PassBarrier(r)
    BY <1>4 DEF PassBarrier, Types, TypeOK
  <1>5. CASE \E f \in StateFiles : PublishFile(f)
    <2>1. PICK f \in StateFiles : PublishFile(f)
      BY <1>5
    <2>2. disk' \in [Steps -> Entry]
      <3>1. CASE f = "weights"
        <4>1. disk' = [disk EXCEPT ![step].weights = memory["weights"]]
          BY <2>1, <3>1 DEF PublishFile
        <4>2. memory["weights"] \in Content \cup {None} /\ disk \in [Steps -> Entry]
          BY DEF Types, TypeOK, Entry, StateFiles
        <4> QED BY <4>1, <4>2 DEF Entry
      <3>2. CASE f = "optimizer"
        <4>1. disk' = [disk EXCEPT ![step].optimizer = memory["optimizer"]]
          BY <2>1, <3>2 DEF PublishFile
        <4>2. memory["optimizer"] \in Content \cup {None} /\ disk \in [Steps -> Entry]
          BY DEF Types, TypeOK, Entry, StateFiles
        <4> QED BY <4>1, <4>2 DEF Entry
      <3> QED BY <3>1, <3>2 DEF StateFiles
    <2> QED BY <2>1, <2>2 DEF PublishFile, Types, TypeOK, Entry
  <1>6. CASE \E f \in StateFiles : WriteFails(f)
    BY <1>6 DEF WriteFails, Types, TypeOK
  <1>7. CASE \E ok \in BOOLEAN : WriteMeta(ok)
    <2>1. PICK ok \in BOOLEAN : WriteMeta(ok)
      BY <1>7
    <2>2. disk' \in [Steps -> Entry]
      <3>1. disk' = disk \/ disk' = [disk EXCEPT ![step].complete = TRUE]
        BY <2>1 DEF WriteMeta
      <3>2. [disk EXCEPT ![step].complete = TRUE] \in [Steps -> Entry]
        BY DEF Types, TypeOK, Entry
      <3> QED BY <3>1, <3>2 DEF Types, TypeOK, Entry
    <2>3. faults' \in 0..MaxFaults
      BY <2>1 DEF WriteMeta, Types, TypeOK
    <2>4. verdict' \in {"none", "saved", "failed"} /\ phase' \in [Ranks ->
            {"training", "gather", "alone", "writing", "broadcast", "barrier", "raised"}]
          /\ writer' \in [StateFiles -> {"idle", "writing", "done", "failed"}]
      BY <2>1 DEF WriteMeta, Types, TypeOK
    <2> QED BY <2>1, <2>2, <2>3, <2>4 DEF WriteMeta, Types, TypeOK, Entry
  <1>8. CASE Terminate
    BY <1>8 DEF Terminate, Types, TypeOK
  <1>9. CASE Crash
    <2>1. <<>> \in Content
      BY DEF Content
    <2> QED BY <1>9, <2>1 DEF Crash, Types, TypeOK
  <1>10. CASE LaunchFresh
    <2>1. <<>> \in Content
      BY DEF Content
    <2>2. [f \in StateFiles |-> <<>>] \in [StateFiles -> Content] /\ 0 \in 0..(MaxSave + 1)
      BY <2>1
    <2> QED BY <1>10, <2>2, LaunchTypes DEF LaunchFresh
  <1>11. CASE ResumeComplete
    <2>1. CompleteSteps # {}
      BY <1>11 DEF ResumeComplete, Resumable
    <2>2. Latest(CompleteSteps) \in Steps
      BY <2>1, CompleteLatest
    <2>3. [f \in StateFiles |-> Loaded(Latest(CompleteSteps), f)] \in [StateFiles -> Content]
      BY <2>2, LoadedType
    <2>4. Latest(CompleteSteps) \in 0..(MaxSave + 1)
      BY <2>2 DEF Steps
    <2> QED BY <1>11, <2>3, <2>4, LaunchTypes DEF ResumeComplete
  <1>12. CASE ResumeLast
    <2>1. WithWeights # {}
      BY <1>12 DEF ResumeLast
    <2>2. Latest(WithWeights) \in Steps
      BY <2>1, WithWeightsLatest
    <2>3. [f \in StateFiles |-> Loaded(Latest(WithWeights), f)] \in [StateFiles -> Content]
      BY <2>2, LoadedType
    <2>4. Latest(WithWeights) \in 0..(MaxSave + 1)
      BY <2>2 DEF Steps
    <2> QED BY <1>12, <2>3, <2>4, LaunchTypes DEF ResumeLast
  <1>13. CASE \E s \in Steps : Quarantine(s)
    <2>1. NoDir \in Entry
      BY DEF NoDir, Entry
    <2>2. disk' \in [Steps -> Entry]
      BY <1>13, <2>1 DEF Quarantine, Types, TypeOK, Entry
    <2> QED BY <1>13, <2>2 DEF Quarantine, Types, TypeOK, Entry
  <1>14. CASE Stopped
    BY <1>14 DEF Stopped, vars, Types, TypeOK
  <1>15. CASE NoDirectory
    <2>1. runs \in 1..MaxRuns
      BY <1>15 DEF NoDirectory, Interval, Types, TypeOK
    <2>2. \A f \in StateFiles : Append(memory[f], runs) \in Content
      BY <2>1 DEF Types, TypeOK, Content
    <2>3. memory' \in [StateFiles -> Content]
      BY <1>15, <2>2 DEF NoDirectory, Interval
    <2>4. step' \in 0..(MaxSave + 1) /\ faults' \in 0..MaxFaults
      BY <1>15 DEF NoDirectory, Interval, Types, TypeOK
    <2> QED BY <1>15, <2>3, <2>4 DEF NoDirectory, Interval, Types, TypeOK
  <1> QED BY <1>1, <1>2, <1>3, <1>4, <1>5, <1>6, <1>7, <1>8, <1>9, <1>10, <1>11, <1>12, <1>13,
             <1>14, <1>15 DEF Next, Write, Save

-----------------------------------------------------------------------------
(* How far the ranks are apart inside one save.                            *)

\* Steps that change neither phases nor verdict nor the step.
LEMMA ProtocolLaunch ==
  ASSUME Types, Protocol, NEW s, NEW content, LaunchFrom(s, content)
  PROVE  Protocol'
PROOF
  <1>1. Quiet /\ ~Alone /\ phase' = phase /\ writer' = writer /\ verdict' = "none"
    BY DEF Protocol, LaunchFrom
  <1>2. Quiet' /\ ~Alone'
    BY <1>1 DEF Quiet, Alone
  <1>3. phase[Zero] = "training"
    BY <1>1, RanksAssumption DEF Quiet, Alone
  <1> QED BY <1>1, <1>2, <1>3 DEF Protocol

LEMMA ProtocolStep ==
  ASSUME Types, Protocol, Next
  PROVE  Protocol'
PROOF
  <1> USE RanksAssumption
  <1>1. CASE Train
    <2>1. step' \in Steps /\ disk'[step'].exists
      BY <1>1, TrainDisk DEF Train, Interval
    <2>2. \A r \in Ranks : phase'[r] = "gather"
      BY <1>1 DEF Train, Interval
    <2>3. writer' = [f \in StateFiles |-> "idle"]
      BY <1>1 DEF Train, Interval, Protocol
    <2> QED BY <1>1, <2>1, <2>2, <2>3 DEF Train, Interval, Protocol, Quiet, Alone
  <1>2. CASE \E r \in Ranks : PassGather(r)
    <2>1. PICK r \in Ranks : PassGather(r)
      BY <1>2
    <2>2. disk' = disk /\ step' = step /\ job' = job /\ verdict' = verdict
      BY <2>1, GatherDisk DEF PassGather
    <2>3. ~Quiet /\ ~Alone /\ job = "up" /\ \A q \in Ranks : phase[q] # "training"
      BY <2>1 DEF PassGather, Quiet, Alone
    <2>4. \A q \in Ranks : phase'[q] =
            IF q = r THEN IF r = Zero THEN "writing" ELSE "broadcast" ELSE phase[q]
      BY <2>1 DEF PassGather, Types, TypeOK
    <2>5. r = Zero => verdict = "none"
      BY <2>1 DEF PassGather, Protocol, Types, TypeOK
    <2>6. writer' = IF r = Zero THEN [f \in StateFiles |-> "writing"] ELSE writer
      BY <2>1 DEF PassGather
    <2>7. (phase[Zero] # "writing" <=> writer = [f \in StateFiles |-> "idle"])'
      <3>1. CASE r = Zero
        <4>1. "weights" \in StateFiles
          BY DEF StateFiles
        <4>2. writer'["weights"] = "writing"
          BY <2>6, <3>1, <4>1
        <4>3. writer' # [f \in StateFiles |-> "idle"]
          BY <4>1, <4>2
        <4> QED BY <3>1, <4>3, <2>4
      <3>2. CASE r # Zero
        BY <2>4, <2>6, <3>2 DEF Protocol
      <3> QED BY <3>1, <3>2
    <2>8. (phase[Zero] = "writing" => \A f \in StateFiles : writer[f] # "idle")'
      BY <2>4, <2>6 DEF Protocol
    <2>9. ~Quiet' /\ ~Alone'
      BY <2>4, <2>3 DEF Quiet, Alone
    <2>10. (verdict = "none" => \A q \in Ranks :
              phase[q] \in IF q = Zero THEN {"gather", "writing"} ELSE {"gather", "broadcast"})'
      BY <2>2, <2>3, <2>4 DEF Protocol
    <2>11. (verdict # "none" =>
              phase[Zero] # "gather" /\ step \in Steps /\ job # "down"
              /\ \A q \in Ranks : phase[q] # "writing")'
      BY <2>2, <2>4, <2>5 DEF Protocol
    <2>12. (verdict = "saved" => \A q \in Ranks : phase[q] # "raised" /\ phase[q] # "training")'
      BY <2>2, <2>3, <2>4 DEF Protocol
    <2>13. (verdict = "failed" => \A q \in Ranks : phase[q] \in {"gather", "broadcast", "raised"})'
      BY <2>2, <2>4, <2>5 DEF Protocol
    <2>14. (step \in Steps /\ disk[step].exists)'
      BY <2>2, <2>3 DEF Protocol
    <2> QED BY <2>2, <2>3, <2>7, <2>8, <2>9, <2>10, <2>11, <2>12, <2>13, <2>14 DEF Protocol
  <1>3. CASE \E r \in Ranks : Broadcast(r)
    <2>1. PICK r \in Ranks : Broadcast(r)
      BY <1>3
    <2>2. verdict # "none" /\ ~Quiet /\ ~Alone /\ job = "up"
      BY <2>1 DEF Broadcast, Heard, Quiet, Alone, Protocol
    <2>3. \A q \in Ranks : phase'[q] =
            IF q = r THEN IF verdict = "failed" THEN "raised" ELSE "barrier" ELSE phase[q]
      BY <2>1 DEF Broadcast, Types, TypeOK
    <2>4. phase'[Zero] # "writing" /\ phase[Zero] # "writing" /\ phase'[Zero] # "gather"
      BY <2>2, <2>3 DEF Protocol
    <2>5. disk' = disk /\ step' = step /\ job' = job /\ verdict' = verdict /\ writer' = writer
      BY <2>1 DEF Broadcast
    <2>6. ~Quiet' /\ ~Alone'
      BY <2>2, <2>3 DEF Quiet, Alone
    <2>7. \A q \in Ranks : phase'[q] # "writing"
      BY <2>2, <2>3 DEF Protocol
    <2>8. (verdict = "saved" => \A q \in Ranks : phase[q] # "raised" /\ phase[q] # "training")'
      <3>1. verdict = "saved" => \A q \in Ranks : phase[q] # "raised" /\ phase[q] # "training"
        BY <2>1 DEF Broadcast, Protocol
      <3> QED BY <3>1, <2>3, <2>5
    <2>9. (verdict = "failed" => \A q \in Ranks : phase[q] \in {"gather", "broadcast", "raised"})'
      BY <2>3, <2>5 DEF Protocol
    <2>10. (step \in Steps /\ disk[step].exists)'
      BY <2>2, <2>5 DEF Protocol
    <2> QED BY <2>2, <2>4, <2>5, <2>6, <2>7, <2>8, <2>9, <2>10 DEF Protocol
  <1>4. CASE \E r \in Ranks : PassBarrier(r)
    <2>1. PICK r \in Ranks : PassBarrier(r)
      BY <1>4
    <2>2. \A q \in Ranks : phase[q] \in {"barrier", "training"}
      BY <2>1 DEF PassBarrier
    <2>3. \A q \in Ranks : phase'[q] \in {"barrier", "training"}
      BY <2>1, <2>2 DEF PassBarrier, Types, TypeOK
    <2>4. verdict = "saved" /\ ~Quiet /\ ~Alone
      BY <2>1, <2>2 DEF PassBarrier, Protocol, Quiet, Alone, Types, TypeOK
    <2>5. disk' = disk /\ step' = step /\ job' = job /\ verdict' = verdict /\ writer' = writer
          /\ job = "up"
      BY <2>1 DEF PassBarrier
    <2>6. phase'[Zero] # "writing" /\ phase[Zero] # "writing"
      BY <2>2, <2>3
    <2> QED BY <2>2, <2>3, <2>4, <2>5, <2>6 DEF Protocol, Alone
  <1>5. CASE \E f \in StateFiles : PublishFile(f)
    <2>1. PICK f \in StateFiles : PublishFile(f)
      BY <1>5
    <2>2. step' = step /\ job' = job /\ verdict' = verdict /\ phase' = phase /\ job = "up"
      BY <2>1 DEF PublishFile
    <2>3. writer' = [writer EXCEPT ![f] = "done"] /\ writer[f] = "writing"
      BY <2>1 DEF PublishFile
    <2>4. phase[Zero] = "writing"
      BY <2>3 DEF Protocol
    <2>5. ~Quiet /\ ~Alone /\ step \in Steps /\ disk[step].exists
      BY <2>4 DEF Quiet, Alone, Protocol
    <2>6. disk'[step'].exists
      BY <2>1, <2>2, <2>5, PublishDisk
    <2>7. \A g \in StateFiles : writer'[g] # "idle"
      BY <2>3, <2>4 DEF Protocol, Types, TypeOK
    <2>8. writer' # [g \in StateFiles |-> "idle"]
      BY <2>7 DEF StateFiles
    <2> QED BY <2>2, <2>4, <2>5, <2>6, <2>7, <2>8 DEF Protocol, Quiet, Alone
  <1>6. CASE \E f \in StateFiles : WriteFails(f)
    <2>1. PICK f \in StateFiles : WriteFails(f)
      BY <1>6
    <2>2. step' = step /\ job' = job /\ verdict' = verdict /\ phase' = phase /\ job = "up"
          /\ disk' = disk
      BY <2>1 DEF WriteFails
    <2>3. writer' = [writer EXCEPT ![f] = "failed"] /\ writer[f] = "writing"
      BY <2>1 DEF WriteFails
    <2>4. phase[Zero] = "writing"
      BY <2>3 DEF Protocol
    <2>7. \A g \in StateFiles : writer'[g] # "idle"
      BY <2>3, <2>4 DEF Protocol, Types, TypeOK
    <2>8. writer' # [g \in StateFiles |-> "idle"]
      BY <2>7 DEF StateFiles
    <2> QED BY <2>2, <2>4, <2>7, <2>8 DEF Protocol, Quiet, Alone
  <1>7. CASE \E ok \in BOOLEAN : WriteMeta(ok)
    <2>1. PICK ok \in BOOLEAN : WriteMeta(ok)
      BY <1>7
    <2>2. phase[Zero] = "writing" /\ job = "up" /\ job' = job /\ step' = step
          /\ writer' = [f \in StateFiles |-> "idle"] /\ verdict' \in {"saved", "failed"}
      BY <2>1 DEF WriteMeta
    <2>3. verdict = "none" /\ ~Quiet /\ ~Alone
      BY <2>2 DEF Protocol, Quiet, Alone
    <2>4. \A q \in Ranks : phase'[q] = IF q = Zero THEN "broadcast" ELSE phase[q]
      BY <2>1 DEF WriteMeta, Types, TypeOK
    <2>5. \A q \in Ranks : phase'[q] \in {"gather", "broadcast"}
      BY <2>3, <2>4 DEF Protocol
    <2>6. step \in Steps /\ disk[step].exists
      BY <2>3 DEF Protocol
    <2>7. disk'[step'].exists
      BY <2>1, <2>2, <2>6, MetaDisk
    <2> QED BY <2>2, <2>4, <2>5, <2>6, <2>7 DEF Protocol, Alone
  <1>8. CASE Terminate
    <2>1. Quiet /\ Quiet' /\ ~Alone /\ ~Alone' /\ step \in Steps
      BY <1>8 DEF Terminate, Quiet, Alone, Protocol
    <2> QED BY <1>8, <2>1 DEF Terminate, Protocol
  <1>9. CASE Crash
    <2>1. Quiet' /\ ~Alone' /\ phase'[Zero] = "training"
      BY <1>9 DEF Crash, Quiet, Alone
    <2> QED BY <1>9, <2>1 DEF Crash, Protocol
  <1>10. CASE LaunchFresh
    BY <1>10, ProtocolLaunch DEF LaunchFresh
  <1>11. CASE ResumeComplete
    BY <1>11, ProtocolLaunch DEF ResumeComplete
  <1>12. CASE ResumeLast
    BY <1>12, ProtocolLaunch DEF ResumeLast
  <1>13. CASE \E s \in Steps : Quarantine(s)
    <2>1. job = "down" /\ UNCHANGED <<job, step, phase, writer, verdict>>
      BY <1>13 DEF Quarantine
    <2>2. Quiet /\ Quiet' /\ ~Alone /\ ~Alone' /\ verdict = "none"
      BY <2>1 DEF Protocol, Quiet, Alone, Types, TypeOK
    <2> QED BY <2>1, <2>2 DEF Protocol
  <1>14. CASE Stopped
    BY <1>14 DEF Stopped, vars, Protocol, Quiet, Alone
  <1>15. CASE NoDirectory
    <2>1. \A r \in Ranks : phase'[r] = IF r = Zero THEN "alone" ELSE "gather"
      BY <1>15 DEF NoDirectory
    <2>2. Alone' /\ verdict' = "none" /\ job' = "up" /\ job = "up" /\ writer' = writer
      BY <1>15, <2>1 DEF NoDirectory, Interval, Alone
    <2>3. writer = [f \in StateFiles |-> "idle"]
      BY <1>15 DEF NoDirectory, Interval, Protocol
    <2> QED BY <2>1, <2>2, <2>3 DEF Protocol, Alone
  <1> QED BY <1>1, <1>2, <1>3, <1>4, <1>5, <1>6, <1>7, <1>8, <1>9, <1>10, <1>11, <1>12, <1>13,
             <1>14, <1>15 DEF Next, Write, Save

-----------------------------------------------------------------------------
(* What is in a directory.                                                 *)

LEMMA DirsLaunch ==
  ASSUME Types, Dirs, NEW s \in Nat, NEW content \in [StateFiles -> Content],
         Len(content["weights"]) = s, LaunchFrom(s, content)
  PROVE  Dirs'
  BY DEF Dirs, LaunchFrom, HasFile

LEMMA DirsStep ==
  ASSUME Types, Protocol, Dirs, Next
  PROVE  Dirs'
PROOF
  <1> USE BoundsAssumption, RanksAssumption
  <1> USE DEF StateFiles
  <1>0. ASSUME UNCHANGED <<disk, memory, step>> PROVE Dirs'
    BY <1>0 DEF Dirs, HasFile
  <1>1. CASE Train
    <2>1. \A s \in Steps : disk[s].exists => disk'[s].exists
      BY <1>1, TrainDisk
    <2>2. \A s \in Steps : disk'[s].complete = disk[s].complete
            /\ disk'[s].weights = disk[s].weights /\ disk'[s].optimizer = disk[s].optimizer
      BY <1>1, TrainDisk
    <2>3. Len(memory'["weights"]) = step'
      <3>1. memory'["weights"] = Append(memory["weights"], runs) /\ step' = step + 1
        BY <1>1 DEF Train, Interval
      <3>2. memory["weights"] \in Seq(1..MaxRuns) /\ runs \in 1..MaxRuns
        BY <1>1 DEF Train, Interval, Types, TypeOK, Content
      <3> QED BY <3>1, <3>2 DEF Dirs
    <2> QED BY <2>1, <2>2, <2>3 DEF Dirs, HasFile
  <1>2. CASE \E r \in Ranks : PassGather(r)
    BY <1>2, <1>0, GatherDisk DEF PassGather
  <1>3. CASE \E r \in Ranks : Broadcast(r)
    BY <1>3, <1>0 DEF Broadcast
  <1>4. CASE \E r \in Ranks : PassBarrier(r)
    BY <1>4, <1>0 DEF PassBarrier
  <1>5. CASE \E f \in StateFiles : PublishFile(f)
    <2>1. PICK f \in StateFiles : PublishFile(f)
      BY <1>5
    <2>2. step \in Steps /\ disk[step].exists
      <3>1. phase[Zero] = "writing"
        BY <2>1 DEF PublishFile, Protocol
      <3> QED BY <3>1 DEF Protocol, Quiet, Alone
    <2>3. /\ \A s \in Steps, g \in StateFiles :
               disk'[s][g] = IF s = step /\ g = f THEN memory[f] ELSE disk[s][g]
          /\ \A s \in Steps :
               disk'[s].exists = disk[s].exists /\ disk'[s].complete = disk[s].complete
      BY <2>1, <2>2, PublishDisk
    <2>4. memory' = memory /\ step' = step
      BY <2>1 DEF PublishFile
    <2>5. ASSUME NEW s \in Steps, ~disk'[s].exists
          PROVE  ~disk'[s].complete /\ \A g \in StateFiles : ~HasFile(s, g)'
      <3>1. s # step /\ ~disk[s].exists /\ disk'[s].complete = disk[s].complete
        BY <2>2, <2>3, <2>5
      <3>2. \A g \in StateFiles : disk'[s][g] = disk[s][g]
        BY <2>3, <3>1
      <3> QED BY <3>1, <3>2 DEF Dirs, HasFile
    <2>6. ASSUME NEW s \in Steps, HasFile(s, "weights")'
          PROVE  Len(disk'[s]["weights"]) = s
      <3>1. CASE s = step /\ f = "weights"
        BY <2>3, <3>1 DEF Dirs
      <3>2. CASE ~ (s = step /\ f = "weights")
        <4>1. disk'[s]["weights"] = disk[s]["weights"]
          BY <2>3, <3>2
        <4> QED BY <2>6, <4>1 DEF Dirs, HasFile
      <3> QED BY <3>1, <3>2
    <2> QED BY <2>4, <2>5, <2>6 DEF Dirs
  <1>6. CASE \E f \in StateFiles : WriteFails(f)
    BY <1>6, <1>0 DEF WriteFails
  <1>7. CASE \E ok \in BOOLEAN : WriteMeta(ok)
    <2>1. PICK ok \in BOOLEAN : WriteMeta(ok)
      BY <1>7
    <2>2. step \in Steps /\ disk[step].exists
      <3>1. phase[Zero] = "writing"
        BY <2>1 DEF WriteMeta
      <3> QED BY <3>1 DEF Protocol, Quiet, Alone
    <2>3. /\ \A s \in Steps, g \in StateFiles : disk'[s][g] = disk[s][g]
          /\ \A s \in Steps :
               /\ disk'[s].exists = disk[s].exists
               /\ disk'[s].complete = (disk[s].complete \/ (ok /\ s = step))
      BY <2>1, <2>2, MetaDisk
    <2>4. memory' = memory /\ step' = step
      BY <2>1 DEF WriteMeta
    <2>5. ASSUME NEW s \in Steps, ~disk'[s].exists
          PROVE  ~disk'[s].complete /\ \A g \in StateFiles : ~HasFile(s, g)'
      <3>1. s # step /\ ~disk[s].exists
        BY <2>2, <2>3, <2>5
      <3>2. ~disk[s].complete /\ \A g \in StateFiles : ~HasFile(s, g)
        BY <3>1 DEF Dirs
      <3>3. ~disk'[s].complete
        BY <2>3, <3>1, <3>2
      <3> QED BY <2>3, <3>2, <3>3 DEF HasFile
    <2>6. ASSUME NEW s \in Steps, HasFile(s, "weights")'
          PROVE  Len(disk'[s]["weights"]) = s
      BY <2>3, <2>6 DEF Dirs, HasFile
    <2> QED BY <2>4, <2>5, <2>6 DEF Dirs
  <1>8. CASE Terminate
    BY <1>8, <1>0 DEF Terminate
  <1>9. CASE Crash
    BY <1>9 DEF Crash, Dirs, HasFile
  <1>10. CASE LaunchFresh
    <2>1. <<>> \in Content /\ Len(<<>>) = 0
      BY DEF Content
    <2> DEFINE content == [f \in StateFiles |-> <<>>]
    <2>2. content \in [StateFiles -> Content] /\ Len(content["weights"]) = 0
      BY <2>1
    <2>3. LaunchFrom(0, content)
      BY <1>10 DEF LaunchFresh
    <2> HIDE DEF content
    <2> QED BY <2>2, <2>3, DirsLaunch
  <1>11. CASE ResumeComplete
    <2> DEFINE s == Latest(CompleteSteps)
               content == [f \in StateFiles |-> Loaded(s, f)]
    <2>1. CompleteSteps # {}
      BY <1>11 DEF ResumeComplete, Resumable
    <2>2. s \in Steps /\ Complete(s)
      BY <2>1, CompleteLatest
    <2>3. content \in [StateFiles -> Content] /\ s \in Nat
      BY <2>2, LoadedType DEF Steps
    <2>4. HasFile(s, "weights")
      BY <2>2 DEF Complete
    <2>5. content["weights"] = disk[s]["weights"]
      BY <2>4 DEF Loaded
    <2>6. Len(content["weights"]) = s
      BY <2>2, <2>4, <2>5 DEF Dirs
    <2>7. LaunchFrom(s, content)
      BY <1>11 DEF ResumeComplete
    <2> HIDE DEF s, content
    <2> QED BY <2>3, <2>6, <2>7, DirsLaunch
  <1>12. CASE ResumeLast
    <2> DEFINE s == Latest(WithWeights)
               content == [f \in StateFiles |-> Loaded(s, f)]
    <2>1. WithWeights # {}
      BY <1>12 DEF ResumeLast
    <2>2. s \in Steps /\ HasFile(s, "weights")
      BY <2>1, WithWeightsLatest
    <2>3. content \in [StateFiles -> Content] /\ s \in Nat
      BY <2>2, LoadedType DEF Steps
    <2>5. content["weights"] = disk[s]["weights"]
      BY <2>2 DEF Loaded
    <2>6. Len(content["weights"]) = s
      BY <2>2, <2>5 DEF Dirs
    <2>7. LaunchFrom(s, content)
      BY <1>12 DEF ResumeLast
    <2> HIDE DEF s, content
    <2> QED BY <2>3, <2>6, <2>7, DirsLaunch
  <1>13. CASE \E s \in Steps : Quarantine(s)
    <2>1. PICK q \in Steps : Quarantine(q)
      BY <1>13
    <2>2. \A s \in Steps : disk'[s] = IF s = q THEN NoDir ELSE disk[s]
      BY <2>1, QuarantineDisk
    <2>3. memory' = memory /\ step' = step
      BY <2>1 DEF Quarantine
    <2> QED BY <2>2, <2>3 DEF Dirs, HasFile, NoDir
  <1>14. CASE Stopped
    BY <1>14, <1>0 DEF Stopped, vars
  <1>15. CASE NoDirectory
    <2>1. memory'["weights"] = Append(memory["weights"], runs) /\ step' = step + 1 /\ disk' = disk
      BY <1>15 DEF NoDirectory, Interval
    <2>2. memory["weights"] \in Seq(1..MaxRuns) /\ runs \in 1..MaxRuns
      BY <1>15 DEF NoDirectory, Interval, Types, TypeOK, Content
    <2>3. Len(memory'["weights"]) = step'
      BY <2>1, <2>2 DEF Dirs
    <2> QED BY <2>1, <2>3 DEF Dirs, HasFile
  <1> QED BY <1>1, <1>2, <1>3, <1>4, <1>5, <1>6, <1>7, <1>8, <1>9, <1>10, <1>11, <1>12, <1>13,
             <1>14, <1>15 DEF Next, Write, Save

-----------------------------------------------------------------------------
(* One history.  Each lemma is about one action of a job that train.sh     *)
(* started.                                                                *)

TrainSh == launcher = "train.sh" /\ OneHistory /\ Newest

\* The complete checkpoints stay what they are.
SameKept ==
  \A s \in Steps :
    /\ Complete(s)' <=> Complete(s)
    /\ Complete(s) => disk'[s]["weights"] = disk[s]["weights"]

\* What a sequence was before something was appended.
LEMMA BeforeAppend ==
  ASSUME NEW S, NEW seq \in Seq(S), NEW e \in S
  PROVE  SubSeq(Append(seq, e), 1, Len(seq)) = seq
PROOF
  <1>1. Append(seq, e) = seq \o <<e>> /\ <<e>> \in Seq(S)
    BY AppendIsConcat
  <1>2. SubSeq(seq \o <<e>>, 1, Len(seq)) = SubSeq(seq, 1, Len(seq))
    BY <1>1, SubSeqOfConcat1
  <1> QED BY <1>1, <1>2, SubSeqFull

LEMMA TrainKeepsHistory ==
  ASSUME Types, Protocol, Dirs, TrainSh, Train
  PROVE  OneHistory' /\ Newest' /\ SameKept
PROOF
  <1> USE BoundsAssumption, RanksAssumption
  <1> USE DEF StateFiles
  <1>1. job = "up" /\ Quiet /\ ~Alone /\ job' = "up" /\ step' = step + 1 /\ verdict' = "none"
        /\ writer' = writer
    BY DEF Train, Interval, Quiet, Alone
  <1>2. AtSave
    BY <1>1 DEF AtSave, Protocol, Types, TypeOK, Quiet, Alone
  <1>3. step < MaxSave /\ step \in Nat
    BY <1>1, <1>2 DEF TrainSh, OneHistory, AtSave, Train, Interval, Types, TypeOK
  <1>4. step + 1 \in Steps /\ ~disk[step + 1].exists
    BY <1>1, <1>3, TrainDisk DEF TrainSh, OneHistory, Steps
  <1>5. \A s \in Steps :
          /\ disk'[s].exists <=> (disk[s].exists \/ s = step + 1)
          /\ disk'[s].complete = disk[s].complete
          /\ disk'[s].weights = disk[s].weights /\ disk'[s].optimizer = disk[s].optimizer
    BY TrainDisk
  <1>6. ~disk[step + 1].complete /\ \A f \in StateFiles : ~HasFile(step + 1, f)
    BY <1>4 DEF Dirs
  <1>7. \A s \in Steps, f \in StateFiles : HasFile(s, f)' <=> HasFile(s, f)
    BY <1>5 DEF HasFile
  <1>8. \A s \in Steps : Complete(s)' <=> Complete(s)
    <2>1. ASSUME NEW s \in Steps, s = step + 1 PROVE ~Complete(s) /\ ~Complete(s)'
      BY <1>5, <1>6, <2>1 DEF Complete
    <2>2. ASSUME NEW s \in Steps, s # step + 1 PROVE Complete(s)' <=> Complete(s)
      <3>1. disk'[s].exists <=> disk[s].exists
        BY <1>5, <2>2
      <3> QED BY <3>1, <1>5, <1>7 DEF Complete
    <2> QED BY <2>1, <2>2
  <1>9. \A f \in StateFiles : memory'[f] = Append(memory[f], runs)
    BY DEF Train, Interval
  <1>10. OneHistory'
    <2>1. (memory["weights"] = memory["optimizer"])'
      BY <1>9 DEF TrainSh, OneHistory
    <2>2. ASSUME NEW s \in Steps, Complete(s)'
          PROVE  disk'[s]["weights"] = disk'[s]["optimizer"]
      BY <1>5, <1>8, <2>2 DEF TrainSh, OneHistory
    <2>3. ASSUME NEW s \in Steps, NEW t \in Steps, s < t, disk'[t].exists PROVE Complete(s)'
      <3>1. CASE disk[t].exists
        BY <1>8, <2>3, <3>1 DEF TrainSh, OneHistory
      <3>2. CASE ~disk[t].exists
        <4>1. t = step + 1 /\ s <= step /\ s \in Nat
          <5>1. t = step + 1
            BY <1>5, <2>3, <3>2
          <5> QED BY <5>1, <1>3, <2>3 DEF Steps
        <4>2. CASE s = step
          BY <4>2, <1>1, <1>2, <1>8 DEF TrainSh, Newest, Steps
        <4>3. CASE s < step
          <5>1. step \in Steps /\ disk[step].exists
            BY <4>1, <4>3, <1>1, <1>3 DEF TrainSh, OneHistory, Steps
          <5> QED BY <5>1, <4>3, <1>8 DEF TrainSh, OneHistory
        <4> QED BY <4>1, <4>2, <4>3, <1>3
      <3> QED BY <3>1, <3>2
    <2>4. \A s \in Steps : disk'[s].exists <=> s <= step + 1
      <3>1. \A s \in Steps : s \in Nat
        BY DEF Steps
      <3>2. \A s \in Steps : disk[s].exists <=> s <= step
        BY <1>1 DEF TrainSh, OneHistory
      <3> SUFFICES ASSUME NEW s \in Steps PROVE disk'[s].exists <=> s <= step + 1
        OBVIOUS
      <3>3. disk'[s].exists <=> (disk[s].exists \/ s = step + 1)
        BY <1>5
      <3>4. s <= step + 1 <=> (s <= step \/ s = step + 1)
        BY <3>1, <1>3
      <3> QED BY <3>2, <3>3, <3>4
    <2>5. ~Quiet' /\ ~Alone'
      BY DEF Train, Interval, Quiet, Alone
    <2> QED BY <1>1, <1>3, <2>1, <2>2, <2>3, <2>4, <2>5 DEF OneHistory
  <1>11. Newest'
    <2>1. phase'[Zero] = "gather"
      BY DEF Train, Interval
    <2>2. ~Quiet' /\ ~Alone'
      BY DEF Train, Interval, Quiet, Alone
    <2>3. (~disk[step].complete /\ \A f \in StateFiles : ~HasFile(step, f))'
      <3>1. ~disk'[step + 1].complete
        BY <1>4, <1>5, <1>6
      <3>2. \A f \in StateFiles : disk[step + 1][f] = None
        BY <1>6 DEF HasFile
      <3>3. \A f \in StateFiles : disk'[step + 1][f] = None
        BY <3>2, <1>4, <1>5
      <3> QED BY <1>1, <3>1, <3>3 DEF HasFile
    <2>4. ASSUME step' > 1
          PROVE  disk'[step' - 1]["weights"] = SubSeq(memory'["weights"], 1, step' - 1)
      <3>1. step > 0 /\ step \in Steps /\ step' - 1 = step
        BY <1>1, <1>3, <2>4 DEF Steps
      <3>2. disk'[step]["weights"] = memory["weights"]
        BY <1>1, <1>2, <1>5, <3>1 DEF TrainSh, Newest
      <3>3. memory["weights"] \in Seq(1..MaxRuns) /\ runs \in 1..MaxRuns
        BY <1>1 DEF Types, TypeOK, Content
      <3>4. SubSeq(memory'["weights"], 1, step) = memory["weights"]
        <4>1. Len(memory["weights"]) = step
          BY DEF Dirs
        <4>2. memory'["weights"] = Append(memory["weights"], runs)
          BY <1>9
        <4> QED BY <3>3, <4>1, <4>2, BeforeAppend
      <3> QED BY <3>1, <3>2, <3>4
    <2>5. verdict' # "failed" /\ ~AtSave'
      BY <1>1, <2>2 DEF AtSave
    <2>6. phase'[Zero] # "writing"
      BY <2>1
    <2> QED BY <2>3, <2>4, <2>5, <2>6 DEF Newest
  <1> QED BY <1>5, <1>8, <1>10, <1>11 DEF SameKept

\* A run whose directory could not be made has changed nothing on disk.
LEMMA AloneKeepsHistory ==
  ASSUME Types, Protocol, Dirs, TrainSh, NoDirectory
  PROVE  OneHistory' /\ Newest' /\ SameKept
PROOF
  <1> USE BoundsAssumption, RanksAssumption
  <1>1. job = "up" /\ Quiet /\ job' = "up" /\ step' = step + 1 /\ verdict' = "none" /\ disk' = disk
    BY DEF NoDirectory, Interval, Quiet
  <1>2. Alone' /\ ~Quiet'
    BY DEF NoDirectory, Alone, Quiet
  <1>3. step + 1 <= MaxSave
    <2>1. verdict = "saved" \/ (verdict = "none" /\ Quiet)
      BY <1>1 DEF Protocol, Types, TypeOK, Quiet
    <2> QED BY <1>1, <2>1 DEF TrainSh, OneHistory, NoDirectory, Interval, Types, TypeOK
  <1>4. \A s \in Steps : Complete(s)' <=> Complete(s)
    BY <1>1 DEF Complete, HasFile
  <1>5. (memory["weights"] = memory["optimizer"])'
    BY DEF TrainSh, OneHistory, NoDirectory, Interval, StateFiles
  <1>6. OneHistory'
    BY <1>1, <1>2, <1>3, <1>4, <1>5 DEF TrainSh, OneHistory
  <1>7. Newest'
    BY <1>1, <1>2 DEF Newest, Saving, AtSave
  <1> QED BY <1>1, <1>4, <1>6, <1>7 DEF SameKept

\* Steps of the ranks alone.
LEMMA RanksKeepHistory ==
  ASSUME Types, Protocol, Dirs, TrainSh,
         UNCHANGED <<disk, memory, step, verdict, job>>, ~Quiet /\ ~Alone, job = "up",
         AtSave' <=> AtSave, Saving' => Saving,
         phase'[Zero] = "gather" => phase[Zero] = "gather",
         verdict = "none" /\ phase'[Zero] = "writing" =>
            \A f \in StateFiles : disk[step][f] = IF writer'[f] = "done" THEN memory[f] ELSE None
  PROVE  OneHistory' /\ Newest'
PROOF
  <1>1. \A s \in Steps, f \in StateFiles : HasFile(s, f)' <=> HasFile(s, f)
    BY DEF HasFile
  <1>2. \A s \in Steps : Complete(s)' <=> Complete(s)
    BY <1>1 DEF Complete
  <1>3. OneHistory'
    <2>1. ~ (verdict = "none" /\ Quiet')
      BY DEF AtSave
    <2> QED BY <1>2, <2>1 DEF TrainSh, OneHistory
  <1>4. step \in Steps
    BY DEF Protocol
  <1>5. (Saving =>
          /\ ~disk[step].complete
          /\ phase[Zero] = "gather" => \A f \in StateFiles : ~HasFile(step, f)
          /\ step > 1 => disk[step - 1]["weights"] = SubSeq(memory["weights"], 1, step - 1))'
    BY DEF TrainSh, Newest, HasFile
  <1>6. (Saving /\ phase[Zero] = "writing" => \A f \in StateFiles :
            disk[step][f] = IF writer[f] = "done" THEN memory[f] ELSE None)'
    BY DEF Saving
  <1>7. (job # "down" /\ AtSave /\ step > 0 =>
           Complete(step) /\ disk[step]["weights"] = memory["weights"])'
    BY <1>2, <1>4 DEF TrainSh, Newest, Complete, HasFile
  <1>8. (verdict = "failed" => ~disk[step].complete)'
    BY DEF TrainSh, Newest
  <1> QED BY <1>3, <1>5, <1>6, <1>7, <1>8 DEF Newest

LEMMA SaveKeepsHistory ==
  ASSUME Types, Protocol, Dirs, TrainSh, NEW r \in Ranks, Save(r)
  PROVE  OneHistory' /\ Newest'
PROOF
  <1> USE RanksAssumption
  <1> USE DEF StateFiles
  <1>1. CASE PassGather(r)
    <2>1. UNCHANGED <<disk, memory, step, verdict, job>> /\ job = "up"
      BY <1>1, GatherDisk DEF PassGather
    <2>2. \A q \in Ranks : phase'[q] =
            IF q = r THEN IF r = Zero THEN "writing" ELSE "broadcast" ELSE phase[q]
      BY <1>1 DEF PassGather, Types, TypeOK
    <2>3. ~Quiet /\ ~Alone /\ ~Quiet' /\ ~Alone'
      BY <1>1, <2>2 DEF PassGather, Quiet, Alone
    <2>4. ASSUME verdict = "none", phase'[Zero] = "writing", NEW f \in StateFiles
          PROVE  disk[step][f] = IF writer'[f] = "done" THEN memory[f] ELSE None
      <3>1. CASE r = Zero
        <4>1. phase[Zero] = "gather" /\ writer'[f] = "writing"
          BY <1>1, <3>1 DEF PassGather
        <4> QED BY <2>3, <2>4, <4>1 DEF TrainSh, Newest, Saving, HasFile
      <3>2. CASE r # Zero
        <4>1. phase[Zero] = "writing" /\ writer' = writer
          BY <1>1, <2>2, <2>4, <3>2 DEF PassGather
        <4> QED BY <2>3, <2>4, <4>1 DEF TrainSh, Newest, Saving
      <3> QED BY <3>1, <3>2
    <2>5. phase'[Zero] = "gather" => phase[Zero] = "gather"
      BY <2>2
    <2>6. (AtSave' <=> AtSave) /\ (Saving' => Saving)
      BY <2>1, <2>3 DEF AtSave, Saving
    <2> QED BY <2>1, <2>3, <2>4, <2>5, <2>6, RanksKeepHistory
  <1>2. CASE Broadcast(r)
    <2>1. UNCHANGED <<disk, memory, step, verdict, job>> /\ job = "up" /\ verdict # "none"
      BY <1>2 DEF Broadcast, Heard
    <2>2. ~Quiet /\ ~Alone
      BY <1>2 DEF Broadcast, Heard, Protocol, Quiet, Alone
    <2>3. phase'[Zero] = "gather" => phase[Zero] = "gather"
      BY <1>2 DEF Broadcast, Types, TypeOK
    <2>4. (AtSave' <=> AtSave) /\ (Saving' => Saving)
      BY <2>1 DEF AtSave, Saving
    <2> QED BY <2>1, <2>2, <2>3, <2>4, RanksKeepHistory
  <1>3. CASE PassBarrier(r)
    <2>1. UNCHANGED <<disk, memory, step, verdict, job>> /\ job = "up"
      BY <1>3 DEF PassBarrier
    <2>2. ~Quiet /\ ~Alone
      BY <1>3 DEF PassBarrier, Quiet, Alone
    <2>3. verdict # "none"
      BY <1>3, <2>2 DEF PassBarrier, Protocol
    <2>4. phase'[Zero] = "gather" => phase[Zero] = "gather"
      BY <1>3 DEF PassBarrier, Types, TypeOK
    <2>5. (AtSave' <=> AtSave) /\ (Saving' => Saving)
      BY <2>1, <2>3 DEF AtSave, Saving
    <2> QED BY <2>1, <2>2, <2>3, <2>4, <2>5, RanksKeepHistory
  <1> QED BY <1>1, <1>2, <1>3 DEF Save

LEMMA PublishKeepsHistory ==
  ASSUME Types, Protocol, Dirs, TrainSh, NEW f \in StateFiles, PublishFile(f)
  PROVE  OneHistory' /\ Newest' /\ SameKept
PROOF
  <1> USE RanksAssumption
  <1>1. UNCHANGED <<memory, step, verdict, job, phase>> /\ writer[f] = "writing" /\ job = "up"
        /\ writer' = [writer EXCEPT ![f] = "done"]
    BY DEF PublishFile
  <1>2. phase[Zero] = "writing"
    BY <1>1 DEF Protocol
  <1>3. Saving /\ Saving' /\ ~AtSave' /\ ~Quiet' /\ ~Alone' /\ step \in Steps
    BY <1>1, <1>2 DEF Saving, AtSave, Quiet, Alone, Protocol
  <1>4. /\ \A s \in Steps, g \in StateFiles :
             disk'[s][g] = IF s = step /\ g = f THEN memory[f] ELSE disk[s][g]
        /\ \A s \in Steps :
             disk'[s].exists = disk[s].exists /\ disk'[s].complete = disk[s].complete
    BY <1>3, PublishDisk
  <1>5. ~disk[step].complete
    BY <1>3 DEF TrainSh, Newest
  <1>6. \A s \in Steps : Complete(s)' <=> Complete(s)
    <2>1. ~Complete(step) /\ ~Complete(step)'
      BY <1>1, <1>3, <1>4, <1>5 DEF Complete
    <2>2. ASSUME NEW s \in Steps, s # step PROVE Complete(s)' <=> Complete(s)
      <3>1. \A g \in StateFiles : HasFile(s, g)' <=> HasFile(s, g)
        BY <1>4, <2>2 DEF HasFile
      <3> QED BY <3>1, <1>4 DEF Complete
    <2> QED BY <2>1, <2>2, <1>1
  <1>7. OneHistory'
    <2>1. ASSUME NEW s \in Steps, Complete(s)'
          PROVE  disk'[s]["weights"] = disk'[s]["optimizer"]
      <3>1. s # step /\ Complete(s)
        BY <1>5, <1>6, <2>1 DEF Complete
      <3> QED BY <3>1, <1>4 DEF TrainSh, OneHistory, StateFiles
    <2>2. \A s, t \in Steps : s < t /\ disk'[t].exists => Complete(s)'
      BY <1>4, <1>6 DEF TrainSh, OneHistory
    <2>3. \A s \in Steps : disk'[s].exists <=> s <= step
      BY <1>1, <1>3, <1>4 DEF TrainSh, OneHistory, Saving
    <2> QED BY <1>1, <1>3, <2>1, <2>2, <2>3 DEF TrainSh, OneHistory
  <1>8. Newest'
    <2>1. \A g \in StateFiles : writer'[g] = IF g = f THEN "done" ELSE writer[g]
      BY <1>1 DEF Types, TypeOK
    <2>2. \A g \in StateFiles :
            disk'[step][g] = IF writer'[g] = "done" THEN memory[g] ELSE None
      BY <1>2, <1>3, <1>4, <2>1 DEF TrainSh, Newest
    <2>3. ASSUME step > 1
          PROVE  disk'[step - 1]["weights"] = SubSeq(memory["weights"], 1, step - 1)
      <3>1. step - 1 \in Steps /\ step - 1 # step
        BY <1>3, <2>3, BoundsAssumption DEF Steps
      <3>2. disk'[step - 1]["weights"] = disk[step - 1]["weights"]
        BY <1>4, <3>1 DEF StateFiles
      <3> QED BY <3>2, <1>3, <2>3 DEF TrainSh, Newest
    <2>4. ~disk'[step].complete
      BY <1>3, <1>4, <1>5
    <2>5. phase'[Zero] # "gather" /\ verdict' # "failed"
      BY <1>1, <1>2, <1>3 DEF Saving
    <2> QED BY <1>1, <1>3, <2>2, <2>3, <2>4, <2>5 DEF Newest
  <1>9. SameKept
    <2>1. \A s \in Steps : Complete(s) => s # step
      BY <1>5 DEF Complete
    <2> QED BY <2>1, <1>4, <1>6 DEF SameKept, StateFiles
  <1> QED BY <1>7, <1>8, <1>9

LEMMA FailKeepsHistory ==
  ASSUME Types, Protocol, Dirs, TrainSh, NEW f \in StateFiles, WriteFails(f)
  PROVE  OneHistory' /\ Newest'
PROOF
  <1>1. UNCHANGED <<disk, memory, step, verdict, job, phase>> /\ writer[f] = "writing"
        /\ job = "up" /\ writer' = [writer EXCEPT ![f] = "failed"]
    BY DEF WriteFails
  <1>2. phase[Zero] = "writing"
    BY <1>1 DEF Protocol
  <1>3. ~Quiet /\ ~Alone /\ (AtSave' <=> AtSave) /\ (Saving' => Saving) /\ Saving
    BY <1>1, <1>2, RanksAssumption DEF AtSave, Saving, Quiet, Alone, Protocol
  <1>4. \A g \in StateFiles : writer'[g] = IF g = f THEN "failed" ELSE writer[g]
    BY <1>1 DEF Types, TypeOK
  <1>5. \A g \in StateFiles : disk[step][g] = IF writer'[g] = "done" THEN memory[g] ELSE None
    BY <1>1, <1>2, <1>3, <1>4 DEF TrainSh, Newest
  <1> QED BY <1>1, <1>3, <1>5, RanksKeepHistory

\* Both files are there and complete, or none is said to be.
LEMMA MetaKeepsHistory ==
  ASSUME Types, Protocol, Dirs, TrainSh, NEW ok \in BOOLEAN, WriteMeta(ok)
  PROVE  /\ OneHistory' /\ Newest'
         /\ Saving
         /\ ok => Complete(step)' /\ disk'[step]["weights"] = memory["weights"]
         /\ \A s \in Steps : (~ok \/ s # step) => (Complete(s)' <=> Complete(s))
         /\ \A s \in Steps : disk'[s]["weights"] = disk[s]["weights"]
PROOF
  <1> USE RanksAssumption
  <1>1. UNCHANGED <<memory, step, job>> /\ job = "up" /\ phase[Zero] = "writing"
        /\ verdict' = (IF ok THEN "saved" ELSE "failed")
    BY DEF WriteMeta
  <1>2. Saving /\ step \in Steps /\ disk[step].exists
    BY <1>1 DEF Saving, Quiet, Alone, Protocol
  <1>3. ~Saving' /\ (AtSave' <=> ok)
    BY <1>1 DEF Saving, AtSave
  <1>4. /\ \A s \in Steps, g \in StateFiles : disk'[s][g] = disk[s][g]
        /\ \A s \in Steps : disk'[s].exists = disk[s].exists
        /\ \A s \in Steps : disk'[s].complete <=> (disk[s].complete \/ (ok /\ s = step))
    BY <1>2, MetaDisk
  <1>5. \A s \in Steps, g \in StateFiles : HasFile(s, g)' <=> HasFile(s, g)
    BY <1>4 DEF HasFile
  <1>6. ~disk[step].complete
    BY <1>2 DEF TrainSh, Newest
  <1>7. \A s \in Steps : (~ok \/ s # step) => (Complete(s)' <=> Complete(s))
    BY <1>4, <1>5 DEF Complete
  <1>8. ASSUME ok PROVE \A g \in StateFiles : disk[step][g] = memory[g]
    <2>1. \A g \in StateFiles : writer[g] = "done"
      BY <1>8 DEF WriteMeta, Joined, SaveErrors
    <2> QED BY <1>1, <1>2, <2>1 DEF TrainSh, Newest
  <1>9. ASSUME ok PROVE Complete(step)' /\ disk'[step]["weights"] = memory["weights"]
    <2>1. \A g \in StateFiles : memory[g] # None
      BY NoneAssumption DEF Types, TypeOK
    <2>2. \A g \in StateFiles : disk'[step][g] = memory[g]
      BY <1>2, <1>4, <1>8, <1>9
    <2>3. disk'[step].exists /\ disk'[step].complete
      BY <1>2, <1>4, <1>9
    <2> QED BY <1>1, <2>1, <2>2, <2>3 DEF Complete, HasFile, StateFiles
  <1>10. \A s \in Steps : Complete(s) => Complete(s)'
    BY <1>1, <1>6, <1>7 DEF Complete
  <1>11. OneHistory'
    <2>1. ASSUME NEW s \in Steps, Complete(s)'
          PROVE  disk'[s]["weights"] = disk'[s]["optimizer"]
      <3>1. CASE ok /\ s = step
        BY <1>2, <1>4, <1>8, <3>1 DEF TrainSh, OneHistory, StateFiles
      <3>2. CASE ~ (ok /\ s = step)
        <4>1. Complete(s)
          BY <1>7, <2>1, <3>2
        <4> QED BY <4>1, <1>4 DEF TrainSh, OneHistory, StateFiles
      <3> QED BY <3>1, <3>2
    <2>2. \A s, t \in Steps : s < t /\ disk'[t].exists => Complete(s)'
      BY <1>4, <1>10 DEF TrainSh, OneHistory
    <2>3. \A s \in Steps : disk'[s].exists <=> s <= step
      BY <1>1, <1>2, <1>4 DEF TrainSh, OneHistory, Saving
    <2> QED BY <1>1, <2>1, <2>2, <2>3 DEF TrainSh, OneHistory
  <1>12. Newest'
    <2>1. ASSUME ~ok PROVE ~disk'[step].complete
      BY <1>2, <1>4, <1>6, <2>1
    <2> QED BY <1>1, <1>3, <1>9, <2>1 DEF Newest
  <1>13. \A s \in Steps : disk'[s]["weights"] = disk[s]["weights"]
    BY <1>4 DEF StateFiles
  <1> QED BY <1>2, <1>7, <1>9, <1>11, <1>12, <1>13

\* A launch that goes on from the newest directory, or from nothing.
LEMMA LaunchKeepsHistory ==
  ASSUME Types, Protocol, Dirs, TrainSh, NEW s \in Nat, NEW content, LaunchFrom(s, content),
         content["weights"] = content["optimizer"], s < MaxSave,
         \A t \in Steps : disk[t].exists <=> t <= s,
         s > 0 => Complete(s) /\ disk[s]["weights"] = content["weights"]
  PROVE  OneHistory' /\ Newest'
PROOF
  <1>1. UNCHANGED disk /\ job' = "up" /\ step' = s /\ memory' = content /\ verdict' = "none"
    BY DEF LaunchFrom
  <1>2. \A t \in Steps : Complete(t)' <=> Complete(t)
    BY <1>1 DEF Complete, HasFile
  <1>3. Quiet'
    BY DEF LaunchFrom, Protocol, Quiet, Alone
  <1>4. ~Saving' /\ AtSave'
    BY <1>1, <1>3 DEF Saving, AtSave
  <1>5. OneHistory'
    BY <1>1, <1>2, BoundsAssumption DEF TrainSh, OneHistory
  <1>6. s > 0 => s \in Steps
    BY BoundsAssumption DEF Steps
  <1>7. s > 0 => Complete(s)' /\ disk'[s]["weights"] = content["weights"]
    BY <1>1, <1>2, <1>6
  <1>8. (step > 0 => Complete(step) /\ disk[step]["weights"] = memory["weights"])'
    BY <1>1, <1>7 DEF Complete, HasFile
  <1> QED BY <1>1, <1>4, <1>5, <1>8 DEF Newest

\* What a launch of train.sh that resumes reads.
LEMMA ResumeReadsNewest ==
  ASSUME Types, Dirs, TrainSh, ResumeComplete
  PROVE  LET s == Latest(CompleteSteps)
             content == [f \in StateFiles |-> Loaded(s, f)]
         IN /\ LaunchFrom(s, content) /\ s < MaxSave
            /\ s \in Nat /\ s > 0 /\ s \in CompleteSteps /\ \A t \in CompleteSteps : t <= s
            /\ \A t \in Steps : disk[t].exists <=> t <= s
            /\ Complete(s) /\ disk[s]["weights"] = content["weights"]
            /\ content["weights"] = content["optimizer"]
PROOF
  <1> DEFINE s == Latest(CompleteSteps)
             content == [f \in StateFiles |-> Loaded(s, f)]
  <1>1. CompleteSteps # {} /\ Existing = CompleteSteps
    BY DEF ResumeComplete, Resumable
  <1>2. s \in Steps /\ Complete(s) /\ \A t \in CompleteSteps : t <= s
    BY <1>1, CompleteLatest
  <1>3. s \in Nat /\ s > 0 /\ \A t \in Steps : t \in Nat
    BY <1>2 DEF Steps
  <1>4. ASSUME NEW t \in Steps PROVE disk[t].exists <=> t <= s
    <2>1. disk[t].exists => t <= s
      BY <1>1, <1>2 DEF Existing
    <2>2. t < s => disk[t].exists
      BY <1>2 DEF TrainSh, OneHistory, Complete
    <2>3. t = s => disk[t].exists
      BY <1>2 DEF Complete
    <2> QED BY <2>1, <2>2, <2>3, <1>3
  <1>5. \A f \in StateFiles : content[f] = disk[s][f]
    BY <1>2 DEF Complete, Loaded
  <1>6. content["weights"] = disk[s]["weights"] /\ content["optimizer"] = disk[s]["optimizer"]
    BY <1>5 DEF StateFiles
  <1>7. disk[s]["weights"] = disk[s]["optimizer"]
    BY <1>2 DEF TrainSh, OneHistory
  <1>8. LaunchFrom(s, content) /\ s < MaxSave
    BY DEF ResumeComplete
  <1>9. s \in CompleteSteps
    BY <1>2 DEF CompleteSteps, Existing, Complete
  <1> HIDE DEF s
  <1> QED BY <1>2, <1>3, <1>4, <1>6, <1>7, <1>8, <1>9 DEF s

\* Only the saves change what is kept.
LEMMA UnchangedKept ==
  ASSUME UNCHANGED disk PROVE SameKept
  BY DEF SameKept, Complete, HasFile

LEMMA QuarantineKept ==
  ASSUME Types, NEW q \in Steps, Quarantine(q)
  PROVE  SameKept
PROOF
  <1>1. \A s \in Steps : disk'[s] = IF s = q THEN NoDir ELSE disk[s]
    BY QuarantineDisk
  <1>2. ~Complete(q)
    BY DEF Quarantine, CompleteSteps
  <1>3. ~Complete(q)'
    BY <1>1 DEF Complete, NoDir
  <1>4. ASSUME NEW s \in Steps, s # q
        PROVE  (Complete(s)' <=> Complete(s)) /\ disk'[s] = disk[s]
    BY <1>1, <1>4 DEF Complete, HasFile
  <1> QED BY <1>2, <1>3, <1>4 DEF SameKept

LEMMA HistoryStep ==
  ASSUME Types, Protocol, Dirs, TrainSh, Next
  PROVE  OneHistory' /\ Newest'
PROOF
  <1> USE BoundsAssumption, RanksAssumption
  <1>1. CASE Train
    BY <1>1, TrainKeepsHistory
  <1>2. CASE \E r \in Ranks : Save(r)
    BY <1>2, SaveKeepsHistory
  <1>3. CASE \E f \in StateFiles : PublishFile(f)
    BY <1>3, PublishKeepsHistory
  <1>4. CASE \E f \in StateFiles : WriteFails(f)
    BY <1>4, FailKeepsHistory
  <1>5. CASE \E ok \in BOOLEAN : WriteMeta(ok)
    <2>1. PICK ok \in BOOLEAN : WriteMeta(ok)
      BY <1>5
    <2> QED BY <2>1, MetaKeepsHistory
  <1>6. CASE Terminate
    <2>1. UNCHANGED <<disk, memory, step, verdict, phase, writer>> /\ job' = "finished"
          /\ verdict = "saved" /\ step >= MaxSave /\ job = "up"
      BY <1>6 DEF Terminate
    <2>2. \A s \in Steps : Complete(s)' <=> Complete(s)
      BY <2>1 DEF Complete, HasFile
    <2>3. step \in Steps
      BY <2>1 DEF Protocol
    <2>4. OneHistory'
      BY <1>6, <2>1, <2>2 DEF TrainSh, OneHistory, Terminate, Alone
    <2>5. Complete(step)' /\ disk'[step]["weights"] = memory["weights"]
      BY <2>1, <2>2, <2>3 DEF TrainSh, Newest, AtSave, Steps
    <2>6. ~Saving'
      BY <2>1 DEF Saving
    <2> QED BY <2>1, <2>4, <2>5, <2>6 DEF Newest, Complete, HasFile
  <1>7. CASE Crash
    <2>1. UNCHANGED disk /\ job' = "down" /\ step' = 0 /\ verdict' = "none"
          /\ memory' = [f \in StateFiles |-> <<>>]
      BY <1>7 DEF Crash
    <2>2. memory'["weights"] = memory'["optimizer"]
      BY <2>1 DEF StateFiles
    <2>3. \A s \in Steps : Complete(s)' <=> Complete(s)
      BY <2>1 DEF Complete, HasFile
    <2>4. Quiet'
      BY <1>7 DEF Crash, Quiet, Alone
    <2>5. OneHistory'
      BY <2>1, <2>2, <2>3 DEF TrainSh, OneHistory
    <2> QED BY <2>1, <2>4, <2>5 DEF Newest, Saving
  <1>8. CASE LaunchFresh
    <2> DEFINE content == [f \in StateFiles |-> <<>>]
    <2>1. LaunchFrom(0, content) /\ Existing = {}
      BY <1>8 DEF LaunchFresh, TrainSh
    <2>2. content["weights"] = content["optimizer"]
      BY DEF StateFiles
    <2>3. \A t \in Steps : disk[t].exists <=> t <= 0
      BY <2>1 DEF Existing, Steps
    <2> HIDE DEF content
    <2> QED BY <2>1, <2>2, <2>3, LaunchKeepsHistory
  <1>9. CASE ResumeComplete
    <2> DEFINE s == Latest(CompleteSteps)
               content == [f \in StateFiles |-> Loaded(s, f)]
    <2>1. /\ LaunchFrom(s, content) /\ s < MaxSave
          /\ s \in Nat /\ \A t \in Steps : disk[t].exists <=> t <= s
          /\ Complete(s) /\ disk[s]["weights"] = content["weights"]
          /\ content["weights"] = content["optimizer"]
      BY <1>9, ResumeReadsNewest
    <2> HIDE DEF s, content
    <2> QED BY <2>1, LaunchKeepsHistory
  <1>10. CASE ResumeLast
    BY <1>10 DEF ResumeLast, TrainSh
  <1>11. CASE \E s \in Steps : Quarantine(s)
    <2>1. PICK q \in Steps : Quarantine(q)
      BY <1>11
    <2>2. SameKept
      BY <2>1, QuarantineKept
    <2>3. \A s \in Steps : disk'[s] = IF s = q THEN NoDir ELSE disk[s]
      BY <2>1, QuarantineDisk
    <2>4. UNCHANGED <<memory, step, verdict, job, phase>> /\ job = "down"
      BY <2>1 DEF Quarantine
    <2>5. Quiet' /\ verdict = "none"
      BY <2>4 DEF Protocol, Quiet, Alone, Types, TypeOK
    <2>6. ASSUME NEW s \in Steps, Complete(s)'
          PROVE  disk'[s]["weights"] = disk'[s]["optimizer"]
      <3>1. Complete(s) /\ s # q
        BY <2>2, <2>3, <2>6 DEF SameKept, Complete, NoDir
      <3> QED BY <3>1, <2>3 DEF TrainSh, OneHistory
    <2>7. \A s, t \in Steps : s < t /\ disk'[t].exists => Complete(s)'
      <3>1. \A t \in Steps : disk'[t].exists => disk[t].exists
        BY <2>3 DEF NoDir
      <3> QED BY <3>1, <2>2 DEF SameKept, TrainSh, OneHistory
    <2>8. OneHistory'
      BY <2>4, <2>6, <2>7 DEF TrainSh, OneHistory
    <2> QED BY <2>4, <2>5, <2>8 DEF Newest, Saving
  <1>12. CASE Stopped
    <2>1. UNCHANGED vars
      BY <1>12 DEF Stopped
    <2> QED BY <2>1 DEF vars, TrainSh, OneHistory, Newest, Saving, AtSave, Quiet, Alone, Complete, HasFile
  <1>13. CASE NoDirectory
    BY <1>13, AloneKeepsHistory
  <1> QED BY <1>1, <1>2, <1>3, <1>4, <1>5, <1>6, <1>7, <1>8, <1>9, <1>10, <1>11, <1>12, <1>13
          DEF Next, Write

-----------------------------------------------------------------------------
(* The invariant.                                                          *)

LEMMA InitIInv == Init => IInv
PROOF
  <1> SUFFICES ASSUME Init PROVE IInv
    OBVIOUS
  <1> USE BoundsAssumption, RanksAssumption
  <1>1. <<>> \in Content /\ Len(<<>>) = 0
    BY DEF Content
  <1>2. disk \in [Steps -> Entry] /\ \A s \in Steps : disk[s] = NoDir
    BY DEF Init, NoDir, Entry
  <1>3. Types
    BY <1>1, <1>2 DEF Init, Types, TypeOK, Entry
  <1>4. Quiet /\ ~Alone /\ verdict = "none" /\ job = "down" /\ step = 0
        /\ writer = [f \in StateFiles |-> "idle"] /\ phase[Zero] = "training"
    BY DEF Init, Quiet, Alone
  <1>5. Protocol
    BY <1>4 DEF Protocol
  <1>6. memory["weights"] = <<>> /\ memory["optimizer"] = <<>>
    BY DEF Init, StateFiles
  <1>7. \A s \in Steps, f \in StateFiles : ~HasFile(s, f)
    BY <1>2 DEF HasFile, NoDir, StateFiles
  <1>8. Dirs
    BY <1>1, <1>2, <1>4, <1>6, <1>7 DEF Dirs, NoDir, StateFiles
  <1>9. \A s \in Steps : ~Complete(s)
    BY <1>2 DEF Complete, NoDir
  <1>10. OneHistory
    BY <1>2, <1>4, <1>6, <1>9 DEF OneHistory, NoDir
  <1>11. Newest
    BY <1>4 DEF Newest, Saving
  <1> QED BY <1>3, <1>5, <1>8, <1>10, <1>11 DEF IInv, SaveInv

LEMMA StutterIInv == IInv /\ UNCHANGED vars => IInv'
  BY DEF IInv, vars, Types, TypeOK, Protocol, Dirs, SaveInv, OneHistory, Newest, Saving, AtSave,
         Quiet, Alone, Complete, HasFile

LEMMA NextIInv ==
  ASSUME IInv, Next
  PROVE  IInv'
PROOF
  <1>1. Types'
    BY TypesStep DEF IInv
  <1>2. Protocol'
    BY ProtocolStep DEF IInv
  <1>3. Dirs'
    BY DirsStep DEF IInv
  <1>4. launcher' = launcher
    BY DEF Next, Train, NoDirectory, Interval, Terminate, Crash, Write, PublishFile, WriteFails, WriteMeta, Save,
           PassGather, Broadcast, PassBarrier, LaunchFresh, ResumeComplete, ResumeLast,
           LaunchFrom, Quarantine, Stopped, vars
  <1>5. ASSUME launcher = "train.sh" PROVE OneHistory' /\ Newest'
    <2>1. Types /\ Protocol /\ Dirs /\ TrainSh
      BY <1>5 DEF IInv, SaveInv, TrainSh
    <2> QED BY <2>1, HistoryStep
  <1> QED BY <1>1, <1>2, <1>3, <1>4, <1>5 DEF IInv, SaveInv

LEMMA AlwaysIInv == Spec => []IInv
PROOF
  <1>1. IInv /\ [Next]_vars => IInv'
    BY StutterIInv, NextIInv
  <1> QED BY <1>1, InitIInv, PTL DEF Spec

\* Every variable of the checkpoints keeps its type.
THEOREM CheckpointTypes == Spec => []TypeOK
PROOF
  <1>1. IInv => TypeOK
    BY DEF IInv, Types
  <1> QED BY <1>1, AlwaysIInv, PTL

\* Weights and optimizer in memory are of one history, whatever crashed before
\* (save_checkpoint, and the completeness checks of train.sh).
THEOREM PairAlwaysMatches == Spec => []PairMatches
PROOF
  <1>1. IInv => PairMatches
    BY DEF IInv, SaveInv, OneHistory, PairMatches
  <1> QED BY <1>1, AlwaysIInv, PTL

\* The adapter finds weights of exactly the step that names their directory,
\* at any moment of a save (save_with_time and _resolve_weights).
THEOREM ServedIsAlwaysWhole == Spec => []ServedIsWhole
PROOF
  <1>1. IInv => ServedIsWhole
    BY WithWeightsLatest DEF IInv, Dirs, ServedIsWhole, Served
  <1> QED BY <1>1, AlwaysIInv, PTL

\* A run that train.sh brings to its end passes verify_checkpoints.py.
THEOREM FinishedAlwaysVerifies == Spec => []FinishedVerifies
PROOF
  <1>1. IInv => FinishedVerifies
    <2> SUFFICES ASSUME IInv, launcher = "train.sh", job = "finished" PROVE Verified
      BY DEF FinishedVerifies
    <2> USE BoundsAssumption
    <2>1. OneHistory /\ Newest /\ Types
      BY DEF IInv, SaveInv
    <2>2. step = MaxSave /\ verdict = "saved"
      <3>1. verdict = "saved" /\ step >= MaxSave /\ step <= MaxSave
        BY <2>1 DEF OneHistory
      <3>2. step \in Nat
        BY <2>1 DEF Types, TypeOK
      <3> QED BY <3>1, <3>2
    <2>8. ~Alone
      BY DEF IInv, Protocol, Alone
    <2>3. \A s \in Steps : disk[s].exists <=> s <= MaxSave
      BY <2>1, <2>2, <2>8 DEF OneHistory
    <2>4. Complete(MaxSave) /\ MaxSave \in Steps /\ disk[MaxSave].exists
      BY <2>1, <2>2, <2>3 DEF Newest, AtSave, Steps
    <2>5. \A s \in Steps : disk[s].exists => Complete(s)
      <3>1. \A s \in Steps : s \in Nat
        BY DEF Steps
      <3>2. \A s \in Steps : s < MaxSave => Complete(s)
        BY <2>1, <2>4 DEF OneHistory
      <3>3. \A s \in Steps : s <= MaxSave => Complete(s)
        BY <2>4, <3>1, <3>2
      <3> QED BY <3>3, <2>3
    <2>6. Existing = 1..MaxSave
      BY <2>3 DEF Existing, Steps
    <2>7. Existing = CompleteSteps
      BY <2>5 DEF Existing, CompleteSteps
    <2> QED BY <2>6, <2>7 DEF Verified
  <1> QED BY <1>1, AlwaysIInv, PTL

-----------------------------------------------------------------------------
(* One atomic save.                                                        *)

\* The greatest element is what Latest chooses.
LEMMA LatestUnique ==
  ASSUME NEW S \in SUBSET Steps, NEW s \in S, \A t \in S : t <= s
  PROVE  Latest(S) = s
PROOF
  <1>1. Latest(S) \in S /\ \A t \in S : t <= Latest(S)
    BY LatestIsGreatest
  <1>2. s <= Latest(S) /\ Latest(S) <= s /\ s \in Nat /\ Latest(S) \in Nat
    <2>1. \A t \in S : t \in Nat
      BY BoundsAssumption DEF Steps
    <2> QED BY <1>1, <2>1
  <1> QED BY <1>2

LEMMA StepsWithFiles ==
  /\ CompleteSteps = {s \in Steps : Complete(s)}
  /\ CompleteSteps' = {s \in Steps : Complete(s)'}
  BY DEF CompleteSteps, Existing, Complete

LEMMA KeptIsNewest ==
  ASSUME launcher = "train.sh", NEW s \in CompleteSteps, \A t \in CompleteSteps : t <= s
  PROVE  Kept = disk[s]["weights"]
PROOF
  <1>1. Latest(CompleteSteps) = s
    BY LatestUnique, StepsWithFiles
  <1> QED BY <1>1 DEF Kept, Latest

LEMMA KeptIsNewestNext ==
  ASSUME launcher' = "train.sh", NEW s \in CompleteSteps', \A t \in CompleteSteps' : t <= s
  PROVE  Kept' = disk'[s]["weights"]
PROOF
  <1>1. Latest(CompleteSteps') = s
    BY LatestUnique, StepsWithFiles
  <1> QED BY <1>1 DEF Kept, Latest

LEMMA KeptSame ==
  ASSUME launcher' = launcher, SameKept
  PROVE  Kept' = Kept
PROOF
  <1>1. CompleteSteps' = CompleteSteps
    BY StepsWithFiles DEF SameKept
  <1>2. CASE launcher # "train.sh" \/ CompleteSteps = {}
    BY <1>1, <1>2 DEF Kept
  <1>3. CASE launcher = "train.sh" /\ CompleteSteps # {}
    <2> DEFINE s == Latest(CompleteSteps)
    <2>1. s \in Steps /\ Complete(s) /\ \A t \in CompleteSteps : t <= s
      BY <1>3, CompleteLatest
    <2>2. s \in CompleteSteps /\ s \in CompleteSteps' /\ \A t \in CompleteSteps' : t <= s
      BY <1>1, <2>1, StepsWithFiles
    <2>3. disk'[s]["weights"] = disk[s]["weights"]
      BY <2>1 DEF SameKept
    <2> HIDE DEF s
    <2>4. Kept = disk[s]["weights"]
      BY <1>3, <2>1, <2>2, KeptIsNewest
    <2>5. Kept' = disk'[s]["weights"]
      BY <1>3, <2>2, KeptIsNewestNext
    <2> QED BY <2>3, <2>4, <2>5
  <1> QED BY <1>2, <1>3

\* The save that completes the newest checkpoint keeps the lineage at once.
LEMMA MetaSaves ==
  ASSUME IInv, launcher = "train.sh", WriteMeta(TRUE)
  PROVE  Durable!Save
PROOF
  <1> USE BoundsAssumption
  <1>1. Types /\ Protocol /\ Dirs /\ TrainSh /\ TRUE \in BOOLEAN
    BY DEF IInv, SaveInv, TrainSh
  <1>2. /\ Saving
        /\ Complete(step)' /\ disk'[step]["weights"] = memory["weights"]
        /\ \A s \in Steps : s # step => (Complete(s)' <=> Complete(s))
    BY <1>1, MetaKeepsHistory
  <1>3. UNCHANGED <<launcher, memory, step, job>> /\ job = "up"
    BY DEF WriteMeta
  <1>4. step \in Steps /\ step \in Nat /\ step >= 1 /\ \A s \in Steps : s \in Nat
    BY <1>1, <1>2 DEF Saving, Protocol, Steps
  <1>5. \A s \in Steps : disk[s].exists <=> s <= step
    BY <1>1, <1>2, <1>3 DEF TrainSh, OneHistory, Saving
  <1>6. \A s \in Steps : Complete(s) => s < step
    <2>1. ~Complete(step)
      BY <1>1, <1>2 DEF TrainSh, Newest, Complete
    <2>2. \A s \in Steps : Complete(s) => s <= step
      BY <1>5 DEF Complete
    <2> QED BY <1>4, <2>1, <2>2
  <1>7. Kept' = memory["weights"]
    <2>1. step \in CompleteSteps' /\ \A t \in CompleteSteps' : t <= step
      <3>1. Complete(step)' => step \in CompleteSteps'
        BY <1>3, <1>4, StepsWithFiles DEF Complete, HasFile
      <3>2. \A t \in CompleteSteps' : t = step \/ t < step
        BY <1>2, <1>6, StepsWithFiles
      <3>3. \A t \in CompleteSteps' : t \in Nat
        BY <1>4, StepsWithFiles
      <3>4. \A t \in CompleteSteps' : t <= step
        BY <1>4, <3>2, <3>3
      <3> QED BY <1>2, <3>1, <3>4
    <2> QED BY <1>2, <1>3, <2>1, KeptIsNewestNext
  <1>8. Lineage = memory["weights"] /\ Lineage' = memory["weights"]
    BY <1>3 DEF Lineage
  <1>9. memory["weights"] \in Seq(1..MaxRuns) /\ Len(memory["weights"]) = step
    BY <1>1 DEF Types, TypeOK, Content, Dirs, StateFiles
  <1>10. Len(Kept) < Len(Lineage) /\ SubSeq(Lineage, 1, Len(Kept)) = Kept
    <2>1. CASE step = 1
      <3>1. CompleteSteps = {}
        BY <1>4, <1>6, <2>1, StepsWithFiles DEF Steps
      <3>2. Kept = <<>> /\ Len(<<>>) = 0
        BY <3>1 DEF Kept
      <3>3. SubSeq(memory["weights"], 1, 0) = <<>>
        BY <1>9, SubSeqEmpty
      <3> QED BY <1>8, <1>9, <2>1, <3>2, <3>3
    <2>2. CASE step > 1
      <3>1. step - 1 \in Steps /\ step - 1 < step
        BY <1>4, <2>2 DEF Steps
      <3>2. Complete(step - 1)
        BY <1>1, <1>4, <1>5, <3>1 DEF TrainSh, OneHistory
      <3>3. step - 1 \in CompleteSteps /\ \A t \in CompleteSteps : t <= step - 1
        BY <1>4, <1>6, <3>1, <3>2, StepsWithFiles
      <3>4. Kept = disk[step - 1]["weights"]
        BY <3>3, KeptIsNewest
      <3>5. disk[step - 1]["weights"] = SubSeq(memory["weights"], 1, step - 1)
        BY <1>1, <1>2, <2>2 DEF TrainSh, Newest
      <3>6. Len(disk[step - 1]["weights"]) = step - 1
        BY <1>1, <3>1, <3>2 DEF Dirs, Complete, StateFiles
      <3> QED BY <1>4, <1>8, <1>9, <3>4, <3>5, <3>6
    <2> QED BY <1>4, <2>1, <2>2
  <1> QED BY <1>7, <1>8, <1>10 DEF Durable!Save

\* Every step of the detailed machine is a step of the abstract one or none.
LEMMA StepSimulation ==
  ASSUME IInv, Next
  PROVE  Durable!Next \/ UNCHANGED <<Lineage, Kept>>
PROOF
  <1>1. Types /\ Protocol /\ Dirs
    BY DEF IInv
  <1>2. CASE launcher = "train.py"
    <2>1. launcher' = launcher
      BY DEF Next, Train, NoDirectory, Interval, Terminate, Crash, Write, PublishFile, WriteFails, WriteMeta, Save,
             PassGather, Broadcast, PassBarrier, LaunchFresh, ResumeComplete, ResumeLast,
             LaunchFrom, Quarantine, Stopped, vars
    <2> QED BY <1>2, <2>1 DEF Lineage, Kept
  <1>3. CASE launcher = "train.sh"
    <2>1. TrainSh
      BY <1>3 DEF IInv, SaveInv, TrainSh
    <2>2. ASSUME UNCHANGED <<launcher, memory>>, SameKept PROVE UNCHANGED <<Lineage, Kept>>
      BY <2>2, KeptSame DEF Lineage
    <2>3. CASE Train
      <3>1. Kept' = Kept
        BY <2>3, <1>1, <2>1, TrainKeepsHistory, KeptSame DEF Train, Interval
      <3>2. Lineage' = Append(Lineage, runs)
        BY <1>3, <2>3 DEF Train, Interval, Lineage, StateFiles
      <3>3. runs \in 1..MaxRuns
        BY <1>1, <2>3, BoundsAssumption DEF Train, Interval, Types, TypeOK
      <3> QED BY <3>1, <3>2, <3>3 DEF Durable!Next, Durable!Train
    <2>18. CASE NoDirectory
      <3>1. Kept' = Kept
        BY <2>18, <1>1, <2>1, AloneKeepsHistory, KeptSame DEF NoDirectory, Interval
      <3>2. Lineage' = Append(Lineage, runs)
        BY <1>3, <2>18 DEF NoDirectory, Interval, Lineage, StateFiles
      <3>3. runs \in 1..MaxRuns
        BY <1>1, <2>18, BoundsAssumption DEF NoDirectory, Interval, Types, TypeOK
      <3> QED BY <3>1, <3>2, <3>3 DEF Durable!Next, Durable!Train
    <2>4. CASE \E r \in Ranks : PassGather(r)
      BY <1>1, <2>2, <2>4, GatherDisk, UnchangedKept DEF PassGather
    <2>5. CASE \E r \in Ranks : Broadcast(r)
      BY <2>2, <2>5, UnchangedKept DEF Broadcast
    <2>6. CASE \E r \in Ranks : PassBarrier(r)
      BY <2>2, <2>6, UnchangedKept DEF PassBarrier
    <2>7. CASE \E f \in StateFiles : PublishFile(f)
      <3>1. PICK f \in StateFiles : PublishFile(f)
        BY <2>7
      <3>2. SameKept /\ UNCHANGED <<launcher, memory>>
        BY <1>1, <2>1, <3>1, PublishKeepsHistory DEF PublishFile
      <3> QED BY <2>2, <3>2
    <2>8. CASE \E f \in StateFiles : WriteFails(f)
      BY <2>2, <2>8, UnchangedKept DEF WriteFails
    <2>9. CASE WriteMeta(TRUE)
      BY <1>3, <2>9, MetaSaves DEF Durable!Next
    <2>10. CASE WriteMeta(FALSE)
      BY <2>2, <2>10, UnchangedKept DEF WriteMeta
    <2>11. CASE Terminate
      BY <2>2, <2>11, UnchangedKept DEF Terminate
    <2>12. CASE Crash
      <3>1. Kept' = Kept
        BY <2>12, UnchangedKept, KeptSame DEF Crash
      <3>2. Lineage' = <<>>
        BY <2>12 DEF Crash, Lineage, StateFiles
      <3> QED BY <3>1, <3>2 DEF Durable!Next, Durable!Lose
    <2>13. CASE LaunchFresh
      <3>1. LaunchFrom(0, [f \in StateFiles |-> <<>>]) /\ Existing = {}
        BY <2>1, <2>13 DEF LaunchFresh, TrainSh
      <3>2. Kept = <<>>
        BY <3>1 DEF Kept, CompleteSteps
      <3>3. Kept' = Kept
        BY <3>1, UnchangedKept, KeptSame DEF LaunchFrom
      <3>4. Lineage' = <<>>
        BY <1>3, <3>1 DEF LaunchFrom, Lineage, StateFiles
      <3> QED BY <3>2, <3>3, <3>4 DEF Durable!Next, Durable!Resume
    <2>14. CASE ResumeComplete
      <3> DEFINE s == Latest(CompleteSteps)
                 content == [f \in StateFiles |-> Loaded(s, f)]
      <3>1. /\ LaunchFrom(s, content) /\ s \in CompleteSteps /\ \A t \in CompleteSteps : t <= s
            /\ disk[s]["weights"] = content["weights"]
        BY <1>1, <2>1, <2>14, ResumeReadsNewest
      <3> HIDE DEF s, content
      <3>2. Kept = disk[s]["weights"]
        BY <1>3, <3>1, KeptIsNewest
      <3>3. Kept' = Kept
        BY <3>1, UnchangedKept, KeptSame DEF LaunchFrom
      <3>4. Lineage' = content["weights"]
        BY <1>3, <3>1 DEF LaunchFrom, Lineage
      <3> QED BY <3>1, <3>2, <3>3, <3>4 DEF Durable!Next, Durable!Resume
    <2>15. CASE ResumeLast
      BY <1>3, <2>15 DEF ResumeLast
    <2>16. CASE \E q \in Steps : Quarantine(q)
      <3>1. PICK q \in Steps : Quarantine(q)
        BY <2>16
      <3>2. SameKept /\ UNCHANGED <<launcher, memory>>
        BY <1>1, <3>1, QuarantineKept DEF Quarantine
      <3> QED BY <2>2, <3>2
    <2>17. CASE Stopped
      BY <2>2, <2>17, UnchangedKept DEF Stopped, vars
    <2> QED BY <2>3, <2>4, <2>5, <2>6, <2>7, <2>8, <2>9, <2>10, <2>11, <2>12, <2>13, <2>14,
               <2>15, <2>16, <2>17, <2>18 DEF Next, Write, Save
  <1> QED BY <1>1, <1>2, <1>3, LaunchersAssumption DEF Types, TypeOK

\* Two writer threads, three files and reused directories implement one atomic
\* save, from which a resume goes on (save_checkpoint, train.sh).
THEOREM SavesAreAtomic == Spec => SavesAtomically
PROOF
  <1>1. Init => Durable!Init
    <2> SUFFICES ASSUME Init PROVE Lineage = <<>> /\ Kept = <<>>
      BY DEF Durable!Init
    <2>1. Lineage = <<>>
      BY DEF Init, Lineage, StateFiles
    <2>2. \A s \in Steps : ~Complete(s)
      BY DEF Init, Complete, NoDir
    <2>3. CompleteSteps = {}
      BY <2>2, StepsWithFiles
    <2> QED BY <2>1, <2>3 DEF Kept
  <1>2. IInv /\ [Next]_vars => [Durable!Next]_<<Lineage, Kept>>
    <2>1. ASSUME UNCHANGED vars PROVE UNCHANGED <<Lineage, Kept>>
      BY <2>1, UnchangedKept, KeptSame DEF vars, Lineage
    <2> QED BY <2>1, StepSimulation
  <1> QED BY <1>1, <1>2, AlwaysIInv, PTL DEF Spec, SavesAtomically, Durable!Spec, Durable!vars
=============================================================================
