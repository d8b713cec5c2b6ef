--------------------------- MODULE DurableTraining ---------------------------
(***************************************************************************)
(* What saving and resuming promise, whatever crashes: a training run is   *)
(* one lineage of training intervals, of which a prefix is kept.  A save   *)
(* keeps all of the lineage at once, a crash loses what was not kept, and a*)
(* resume goes on exactly where the last save was.                         *)
(***************************************************************************)
EXTENDS Naturals, Sequences

CONSTANT Runs  \* the launches that may train an interval

VARIABLES
  lineage,  \* the intervals behind the weights in memory
  kept      \* the intervals behind the newest complete checkpoint

vars == <<lineage, kept>>

Init == lineage = <<>> /\ kept = <<>>

Train ==
  /\ \E r \in Runs : lineage' = Append(lineage, r)
  /\ UNCHANGED kept

\* A checkpoint always continues the one before it.
Save ==
  /\ Len(kept) < Len(lineage) /\ SubSeq(lineage, 1, Len(kept)) = kept
  /\ kept' = lineage
  /\ UNCHANGED lineage

Lose == lineage' = <<>> /\ UNCHANGED kept

Resume == lineage' = kept /\ UNCHANGED kept

Next == Train \/ Save \/ Lose \/ Resume

Spec == Init /\ [][Next]_vars
=============================================================================
