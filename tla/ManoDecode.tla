------------------------------ MODULE ManoDecode ------------------------------
(***************************************************************************)
(* The decoding of one MANO45 action chunk into hand commands              *)
(* (mano_action_chunk_to_xpolicy in spark0_dataset.py, with the codec of   *)
(* policy/VITRA/mano45_runtime.py and mano45_linear_inverse.py).           *)
(*                                                                         *)
(* The rows of the chunk are steps relative to the row before; each hand of*)
(* each row is decoded by the linear inverse, when one is configured, and  *)
(* by the iterative solver when the linear inverse refuses or there is     *)
(* none.  A row is committed when both of its hands are decoded; the first *)
(* failure holds the last complete command for the rest of the chunk.      *)
(*                                                                         *)
(* A pose or a joint vector is named by the row it belongs to, 0 for the   *)
(* observation.  Errors are in millimetres.                                *)
(***************************************************************************)
EXTENDS Naturals, Sequences

CONSTANTS
  ChunkRows,    \* rows of the chunk
  Rms,          \* the errors a decoding may have
  Tolerance,    \* tolerance_m of the codec
  GeometryLimits \* max_geometry_rms_m of the artifacts

Hands == {"left", "right"}
\* A hand of a command: finger joints, the root of its wrist, and the joints
\* the palm offset between root and wrist was computed from.
Posture == [q : 0..ChunkRows, root : 0..ChunkRows, offset : 0..ChunkRows]
Observed == [h \in Hands |-> [q |-> 0, root |-> 0, offset |-> 0]]

VARIABLES
  inverse,   \* inverse_mode: "geometric" or "linear"
  limit,     \* geometry_limit_m of the loaded artifact
  stage,     \* "idle", "forward", "linear", "solve", "gate", "held"
  line,      \* row under decoding
  hand,      \* hand under decoding
  rms,       \* error of the decoding of this hand
  tried,     \* history: the inverses that were asked for this hand
  candidate, \* candidate_decodes and candidate_roots: the left hand's
  previousQ, \* previous_q
  current,   \* current: the roots the next row is relative to
  safe,      \* safe_command
  output

decodeVars == <<inverse, limit, stage, line, hand, rms, tried, candidate, previousQ, current,
                safe, output>>

DecodeInit ==
  /\ inverse \in {"geometric", "linear"} /\ limit \in GeometryLimits
  /\ stage = "idle" /\ line = 1 /\ hand = "left" /\ rms = 0 /\ tried = {}
  /\ candidate = Observed
  /\ previousQ = [h \in Hands |-> 0] /\ current = [h \in Hands |-> 0]
  /\ safe = Observed /\ output = <<>>

\* A chunk for the latest context; its arrays are checked first.
BeginChunk ==
  /\ stage \in {"idle", "held"}
  /\ stage' = "forward" /\ line' = 1 /\ hand' = "left" /\ rms' = 0 /\ tried' = {}
  /\ previousQ' = [h \in Hands |-> 0] /\ current' = [h \in Hands |-> 0]
  /\ safe' = Observed /\ output' = <<>>
  /\ UNCHANGED <<inverse, limit, candidate>>

-----------------------------------------------------------------------------
(* Failures.                                                               *)

\* Mutant of HeldCommand: the rows that are left repeat the row that failed as
\* far as it was decoded.
HeldPartly == candidate

HeldCommand == safe

\* ManoRuntimeFitError leaves mano_to_wuji.
FitFails ==
  /\ stage' = "held"
  /\ output' = output \o [i \in 1..(ChunkRows - line + 1) |-> HeldCommand]
  /\ UNCHANGED <<inverse, limit, line, hand, rms, candidate, previousQ, current, safe>>

\* Any other exception is passed on, and no part of the chunk is returned.
DecodeRaises ==
  /\ stage \notin {"idle", "held"}
  /\ stage' = "idle" /\ output' = <<>>
  /\ UNCHANGED <<inverse, limit, line, hand, rms, tried, candidate, previousQ, current, safe>>

-----------------------------------------------------------------------------
(* mano_to_wuji for one hand.                                              *)

\* The joints of a commanded row are inside the limits; the observed ones need
\* not be.  The forward kinematics may give no finite joints.
ForwardFails == stage = "forward" /\ FitFails /\ UNCHANGED tried

Forward ==
  /\ stage = "forward"
  /\ stage' = IF inverse = "linear" THEN "linear" ELSE "solve"
  /\ UNCHANGED <<inverse, limit, line, hand, rms, tried, candidate, previousQ, current, safe,
                 output>>

\* predict: outside the calibrated domain, beyond the joint limits, too fast
\* from previous_q, or an inconsistent cycle; or no canonical geometry.
LinearRefuses ==
  /\ stage = "linear"
  /\ stage' = "solve" /\ tried' = tried \cup {"linear"}
  /\ UNCHANGED <<inverse, limit, line, hand, rms, candidate, previousQ, current, safe, output>>

\* _linear_mano_to_wuji compares the error with the limit of its artifact.
Linear(e) ==
  /\ stage = "linear"
  /\ tried' = tried \cup {"linear"}
  /\ stage' = IF e <= limit THEN "gate" ELSE "solve"
  /\ rms' = e
  /\ UNCHANGED <<inverse, limit, line, hand, candidate, previousQ, current, safe, output>>

\* No solution, too late, not finite or outside the joint limits.
SolveFails ==
  /\ stage = "solve" /\ tried' = tried \cup {"solve"} /\ FitFails

Solve(e) ==
  /\ stage = "solve"
  /\ tried' = tried \cup {"solve"}
  /\ IF e <= Tolerance
     THEN /\ stage' = "gate" /\ rms' = e
          /\ UNCHANGED <<inverse, limit, line, hand, candidate, previousQ, current, safe, output>>
     ELSE FitFails

-----------------------------------------------------------------------------
(* The row.                                                                *)

\* The palm offset is computed from the joints the inverse began with.
Decoded == [q |-> line, root |-> current[hand] + 1, offset |-> previousQ[hand]]

GateFails == stage = "gate" /\ rms > Tolerance /\ FitFails /\ UNCHANGED tried

\* Both hands of the row are committed.
NextCurrent == [h \in Hands |-> current[h] + 1]

LeftDone ==
  /\ stage = "gate" /\ rms <= Tolerance /\ hand = "left"
  /\ candidate' = [candidate EXCEPT !["left"] = Decoded]
  /\ stage' = "forward" /\ hand' = "right" /\ tried' = {}
  /\ UNCHANGED <<inverse, limit, line, rms, previousQ, current, safe, output>>

RowDone ==
  LET command == [candidate EXCEPT !["right"] = Decoded]
  IN /\ stage = "gate" /\ rms <= Tolerance /\ hand = "right"
     /\ candidate' = command /\ safe' = command /\ output' = Append(output, command)
     /\ previousQ' = [h \in Hands |-> line]
     /\ current' = NextCurrent
     /\ hand' = "left" /\ tried' = {}
     /\ IF line = ChunkRows
        THEN stage' = "idle" /\ UNCHANGED line
        ELSE stage' = "forward" /\ line' = line + 1
     /\ UNCHANGED <<inverse, limit, rms>>

DecodeNext ==
  \/ BeginChunk \/ DecodeRaises
  \/ Forward \/ ForwardFails
  \/ LinearRefuses \/ \E e \in Rms : Linear(e)
  \/ SolveFails \/ \E e \in Rms : Solve(e)
  \/ GateFails \/ LeftDone \/ RowDone

DecodeSpec == DecodeInit /\ [][DecodeNext]_decodeVars
-----------------------------------------------------------------------------
\* Every variable keeps its type.
DecodeTypeOK ==
  /\ inverse \in {"geometric", "linear"} /\ limit \in GeometryLimits
  /\ stage \in {"idle", "forward", "linear", "solve", "gate", "held"}
  /\ line \in 1..ChunkRows /\ hand \in Hands
  /\ tried \subseteq {"linear", "solve"}
  /\ candidate \in [Hands -> Posture] /\ safe \in [Hands -> Posture]
  /\ previousQ \in [Hands -> 0..ChunkRows] /\ current \in [Hands -> 0..ChunkRows]
  /\ output \in Seq([Hands -> Posture]) /\ Len(output) <= ChunkRows

\* c is one complete row: joints and roots of both hands are its own.
IsRow(c, k) == \A h \in Hands : c[h].q = k /\ c[h].root = k

\* The commands are the rows of the chunk in order and, from the first row that
\* could not be decoded for both hands, the last complete one to the end of the
\* chunk, the observed posture when there is none: one hand never moves alone
\* and a held command is never followed by a moving one.
RowsCommitWhole ==
  \E k \in 0..Len(output) :
    /\ \A i \in 1..k : IsRow(output[i], i)
    /\ \A i \in (k + 1)..Len(output) :
         IsRow(output[i], k) /\ output[i] = (IF k = 0 THEN Observed ELSE output[k])
    /\ k < Len(output) => stage = "held" /\ Len(output) = ChunkRows

\* A hand is decoded starting from the joints and relative to the root of the
\* last row that was committed for both hands, whatever the candidates of a
\* row half decoded were.
StartsFromCommitted ==
  stage \notin {"idle", "held"} =>
    \A h \in Hands : previousQ[h] = line - 1 /\ current[h] = line - 1

\* The wrist is recovered from the integrated root with the palm offset of the
\* observation (mano45_runtime.py:641, and the contract of the method at :429).
OffsetIsObserved == \A i \in 1..Len(output), h \in Hands : output[i][h].offset = 0

\* A hand the linear inverse was asked for is only held when the geometric
\* fallback failed too (policy/VITRA/README.md:29).
OnlyFallbackHolds == stage = "held" /\ "linear" \in tried => "solve" \in tried
=============================================================================
