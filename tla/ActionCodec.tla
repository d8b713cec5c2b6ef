----------------------------- MODULE ActionCodec ------------------------------
(***************************************************************************)
(* From a recording to the vectors the network is trained with, and from    *)
(* what it answers back to commands: the samples of spark0_dataset.py and   *)
(* egovla_inspire_dataset.py on one side, runtime_observation_to_* and      *)
(* *_action_chunk_to_xpolicy of the same files, as model.py calls them, on  *)
(* the other.  The policy here answers what it was trained to.              *)
(*                                                                         *)
(* A rotation is a permutation of the three axes, which is enough for the   *)
(* side on which one is applied to matter.  The pose of a hand has few      *)
(* places instead of 45.  Scaling by the statistics, undone by the same     *)
(* ones, and the padding behind both hands are left out.                    *)
(***************************************************************************)
EXTENDS Integers, Sequences, FiniteSets

CONSTANTS
  Recordings,   \* [camera, ee, hand, command], each by frame, or by side and frame
  Tables,       \* mapping files that may be used, each a sequence of [place, sign]
  Mount,        \* ee_to_vitra_wrist of each side; for mano45 the fit's Link7 to root
  Official,     \* OFFICIAL_CAMERA_VITRA
  Places,       \* MANO pose indices
  Future,       \* action_future_window_size
  None

VARIABLES
  kind, rec, table,   \* the representation, the recording, the mapping in use
  sample,     \* the training sample of a frame, as transform_trajectory leaves it
  seen,       \* the encoded observation with its context
  answer      \* native rows and commands of the chunk made from it

codecVars == <<kind, rec, table, sample, seen, answer>>

Sides == {"left", "right"}
Frames == DOMAIN rec.camera

-----------------------------------------------------------------------------
\* Row i of a rotation picks coordinate r[i]; so r also turns a rotation.
Turn(r, v) == <<v[r[1]], v[r[2]], v[r[3]]>>
Transposed(r) == [a \in 1..3 |-> CHOOSE i \in 1..3 : r[i] = a]
Plus(u, v) == <<u[1] + v[1], u[2] + v[2], u[3] + v[3]>>
Minus(u, v) == <<u[1] - v[1], u[2] - v[2], u[3] - v[3]>>

Rotations ==
  {r \in (1..3) \X (1..3) \X (1..3) : r[1] # r[2] /\ r[1] # r[3] /\ r[2] # r[3]}
Poses == [rot : Rotations, pos : Int \X Int \X Int]
Unmoved == [rot |-> <<1, 2, 3>>, pos |-> <<0, 0, 0>>]

\* The product of two rigid transforms, and the inverse of one.
Times(A, B) == [rot |-> Turn(A.rot, B.rot), pos |-> Plus(A.pos, Turn(A.rot, B.pos))]
Inverse(A) ==
  LET r == Turn(Transposed(A.rot), <<1, 2, 3>>)
  IN  [rot |-> r, pos |-> Minus(<<0, 0, 0>>, Turn(r, A.pos))]

\* Mutant of StepDelta: the turn as seen from the wrist, R_current.T @ R_next.
DeltaFromWrist(current, target) ==
  [rot |-> Turn(Inverse(current).rot, target.rot), pos |-> Minus(target.pos, current.pos)]

\* A step moves the position and turns from the left, whatever the position.
StepDelta(current, target) ==
  [rot |-> Turn(target.rot, Inverse(current).rot), pos |-> Minus(target.pos, current.pos)]

Advance(current, delta) ==
  [rot |-> Turn(delta.rot, current.rot), pos |-> Plus(current.pos, delta.pos)]

-----------------------------------------------------------------------------
\* _validate_mapping: every joint has a place of its own.
Valid(t) ==
  /\ \A s \in DOMAIN t : t[s].place \in Places /\ t[s].sign \in {1, -1}
  /\ Cardinality({t[s].place : s \in DOMAIN t}) = Len(t)

\* inspire12_to_mano45, and mano45_to_inspire12: joint s goes to its place.
Injected(hand) ==
  [p \in Places |->
    IF \E s \in DOMAIN table : table[s].place = p
    THEN LET s == CHOOSE s \in DOMAIN table : table[s].place = p IN table[s].sign * hand[s]
    ELSE 0]
Projected(pose) == [s \in DOMAIN table |-> table[s].sign * pose[table[s].place]]

Blank == [wrist |-> Unmoved, pose |-> [p \in Places |-> 0]]

\* Values and mask of both hands.  The mask of a hand covers its whole span,
\* places without a joint included.
Mapped(native, active) ==
  [value |-> [h \in Sides |->
     IF active[h] THEN [wrist |-> native[h].wrist, pose |-> Injected(native[h].hand)] ELSE Blank],
   mask |-> active]

\* A MANO hand fills its span by itself; the betas of a state are dropped.
Padded(native, active) ==
  [value |-> [h \in Sides |->
     IF active[h]
     THEN [wrist |-> native[h].wrist, pose |-> [p \in Places |-> native[h].hand[p + 1]]] ELSE Blank],
   mask |-> active]

Human(native, active) ==
  IF kind = "mano45" THEN Padded(native, active) ELSE Mapped(native, active)

\* human_action_to_native, and human_action_to_mano, which is a slice.
Unmapped(human) ==
  [h \in Sides |-> [wrist |-> human[h].wrist, hand |-> Projected(human[h].pose)]]
Sliced(human) ==
  [h \in Sides |-> [wrist |-> human[h].wrist,
                    hand |-> [s \in 1..Cardinality(Places) |-> human[h].pose[s - 1]]]]
Native(human) == IF kind = "mano45" THEN Sliced(human) ELSE Unmapped(human)

-----------------------------------------------------------------------------
\* The camera of a sample: the datasets of inspire12 know one, which does not move.
AnchorCamera(f) == IF kind = "inspire12" THEN Official ELSE rec.camera[f]

\* The camera of an observation; without extrinsics inspire12 takes its own, and
\* the other representations raise.
Camera(f, extrinsics) == IF extrinsics THEN rec.camera[f] ELSE Official

\* EgoVLAInspireDatasetCore takes the recorded pose for the wrist; the mapping
\* file that the runtime reads says the same.
WristMount(h) == IF kind = "inspire12" THEN Unmoved ELSE Mount[h]
WristIn(camera, h, ee) == Times(Times(Inverse(camera), ee), WristMount(h))

Both == [h \in Sides |-> TRUE]
Neither == [h \in Sides |-> FALSE]
StateAt(camera, f) ==
  [h \in Sides |-> [wrist |-> WristIn(camera, h, rec.ee[h][f]), hand |-> rec.hand[h][f]]]

\* Row t of the window of frame f, in the camera of frame f.
Row(f, t) ==
  IF t + 1 \in Frames
  THEN Human([h \in Sides |->
         [wrist |-> StepDelta(WristIn(AnchorCamera(f), h, rec.ee[h][t]),
                              WristIn(AnchorCamera(f), h, rec.ee[h][t + 1])),
          hand |-> rec.command[h][t]]], Both)
  ELSE Human([h \in Sides |->
         [wrist |-> Unmoved, hand |-> [s \in DOMAIN rec.hand[h][f] |-> 0]]], Neither)

\* Hands of the representation; EgoVLA records with the official camera.
CodecInit ==
  /\ kind \in {"wuji20", "inspire12", "mano45"} /\ rec \in Recordings
  /\ IF kind = "mano45"
     THEN table = <<>> /\ Len(rec.hand["left"][0]) = Cardinality(Places)
     ELSE table \in {t \in Tables : Valid(t)} /\ Len(rec.hand["left"][0]) = Len(table)
  /\ (kind = "inspire12" => \A f \in Frames : rec.camera[f] = Official)
  /\ sample = None /\ seen = None /\ answer = None

\* __getitem__ and transform_trajectory.
Load(f) ==
  /\ sample' = [frame |-> f, state |-> Human(StateAt(AnchorCamera(f), f), Both),
                rows |-> [k \in 0..Future |-> Row(f, f + k)]]
  /\ UNCHANGED <<kind, rec, table, seen, answer>>

\* runtime_observation_to_* and *_state_to_human: the robot is where it was in
\* frame f.
Observe(f, extrinsics) ==
  /\ extrinsics \/ kind = "inspire12"
  /\ LET camera == Camera(f, extrinsics)
         native == StateAt(camera, f)
     IN  seen' = [frame |-> f, camera |-> camera, state |-> Human(native, Both),
                  wrist |-> [h \in Sides |-> native[h].wrist]]
  /\ UNCHANGED <<kind, rec, table, sample, answer>>

\* The poses after each row, from the wrist that was observed.
Integrated(h, rows) ==
  LET at[k \in Nat] == IF k = 0 THEN seen.wrist[h] ELSE Advance(at[k - 1], rows[k - 1][h].wrist)
  IN  [k \in DOMAIN rows |-> at[k + 1]]

\* What a row asks of a hand, in the world.
Command(h, pose, hand) ==
  [ee |-> Times(Times(seen.camera, pose), Inverse(WristMount(h))), hand |-> hand]

\* human_action_to_* and *_action_chunk_to_xpolicy.  The network may say
\* anything in a place that no joint has.  (For mano45 the hand is then fitted:
\* see ManoDecode.)
Answer(noise) ==
  /\ seen # None /\ sample # None /\ seen.frame = sample.frame
  /\ LET used == IF kind = "mano45" THEN Places ELSE {table[s].place : s \in DOMAIN table}
         said(k, h) == [sample.rows[k].value[h] EXCEPT
                          !.pose = [p \in Places |-> IF p \in used THEN @[p] ELSE noise]]
         rows == [k \in 0..Future |-> Native([h \in Sides |-> said(k, h)])]
         poses == [h \in Sides |-> Integrated(h, rows)]
     IN  answer' = [frame |-> seen.frame, rows |-> rows,
           command |-> [k \in 0..Future |->
             [h \in Sides |-> Command(h, poses[h][k], rows[k][h].hand)]]]
  /\ UNCHANGED <<kind, rec, table, sample, seen>>

CodecNext ==
  \/ \E f \in Frames : Load(f) \/ \E extrinsics \in BOOLEAN : Observe(f, extrinsics)
  \/ \E noise \in {0, 1} : Answer(noise)

CodecSpec == CodecInit /\ [][CodecNext]_codecVars

-----------------------------------------------------------------------------
\* What was recorded comes back: the state the network is given in a frame is
\* the one it was trained with there, and if it answers as trained, the
\* commands are the recorded poses of the frames that follow, one after the
\* other in the world and not in a camera that may have moved since, with the
\* recorded hand commands, for as long as there are labels.
ActionsReturn ==
  /\ seen # None /\ sample # None /\ seen.frame = sample.frame => seen.state = sample.state
  /\ answer # None =>
       \A k \in 0..Future :
         answer.frame + k + 1 \in Frames =>
           answer.command[k] = [h \in Sides |->
             [ee |-> rec.ee[h][answer.frame + k + 1],
              hand |-> rec.command[h][answer.frame + k]]]
=============================================================================
