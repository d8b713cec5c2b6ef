----------------------------- MODULE MCTraining ------------------------------
(* One training job for TLC: the values a configuration file cannot write.   *)
EXTENDS Training

\* Weights 2, 0.5 and 1 over datasets of 2, 4 and 3 samples.
MCLength == <<2, 4, 3>>
MCSampleSize == <<4, 2, 3>>

\* Three episodes, of which the middle one has three rows, or one that is refused.
MCFileSets == {<<2, 3, 2>>, <<3, 1>>}
MCDamages == {{}, {<<2, 1, "action">>, <<3, 0, "state">>}}

\* The other hand has no clip, one in the middle, or two after each other.
MCClipSets == {<<>>, <<<<1, 3>>>>, <<<<0, 2>>, <<2, 4>>>>}
MCKeptSets == {0..3, {0, 1, 3}}

\* Three frames, between which a hand turns in two ways that do not commute.
Turns == <<<<2, 1, 3>>, <<1, 3, 2>>, <<3, 1, 2>>>>
At(r, x, y, z) == [rot |-> r, pos |-> <<x, y, z>>]
MCOfficial == At(<<2, 1, 3>>, 1, 0, 2)

\* The camera stands where inspire12 expects it, or moves with the robot.
Recorded(cameras, joints) ==
  [camera |-> cameras,
   ee |-> [h \in {"left", "right"} |-> [f \in 0..2 |->
             IF h = "left" THEN At(Turns[f + 1], f, 1, 0) ELSE At(Turns[3 - f], 2, 0 - f, f * f)]],
   hand |-> [h \in {"left", "right"} |-> [f \in 0..2 |-> SubSeq(<<f, f + 4, 7>>, 1, joints)]],
   command |-> [h \in {"left", "right"} |-> [f \in 0..2 |-> SubSeq(<<f + 1, 5 - f, 8>>, 1, joints)]]]
Standing == [f \in 0..2 |-> MCOfficial]
Moving == [f \in 0..2 |-> At(<<<<1, 2, 3>>, <<3, 1, 2>>, <<1, 3, 2>>>>[f + 1], f, 0, 1 - f)]

MCCodecRecordings == {Recorded(c, n) : c \in {Standing, Moving}, n \in {2, 3}}
MCTables == [1..2 -> [place : 0..2, sign : {1, -1}]]
MCMount == [left |-> At(<<1, 3, 2>>, 0, 1, 0), right |-> At(<<2, 3, 1>>, 0, 0, 1)]

\* Two sources with episodes of one name, two recordings in directories of
\* their own that meet at one place, one of them with a frame that was cut off,
\* and cameras as simulator and robot write them.
Episode(id, root, dir, name, length, fit, camera) ==
  [id |-> id, root |-> root, task |-> "t", dir |-> dir, name |-> name, rows |-> length,
   fit |-> fit, frame |-> camera]
MCRecordings ==
  {Episode(1, 1, "data", "a", 3, "open", "camera_to_env"),
   Episode(2, 1, "data", "b", 2, "open", "camera_to_env"),
   Episode(3, 2, "data", "a", 4, "open", "camera_to_env"),
   Episode(4, 1, "", "a", 3, "closed", "camera_to_world"),
   Episode(5, 1, "cfg", "a", 2, "open", "camera_to_world")}
=============================================================================
