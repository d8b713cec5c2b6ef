--------------------------- MODULE MCTrainingRun ----------------------------
(* Values for model checking TrainingRun.                                  *)
EXTENDS TrainingRun
=============================================================================
