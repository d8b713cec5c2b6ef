---------------------------- MODULE MCLrSchedule ----------------------------
(* LrSchedule for TLC: one backbone-freeze-warmup run, values in the cfg.  *)
EXTENDS LrSchedule
=============================================================================
