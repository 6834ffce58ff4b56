----------------------------- MODULE MCOvertaking -----------------------------
(* The instance of MCScheduler, watched by the observer of Overtaking.      *)
EXTENDS MCScheduler, Overtaking
===============================================================================
