---------------------------- MODULE MCGoalRounds ----------------------------
(* GoalRounds on a small instance. *)
EXTENDS GoalRounds

MCCaps == {1, 2}
=============================================================================
