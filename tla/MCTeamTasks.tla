------------------------------ MODULE MCTeamTasks ------------------------------
(* TeamTasks on small instances.                                             *)
EXTENDS TeamTasks, TLC

Symmetry == Permutations(Member)
================================================================================
