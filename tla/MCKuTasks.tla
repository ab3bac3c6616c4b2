----------------------------- MODULE MCKuTasks ------------------------------
(* KuTasks on two tasks of two files each, or on four of one.              *)
EXTENDS KuTasks, TLC

TaskSymmetry == Permutations(Tasks)
=============================================================================
