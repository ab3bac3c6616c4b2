---------------------------- MODULE MCKuHistory -----------------------------
(***************************************************************************)
(* Values of the constants of KuHistory for model checking: the files are  *)
(* treated alike.                                                          *)
(***************************************************************************)
EXTENDS KuHistory, TLC

Symmetry == Permutations(Files)
=============================================================================
