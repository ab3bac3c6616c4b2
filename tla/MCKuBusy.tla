------------------------------ MODULE MCKuBusy ------------------------------
(* KuBusy on two directories of two pictures each.                         *)
EXTENDS KuBusy

CONSTANTS d1, d2

TwoLists == {<<d1, d2>>, <<d2>>}
=============================================================================
