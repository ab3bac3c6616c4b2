----------------------------- MODULE MCKuLoader -----------------------------
(***************************************************************************)
(* Values of the constants of KuLoader for model checking.  The pictures   *)
(* that can be decoded are treated alike, so they are symmetric.           *)
(***************************************************************************)
EXTENDS KuLoader, TLC

\* Files are written in two orientations.
TurnedPictures == [of : Paths, turn : {0, 1}]

\* The client passes to Replace what Rotate90 and SaveImage have once the
\* picture is loaded completely.
GoodBitmaps ==
  [p \in Paths |-> {[of |-> p, turn |-> 0, size |-> FullSize, kind |-> "good"]}]

\* The client may pass a preview too: kuID_LOAD_COMPLETELY, switched on while one is
\* shown, lets Rotate90 turn it as it is.
AnyKind ==
  [p \in Paths |-> {[of |-> p, turn |-> 0, size |-> FullSize, kind |-> k] : k \in {"rough", "good"}}]

Symmetry == Permutations(Paths \ Broken)
=============================================================================
