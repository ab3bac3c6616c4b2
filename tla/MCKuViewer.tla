----------------------------- MODULE MCKuViewer -----------------------------
(***************************************************************************)
(* Values of the constants of KuViewer for model checking: two pictures,   *)
(* siblings of each other, so that each is prefetched while the other is   *)
(* shown, or not siblings.                                                 *)
(***************************************************************************)
EXTENDS KuViewer, TLC

CONSTANTS p1, p2

Each == (p1 :> <<p2>>) @@ (p2 :> <<p1>>)
NoSiblings == (p1 :> <<>>) @@ (p2 :> <<>>)
AllRotations == -3..3
OneTurn == {-1, 0, 1}
AllPictures == [of : Paths, turn : 0..3]
=============================================================================
