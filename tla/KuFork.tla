------------------------------- MODULE KuFork -------------------------------
(***************************************************************************)
(* What the history of kuFrame promises the user, without its arrays: two  *)
(* lines of visited files that share their beginning.  The user stands on  *)
(* one line (here), can go back and forward on it, and can jump to the     *)
(* other one (there), each line remembering where it was left.  A visit    *)
(* from the middle of a line starts a new line; the one that was left      *)
(* becomes the other line, and the former other line is forgotten.         *)
(***************************************************************************)
EXTENDS Naturals, Sequences

CONSTANT Files

VARIABLES
  here,    \* the line the user is on, and the place on it
  there,   \* the other line, with the place where it was left
  fork     \* how many visits the two lines share

vars == <<here, there, fork>>

Nowhere == [visits |-> <<>>, at |-> 0]

Visit(f) ==
  /\ here' = [visits |-> Append(SubSeq(here.visits, 1, here.at), f),
              at |-> here.at + 1]
  /\ IF here.at < Len(here.visits)
     THEN /\ there' = [here EXCEPT !.at = Len(here.visits)]
          /\ fork' = here.at
     ELSE UNCHANGED <<there, fork>>

Back ==
  /\ here.at > 1
  /\ here' = [here EXCEPT !.at = @ - 1]
  /\ UNCHANGED <<there, fork>>

Forward ==
  /\ here.at < Len(here.visits)
  /\ here' = [here EXCEPT !.at = @ + 1]
  /\ UNCHANGED <<there, fork>>

\* Jump to the other line: doing it twice changes nothing.
Jump ==
  /\ there # Nowhere /\ here.at > fork
  /\ here' = there /\ there' = here
  /\ UNCHANGED fork

Init == here = Nowhere /\ there = Nowhere /\ fork = 0

Next == (\E f \in Files : Visit(f)) \/ Back \/ Forward \/ Jump

Spec == Init /\ [][Next]_vars
=============================================================================
