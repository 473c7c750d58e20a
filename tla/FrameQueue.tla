------------------------------ MODULE FrameQueue ------------------------------
(***************************************************************************)
(* What a ring promises its two ends: a frame that was accepted comes out  *)
(* once and whole, in the order of acceptance.                             *)
(***************************************************************************)
EXTENDS Naturals, Sequences

CONSTANT Frames

VARIABLES accepted, returned

Init == accepted = <<>> /\ returned = <<>>

\* A frame joins the end.
Push ==
  LET f == accepted'[Len(accepted) + 1]
  IN  /\ Len(accepted') = Len(accepted) + 1
      /\ accepted' = Append(accepted, f) /\ f \in Frames
      /\ UNCHANGED returned

\* The oldest accepted frame not yet returned.
Pop ==
  /\ Len(returned) < Len(accepted)
  /\ returned' = Append(returned, accepted[Len(returned) + 1])
  /\ UNCHANGED accepted

Spec == Init /\ [][Push \/ Pop]_<<accepted, returned>>
===============================================================================
