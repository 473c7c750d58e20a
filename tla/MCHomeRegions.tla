--------------------------- MODULE MCHomeRegions ---------------------------
(* The home regions and the projection.  They share no variable: a run takes  *)
(* steps of one while the other is as it was in the beginning, so that their  *)
(* states add up and do not multiply.                                         *)
EXTENDS HomeRegions, Projection

At(v, s) == [l \in Lines |-> [virtue |-> v, shadow |-> s]]

\* Places the encoder reaches on these lines (Encoder: on that of harmony a virtue
\* of 40 to 180, a shadow of 0 to 112): inside, near a wall, and outside every
\* season.
MCPlaces == {At(132, 48), At(72, 24), At(96, 108)}
MCDrafted == {At(47, 33), At(121, 111)}

\* Places the encoder or a mean may reach; the feet of all are whole numbers.
MCDrawn == {At(v, s) : v \in {0, 48, 100, 144, 200}, s \in {0, 60, 132, 200}}

MCAmple == {[sweeps |-> 40, nudges |-> 8]}
MCScant == {[sweeps |-> 12, nudges |-> 1]}

HomeTurn == ProjectionInit /\ UNCHANGED projectionVars
ProjectionTurn == HomeInit /\ UNCHANGED homeVars

GeometryInit == HomeInit /\ ProjectionInit
GeometrySpec ==
  /\ GeometryInit
  /\ [][(HomeNext /\ HomeTurn) \/ (ProjectionNext /\ ProjectionTurn)]_<<homeVars, projectionVars>>
  /\ WF_<<stage, rounds>>(Searching /\ HomeTurn)
=============================================================================
