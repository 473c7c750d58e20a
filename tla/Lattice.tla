------------------------------ MODULE Lattice ------------------------------
(***************************************************************************)
(* The ethical polytope (src/src/value_engine.cpp,                         *)
(* src/include/value_engine.hpp): its seasonal bounds, its facets, what    *)
(* lies inside, how far the walls are, the projection and the zones.       *)
(*                                                                         *)
(* A plumb line pairs a virtue with its shadow; no facet relates two       *)
(* lines.  A point gives each of the Lines modelled a place on the plane   *)
(* of its virtue and its shadow, in units of 1/200: the bounds, and the    *)
(* feet of the coupling facets, are whole numbers.                         *)
(***************************************************************************)
EXTENDS Integers, FiniteSets, FiniteSetsExt

CONSTANT Lines   \* the plumb lines modelled

PlumbLines == {"harmony", "order", "integrity", "flourishing",
               "relationships", "boundaries", "grace"}

LinesAssumption == Lines \subseteq PlumbLines /\ Lines # {} /\ IsFiniteSet(Lines)
ASSUME LinesAssumption

Seasons == {"spring", "summer", "fall", "winter"}
Later(s) == CASE s = "spring" -> "summer" [] s = "summer" -> "fall" [] OTHER -> "winter"
One == 200
Coordinates == 0..One
Points == [Lines -> [virtue : Coordinates, shadow : Coordinates]]

\* DEFAULT_CENTER: where she naturally dwells.
Origin(l) ==
  CASE l \in {"harmony", "grace"} -> [virtue |-> 130, shadow |-> 50]
    [] l \in {"order", "flourishing"} -> [virtue |-> 140, shadow |-> 30]
    [] l = "integrity" -> [virtue |-> 160, shadow |-> 20]
    [] l = "relationships" -> [virtue |-> 150, shadow |-> 40]
    [] l = "boundaries" -> [virtue |-> 150, shadow |-> 30]

Square(n) == n * n
Clamp(n, low, high) == IF n < low THEN low ELSE IF n > high THEN high ELSE n
-----------------------------------------------------------------------------
(* The seasonal bounds: a virtue's minimum and its shadow's maximum. *)

Bound(min, max) == [virtue |-> 2 * min, shadow |-> 2 * max]

Spring(l) ==
  CASE l \in {"harmony", "grace"} -> Bound(30, 50)
    [] l \in {"order", "flourishing"} -> Bound(40, 30)
    [] l = "integrity" -> Bound(60, 20)
    [] l = "relationships" -> Bound(50, 40)
    [] l = "boundaries" -> Bound(50, 30)

Summer(l) ==
  CASE l \in {"harmony", "grace"} -> Bound(28, 52)
    [] l \in {"order", "flourishing"} -> Bound(38, 32)
    [] l = "integrity" -> Bound(60, 20)
    [] l = "relationships" -> Bound(48, 42)
    [] l = "boundaries" -> Bound(48, 32)

Fall(l) ==
  CASE l \in {"harmony", "grace"} -> Bound(22, 58)
    [] l \in {"order", "flourishing"} -> Bound(32, 38)
    [] l = "integrity" -> Bound(55, 25)
    [] l = "relationships" -> Bound(42, 48)
    [] l = "boundaries" -> Bound(42, 38)

Winter(l) ==
  CASE l \in {"harmony", "grace"} -> Bound(18, 62)
    [] l \in {"order", "flourishing"} -> Bound(28, 42)
    [] l = "integrity" -> Bound(50, 30)
    [] l = "relationships" -> Bound(38, 52)
    [] l = "boundaries" -> Bound(38, 42)

Bounds(season, l) ==
  CASE season = "spring" -> Spring(l) [] season = "summer" -> Summer(l)
    [] season = "fall" -> Fall(l)     [] season = "winter" -> Winter(l)

\* The coupling of a plumb line: the virtue's lead, and the two together.
Lead(l) == 2 * (CASE l \in {"harmony", "grace"} -> 20
                  [] l \in {"order", "flourishing", "relationships"} -> 35
                  [] l = "integrity" -> 50
                  [] l = "boundaries" -> 40)
Restraint(l) == 2 * (CASE l \in {"harmony", "integrity", "boundaries", "grace"} -> 110
                       [] l \in {"order", "flourishing"} -> 105
                       [] l = "relationships" -> 115)
-----------------------------------------------------------------------------
(* The facets v * virtue + s * shadow <= b of a line; the critical ones are *)
(* ethical walls.                                                           *)

Facet(name, v, s, b, critical) ==
  [name |-> name, v |-> v, s |-> s, b |-> b, critical |-> critical]

Facets ==
  [season \in Seasons |-> [l \in PlumbLines |->
  {Facet("virtue_max", 1, 0, One, FALSE),
   Facet("virtue_min", -1, 0, -Bounds(season, l).virtue, TRUE),
   Facet("shadow_max", 0, 1, Bounds(season, l).shadow, TRUE),
   Facet("shadow_min", 0, -1, 0, FALSE),
   Facet("leads", -1, 1, -Lead(l), TRUE),
   Facet("restrained", 1, 1, Restraint(l), TRUE)}]]

\* What is left of a facet's threshold at a place on its line.
Slack(f, p) == f.b - (f.v * p.virtue + f.s * p.shadow)
Inside(season, l, p) == \A f \in Facets[season][l] : Slack(f, p) >= 0

InLattice(season, x) == \A l \in Lines : Inside(season, l, x[l])

Walls == [season \in Seasons |->
  UNION {{l} \X {f \in Facets[season][l] : f.critical} : l \in Lines}]
Margins(season, x) == {Slack(w[2], x[w[1]]) : w \in Walls[season]}

\* The middle of the bounds.
Center(season) ==
  [l \in Lines |-> [virtue |-> (Bounds(season, l).virtue + One) \div 2,
                    shadow |-> Bounds(season, l).shadow \div 2]]

\* In percent: the closest wall, against the closest wall at the center.
AlignmentScore(season, x) ==
  LET middle == Min(Margins(season, Center(season))) IN
  IF ~InLattice(season, x) \/ middle <= 0 THEN 0
  ELSE Clamp((100 * Min(Margins(season, x))) \div middle, 0, 100)

\* A wall is near within a twentieth; the four nearest are named.  Of walls that
\* are equally near the code keeps the first by name, here all are kept: it is only
\* asked whether any is named.  A margin is a distance times the length of the
\* wall's normal.
Norm(f) == f.v * f.v + f.s * f.s
Near == 10
NearWalls(season, x) ==
  LET margin(w) == Slack(w[2], x[w[1]])
      closer(w, u) ==   \* squares of the distances, with their signs
        LET a == margin(w) * (IF margin(w) < 0 THEN -margin(w) ELSE margin(w)) * Norm(u[2])
            b == margin(u) * (IF margin(u) < 0 THEN -margin(u) ELSE margin(u)) * Norm(w[2])
        IN a < b
      near == {w \in Walls[season] : \/ margin(w) < 0
                                     \/ Square(margin(w)) <= Square(Near) * Norm(w[2])}
  IN {w \in near : Cardinality({u \in near : closer(u, w)}) < 4}
-----------------------------------------------------------------------------
(* What the projection comes to; how it is made is Projection. *)

Squared(p, q) == Square(p.virtue - q.virtue) + Square(p.shadow - q.shadow)

\* Where a step inward along a facet's normal lands; the odd half of a unit
\* goes to the virtue.
Foot(f, p) ==
  LET over == IF Slack(f, p) < 0 THEN -Slack(f, p) ELSE 0
      less == over \div Norm(f)
  IN [virtue |-> p.virtue - f.v * (over - (Norm(f) - 1) * less),
      shadow |-> p.shadow - f.s * less]

\* Where the lines of two facets cross in the lattice: its corners.
Corners ==
  LET det(f, g) == f.v * g.s - f.s * g.v
      cross(f, g) == [virtue |-> (f.b * g.s - f.s * g.b) \div det(f, g),
                      shadow |-> (f.v * g.b - f.b * g.v) \div det(f, g)]
      pairs(season, l) == {k \in Facets[season][l] \X Facets[season][l] :
                             det(k[1], k[2]) > 0}
  IN [season \in Seasons |-> [l \in PlumbLines |->
       {q \in {cross(k[1], k[2]) : k \in pairs(season, l)} : Inside(season, l, q)}]]

\* The place of the lattice nearest to p: p itself, the foot of a facet, or a
\* corner.  The project of the code is shown to end at it (Projection,
\* EndsAtNearest), within what rounding may do; here it is taken exactly.
Nearest(season, l, p) ==
  LET places == {p} \cup {Foot(f, p) : f \in Facets[season][l]} \cup Corners[season][l]
      inside == {q \in places : Inside(season, l, q)}
  IN CHOOSE q \in inside : \A r \in inside : Squared(p, q) <= Squared(p, r)

\* Mutant: each facet is stepped across once, and nothing is verified.
StepOnce(season, x) ==
  [l \in Lines |-> LET lead == CHOOSE f \in Facets[season][l] : f.name = "leads"
                       min == CHOOSE f \in Facets[season][l] : f.name = "virtue_min"
                   IN Foot(lead, Foot(min, x[l]))]

Project(season, x) == [l \in Lines |-> Nearest(season, l, x[l])]

\* The square of the Euclidean distance of two points.
Apart(x, y) == SumFunction([l \in Lines |-> Squared(x[l], y[l])])
-----------------------------------------------------------------------------
(* The evaluation of a text the encoder has placed at x. *)

Zones == {"aligned", "variance", "violation"}

\* The margin of acceptable variance, and how far inside aligned begins.
Tolerance(season) ==
  CASE season = "spring" -> [variance |-> 24, aligned |-> 4]
    [] season = "summer" -> [variance |-> 16, aligned |-> 6]
    [] season = "fall" -> [variance |-> 10, aligned |-> 8]
    [] season = "winter" -> [variance |-> 14, aligned |-> 7]

ClassifyZone(season, x, magnitude2) ==
  IF InLattice(season, x)
  THEN IF Min(Margins(season, x)) >= Tolerance(season).aligned THEN "aligned" ELSE "variance"
  ELSE IF magnitude2 <= Square(Tolerance(season).variance) THEN "variance" ELSE "violation"

\* The biases of the feedback system are added, and clipped.
ApplyBiases(x, biases) ==
  [l \in Lines |-> [virtue |-> Clamp(x[l].virtue + biases[l].virtue, 0, One),
                    shadow |-> Clamp(x[l].shadow + biases[l].shadow, 0, One)]]

\* Only a point outside is corrected; without a correction the vector is zero.
Nowhere == [l \in Lines |-> [virtue |-> 0, shadow |-> 0]]

EvaluateAt(season, at) ==
  LET inside == InLattice(season, at)
      corrected == IF inside THEN Nowhere ELSE Project(season, at)
      magnitude2 == IF inside THEN 0 ELSE Apart(at, corrected)
  IN [zone |-> ClassifyZone(season, at, magnitude2),
      at |-> at, corrected |-> corrected, magnitude2 |-> magnitude2]

Evaluate(season, x, biases) == EvaluateAt(season, ApplyBiases(x, biases))
=============================================================================
