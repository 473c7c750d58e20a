----------------------------- MODULE Projection -----------------------------
(***************************************************************************)
(* How a place is brought into the lattice: EthicalPolytope::project       *)
(* (src/src/value_engine.cpp).  Dykstra's alternating projections, ended   *)
(* by a test or by their cap; an exact verification, with nudges inward    *)
(* where the doubles left it outside; and the center when all fails.       *)
(*                                                                         *)
(* A double is a whole number of grains, Grain of them in a unit of        *)
(* Lattice.  A quotient that is no whole number is rounded either way, so  *)
(* a behaviour of the doubles is one of those of the grains; none of them  *)
(* is infinite, so the test for that is left out.  A correction is always  *)
(* a multiple of its facet's normal, and is kept as the multiplier.  No    *)
(* facet relates two lines: the lines take their steps side by side, and   *)
(* share the tests that end the sweeps.                                    *)
(***************************************************************************)
EXTENDS Lattice, Sequences

CONSTANTS
  Grain,      \* grains in a unit
  Drawn,      \* the points projected
  Epsilon,    \* kEpsilon, in grains
  Nudge,      \* what a nudge adds to the step that would do, in grains
  Ample,      \* caps on sweeps and nudging passes: enough, as the code's are
  Scant,      \* caps on both that cut a projection off
  Hair        \* what rounding may do to a result, in grains

Caps == Ample \cup Scant

ProjectionAssumption ==
  /\ Grain \in Nat \ {0} /\ Epsilon \in Nat \ {0} /\ Nudge \in Nat \ {0}
  /\ Caps \subseteq [sweeps : Nat \ {0}, nudges : Nat \ {0}] /\ Hair \in Nat
  /\ Drawn \subseteq Points
ASSUME ProjectionAssumption

VARIABLES
  caps,         \* kMaxIterations (2000) and the limit of nudging passes (200)
  within,       \* the season projected into
  drawn,        \* x: the point projected, in grains
  iterate,      \* y
  corrections,  \* of each line and facet, the multiplier of its normal
  turn,         \* the facet whose turn it is
  unsettled,    \* max_move is not below kEpsilon
  sweeps,       \* iterations made
  nudges,       \* nudging passes made
  leg           \* where the projection is

projectionVars ==
  <<caps, within, drawn, iterate, corrections, turn, unsettled, sweeps, nudges, leg>>
call == <<caps, within, drawn>>

FacetOrder == <<"virtue_max", "virtue_min", "shadow_max", "shadow_min", "leads", "restrained">>
Nth(l, n) == CHOOSE f \in Facets[within][l] : f.name = FacetOrder[n]
-----------------------------------------------------------------------------
(* The steps, in grains. *)

InGrains(p) == [virtue |-> Grain * p.virtue, shadow |-> Grain * p.shadow]
Left(f, p) == Grain * f.b - (f.v * p.virtue + f.s * p.shadow)
Contained(l, p) == \A f \in Facets[within][l] : Left(f, p) >= 0

\* A place moved against a facet's normal, and the multiplier that takes it to
\* the facet, rounded up or down.
Against(f, p, n) == [virtue |-> p.virtue - n * f.v, shadow |-> p.shadow - n * f.s]
Cut(f, p, up) ==
  IF Left(f, p) >= 0 THEN 0
  ELSE IF up THEN -(Left(f, p) \div Norm(f)) ELSE (-Left(f, p)) \div Norm(f)

\* Mutant: the corrections are not kept, as in plain alternating projections.
CorrectedUnkept(f, p, owed, up) ==
  [place |-> Against(f, p, Cut(f, p, up)), owed |-> 0, move |-> Cut(f, p, up)]

\* The correction is put back, and the place projected on the facet again; what
\* is not needed of it is absorbed.
Corrected(f, p, owed, up) ==
  LET z == Against(f, p, -owed)
      cut == Cut(f, z, up)
  IN [place |-> Against(f, z, cut), owed |-> cut, move |-> cut]
-----------------------------------------------------------------------------
(* The sweeps. *)

\* One facet of every line takes its turn.
SweepFacet ==
  /\ leg = "sweep" /\ turn <= Len(FacetOrder)
  /\ \E up \in [Lines -> BOOLEAN] :
       LET after == [l \in Lines |->
                       Corrected(Nth(l, turn), iterate[l], corrections[l][turn], up[l])]
       IN /\ iterate' = [l \in Lines |-> after[l].place]
          /\ corrections' = [l \in Lines |-> [corrections[l] EXCEPT ![turn] = after[l].owed]]
          /\ unsettled' = (unsettled \/ \E l \in Lines : after[l].move >= Epsilon)
  /\ turn' = turn + 1
  /\ UNCHANGED <<call, sweeps, nudges, leg>>

EndSweep ==
  /\ leg = "sweep" /\ turn > Len(FacetOrder)
  /\ sweeps' = sweeps + 1
  /\ leg' = IF unsettled /\ sweeps' < caps.sweeps THEN "sweep" ELSE "verify"
  /\ turn' = 1 /\ unsettled' = FALSE
  /\ UNCHANGED <<call, iterate, corrections, nudges>>
-----------------------------------------------------------------------------
(* verify_and_nudge. *)

VerifyAll == \A l \in Lines : Contained(l, iterate[l])

Accept ==
  /\ leg = "verify" /\ VerifyAll
  /\ leg' = "done"
  /\ UNCHANGED <<call, iterate, corrections, turn, unsettled, sweeps, nudges>>

BeginNudges ==
  /\ leg = "verify" /\ ~VerifyAll /\ nudges < caps.nudges
  /\ nudges' = nudges + 1 /\ leg' = "nudge"
  /\ UNCHANGED <<call, iterate, corrections, turn, unsettled, sweeps>>

\* What lies past a facet is moved back to it, and a nudge further.
Nudged(f, p, up) ==
  IF Left(f, p) >= 0 THEN p ELSE Against(f, p, Cut(f, p, up) + Nudge)

NudgeFacet ==
  /\ leg = "nudge" /\ turn <= Len(FacetOrder)
  /\ \E up \in [Lines -> BOOLEAN] :
       iterate' = [l \in Lines |-> Nudged(Nth(l, turn), iterate[l], up[l])]
  /\ turn' = turn + 1
  /\ UNCHANGED <<call, corrections, unsettled, sweeps, nudges, leg>>

EndNudges ==
  /\ leg = "nudge" /\ turn > Len(FacetOrder)
  /\ turn' = 1 /\ leg' = "verify"
  /\ UNCHANGED <<call, iterate, corrections, unsettled, sweeps, nudges>>

\* Mutant: what could not be brought inside is returned as it is.
FallBackMissing ==
  /\ leg = "verify" /\ ~VerifyAll /\ nudges = caps.nudges
  /\ leg' = "done"
  /\ UNCHANGED <<call, iterate, corrections, turn, unsettled, sweeps, nudges>>

\* The last resort: never a place outside.
FallBack ==
  /\ leg = "verify" /\ ~VerifyAll /\ nudges = caps.nudges
  /\ iterate' = [l \in Lines |-> InGrains(Center(within)[l])]
  /\ leg' = "done"
  /\ UNCHANGED <<call, corrections, turn, unsettled, sweeps, nudges>>

\* A call: a place, and the season of the lattice.
Call ==
  /\ leg = "idle"
  /\ caps' \in Caps /\ within' \in Seasons
  /\ drawn' \in {[l \in Lines |-> InGrains(x[l])] : x \in Drawn}
  /\ iterate' = drawn'
  /\ leg' = "sweep"
  /\ UNCHANGED <<corrections, turn, unsettled, sweeps, nudges>>

ProjectionInit ==
  /\ caps = [sweeps |-> 0, nudges |-> 0] /\ within = "spring"
  /\ drawn = [l \in Lines |-> InGrains(Center("spring")[l])] /\ iterate = drawn
  /\ corrections = [l \in Lines |-> [n \in 1..Len(FacetOrder) |-> 0]]
  /\ turn = 1 /\ unsettled = FALSE
  /\ sweeps = 0 /\ nudges = 0
  /\ leg = "idle"

ProjectionNext ==
  Call \/ SweepFacet \/ EndSweep \/ Accept \/ BeginNudges \/ NudgeFacet \/ EndNudges \/ FallBack

ProjectionSpec == ProjectionInit /\ [][ProjectionNext]_projectionVars
-----------------------------------------------------------------------------
\* What is returned is inside, exactly, however early the sweeps and the nudges
\* were cut off and however the doubles were rounded (value_engine.cpp:846-893).
EndsInside == leg = "done" => VerifyAll

\* It is the nearest place of the lattice, within what rounding may do: under ample
\* caps the sweeps are enough, though their test is never met by a point outside,
\* a nudge goes no further than it must, and the center is never what is returned.
EndsAtNearest ==
  leg = "done" /\ caps \in Ample =>
    \A l \in Lines :
      LET p == [virtue |-> drawn[l].virtue \div Grain, shadow |-> drawn[l].shadow \div Grain]
          q == InGrains(Nearest(within, l, p))
      IN {iterate[l].virtue - q.virtue, iterate[l].shadow - q.shadow} \subseteq -Hair..Hair
=============================================================================
