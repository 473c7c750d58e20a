---------------------------- MODULE HomeRegions ----------------------------
(***************************************************************************)
(* Her home regions and the geometry of a frame: the clustering of her     *)
(* active memories (RegionPoleEngine, src/src/value_engine.cpp) and where  *)
(* a frame says she is (current_geometric_state, src/src/lina_core.cpp).   *)
(*                                                                         *)
(* Places are multiples of 12 and at most four memories are clustered, so  *)
(* the means are whole numbers.                                            *)
(***************************************************************************)
EXTENDS Lattice, Sequences, SequencesExt

CONSTANTS
  Places,       \* where the encoder may put a memory
  Drafted,      \* where it may put a reply
  Regions,      \* how many homes are asked for (3)
  LatestSeason, \* bound: the season growth stops at
  MaxMemories   \* bound: active memories

VARIABLES
  lattice,   \* constraints_.season: the season she is judged in
  home,      \* the season the region engine projects into
  active,    \* the places of the active memories, as the storage lists them
  drafted,   \* where the last reply was put: a sequence of at most one
  position,  \* where the ledger says it was delivered
  stage,     \* where a discovery is
  points,    \* the memories listed
  centers,   \* the centers of the clusters
  assign,    \* the cluster of each point
  rounds,    \* iterations made
  poles      \* poles_: of each cluster that holds points, [center, members]

search == <<stage, points, centers, assign, rounds>>
homeVars == <<lattice, home, active, drafted, position, search, poles>>

MaxIterations == 40

RegionAssumption ==
  /\ Places \subseteq Points /\ Drafted \subseteq Points
  /\ \A x \in Places, l \in Lines : {x[l].virtue % 12, x[l].shadow % 12} = {0}
  /\ LatestSeason \in Seasons
  /\ Regions \in 1..8 /\ MaxMemories \in 1..4
ASSUME RegionAssumption

-----------------------------------------------------------------------------
(* What the clustering is made of. *)

Average(f) == SumFunction(f) \div Cardinality(DOMAIN f)
Mean(is) ==
  [l \in Lines |-> [virtue |-> Average([i \in is |-> points[i][l].virtue]),
                    shadow |-> Average([i \in is |-> points[i][l].shadow])]]

\* The first of the centers that are nearest to a point.
Closest(x, cs) ==
  CHOOSE c \in DOMAIN cs : \A d \in DOMAIN cs :
    /\ Apart(x, cs[c]) <= Apart(x, cs[d])
    /\ d < c => Apart(x, cs[c]) # Apart(x, cs[d])

\* How far a point is from the nearest of some centers, and the first of the
\* points that are farthest.
Remote(x, cs) == Min({Apart(x, c) : c \in cs})
Farthest(xs, cs) ==
  CHOOSE p \in DOMAIN xs : \A q \in DOMAIN xs :
    /\ Remote(xs[p], cs) >= Remote(xs[q], cs)
    /\ q < p => Remote(xs[p], cs) # Remote(xs[q], cs)

Members(c) == {p \in DOMAIN points : assign[p] = c}

\* The centers after a round, in order: the mean of a cluster's points, or for
\* an empty one the point farthest from the other centers as they are by then.
Moved(a) ==
  LET of(c) == {p \in DOMAIN points : a[p] = c}
      moved[n \in 0..Len(centers)] ==
        IF n = 0 THEN centers
        ELSE LET cs == moved[n - 1] IN
             [cs EXCEPT ![n] = IF of(n) # {} THEN Mean(of(n))
                               ELSE points[Farthest(points, {cs[d] : d \in DOMAIN cs \ {n}})]]
  IN moved[Len(centers)]
-----------------------------------------------------------------------------
(* discover_home_regions. *)

Discover ==
  /\ points' = active
  /\ stage' = IF active = <<>> THEN "idle" ELSE "seed"
  /\ poles' = <<>>
  /\ UNCHANGED <<centers, assign, rounds>>

\* The first seed is the mean of all, each next one the point farthest from
\* those there are, until there are enough or no distinct point is left.
Grown(cs, n) ==
  LET p == Farthest(points, Range(cs)) IN
  IF n > Len(points) \/ Remote(points[p], Range(cs)) = 0 THEN cs
  ELSE Append(cs, points[p])
Seeds ==
  LET seeds[n \in 1..Regions] ==
        IF n = 1 THEN <<Mean(DOMAIN points)>> ELSE Grown(seeds[n - 1], n)
  IN seeds[Regions]
Seed ==
  /\ stage = "seed"
  /\ centers' = Seeds
  /\ assign' = [q \in DOMAIN points |-> 1]
  /\ rounds' = 0 /\ stage' = "round"
  /\ UNCHANGED <<lattice, home, active, drafted, position, points, poles>>

\* Mutant: rounds go on until nothing changes and no cluster is empty.
RoundUncapped ==
  /\ stage = "round"
  /\ assign' = [p \in DOMAIN points |-> Closest(points[p], centers)]
  /\ centers' = Moved(assign')
  /\ rounds' = (rounds + 1) % MaxIterations
  /\ LET empty == \E c \in DOMAIN centers : \A p \in DOMAIN points : assign'[p] # c
     IN stage' = IF assign' = assign /\ ~empty THEN "settle" ELSE "round"
  /\ UNCHANGED <<lattice, home, active, drafted, position, points, poles>>

\* A round of Lloyd's: the points are assigned, the centers moved; the last one
\* changes nothing and leaves no cluster empty.
Round ==
  /\ stage = "round"
  /\ assign' = [p \in DOMAIN points |-> Closest(points[p], centers)]
  /\ centers' = Moved(assign')
  /\ rounds' = rounds + 1
  /\ LET empty == \E c \in DOMAIN centers : \A p \in DOMAIN points : assign'[p] # c
         over == (assign' = assign /\ ~empty) \/ rounds' = MaxIterations
     IN stage' = IF over THEN "settle" ELSE "round"
  /\ UNCHANGED <<lattice, home, active, drafted, position, points, poles>>

\* Mutant: the centroids are kept where they are.
SettleRaw ==
  /\ stage = "settle"
  /\ poles' =
       [c \in {d \in DOMAIN centers : Members(d) # {}} |->
          [center |-> Mean(Members(c)), members |-> Cardinality(Members(c))]]
  /\ stage' = "idle"
  /\ points' = <<>> /\ centers' = <<>> /\ assign' = <<>> /\ rounds' = 0
  /\ UNCHANGED <<lattice, home, active, drafted, position>>

\* The clusters that hold points become homes, their centroids inside.
Settle ==
  /\ stage = "settle"
  /\ poles' =
       [c \in {d \in DOMAIN centers : Members(d) # {}} |->
          [center |-> Project(home, Mean(Members(c))), members |-> Cardinality(Members(c))]]
  /\ stage' = "idle"
  /\ points' = <<>> /\ centers' = <<>> /\ assign' = <<>> /\ rounds' = 0
  /\ UNCHANGED <<lattice, home, active, drafted, position>>
-----------------------------------------------------------------------------
(* What happens between discoveries. *)

Remember ==
  /\ stage = "idle" /\ Len(active) < MaxMemories
  /\ \E x \in Places : active' = Append(active, x)
  /\ UNCHANGED <<lattice, home, drafted, position, search, poles>>

\* An item leaves the active ones.
Fade ==
  /\ stage = "idle"
  /\ \E i \in DOMAIN active : active' = RemoveAt(active, i)
  /\ UNCHANGED <<lattice, home, drafted, position, search, poles>>

\* A row of the ledger: what was corrected was delivered where it was put.
Deliver ==
  /\ stage = "idle"
  /\ \E x \in Drafted :
       LET r == EvaluateAt(lattice, x) IN
       /\ drafted' = <<x>>
       /\ position' = IF r.magnitude2 > 0 THEN r.corrected ELSE x
  /\ UNCHANGED <<lattice, home, active, search, poles>>

\* The crossing of a season, which the region engine's lattice does not follow.
ApplySeasonAdvance ==
  /\ stage = "idle" /\ lattice # LatestSeason
  /\ lattice' = Later(lattice)
  /\ Discover
  /\ UNCHANGED <<home, active, drafted, position>>

Boot ==
  /\ stage = "idle"
  /\ home' = lattice
  /\ Discover
  /\ UNCHANGED <<lattice, active, drafted, position>>

HomeInit ==
  /\ lattice = "spring" /\ home = "spring"
  /\ active = <<>>
  /\ drafted = <<>> /\ position = Nowhere
  /\ stage = "idle"
  /\ points = <<>> /\ centers = <<>> /\ assign = <<>> /\ rounds = 0
  /\ poles = <<>>

Search == Seed \/ Round \/ Settle
HomeNext == Search \/ Remember \/ Fade \/ Deliver \/ ApplySeasonAdvance \/ Boot

\* A discovery that was begun goes on.
Searching ==
  /\ stage \in {"seed", "round", "settle"}
  /\ stage' \in {"idle", "seed", "round", "settle"} /\ rounds' \in 0..MaxIterations
HomeSpec == HomeInit /\ [][HomeNext]_homeVars /\ WF_<<stage, rounds>>(Searching)
-----------------------------------------------------------------------------
(* The frame: where she is, and the home she dwells in. *)

HomeFor(x) ==
  IF DOMAIN poles = {} THEN [l \in Lines |-> Origin(l)]
  ELSE poles[Closest(x, [i \in DOMAIN poles |-> poles[i].center])].center

Position == IF drafted = <<>> THEN HomeFor(Nowhere) ELSE position
-----------------------------------------------------------------------------
\* Her homes hold every memory they were discovered from, none is empty, there
\* are no more than were asked for, each is inside the lattice, and no memory
\* is nearer to the middle of another home than to that of its own: however the
\* search was ended.
HomesHoldMemories ==
  [][ stage = "settle" =>
        /\ MapThenSumSet(LAMBDA i : poles'[i].members, DOMAIN poles') = Len(points)
        /\ Cardinality(DOMAIN poles') <= Regions
        /\ \A i \in DOMAIN poles' : poles'[i].members > 0 /\ InLattice(home, poles'[i].center)
        /\ \A p, q \in DOMAIN points :
             Apart(points[p], Mean(Members(assign[p])))
               <= Apart(points[p], Mean(Members(assign[q])))
    ]_homeVars

\* A discovery ends, though an empty cluster can be re-seeded for ever.
DiscoveryEnds == stage # "idle" ~> stage = "idle"

\* A frame places her inside her lattice, at a home inside it, through every
\* crossing; and when it names no wall, she stands where a reply is aligned.
FrameHonest ==
  /\ InLattice(lattice, HomeFor(Position))
  /\ drafted # <<>> => InLattice(lattice, Position)
  /\ drafted # <<>> /\ NearWalls(lattice, Position) = {} =>
       /\ ClassifyZone(lattice, Position, 0) = "aligned"
       /\ AlignmentScore(lattice, Position) > 0
=============================================================================
