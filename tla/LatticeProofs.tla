--------------------------- MODULE LatticeProofs ---------------------------
(***************************************************************************)
(* What rests on the polytope.  Of its geometry, for every season, plumb   *)
(* line and place: the seasons open outward, her home is clear of every    *)
(* wall.  Of a projection (Projection), however the doubles are rounded:   *)
(* no place inside is passed by, and it ends inside.  Of a reply on its    *)
(* way out (ReplyGate), for every ledger, message and draft: what is       *)
(* spoken was weighed and repeats nothing refused, every reply is          *)
(* accounted for, and what is learned of the outcomes never carries her    *)
(* baseline out of her tolerance.  Of a frame (HomeRegions), for any       *)
(* memories and replies, through every crossing: it places her inside, at  *)
(* a home inside.                                                          *)
(***************************************************************************)
EXTENDS Projection, ReplyGate, HomeRegions, FiniteSetTheorems, SequenceTheorems,
        WellFoundedInduction, TLAPS

Place == [virtue : Int, shadow : Int]
FacetNames == {"virtue_max", "virtue_min", "shadow_max", "shadow_min", "leads", "restrained"}

LEMMA Smallest ==
  ASSUME NEW T \in SUBSET Nat, T # {}
  PROVE  \E m \in T : \A n \in T : m <= n
  <1> DEFINE R == {ss \in Nat \X Nat : ss[1] < ss[2]}
  <1>1. OpToRel(<, Nat) = R
    BY Zenon DEF OpToRel
  <1>2. IsWellFoundedOn(R, Nat)
    BY <1>1, NatLessThanWellFounded, Zenon
  <1>3. \E m \in T : \A n \in T : ~(<<n, m>> \in R)
    <2> HIDE DEF R
    <2> QED  BY <1>2, WFMin
  <1>4. PICK m \in T : \A n \in T : ~(<<n, m>> \in R)
    BY <1>3
  <1>5. ASSUME NEW n \in T PROVE m <= n
    <2>1. <<n, m>> \notin R
      BY <1>4
    <2>2. n \in Nat /\ m \in Nat
      OBVIOUS
    <2> QED  BY <2>1, <2>2
  <1> QED  BY <1>5

-----------------------------------------------------------------------------
(* Sums. *)

\* The element a fold takes next.
Picked(s) == CHOOSE x \in s : TRUE

LEMMA PickedIsIn ==
  ASSUME NEW s, s # {}
  PROVE  Picked(s) \in s
  BY DEF Picked

\* As much of the fold as reaches the sets of no more than n.
Upto(f, S, g, n) ==
  \A s \in SUBSET S : Cardinality(s) <= n =>
     g[s] = IF s = {} THEN 0 ELSE f[Picked(s)] + g[s \ {Picked(s)}]

LEMMA UptoAll ==
  ASSUME NEW S, IsFiniteSet(S), NEW f, NEW n \in Nat
  PROVE  \E g : Upto(f, S, g, n)
  <1> DEFINE Bad == {k \in Nat : ~ \E g : Upto(f, S, g, k)}
  <1>1. SUFFICES ASSUME Bad # {} PROVE FALSE
    OBVIOUS
  <1>2. PICK m \in Bad : \A k \in Bad : m <= k
    BY <1>1, Smallest
  <1>3. \A s \in SUBSET S : IsFiniteSet(s) /\ Cardinality(s) \in Nat
    BY FS_Subset, FS_CardinalityType
  <1>4. m # 0
    <2>1. SUFFICES ASSUME m = 0 PROVE FALSE
      OBVIOUS
    <2>2. Upto(f, S, [s \in SUBSET S |-> 0], 0)
      <3>1. SUFFICES ASSUME NEW s \in SUBSET S, Cardinality(s) <= 0 PROVE s = {}
        BY DEF Upto
      <3>2. Cardinality(s) = 0
        BY <1>3, <3>1
      <3> QED  BY <1>3, <3>2, FS_EmptySet
    <2> QED  BY <2>1, <2>2, <1>2
  <1>5. m - 1 \in Nat /\ m - 1 < m
    BY <1>2, <1>4
  <1>6. PICK g : Upto(f, S, g, m - 1)
    BY <1>2, <1>5
  <1> DEFINE h == [s \in SUBSET S |-> IF s = {} THEN 0 ELSE f[Picked(s)] + g[s \ {Picked(s)}]]
  <1>7. Upto(f, S, h, m)
    <2>1. SUFFICES ASSUME NEW s \in SUBSET S, Cardinality(s) <= m, s # {}
                   PROVE  g[s \ {Picked(s)}] = h[s \ {Picked(s)}]
      BY DEF Upto
    <2> DEFINE r == s \ {Picked(s)}
    <2>2. r \in SUBSET S
      OBVIOUS
    <2>3. Cardinality(r) <= m - 1
      <3>1. IsFiniteSet(s) /\ Picked(s) \in s
        BY <1>3, <2>1, PickedIsIn
      <3>2. Cardinality(r) = Cardinality(s) - 1
        BY <3>1, FS_RemoveElement
      <3>3. Cardinality(s) \in Nat /\ Cardinality(s) <= m
        BY <1>3, <2>1
      <3> QED  BY <3>2, <3>3, <1>2
    <2>4. g[r] = IF r = {} THEN 0 ELSE f[Picked(r)] + g[r \ {Picked(r)}]
      <3> HIDE DEF r
      <3> QED  BY <1>6, <2>2, <2>3 DEF Upto
    <2>5. h[r] = IF r = {} THEN 0 ELSE f[Picked(r)] + g[r \ {Picked(r)}]
      BY <2>2
    <2> QED  BY <2>4, <2>5
  <1>8. m \in Nat /\ ~ \E k : Upto(f, S, k, m)
    BY <1>2
  <1> QED  BY <1>7, <1>8

Unrolls(f, S, g) ==
  \A s \in SUBSET S : g[s] = IF s = {} THEN 0 ELSE f[Picked(s)] + g[s \ {Picked(s)}]

LEMMA SumUnrolls ==
  ASSUME NEW S, IsFiniteSet(S), NEW f
  PROVE  \E g : SumFunctionOnSet(f, S) = g[S] /\ Unrolls(f, S, g)
  <1>1. Cardinality(S) \in Nat
    BY FS_CardinalityType
  <1>2. PICK h : Upto(f, S, h, Cardinality(S))
    BY <1>1, UptoAll
  <1> DEFINE e == [s \in SUBSET S |-> h[s]]
             It(g) == g = [s \in SUBSET S |-> IF s = {} THEN 0
                                             ELSE f[Picked(s)] + g[s \ {Picked(s)}]]
             it == CHOOSE g : It(g)
  <1>3. It(e)
    <2>1. \A s \in SUBSET S : Cardinality(s) <= Cardinality(S)
      BY FS_Subset
    <2>2. ASSUME NEW s \in SUBSET S
          PROVE  h[s] = IF s = {} THEN 0 ELSE f[Picked(s)] + e[s \ {Picked(s)}]
      BY <1>2, <2>1 DEF Upto
    <2> QED  BY <2>2
  <1>4. It(it)
    <2> HIDE DEF It
    <2> QED  BY <1>3
  <1>5. SumFunctionOnSet(f, S) = it[S]
    BY DEF SumFunctionOnSet, FoldFunctionOnSet, MapThenFoldSet, Picked
  <1>6. ASSUME NEW s \in SUBSET S
        PROVE  it[s] = IF s = {} THEN 0 ELSE f[Picked(s)] + it[s \ {Picked(s)}]
    <2> HIDE DEF it
    <2> QED  BY <1>4
  <1> HIDE DEF it
  <1> QED  BY <1>5, <1>6 DEF Unrolls

\* A sum lies in any set that holds its summands, 0, and the sum of any two.
LEMMA SumIn ==
  ASSUME NEW S, IsFiniteSet(S), NEW f, NEW V, 0 \in V,
         \A a, b \in V : a + b \in V,
         \A i \in S : f[i] \in V
  PROVE  SumFunctionOnSet(f, S) \in V
  <1>1. PICK g : SumFunctionOnSet(f, S) = g[S] /\ Unrolls(f, S, g)
    BY SumUnrolls
  <1>2. \A s \in SUBSET S : IsFiniteSet(s) /\ Cardinality(s) \in Nat
    BY FS_Subset, FS_CardinalityType
  <1> DEFINE Bad == {Cardinality(s) : s \in {t \in SUBSET S : g[t] \notin V}}
  <1>3. SUFFICES ASSUME Bad # {} PROVE FALSE
    BY <1>1
  <1>4. Bad \subseteq Nat
    BY <1>2
  <1>5. PICK m \in Bad : \A n \in Bad : m <= n
    BY <1>3, <1>4, Smallest
  <1>6. PICK s \in SUBSET S : g[s] \notin V /\ Cardinality(s) = m
    BY <1>5
  <1>7. s # {} /\ g[s] = f[Picked(s)] + g[s \ {Picked(s)}]
    BY <1>1, <1>6 DEF Unrolls
  <1> DEFINE r == s \ {Picked(s)}
  <1>8. Picked(s) \in s /\ r \in SUBSET S
    BY <1>7, PickedIsIn
  <1>9. Cardinality(r) = m - 1 /\ m \in Nat
    BY <1>2, <1>6, <1>8, FS_RemoveElement
  <1>10. g[r] \in V
    <2> HIDE DEF r
    <2>1. SUFFICES ASSUME g[r] \notin V PROVE FALSE
      OBVIOUS
    <2>2. Cardinality(r) \in Bad
      BY <1>8, <2>1
    <2>3. m <= m - 1
      BY <1>5, <1>9, <2>2
    <2> QED  BY <1>9, <2>3
  <1> HIDE DEF r
  <1>11. f[Picked(s)] \in V /\ g[s] = f[Picked(s)] + g[r]
    BY <1>7, <1>8 DEF r
  <1> QED  BY <1>6, <1>10, <1>11

LEMMA SumIsNat ==
  ASSUME NEW S, IsFiniteSet(S), NEW f \in [S -> Nat]
  PROVE  SumFunction(f) \in Nat
  <1>1. \A a, b \in Nat : a + b \in Nat
    OBVIOUS
  <1>2. DOMAIN f = S /\ \A i \in S : f[i] \in Nat
    OBVIOUS
  <1> QED  BY <1>1, <1>2, SumIn DEF SumFunction

LEMMA SumIsInt ==
  ASSUME NEW S, IsFiniteSet(S), NEW f \in [S -> Int]
  PROVE  SumFunction(f) \in Int
  <1>1. \A a, b \in Int : a + b \in Int
    OBVIOUS
  <1>2. DOMAIN f = S /\ \A i \in S : f[i] \in Int
    OBVIOUS
  <1> QED  BY <1>1, <1>2, SumIn DEF SumFunction

\* A sum of which one summand at the most is not nothing.
LEMMA SumOfOne ==
  ASSUME NEW S, IsFiniteSet(S), NEW f \in [S -> Nat], NEW a,
         \A i \in S : i # a => f[i] = 0
  PROVE  SumFunction(f) = IF a \in S THEN f[a] ELSE 0
  <1>1. DOMAIN f = S /\ SumFunction(f) = SumFunctionOnSet(f, S)
    BY DEF SumFunction
  <1>2. PICK g : SumFunctionOnSet(f, S) = g[S] /\ Unrolls(f, S, g)
    BY SumUnrolls
  <1>3. \A s \in SUBSET S : IsFiniteSet(s) /\ Cardinality(s) \in Nat
    BY FS_Subset, FS_CardinalityType
  <1> DEFINE Is(s) == IF a \in s THEN f[a] ELSE 0
             Bad == {Cardinality(s) : s \in {t \in SUBSET S : g[t] # Is(t)}}
  <1>4. SUFFICES ASSUME Bad # {} PROVE FALSE
    BY <1>1, <1>2
  <1>5. Bad \subseteq Nat
    BY <1>3
  <1>6. PICK m \in Bad : \A n \in Bad : m <= n
    BY <1>4, <1>5, Smallest
  <1>7. PICK s \in SUBSET S : g[s] # Is(s) /\ Cardinality(s) = m
    BY <1>6
  <1>8. s # {} /\ g[s] = f[Picked(s)] + g[s \ {Picked(s)}]
    BY <1>2, <1>7 DEF Unrolls
  <1> DEFINE r == s \ {Picked(s)}
  <1>9. Picked(s) \in s /\ r \in SUBSET S
    BY <1>8, PickedIsIn
  <1>10. Cardinality(r) = m - 1 /\ m \in Nat
    BY <1>3, <1>7, <1>9, FS_RemoveElement
  <1>11. g[r] = Is(r)
    <2> HIDE DEF r, Is
    <2>1. SUFFICES ASSUME g[r] # Is(r) PROVE FALSE
      OBVIOUS
    <2>2. Cardinality(r) \in Bad
      BY <1>9, <2>1
    <2>3. m <= m - 1
      BY <1>6, <1>10, <2>2
    <2> QED  BY <1>10, <2>3
  <1>12. \A i \in S : f[i] \in Nat
    OBVIOUS
  <1>13. CASE Picked(s) = a
    <2>1. a \in s /\ a \notin r
      BY <1>9, <1>13
    <2>2. g[s] = f[a] + 0
      BY <1>8, <1>11, <1>13, <2>1
    <2> QED  BY <1>7, <1>9, <1>12, <2>1, <2>2
  <1>14. CASE Picked(s) # a
    <2>1. f[Picked(s)] = 0 /\ (a \in s <=> a \in r)
      BY <1>9, <1>14
    <2>2. Is(r) \in Nat /\ Is(s) = Is(r)
      BY <1>9, <1>12, <2>1
    <2> QED  BY <1>7, <1>8, <1>11, <2>1, <2>2
  <1> QED  BY <1>13, <1>14
-----------------------------------------------------------------------------
(* The walls. *)

\* The numbers of the bounds.
LEMMA BoundsAre ==
  ASSUME NEW sn \in Seasons, NEW l \in PlumbLines
  PROVE  /\ Bounds(sn, l).virtue \in 36..120 /\ Bounds(sn, l).shadow \in 40..124
         /\ Bounds(sn, l) = [virtue |-> Bounds(sn, l).virtue,
                                 shadow |-> Bounds(sn, l).shadow]
  <1> USE DEF PlumbLines, Bounds, Bound
  <1>1. CASE sn = "spring"
    BY <1>1 DEF Spring
  <1>2. CASE sn = "summer"
    BY <1>2 DEF Summer
  <1>3. CASE sn = "fall"
    BY <1>3 DEF Fall
  <1>4. CASE sn = "winter"
    BY <1>4 DEF Winter
  <1> QED  BY <1>1, <1>2, <1>3, <1>4 DEF Seasons

LEMMA CouplingsAre ==
  ASSUME NEW l \in PlumbLines
  PROVE  Lead(l) \in {40, 70, 80, 100} /\ Restraint(l) \in {210, 220, 230}
  BY DEF PlumbLines, Lead, Restraint

\* The six facets of a line, and what each leaves of its threshold at a place.
SixFacets(sn, l) ==
  <<Facet("virtue_max", 1, 0, One, FALSE), Facet("virtue_min", -1, 0, -Bounds(sn, l).virtue, TRUE),
    Facet("shadow_max", 0, 1, Bounds(sn, l).shadow, TRUE), Facet("shadow_min", 0, -1, 0, FALSE),
    Facet("leads", -1, 1, -Lead(l), TRUE), Facet("restrained", 1, 1, Restraint(l), TRUE)>>

LEMMA SlacksAre ==
  ASSUME NEW sn \in Seasons, NEW l \in PlumbLines, NEW p \in Place
  PROVE  /\ Slack(SixFacets(sn, l)[1], p) = One - p.virtue
         /\ Slack(SixFacets(sn, l)[2], p) = p.virtue - Bounds(sn, l).virtue
         /\ Slack(SixFacets(sn, l)[3], p) = Bounds(sn, l).shadow - p.shadow
         /\ Slack(SixFacets(sn, l)[4], p) = p.shadow
         /\ Slack(SixFacets(sn, l)[5], p) = p.virtue - p.shadow - Lead(l)
         /\ Slack(SixFacets(sn, l)[6], p) = Restraint(l) - p.virtue - p.shadow
  <1>1. /\ Bounds(sn, l).virtue \in Int /\ Bounds(sn, l).shadow \in Int
        /\ Lead(l) \in Int /\ Restraint(l) \in Int /\ One \in Int
        /\ p.virtue \in Int /\ p.shadow \in Int
    BY BoundsAre, CouplingsAre DEF One, Place
  <1>2. Slack(SixFacets(sn, l)[1], p) = One - p.virtue
    <2>1. LET f == SixFacets(sn, l)[1] IN f.v = 1 /\ f.s = 0 /\ f.b = One
      BY DEF SixFacets, Facet
    <2> QED  BY <1>1, <2>1 DEF Slack
  <1>3. Slack(SixFacets(sn, l)[2], p) = p.virtue - Bounds(sn, l).virtue
    <2>1. LET f == SixFacets(sn, l)[2] IN f.v = -1 /\ f.s = 0 /\ f.b = -Bounds(sn, l).virtue
      BY DEF SixFacets, Facet
    <2> QED  BY <1>1, <2>1 DEF Slack
  <1>4. Slack(SixFacets(sn, l)[3], p) = Bounds(sn, l).shadow - p.shadow
    <2>1. LET f == SixFacets(sn, l)[3] IN f.v = 0 /\ f.s = 1 /\ f.b = Bounds(sn, l).shadow
      BY DEF SixFacets, Facet
    <2> QED  BY <1>1, <2>1 DEF Slack
  <1>5. Slack(SixFacets(sn, l)[4], p) = p.shadow
    <2>1. LET f == SixFacets(sn, l)[4] IN f.v = 0 /\ f.s = -1 /\ f.b = 0
      BY DEF SixFacets, Facet
    <2> QED  BY <1>1, <2>1 DEF Slack
  <1>6. Slack(SixFacets(sn, l)[5], p) = p.virtue - p.shadow - Lead(l)
    <2>1. LET f == SixFacets(sn, l)[5] IN f.v = -1 /\ f.s = 1 /\ f.b = -Lead(l)
      BY DEF SixFacets, Facet
    <2> QED  BY <1>1, <2>1 DEF Slack
  <1>7. Slack(SixFacets(sn, l)[6], p) = Restraint(l) - p.virtue - p.shadow
    <2>1. LET f == SixFacets(sn, l)[6] IN f.v = 1 /\ f.s = 1 /\ f.b = Restraint(l)
      BY DEF SixFacets, Facet
    <2> QED  BY <1>1, <2>1 DEF Slack
  <1> QED  BY <1>2, <1>3, <1>4, <1>5, <1>6, <1>7

LEMMA FacetsAreSix ==
  ASSUME NEW sn \in Seasons, NEW l \in PlumbLines
  PROVE  Facets[sn][l] = {SixFacets(sn, l)[1], SixFacets(sn, l)[2],
                              SixFacets(sn, l)[3], SixFacets(sn, l)[4],
                              SixFacets(sn, l)[5], SixFacets(sn, l)[6]}
  BY DEF Facets, SixFacets

\* What it is to be inside, without the facets.
LEMMA InsideIs ==
  ASSUME NEW sn \in Seasons, NEW l \in PlumbLines, NEW p \in Place
  PROVE  Inside(sn, l, p) <=>
           /\ p.virtue <= One /\ p.shadow >= 0
           /\ p.virtue >= Bounds(sn, l).virtue
           /\ p.shadow <= Bounds(sn, l).shadow
           /\ p.virtue - p.shadow >= Lead(l)
           /\ p.virtue + p.shadow <= Restraint(l)
  <1>1. /\ Bounds(sn, l).virtue \in Int /\ Bounds(sn, l).shadow \in Int
        /\ Lead(l) \in Int /\ Restraint(l) \in Int /\ One \in Int
        /\ p.virtue \in Int /\ p.shadow \in Int
    BY BoundsAre, CouplingsAre DEF One, Place
  <1> DEFINE S(i) == Slack(SixFacets(sn, l)[i], p)
  <1>2. Inside(sn, l, p) <=>
          S(1) >= 0 /\ S(2) >= 0 /\ S(3) >= 0 /\ S(4) >= 0 /\ S(5) >= 0 /\ S(6) >= 0
    BY FacetsAreSix DEF Inside
  <1>3. /\ S(1) = One - p.virtue /\ S(2) = p.virtue - Bounds(sn, l).virtue
        /\ S(3) = Bounds(sn, l).shadow - p.shadow /\ S(4) = p.shadow
        /\ S(5) = p.virtue - p.shadow - Lead(l) /\ S(6) = Restraint(l) - p.virtue - p.shadow
    BY SlacksAre
  <1> HIDE DEF S
  <1> QED  BY <1>1, <1>2, <1>3
-----------------------------------------------------------------------------
(* The seasons. *)

\* From spring to winter the bounds only open (get_seasonal_bounds,
\* value_engine.cpp:53-93): a crossing takes away no place she could be in, so
\* nothing that was aligned or in variance inside is ever outside for having
\* grown.
THEOREM SeasonsOpen ==
  ASSUME NEW l \in PlumbLines, NEW p \in Place
  PROVE  /\ Inside("spring", l, p) => Inside("summer", l, p)
         /\ Inside("summer", l, p) => Inside("fall", l, p)
         /\ Inside("fall", l, p) => Inside("winter", l, p)
  <1>1. \A sn \in Seasons : Bounds(sn, l).virtue \in Int /\ Bounds(sn, l).shadow \in Int
    BY BoundsAre
  <1>2. /\ Bounds("spring", l).virtue >= Bounds("summer", l).virtue
        /\ Bounds("summer", l).virtue >= Bounds("fall", l).virtue
        /\ Bounds("fall", l).virtue >= Bounds("winter", l).virtue
        /\ Bounds("spring", l).shadow <= Bounds("summer", l).shadow
        /\ Bounds("summer", l).shadow <= Bounds("fall", l).shadow
        /\ Bounds("fall", l).shadow <= Bounds("winter", l).shadow
    <2>1. /\ Bounds("spring", l) = Spring(l) /\ Bounds("summer", l) = Summer(l)
          /\ Bounds("fall", l) = Fall(l) /\ Bounds("winter", l) = Winter(l)
      <3>1. \A sn \in Seasons :
              Bounds(sn, l) =
                IF sn = "spring" THEN Spring(l) ELSE IF sn = "summer" THEN Summer(l)
                ELSE IF sn = "fall" THEN Fall(l) ELSE Winter(l)
        BY DEF Bounds, Seasons
      <3> QED  BY <3>1 DEF Seasons
    <2>2. Spring(l).virtue >= Summer(l).virtue /\ Spring(l).shadow <= Summer(l).shadow
      BY DEF PlumbLines, Bound, Spring, Summer
    <2>3. Summer(l).virtue >= Fall(l).virtue /\ Summer(l).shadow <= Fall(l).shadow
      BY DEF PlumbLines, Bound, Summer, Fall
    <2>4. Fall(l).virtue >= Winter(l).virtue /\ Fall(l).shadow <= Winter(l).shadow
      BY DEF PlumbLines, Bound, Fall, Winter
    <2> QED  BY <2>1, <2>2, <2>3, <2>4
  <1>3. p.virtue \in Int /\ p.shadow \in Int
    BY DEF Place
  <1> QED  BY <1>1, <1>2, <1>3, InsideIs DEF Seasons
-----------------------------------------------------------------------------
(* Her home. *)

\* What the couplings leave between the bounds of every season.
LEMMA CouplingsLeaveRoom ==
  ASSUME NEW sn \in Seasons, NEW l \in PlumbLines
  PROVE  /\ Bounds(sn, l).virtue + 168 >= Bounds(sn, l).shadow + 2 * Lead(l)
         /\ 2 * Restraint(l) >= Bounds(sn, l).virtue + Bounds(sn, l).shadow + 232
  <1> USE DEF PlumbLines, Bounds, Bound, Lead, Restraint
  <1>1. CASE sn = "spring"
    BY <1>1 DEF Spring
  <1>2. CASE sn = "summer"
    BY <1>2 DEF Summer
  <1>3. CASE sn = "fall"
    BY <1>3 DEF Fall
  <1>4. CASE sn = "winter"
    BY <1>4 DEF Winter
  <1> QED  BY <1>1, <1>2, <1>3, <1>4 DEF Seasons

\* The middle of the bounds keeps clear of every facet of every season, the
\* walls of the couplings included, by a distance that is aligned in each: the
\* score at home is never a division by zero, and the last resort of a
\* projection is inside (value_engine.cpp:555-567, 735-772, 884-891).
THEOREM CenterIsClear ==
  ASSUME NEW sn \in Seasons, NEW l \in Lines, NEW f \in Facets[sn][l]
  PROVE  Slack(f, Center(sn)[l]) >= 16 /\ 16 >= Tolerance(sn).aligned
  <1> DEFINE bv == Bounds(sn, l).virtue
             bs == Bounds(sn, l).shadow
             v == (bv + One) \div 2
             s == bs \div 2
  <1>1. l \in PlumbLines
    BY LinesAssumption DEF LinesAssumption
  <1>2. Center(sn)[l] = [virtue |-> v, shadow |-> s]
    BY DEF Center
  <1>3. /\ bv \in 36..120 /\ bs \in 40..124 /\ Lead(l) \in Int /\ Restraint(l) \in Int
        /\ bv + 168 >= bs + 2 * Lead(l) /\ 2 * Restraint(l) >= bv + bs + 232
    BY <1>1, BoundsAre, CouplingsAre, CouplingsLeaveRoom
  <1> HIDE DEF bv, bs
  <1>4. /\ v \in Int /\ s \in Int
        /\ 2 * v <= bv + 200 /\ bv + 199 <= 2 * v
        /\ 2 * s <= bs /\ bs - 1 <= 2 * s
    BY <1>3 DEF One
  <1> HIDE DEF v, s
  <1>5. /\ One - v >= 16 /\ v - bv >= 16 /\ bs - s >= 16 /\ s >= 16
        /\ v - s - Lead(l) >= 16 /\ Restraint(l) - v - s >= 16
    BY <1>3, <1>4 DEF One
  <1>6. [virtue |-> v, shadow |-> s] \in Place
    BY <1>4 DEF Place
  <1> DEFINE S(i) == Slack(SixFacets(sn, l)[i], [virtue |-> v, shadow |-> s])
  <1>7. /\ S(1) = One - v /\ S(2) = v - bv /\ S(3) = bs - s /\ S(4) = s
        /\ S(5) = v - s - Lead(l) /\ S(6) = Restraint(l) - v - s
    <2>1. [virtue |-> v, shadow |-> s].virtue = v /\ [virtue |-> v, shadow |-> s].shadow = s
      OBVIOUS
    <2> QED  BY <1>1, <1>6, <2>1, SlacksAre DEF bv, bs
  <1> HIDE DEF S
  <1>8. S(1) >= 16 /\ S(2) >= 16 /\ S(3) >= 16 /\ S(4) >= 16 /\ S(5) >= 16 /\ S(6) >= 16
    BY <1>5, <1>7
  <1>9. Slack(f, Center(sn)[l]) >= 16
    <2>1. \E i \in 1..6 : f = SixFacets(sn, l)[i]
      BY <1>1, FacetsAreSix
    <2> QED  BY <1>2, <1>8, <2>1 DEF S
  <1> QED  BY <1>9 DEF Tolerance, Seasons
-----------------------------------------------------------------------------
(* The projection. *)

\* The coefficients of the facets, and the numbers they make.
LEMMA FacetsAre ==
  ASSUME NEW sn \in Seasons, NEW l \in PlumbLines, NEW f \in Facets[sn][l]
  PROVE  /\ f.v \in {-1, 0, 1} /\ f.s \in {-1, 0, 1} /\ f.b \in Int
         /\ Norm(f) \in {1, 2}
  <1>1. /\ Bounds(sn, l).virtue \in Int /\ Bounds(sn, l).shadow \in Int
        /\ Lead(l) \in Int /\ Restraint(l) \in Int
    BY BoundsAre, CouplingsAre
  <1> QED  BY <1>1 DEF Facets, Facet, Norm, One

LEMMA FootIsAPlace ==
  ASSUME NEW sn \in Seasons, NEW l \in PlumbLines, NEW f \in Facets[sn][l],
         NEW p \in Place
  PROVE  Foot(f, p) \in Place
  <1>1. /\ f.v \in {-1, 0, 1} /\ f.s \in {-1, 0, 1} /\ f.b \in Int
        /\ Norm(f) \in {1, 2} /\ p.virtue \in Int /\ p.shadow \in Int
    BY FacetsAre DEF Place
  <1> DEFINE over == IF Slack(f, p) < 0 THEN -Slack(f, p) ELSE 0
             less == over \div Norm(f)
  <1>2. over \in Int
    BY <1>1 DEF Slack
  <1> HIDE DEF over
  <1>3. less \in Int
    BY <1>1, <1>2
  <1>4. /\ p.virtue - f.v * (over - (Norm(f) - 1) * less) \in Int
        /\ p.shadow - f.s * less \in Int
    <2> HIDE DEF less
    <2> QED  BY <1>1, <1>2, <1>3
  <1> QED  BY <1>4 DEF Foot, Place, over

\* Two whole numbers of which neither is negative add up to nothing only if
\* both are nothing.
LEMMA SquaredIs ==
  ASSUME NEW p \in Place, NEW q \in Place
  PROVE  Squared(p, q) \in Nat /\ (Squared(p, q) = 0 <=> p = q)
  <1>1. ASSUME NEW n \in Int PROVE Square(n) \in Nat /\ (Square(n) = 0 <=> n = 0)
    BY DEF Square
  <1>2. /\ p.virtue \in Int /\ p.shadow \in Int /\ q.virtue \in Int /\ q.shadow \in Int
        /\ p = q <=> p.virtue = q.virtue /\ p.shadow = q.shadow
    BY DEF Place
  <1> DEFINE a == Square(p.virtue - q.virtue)
             b == Square(p.shadow - q.shadow)
  <1>3. a \in Nat /\ (a = 0 <=> p.virtue = q.virtue)
    BY <1>1, <1>2
  <1>4. b \in Nat /\ (b = 0 <=> p.shadow = q.shadow)
    BY <1>1, <1>2
  <1>5. Squared(p, q) = a + b
    BY DEF Squared
  <1> HIDE DEF a, b
  <1>6. a + b \in Nat /\ (a + b = 0 <=> a = 0 /\ b = 0)
    BY <1>3, <1>4
  <1> QED  BY <1>2, <1>3, <1>4, <1>5, <1>6

\* The corners are places, and where a full virtue meets no shadow is one of
\* them, inside in every season.
LEMMA CornersArePlaces ==
  ASSUME NEW sn \in Seasons, NEW l \in PlumbLines
  PROVE  \A q \in Corners[sn][l] : q \in Place /\ Inside(sn, l, q)
  <1> SUFFICES ASSUME NEW q \in Corners[sn][l] PROVE q \in Place /\ Inside(sn, l, q)
    OBVIOUS
  <1>1. PICK k \in Facets[sn][l] \X Facets[sn][l] :
          LET f == k[1]  g == k[2]  det == f.v * g.s - f.s * g.v IN
          /\ det > 0
          /\ q = [virtue |-> (f.b * g.s - f.s * g.b) \div det,
                  shadow |-> (f.v * g.b - f.b * g.v) \div det]
          /\ Inside(sn, l, q)
    BY DEF Corners
  <1> DEFINE f == k[1]
             g == k[2]
             det == f.v * g.s - f.s * g.v
  <1>2. f \in Facets[sn][l] /\ g \in Facets[sn][l]
    OBVIOUS
  <1>3. /\ f.v \in Int /\ f.s \in Int /\ f.b \in Int
        /\ g.v \in Int /\ g.s \in Int /\ g.b \in Int
    BY <1>2, FacetsAre
  <1> HIDE DEF f, g
  <1>4. det \in Int /\ det > 0
    BY <1>1, <1>3 DEF f, g
  <1>5. f.b * g.s - f.s * g.b \in Int /\ f.v * g.b - f.b * g.v \in Int
    BY <1>3
  <1>6. q = [virtue |-> (f.b * g.s - f.s * g.b) \div det,
             shadow |-> (f.v * g.b - f.b * g.v) \div det]
    BY <1>1 DEF f, g
  <1> DEFINE m == f.b * g.s - f.s * g.b
             n == f.v * g.b - f.b * g.v
  <1> HIDE DEF det, m, n
  <1>7. m \div det \in Int /\ n \div det \in Int
    BY <1>4, <1>5 DEF m, n
  <1> QED  BY <1>1, <1>6, <1>7 DEF Place, m, n

LEMMA FullVirtue ==
  ASSUME NEW sn \in Seasons, NEW l \in PlumbLines
  PROVE  [virtue |-> One, shadow |-> 0] \in Corners[sn][l]
  <1> DEFINE q == [virtue |-> One, shadow |-> 0]
             f == SixFacets(sn, l)[4]
             g == SixFacets(sn, l)[1]
             k == <<f, g>>
  <1>1. /\ f.v = 0 /\ f.s = -1 /\ f.b = 0 /\ g.v = 1 /\ g.s = 0 /\ g.b = One
    BY DEF SixFacets, Facet
  <1>2. f \in Facets[sn][l] /\ g \in Facets[sn][l]
    BY FacetsAreSix
  <1>3. q \in Place /\ q.virtue = 200 /\ q.shadow = 0
    BY DEF Place, One
  <1>4. Inside(sn, l, q)
    BY <1>3, InsideIs, BoundsAre, CouplingsAre DEF One
  <1> HIDE DEF f, g
  <1>5. /\ k \in Facets[sn][l] \X Facets[sn][l] /\ k[1] = f /\ k[2] = g
    BY <1>2
  <1>6. /\ k[1].v * k[2].s - k[1].s * k[2].v = 1
        /\ (k[1].b * k[2].s - k[1].s * k[2].b) \div 1 = One
        /\ (k[1].v * k[2].b - k[1].b * k[2].v) \div 1 = 0
    BY <1>1, <1>5 DEF One
  <1> HIDE DEF k
  <1>7. q = [virtue |-> (k[1].b * k[2].s - k[1].s * k[2].b)
                          \div (k[1].v * k[2].s - k[1].s * k[2].v),
             shadow |-> (k[1].v * k[2].b - k[1].b * k[2].v)
                          \div (k[1].v * k[2].s - k[1].s * k[2].v)]
    BY <1>6
  <1>8. k[1].v * k[2].s - k[1].s * k[2].v > 0
    BY <1>6
  <1> HIDE DEF q
  <1> QED  BY <1>4, <1>5, <1>7, <1>8 DEF Corners, q

\* The nearest candidate exists, is inside, is the place itself if that is, and
\* is no farther than a foot that is inside.
LEMMA NearestIs ==
  ASSUME NEW sn \in Seasons, NEW l \in PlumbLines, NEW p \in Place
  PROVE  /\ Nearest(sn, l, p) \in Place
         /\ Inside(sn, l, Nearest(sn, l, p))
         /\ Inside(sn, l, p) => Nearest(sn, l, p) = p
         /\ \A f \in Facets[sn][l] : Inside(sn, l, Foot(f, p)) =>
              Squared(p, Nearest(sn, l, p)) <= Squared(p, Foot(f, p))
  <1> DEFINE places == {p} \cup {Foot(f, p) : f \in Facets[sn][l]} \cup Corners[sn][l]
             inside == {q \in places : Inside(sn, l, q)}
             apart == {Squared(p, q) : q \in inside}
             best(q) == \A r \in inside : Squared(p, q) <= Squared(p, r)
  <1>1. places \subseteq Place
    BY FootIsAPlace, CornersArePlaces
  <1>2. inside # {}
    BY FullVirtue, CornersArePlaces
  <1> HIDE DEF places
  <1>3. apart \subseteq Nat /\ apart # {}
    BY <1>1, <1>2, SquaredIs
  <1>4. PICK n \in apart : \A m \in apart : n <= m
    BY <1>3, Smallest
  <1>5. \E q \in inside : best(q)
    BY <1>4
  <1>6. Nearest(sn, l, p) = CHOOSE q \in inside : best(q)
    BY DEF Nearest, places
  <1> HIDE DEF inside
  <1>7. Nearest(sn, l, p) \in inside /\ best(Nearest(sn, l, p))
    BY <1>5, <1>6
  <1>8. Nearest(sn, l, p) \in Place /\ Inside(sn, l, Nearest(sn, l, p))
    BY <1>1, <1>7 DEF inside
  <1>9. ASSUME Inside(sn, l, p) PROVE Nearest(sn, l, p) = p
    <2>1. p \in inside
      BY <1>9 DEF inside, places
    <2>2. Squared(p, Nearest(sn, l, p)) <= Squared(p, p)
      BY <1>7, <2>1
    <2> QED  BY <1>8, <2>2, SquaredIs
  <1>10. ASSUME NEW f \in Facets[sn][l], Inside(sn, l, Foot(f, p))
         PROVE  Squared(p, Nearest(sn, l, p)) <= Squared(p, Foot(f, p))
    <2>1. Foot(f, p) \in inside
      BY <1>10 DEF inside, places
    <2> QED  BY <1>7, <2>1
  <1> QED  BY <1>8, <1>9, <1>10

\* What stands for a projection is inside, for any season and any point, and leaves
\* a point that is inside where it is.
LEMMA ProjectedInside ==
  ASSUME NEW sn \in Seasons, NEW x \in [Lines -> Place]
  PROVE  /\ InLattice(sn, Project(sn, x))
         /\ InLattice(sn, x) => Project(sn, x) = x
  <1>1. Lines \subseteq PlumbLines
    BY LinesAssumption DEF LinesAssumption
  <1>2. \A l \in Lines : x[l] \in Place
    OBVIOUS
  <1>3. InLattice(sn, Project(sn, x))
    BY <1>1, <1>2, NearestIs DEF InLattice, Project
  <1>4. ASSUME InLattice(sn, x) PROVE Project(sn, x) = x
    <2>1. \A l \in Lines : Nearest(sn, l, x[l]) = x[l]
      BY <1>1, <1>2, <1>4, NearestIs DEF InLattice
    <2> QED  BY <2>1 DEF Project
  <1> QED  BY <1>3, <1>4
-----------------------------------------------------------------------------
(* How a projection is made. *)

LEMMA NthIs ==
  ASSUME NEW l \in PlumbLines, NEW n \in 1..6, within \in Seasons
  PROVE  Nth(l, n) = SixFacets(within, l)[n] /\ Nth(l, n) \in Facets[within][l]
  <1> DEFINE f(i) == SixFacets(within, l)[i]
  <1>1. /\ f(1).name = FacetOrder[1] /\ f(2).name = FacetOrder[2] /\ f(3).name = FacetOrder[3]
        /\ f(4).name = FacetOrder[4] /\ f(5).name = FacetOrder[5] /\ f(6).name = FacetOrder[6]
    BY DEF SixFacets, Facet, FacetOrder
  <1>2. \A i, j \in 1..6 : FacetOrder[i] = FacetOrder[j] => i = j
    BY DEF FacetOrder
  <1>3. Facets[within][l] = {f(1), f(2), f(3), f(4), f(5), f(6)}
    BY FacetsAreSix
  <1>4. \A g \in Facets[within][l] : g.name = FacetOrder[n] <=> g = f(n)
    <2> HIDE DEF f
    <2>1. \A i \in 1..6 : f(i).name = FacetOrder[i]
      BY <1>1
    <2>2. \A g \in Facets[within][l] : \E i \in 1..6 : g = f(i)
      BY <1>3
    <2> QED  BY <1>2, <2>1, <2>2
  <1>5. f(n) \in Facets[within][l]
    BY <1>3
  <1> HIDE DEF f
  <1>6. Nth(l, n) = f(n)
    BY <1>4, <1>5 DEF Nth
  <1> QED  BY <1>5, <1>6 DEF f

\* The normals, in the order the facets take their turns.
LEMMA NormalsAre ==
  ASSUME NEW l \in PlumbLines, within \in Seasons
  PROVE  /\ Nth(l, 1).v = 1 /\ Nth(l, 1).s = 0 /\ Nth(l, 2).v = -1 /\ Nth(l, 2).s = 0
         /\ Nth(l, 3).v = 0 /\ Nth(l, 3).s = 1 /\ Nth(l, 4).v = 0 /\ Nth(l, 4).s = -1
         /\ Nth(l, 5).v = -1 /\ Nth(l, 5).s = 1 /\ Nth(l, 6).v = 1 /\ Nth(l, 6).s = 1
  <1>1. \A n \in 1..6 : Nth(l, n) = SixFacets(within, l)[n]
    BY NthIs
  <1> QED  BY <1>1 DEF SixFacets, Facet

LEMMA GrainsLeft ==
  ASSUME NEW f, f.v \in {-1, 0, 1}, f.s \in {-1, 0, 1}, f.b \in Int, NEW p \in Place
  PROVE  Left(f, p) \in Int
  <1>1. p.virtue \in Int /\ p.shadow \in Int /\ Grain \in Int
    BY ProjectionAssumption DEF ProjectionAssumption, Place
  <1>2. Grain * f.b \in Int /\ f.v * p.virtue + f.s * p.shadow \in Int
    BY <1>1
  <1> QED  BY <1>2 DEF Left

LEMMA CutIs ==
  ASSUME NEW f, f.v \in {-1, 0, 1}, f.s \in {-1, 0, 1}, f.b \in Int, Norm(f) \in {1, 2},
         NEW p \in Place, NEW up \in BOOLEAN
  PROVE  Cut(f, p, up) \in Nat
  <1> DEFINE left == Left(f, p)
             norm == Norm(f)
  <1>1. left \in Int /\ norm \in {1, 2}
    BY GrainsLeft
  <1>2. Cut(f, p, up) = IF left >= 0 THEN 0
                        ELSE IF up THEN -(left \div norm) ELSE (-left) \div norm
    BY DEF Cut
  <1> HIDE DEF left, norm
  <1>3. left < 0 => -(left \div norm) \in Nat /\ (-left) \div norm \in Nat
    <2>1. CASE norm = 1
      BY <1>1, <2>1
    <2>2. CASE norm = 2
      BY <1>1, <2>2
    <2> QED  BY <1>1, <2>1, <2>2
  <1> QED  BY <1>1, <1>2, <1>3

LEMMA AgainstIs ==
  ASSUME NEW f, f.v \in {-1, 0, 1}, f.s \in {-1, 0, 1}, NEW p \in Place, NEW n \in Int
  PROVE  Against(f, p, n) \in Place
  BY DEF Against, Place

\* A turn leaves a multiplier that is not negative, and moves the place by what
\* was absorbed of it.
LEMMA CorrectedIs ==
  ASSUME NEW f, f.v \in {-1, 0, 1}, f.s \in {-1, 0, 1}, f.b \in Int, Norm(f) \in {1, 2},
         NEW p \in Place, NEW owed \in Nat, NEW up \in BOOLEAN
  PROVE  LET c == Corrected(f, p, owed, up) IN
         /\ c.owed \in Nat /\ c.place \in Place
         /\ c.place.virtue = p.virtue + (owed - c.owed) * f.v
         /\ c.place.shadow = p.shadow + (owed - c.owed) * f.s
  <1> DEFINE z == Against(f, p, -owed)
             cut == Cut(f, z, up)
             c == Corrected(f, p, owed, up)
  <1>1. z \in Place
    BY AgainstIs
  <1>2. cut \in Nat
    <2> HIDE DEF z
    <2> QED  BY <1>1, CutIs
  <1>3. Against(f, z, cut) \in Place
    <2> HIDE DEF z, cut
    <2> QED  BY <1>1, <1>2, AgainstIs
  <1>4. c.owed = cut /\ c.place = Against(f, z, cut)
    BY DEF Corrected
  <1>5. /\ Against(f, z, cut).virtue = p.virtue - (-owed) * f.v - cut * f.v
        /\ Against(f, z, cut).shadow = p.shadow - (-owed) * f.s - cut * f.s
    BY DEF Against
  <1> HIDE DEF z, cut, c
  <1>6. p.virtue \in Int /\ p.shadow \in Int
    BY DEF Place
  <1>7. ASSUME NEW e \in {-1, 0, 1}, NEW i \in Int
        PROVE  i - (-owed) * e - cut * e = i + (owed - cut) * e
    BY <1>2, <1>7
  <1> QED  BY <1>2, <1>3, <1>4, <1>5, <1>6, <1>7 DEF c

\* A line's iterate and its corrections still make up what is projected.
MakesUp(l) ==
  LET c == corrections[l] IN
  /\ drawn[l].virtue = iterate[l].virtue + (c[1] - c[2] - c[5] + c[6])
  /\ drawn[l].shadow = iterate[l].shadow + (c[3] - c[4] + c[5] + c[6])

ProjectionInv ==
  /\ within \in Seasons
  /\ leg # "idle" => caps \in Caps
  /\ leg = "idle" =>
       corrections = [l \in Lines |-> [n \in 1..6 |-> 0]] /\ turn = 1 /\ nudges = 0
  /\ drawn \in [Lines -> Place] /\ iterate \in [Lines -> Place]
  /\ corrections \in [Lines -> [1..6 -> Nat]]
  /\ turn \in 1..7 /\ nudges \in Nat
  /\ leg = "nudge" => nudges # 0
  /\ nudges = 0 => \A l \in Lines : MakesUp(l)
  /\ leg = "done" => VerifyAll

LEMMA GrainsInside ==
  ASSUME NEW l \in Lines, within \in Seasons
  PROVE  Contained(l, InGrains(Center(within)[l]))
  <1> DEFINE p == Center(within)[l]
  <1>1. l \in PlumbLines
    BY LinesAssumption DEF LinesAssumption
  <1>2. SUFFICES ASSUME NEW f \in Facets[within][l] PROVE Left(f, InGrains(p)) >= 0
    BY DEF Contained
  <1>3. Slack(f, p) >= 0
    <2>1. Slack(f, p) >= 16 /\ Slack(f, p) \in Int
      <3>1. p \in Place
        BY <1>1, BoundsAre DEF Center, Place, One
      <3>2. f.v \in {-1, 0, 1} /\ f.s \in {-1, 0, 1} /\ f.b \in Int
        BY <1>1, FacetsAre
      <3>3. p.virtue \in Int /\ p.shadow \in Int
        BY <3>1 DEF Place
      <3> HIDE DEF p
      <3>4. Slack(f, p) \in Int
        BY <3>2, <3>3 DEF Slack
      <3>5. Slack(f, p) >= 16
        BY CenterIsClear DEF p
      <3> QED  BY <3>4, <3>5
    <2> HIDE DEF p
    <2> QED  BY <2>1
  <1>4. p \in Place
    BY <1>1, BoundsAre DEF Center, Place, One
  <1> HIDE DEF p
  <1>5. /\ f.v \in {-1, 0, 1} /\ f.s \in {-1, 0, 1} /\ f.b \in Int
        /\ p.virtue \in Int /\ p.shadow \in Int /\ Grain \in Nat
    BY <1>1, <1>4, FacetsAre, ProjectionAssumption DEF Place, ProjectionAssumption
  <1>6. Left(f, InGrains(p)) = Grain * f.b - (f.v * (Grain * p.virtue) + f.s * (Grain * p.shadow))
    BY DEF Left, InGrains
  <1>7. Slack(f, p) = f.b - (f.v * p.virtue + f.s * p.shadow)
    BY DEF Slack
  <1>8. ASSUME NEW e \in {-1, 0, 1}, NEW i \in Int PROVE e * (Grain * i) = Grain * (e * i)
    BY <1>5, <1>8
  <1>9. Left(f, InGrains(p)) = Grain * (f.b - (f.v * p.virtue + f.s * p.shadow))
    <2> DEFINE a == f.v * p.virtue
               b == f.s * p.shadow
               t == f.b
    <2>1. a \in Int /\ b \in Int /\ t \in Int
      BY <1>5
    <2>2. Left(f, InGrains(p)) = Grain * t - (Grain * a + Grain * b)
      BY <1>5, <1>6, <1>8
    <2> HIDE DEF a, b, t
    <2>3. Grain * t - (Grain * a + Grain * b) = Grain * (t - (a + b))
      BY <1>5, <2>1
    <2> QED  BY <2>2, <2>3 DEF a, b, t
  <1> DEFINE m == f.b - (f.v * p.virtue + f.s * p.shadow)
  <1>10. m \in Int /\ m >= 0
    BY <1>3, <1>5, <1>7
  <1> HIDE DEF m
  <1>11. Grain * m >= 0
    BY <1>5, <1>10
  <1> QED  BY <1>9, <1>11 DEF m

LEMMA GrainsPlaced ==
  ASSUME NEW l \in Lines, within \in Seasons
  PROVE  InGrains(Center(within)[l]) \in Place
  <1>1. l \in PlumbLines
    BY LinesAssumption DEF LinesAssumption
  <1>2. Center(within)[l].virtue \in Int /\ Center(within)[l].shadow \in Int
    BY <1>1, BoundsAre DEF Center, One
  <1> QED  BY <1>2, ProjectionAssumption DEF ProjectionAssumption, InGrains, Place

LEMMA ProjectionStarts == ProjectionInit => ProjectionInv
  <1> SUFFICES ASSUME ProjectionInit PROVE ProjectionInv
    OBVIOUS
  <1>1. /\ within = "spring" /\ within \in Seasons /\ turn = 1 /\ nudges = 0 /\ leg = "idle"
        /\ drawn = [l \in Lines |-> InGrains(Center(within)[l])] /\ iterate = drawn
        /\ corrections = [l \in Lines |-> [n \in 1..6 |-> 0]]
    BY DEF ProjectionInit, FacetOrder, Seasons
  <1>2. drawn \in [Lines -> Place] /\ iterate \in [Lines -> Place]
    BY <1>1, GrainsPlaced
  <1>3. corrections \in [Lines -> [1..6 -> Nat]]
    BY <1>1
  <1>4. ASSUME NEW l \in Lines PROVE MakesUp(l)
    <2>1. drawn[l] = iterate[l] /\ drawn[l].virtue \in Int /\ drawn[l].shadow \in Int
      BY <1>1, <1>2 DEF Place
    <2>2. /\ corrections[l][1] = 0 /\ corrections[l][2] = 0 /\ corrections[l][3] = 0
          /\ corrections[l][4] = 0 /\ corrections[l][5] = 0 /\ corrections[l][6] = 0
      BY <1>1, <1>2
    <2> QED  BY <2>1, <2>2 DEF MakesUp
  <1> QED  BY <1>1, <1>2, <1>3, <1>4 DEF ProjectionInv

LEMMA ProjectionGoesOn == ProjectionInv /\ [ProjectionNext]_projectionVars => ProjectionInv'
  <1> SUFFICES ASSUME ProjectionInv, [ProjectionNext]_projectionVars PROVE ProjectionInv'
    OBVIOUS
  <1>0. /\ within \in Seasons
        /\ leg # "idle" => caps \in Caps
        /\ leg = "idle" =>
             corrections = [l \in Lines |-> [n \in 1..6 |-> 0]] /\ turn = 1 /\ nudges = 0
        /\ drawn \in [Lines -> Place] /\ iterate \in [Lines -> Place]
        /\ corrections \in [Lines -> [1..6 -> Nat]]
        /\ turn \in 1..7 /\ nudges \in Nat
        /\ leg = "nudge" => nudges # 0
        /\ nudges = 0 => \A l \in Lines : MakesUp(l)
        /\ leg = "done" => VerifyAll
    BY DEF ProjectionInv
  <1>1. Lines \subseteq PlumbLines /\ Len(FacetOrder) = 6
    BY LinesAssumption DEF LinesAssumption, FacetOrder
  <1>2. ASSUME NEW l \in Lines, turn \in 1..6
        PROVE  LET f == Nth(l, turn) IN
               f.v \in {-1, 0, 1} /\ f.s \in {-1, 0, 1} /\ f.b \in Int /\ Norm(f) \in {1, 2}
    <2>1. Nth(l, turn) \in Facets[within][l]
      BY <1>0, <1>1, <1>2, NthIs
    <2> QED  BY <1>0, <1>1, <2>1, FacetsAre
  <1>3. CASE SweepFacet
    <2>1. PICK up \in [Lines -> BOOLEAN] :
            LET after == [l \in Lines |->
                            Corrected(Nth(l, turn), iterate[l], corrections[l][turn], up[l])]
            IN /\ iterate' = [l \in Lines |-> after[l].place]
               /\ corrections' = [l \in Lines |-> [corrections[l] EXCEPT ![turn] = after[l].owed]]
      BY <1>3 DEF SweepFacet
    <2> DEFINE after(l) == Corrected(Nth(l, turn), iterate[l], corrections[l][turn], up[l])
    <2>2. /\ turn \in 1..6 /\ turn' = turn + 1 /\ leg = "sweep"
          /\ UNCHANGED <<caps, within, drawn, nudges, leg>>
      BY <1>0, <1>1, <1>3 DEF SweepFacet, call
    <2>3. ASSUME NEW l \in Lines
          PROVE  /\ iterate'[l] = after(l).place
                 /\ corrections'[l] = [corrections[l] EXCEPT ![turn] = after(l).owed]
                 /\ after(l).owed \in Nat /\ after(l).place \in Place
                 /\ after(l).place.virtue
                      = iterate[l].virtue + (corrections[l][turn] - after(l).owed) * Nth(l, turn).v
                 /\ after(l).place.shadow
                      = iterate[l].shadow + (corrections[l][turn] - after(l).owed) * Nth(l, turn).s
      <3>1. iterate[l] \in Place /\ corrections[l][turn] \in Nat /\ up[l] \in BOOLEAN
        BY <1>0, <2>2
      <3>2. LET f == Nth(l, turn) IN
            f.v \in {-1, 0, 1} /\ f.s \in {-1, 0, 1} /\ f.b \in Int /\ Norm(f) \in {1, 2}
        BY <1>2, <2>2
      <3>3. /\ after(l).owed \in Nat /\ after(l).place \in Place
            /\ after(l).place.virtue
                 = iterate[l].virtue + (corrections[l][turn] - after(l).owed) * Nth(l, turn).v
            /\ after(l).place.shadow
                 = iterate[l].shadow + (corrections[l][turn] - after(l).owed) * Nth(l, turn).s
        BY <3>1, <3>2, CorrectedIs
      <3> QED  BY <2>1, <3>3
    <2> HIDE DEF after
    <2>4. iterate' \in [Lines -> Place] /\ corrections' \in [Lines -> [1..6 -> Nat]]
      <3>1. iterate' = [l \in Lines |-> after(l).place]
        BY <2>1 DEF after
      <3>2. corrections' = [l \in Lines |-> [corrections[l] EXCEPT ![turn] = after(l).owed]]
        BY <2>1 DEF after
      <3> QED  BY <1>0, <2>2, <2>3, <3>1, <3>2
    <2>5. ASSUME nudges = 0, NEW l \in Lines PROVE MakesUp(l)'
      <3> DEFINE c == corrections[l]
                 d == corrections'[l]
                 y == iterate[l]
                 z == iterate'[l]
      <3>1. /\ c[1] \in Nat /\ c[2] \in Nat /\ c[3] \in Nat /\ c[4] \in Nat
            /\ c[5] \in Nat /\ c[6] \in Nat /\ c \in [1..6 -> Nat]
        BY <1>0
      <3>2. y.virtue \in Int /\ y.shadow \in Int
        BY <1>0 DEF Place
      <3>3. /\ drawn[l].virtue = y.virtue + (c[1] - c[2] - c[5] + c[6])
            /\ drawn[l].shadow = y.shadow + (c[3] - c[4] + c[5] + c[6])
        BY <1>0, <2>5 DEF MakesUp
      <3>4. /\ d = [c EXCEPT ![turn] = after(l).owed] /\ after(l).owed \in Nat
            /\ z.virtue = y.virtue + (c[turn] - after(l).owed) * Nth(l, turn).v
            /\ z.shadow = y.shadow + (c[turn] - after(l).owed) * Nth(l, turn).s
        BY <2>3
      <3> DEFINE o == after(l).owed
      <3>5. /\ Nth(l, 1).v = 1 /\ Nth(l, 1).s = 0 /\ Nth(l, 2).v = -1 /\ Nth(l, 2).s = 0
            /\ Nth(l, 3).v = 0 /\ Nth(l, 3).s = 1 /\ Nth(l, 4).v = 0 /\ Nth(l, 4).s = -1
            /\ Nth(l, 5).v = -1 /\ Nth(l, 5).s = 1 /\ Nth(l, 6).v = 1 /\ Nth(l, 6).s = 1
        BY <1>0, <1>1, NormalsAre
      <3>6. SUFFICES /\ drawn[l].virtue = z.virtue + (d[1] - d[2] - d[5] + d[6])
                     /\ drawn[l].shadow = z.shadow + (d[3] - d[4] + d[5] + d[6])
        BY <2>2 DEF MakesUp
      <3> HIDE DEF c, d, y, z, o
      <3>7. /\ d = [c EXCEPT ![turn] = o] /\ o \in Nat
            /\ z.virtue = y.virtue + (c[turn] - o) * Nth(l, turn).v
            /\ z.shadow = y.shadow + (c[turn] - o) * Nth(l, turn).s
        BY <3>4 DEF o
      <3>8. \A i \in 1..6 : d[i] = IF i = turn THEN o ELSE c[i]
        BY <3>1, <3>7
      <3>9. /\ d[1] = (IF turn = 1 THEN o ELSE c[1]) /\ d[2] = (IF turn = 2 THEN o ELSE c[2])
            /\ d[3] = (IF turn = 3 THEN o ELSE c[3]) /\ d[4] = (IF turn = 4 THEN o ELSE c[4])
            /\ d[5] = (IF turn = 5 THEN o ELSE c[5]) /\ d[6] = (IF turn = 6 THEN o ELSE c[6])
        BY <3>8
      <3>10. CASE turn = 1  BY <3>1, <3>2, <3>3, <3>5, <3>7, <3>9, <3>10
      <3>11. CASE turn = 2  BY <3>1, <3>2, <3>3, <3>5, <3>7, <3>9, <3>11
      <3>12. CASE turn = 3  BY <3>1, <3>2, <3>3, <3>5, <3>7, <3>9, <3>12
      <3>13. CASE turn = 4  BY <3>1, <3>2, <3>3, <3>5, <3>7, <3>9, <3>13
      <3>14. CASE turn = 5  BY <3>1, <3>2, <3>3, <3>5, <3>7, <3>9, <3>14
      <3>15. CASE turn = 6  BY <3>1, <3>2, <3>3, <3>5, <3>7, <3>9, <3>15
      <3> QED  BY <2>2, <3>10, <3>11, <3>12, <3>13, <3>14, <3>15
    <2> QED  BY <1>0, <2>2, <2>4, <2>5 DEF ProjectionInv
  <1>4. CASE EndSweep
    <2>1. /\ UNCHANGED <<caps, within, drawn, iterate, corrections, nudges>>
          /\ leg = "sweep" /\ leg' \in {"sweep", "verify"} /\ turn' = 1
      BY <1>4 DEF EndSweep, call
    <2> QED  BY <1>0, <2>1 DEF ProjectionInv, MakesUp
  <1>5. CASE Accept
    <2>1. /\ UNCHANGED <<caps, within, drawn, iterate, corrections, nudges, turn>>
          /\ leg = "verify" /\ leg' = "done" /\ VerifyAll
      BY <1>5 DEF Accept, call
    <2>2. VerifyAll'
      BY <2>1 DEF VerifyAll, Contained, Left
    <2> QED  BY <1>0, <2>1, <2>2 DEF ProjectionInv, MakesUp
  <1>6. CASE BeginNudges
    <2>1. /\ UNCHANGED <<caps, within, drawn, iterate, corrections, turn>>
          /\ leg = "verify" /\ leg' = "nudge" /\ nudges' = nudges + 1
      BY <1>6 DEF BeginNudges, call
    <2> QED  BY <1>0, <2>1 DEF ProjectionInv
  <1>7. CASE NudgeFacet
    <2>1. PICK up \in [Lines -> BOOLEAN] :
            iterate' = [l \in Lines |-> Nudged(Nth(l, turn), iterate[l], up[l])]
      BY <1>7 DEF NudgeFacet
    <2>2. /\ turn \in 1..6 /\ turn' = turn + 1 /\ leg = "nudge"
          /\ UNCHANGED <<caps, within, drawn, corrections, nudges, leg>>
      BY <1>0, <1>1, <1>7 DEF NudgeFacet, call
    <2>3. ASSUME NEW l \in Lines PROVE Nudged(Nth(l, turn), iterate[l], up[l]) \in Place
      <3> DEFINE f == Nth(l, turn)
                 p == iterate[l]
                 n == Cut(f, p, up[l])
      <3>1. /\ f.v \in {-1, 0, 1} /\ f.s \in {-1, 0, 1} /\ f.b \in Int /\ Norm(f) \in {1, 2}
            /\ p \in Place /\ up[l] \in BOOLEAN
        BY <1>0, <1>2, <2>2
      <3> HIDE DEF f, p
      <3>2. n \in Nat
        BY <3>1, CutIs
      <3> HIDE DEF n
      <3>3. n + Nudge \in Int
        BY <3>2, ProjectionAssumption DEF ProjectionAssumption
      <3>4. Against(f, p, n + Nudge) \in Place
        BY <3>1, <3>3, AgainstIs
      <3> QED  BY <3>1, <3>4 DEF Nudged, n, f, p
    <2>4. iterate' \in [Lines -> Place]
      BY <2>1, <2>3
    <2> QED  BY <1>0, <2>2, <2>4 DEF ProjectionInv
  <1>8. CASE EndNudges
    <2>1. /\ UNCHANGED <<caps, within, drawn, iterate, corrections, nudges>>
          /\ leg = "nudge" /\ leg' = "verify" /\ turn' = 1
      BY <1>8 DEF EndNudges, call
    <2> QED  BY <1>0, <2>1 DEF ProjectionInv
  <1>9. CASE FallBack
    <2>1. /\ UNCHANGED <<caps, within, drawn, corrections, nudges, turn>>
          /\ leg = "verify" /\ leg' = "done" /\ nudges # 0
          /\ iterate' = [l \in Lines |-> InGrains(Center(within)[l])]
      BY <1>0, <1>9, ProjectionAssumption DEF FallBack, ProjectionAssumption, call
    <2>2. \A l \in Lines : iterate'[l] = InGrains(Center(within)[l])
      BY <2>1
    <2>3. \A l \in Lines : Contained(l, iterate'[l])
      BY <1>0, <2>2, GrainsInside
    <2>4. VerifyAll'
      BY <2>1, <2>3 DEF VerifyAll, Contained, Left
    <2>5. iterate' \in [Lines -> Place]
      BY <1>0, <2>1, GrainsPlaced
    <2> QED  BY <1>0, <2>1, <2>4, <2>5 DEF ProjectionInv
  <1>10. CASE Call
    <2>1. PICK x \in Drawn : drawn' = [l \in Lines |-> InGrains(x[l])]
      BY <1>10 DEF Call
    <2>2. \A l \in Lines : InGrains(x[l]) \in Place
      BY ProjectionAssumption
         DEF ProjectionAssumption, Points, Coordinates, One, InGrains, Place
    <2>3. drawn' \in [Lines -> Place] /\ iterate' = drawn'
      BY <1>10, <2>1, <2>2 DEF Call
    <2>4. /\ leg = "idle" /\ leg' = "sweep" /\ caps' \in Caps /\ within' \in Seasons
          /\ UNCHANGED <<corrections, turn, nudges>>
      BY <1>10 DEF Call
    <2>5. corrections' = [l \in Lines |-> [n \in 1..6 |-> 0]]
      BY <1>0, <2>4
    <2>6. ASSUME NEW l \in Lines PROVE MakesUp(l)'
      <3>1. drawn'[l] = iterate'[l] /\ drawn'[l].virtue \in Int /\ drawn'[l].shadow \in Int
        BY <2>3, <2>5 DEF Place
      <3>2. /\ corrections'[l][1] = 0 /\ corrections'[l][2] = 0 /\ corrections'[l][3] = 0
            /\ corrections'[l][4] = 0 /\ corrections'[l][5] = 0 /\ corrections'[l][6] = 0
        BY <2>3, <2>5
      <3> QED  BY <3>1, <3>2 DEF MakesUp
    <2> QED  BY <1>0, <2>3, <2>4, <2>6 DEF ProjectionInv
  <1>11. CASE UNCHANGED projectionVars
    <2>1. UNCHANGED <<caps, within, drawn, iterate, corrections, turn, nudges, leg>>
      BY <1>11 DEF projectionVars
    <2>2. VerifyAll => VerifyAll'
      BY <2>1 DEF VerifyAll, Contained, Left
    <2> QED  BY <1>0, <2>1, <2>2 DEF ProjectionInv, MakesUp
  <1> QED  BY <1>3, <1>4, <1>5, <1>6, <1>7, <1>8, <1>9, <1>10, <1>11 DEF ProjectionNext

\* Whatever is returned of a projection is inside, exactly: for any plumb lines,
\* points, rounding and grain of the doubles, and however soon the sweeps and the
\* nudges are cut off (EthicalPolytope::project, value_engine.cpp:774-894; the
\* verification, and the center where it fails, make it so).
THEOREM ProjectionEndsInside == ProjectionSpec => []EndsInside
  <1>1. ProjectionInv => EndsInside
    BY DEF ProjectionInv, EndsInside
  <1> QED  BY <1>1, ProjectionStarts, ProjectionGoesOn, PTL DEF ProjectionSpec

LEMMA SquareOfSum ==
  ASSUME NEW a \in Int, NEW b \in Int
  PROVE  Square(a + b) = Square(a) + 2 * (a * b) + Square(b)
  BY DEF Square

\* What a multiplier holds back from its facet at y is no less than what it
\* takes from a place inside to y.
LEMMA HoldsBack ==
  ASSUME NEW c \in Nat, NEW m \in Int, NEW n \in Int, NEW k \in Int, m >= 0, n = m - k
  PROVE  c * n + c * k >= 0
  <1>1. c * n = c * m - c * k
    OBVIOUS
  <1>2. c * m >= 0
    OBVIOUS
  <1>3. c * m \in Int /\ c * k \in Int /\ c * n \in Int
    OBVIOUS
  <1> QED  BY <1>1, <1>2, <1>3

\* What the corrections of a line still hold back from its facets.
Owed(l) ==
  LET owed(n) == corrections[l][n] * Left(Nth(l, n), iterate[l])
  IN owed(1) + owed(2) + owed(3) + owed(4) + owed(5) + owed(6)

NothingNearer ==
  nudges = 0 =>
    \A l \in Lines, q \in Place :
      Contained(l, q) =>
        Squared(drawn[l], q) + 2 * Owed(l) >= Squared(drawn[l], iterate[l]) + Squared(iterate[l], q)

\* At every step of the sweeps no place inside is nearer to what is projected
\* than the iterate, but for what the corrections still hold back from their
\* facets: for every place, any plumb lines, rounding and bounds.  Nothing is lost
\* of the way back, and where a line's corrections hold back nothing, its iterate
\* is as near as any place inside (value_engine.cpp:780-844).
THEOREM NothingNearerIsPassed == ProjectionSpec => []NothingNearer
  <1>1. ProjectionInv => NothingNearer
    <2> SUFFICES ASSUME ProjectionInv, nudges = 0, NEW l \in Lines, NEW q \in Place,
                        Contained(l, q)
                 PROVE  Squared(drawn[l], q) + 2 * Owed(l)
                          >= Squared(drawn[l], iterate[l]) + Squared(iterate[l], q)
      BY DEF NothingNearer
    <2> DEFINE x == drawn[l]
               y == iterate[l]
               c(n) == corrections[l][n]
               dv == y.virtue - q.virtue
               ds == y.shadow - q.shadow
               uv == c(1) - c(2) - c(5) + c(6)
               us == c(3) - c(4) + c(5) + c(6)
               m(n) == Left(Nth(l, n), q)
               r(n) == Left(Nth(l, n), y)
    <2>1. l \in PlumbLines /\ within \in Seasons /\ q \in Place /\ x \in Place /\ y \in Place
      BY LinesAssumption, ProjectionAssumption
         DEF LinesAssumption, ProjectionAssumption, ProjectionInv, Place
    <2>2. \A n \in 1..6 : c(n) \in Nat
      BY DEF ProjectionInv
    <2>3. x.virtue = y.virtue + uv /\ x.shadow = y.shadow + us
      BY DEF ProjectionInv, MakesUp
    <2>4. ASSUME NEW n \in 1..6
          PROVE  /\ m(n) \in Int /\ r(n) \in Int /\ m(n) >= 0
                 /\ r(n) = m(n) - (Nth(l, n).v * dv + Nth(l, n).s * ds)
      <3> DEFINE f == Nth(l, n)
      <3>1. f \in Facets[within][l]
        BY <2>1, NthIs
      <3>2. f.v \in {-1, 0, 1} /\ f.s \in {-1, 0, 1} /\ f.b \in Int
        BY <2>1, <3>1, FacetsAre
      <3>3. Left(f, q) >= 0
        BY <3>1 DEF Contained
      <3>4. Left(f, q) \in Int /\ Left(f, y) \in Int
        BY <2>1, <3>2, GrainsLeft
      <3>5. /\ y.virtue \in Int /\ y.shadow \in Int /\ q.virtue \in Int /\ q.shadow \in Int
            /\ Grain \in Int
        BY <2>1, ProjectionAssumption DEF Place, ProjectionAssumption
      <3> DEFINE g == Grain * f.b
      <3>6. g \in Int
        BY <3>2, <3>5
      <3>7. /\ Left(f, y) = g - (f.v * y.virtue + f.s * y.shadow)
            /\ Left(f, q) = g - (f.v * q.virtue + f.s * q.shadow)
        BY DEF Left
      <3> HIDE DEF f, g, y
      <3>8. Left(f, y) = Left(f, q) - (f.v * dv + f.s * ds)
        BY <3>2, <3>5, <3>6, <3>7
      <3> QED  BY <3>3, <3>4, <3>8 DEF f, y
    <2>5. Owed(l) = c(1) * r(1) + c(2) * r(2) + c(3) * r(3) + c(4) * r(4) + c(5) * r(5) + c(6) * r(6)
      BY DEF Owed
    <2>6. /\ Squared(x, q) = Square(x.virtue - q.virtue) + Square(x.shadow - q.shadow)
          /\ Squared(x, y) = Square(x.virtue - y.virtue) + Square(x.shadow - y.shadow)
          /\ Squared(y, q) = Square(dv) + Square(ds)
      BY DEF Squared
    <2>7. /\ x.virtue \in Int /\ x.shadow \in Int /\ y.virtue \in Int /\ y.shadow \in Int
          /\ q.virtue \in Int /\ q.shadow \in Int
      BY <2>1 DEF Place
    <2>8. dv \in Int /\ ds \in Int
      BY <2>7
    <2>9. /\ Nth(l, 1).v = 1 /\ Nth(l, 1).s = 0 /\ Nth(l, 2).v = -1 /\ Nth(l, 2).s = 0
          /\ Nth(l, 3).v = 0 /\ Nth(l, 3).s = 1 /\ Nth(l, 4).v = 0 /\ Nth(l, 4).s = -1
          /\ Nth(l, 5).v = -1 /\ Nth(l, 5).s = 1 /\ Nth(l, 6).v = 1 /\ Nth(l, 6).s = 1
      BY <2>1, NormalsAre
    <2>10. /\ c(1) \in Nat /\ c(2) \in Nat /\ c(3) \in Nat /\ c(4) \in Nat /\ c(5) \in Nat /\ c(6) \in Nat
      BY <2>2
    <2>11. /\ uv \in Int /\ us \in Int
      BY <2>10
    <2>12. /\ x.virtue - q.virtue = uv + dv /\ x.virtue - y.virtue = uv
           /\ x.shadow - q.shadow = us + ds /\ x.shadow - y.shadow = us
      <3> HIDE DEF uv, us, x, y
      <3> QED  BY <2>3, <2>7, <2>11
    <2>13. /\ r(1) = m(1) - dv /\ r(2) = m(2) - (-dv)
           /\ r(3) = m(3) - ds /\ r(4) = m(4) - (-ds)
           /\ r(5) = m(5) - (ds - dv) /\ r(6) = m(6) - (dv + ds)
      <3> HIDE DEF dv, ds, m, r
      <3>1. \A n \in 1..6 : r(n) = m(n) - (Nth(l, n).v * dv + Nth(l, n).s * ds)
        BY <2>4
      <3>2. /\ r(1) = m(1) - (1 * dv + 0 * ds) /\ r(2) = m(2) - ((-1) * dv + 0 * ds)
            /\ r(3) = m(3) - (0 * dv + 1 * ds) /\ r(4) = m(4) - (0 * dv + (-1) * ds)
            /\ r(5) = m(5) - ((-1) * dv + 1 * ds) /\ r(6) = m(6) - (1 * dv + 1 * ds)
        BY <2>9, <3>1
      <3> QED  BY <2>8, <3>2
    <2>14. \A n \in 1..6 : m(n) \in Int /\ r(n) \in Int /\ m(n) >= 0
      BY <2>4
    <2> HIDE DEF x, y, dv, ds, m, r, c
    <2>15. /\ c(1) * r(1) + c(1) * dv >= 0
           /\ c(2) * r(2) + c(2) * (-dv) >= 0
           /\ c(3) * r(3) + c(3) * ds >= 0
           /\ c(4) * r(4) + c(4) * (-ds) >= 0
           /\ c(5) * r(5) + c(5) * (ds - dv) >= 0
           /\ c(6) * r(6) + c(6) * (dv + ds) >= 0
      <3>1. \A n \in 1..6, k \in Int : r(n) = m(n) - k => c(n) * r(n) + c(n) * k >= 0
        BY <2>2, <2>14, HoldsBack
      <3>2. -dv \in Int /\ -ds \in Int /\ ds - dv \in Int /\ dv + ds \in Int
        BY <2>8
      <3> QED  BY <2>8, <2>13, <3>1, <3>2
    <2>16. /\ c(2) * (-dv) = -(c(2) * dv) /\ c(4) * (-ds) = -(c(4) * ds)
           /\ c(5) * (ds - dv) = c(5) * ds - c(5) * dv
           /\ c(6) * (dv + ds) = c(6) * dv + c(6) * ds
      BY <2>8, <2>10
    <2>17. /\ uv * dv = c(1) * dv - c(2) * dv - c(5) * dv + c(6) * dv
           /\ us * ds = c(3) * ds - c(4) * ds + c(5) * ds + c(6) * ds
      BY <2>8, <2>10
    <2>18. /\ Square(uv + dv) = Square(uv) + 2 * (uv * dv) + Square(dv)
           /\ Square(us + ds) = Square(us) + 2 * (us * ds) + Square(ds)
      <3> HIDE DEF uv, us
      <3> QED  BY <2>8, <2>11, SquareOfSum
    <2>19. /\ Square(uv) \in Int /\ Square(dv) \in Int /\ Square(us) \in Int /\ Square(ds) \in Int
           /\ uv * dv \in Int /\ us * ds \in Int
      <3> HIDE DEF uv, us
      <3> QED  BY <2>8, <2>11 DEF Square
    <2>20. /\ c(1) * dv \in Int /\ c(2) * dv \in Int /\ c(5) * dv \in Int /\ c(6) * dv \in Int
           /\ c(3) * ds \in Int /\ c(4) * ds \in Int /\ c(5) * ds \in Int /\ c(6) * ds \in Int
      BY <2>8, <2>10
    <2>21. /\ c(1) * r(1) \in Int /\ c(2) * r(2) \in Int /\ c(3) * r(3) \in Int
           /\ c(4) * r(4) \in Int /\ c(5) * r(5) \in Int /\ c(6) * r(6) \in Int
      BY <2>10, <2>14
    <2> DEFINE o == Owed(l)
               w == uv * dv + us * ds
    <2>22. o \in Int /\ w \in Int /\ o + w >= 0
      <3> DEFINE p1 == c(1) * r(1)
                 p2 == c(2) * r(2)
                 p3 == c(3) * r(3)
                 p4 == c(4) * r(4)
                 p5 == c(5) * r(5)
                 p6 == c(6) * r(6)
                 v1 == c(1) * dv
                 v2 == c(2) * dv
                 v5 == c(5) * dv
                 v6 == c(6) * dv
                 s3 == c(3) * ds
                 s4 == c(4) * ds
                 s5 == c(5) * ds
                 s6 == c(6) * ds
                 a == uv * dv
                 b == us * ds
      <3>1. /\ p1 + v1 >= 0 /\ p2 - v2 >= 0 /\ p3 + s3 >= 0 /\ p4 - s4 >= 0
            /\ p5 + (s5 - v5) >= 0 /\ p6 + (v6 + s6) >= 0
        <4>1. /\ p1 + v1 >= 0 /\ p2 + (-v2) >= 0 /\ p3 + s3 >= 0 /\ p4 + (-s4) >= 0
              /\ p5 + (s5 - v5) >= 0 /\ p6 + (v6 + s6) >= 0
          BY <2>15, <2>16
        <4>2. p2 \in Int /\ p4 \in Int /\ v2 \in Int /\ s4 \in Int
          BY <2>20, <2>21
        <4> HIDE DEF p1, p2, p3, p4, p5, p6, v1, v2, v5, v6, s3, s4, s5, s6
        <4> QED  BY <4>1, <4>2
      <3>2. a = v1 - v2 - v5 + v6 /\ b = s3 - s4 + s5 + s6
        BY <2>17
      <3>3. /\ p1 \in Int /\ p2 \in Int /\ p3 \in Int /\ p4 \in Int /\ p5 \in Int /\ p6 \in Int
            /\ v1 \in Int /\ v2 \in Int /\ v5 \in Int /\ v6 \in Int
            /\ s3 \in Int /\ s4 \in Int /\ s5 \in Int /\ s6 \in Int
        BY <2>20, <2>21
      <3>4. o = p1 + p2 + p3 + p4 + p5 + p6 /\ w = a + b
        BY <2>5
      <3> HIDE DEF p1, p2, p3, p4, p5, p6, v1, v2, v5, v6, s3, s4, s5, s6, a, b, o, w
      <3> QED  BY <3>1, <3>2, <3>3, <3>4
    <2>23. Squared(x, q) + 2 * o >= Squared(x, y) + Squared(y, q)
      <3> DEFINE a == uv * dv
                 b == us * ds
                 g == Square(uv)
                 h == Square(us)
                 i == Square(dv)
                 j == Square(ds)
      <3>1. /\ Squared(x, q) = (g + 2 * a + i) + (h + 2 * b + j)
            /\ Squared(x, y) = g + h /\ Squared(y, q) = i + j
        BY <2>6, <2>12, <2>18
      <3>2. a \in Int /\ b \in Int /\ g \in Int /\ h \in Int /\ i \in Int /\ j \in Int /\ w = a + b
        BY <2>19
      <3> HIDE DEF a, b, g, h, i, j, o, w
      <3> QED  BY <2>22, <3>1, <3>2
    <2> QED  BY <2>23 DEF x, y
  <1> QED  BY <1>1, ProjectionStarts, ProjectionGoesOn, PTL DEF ProjectionSpec
-----------------------------------------------------------------------------
(* The encoder. *)

LEMMA ClampIs ==
  ASSUME NEW n \in Int, NEW low \in Int, NEW high \in Int, low <= high
  PROVE  Clamp(n, low, high) \in low..high
  BY DEF Clamp

\* Whatever a word is, it pulls a pole of a line by a whole number.
LEMMA SenseIs ==
  ASSUME NEW word, NEW l, NEW pole \in {"virtue", "shadow"}
  PROVE  Sense(word, l)[pole] \in Int
  <1>1. Toward(0, 0) \in Place
    BY DEF Toward, Place
  <1>2. ASSUME l \in DOMAIN Lexicon(word) PROVE Lexicon(word)[l] \in Place
    <2>1. CASE word = "peace"
      BY <1>2, <2>1 DEF Lexicon, Toward, Place
    <2>2. CASE word = "gentle"
      BY <1>2, <2>2 DEF Lexicon, Toward, Place
    <2>3. CASE word = "love"
      BY <1>2, <2>3 DEF Lexicon, Toward, Place
    <2>4. CASE word = "obey"
      BY <1>2, <2>4 DEF Lexicon, Toward, Place
    <2>5. CASE word = "must"
      BY <1>2, <2>5 DEF Lexicon, Toward, Place
    <2>6. CASE word = "command"
      BY <1>2, <2>6 DEF Lexicon, Toward, Place
    <2>7. CASE word = "force"
      BY <1>2, <2>7 DEF Lexicon, Toward, Place
    <2>8. CASE word = "boss"
      BY <1>2, <2>8 DEF Lexicon, Toward, Place
    <2>9. CASE word \notin {"peace", "gentle", "love", "obey", "must", "command", "force", "boss"}
      BY <1>2, <2>9 DEF Lexicon
    <2> QED  BY <2>1, <2>2, <2>3, <2>4, <2>5, <2>6, <2>7, <2>8, <2>9
  <1>3. Sense(word, l) \in Place
    BY <1>1, <1>2 DEF Sense
  <1> QED  BY <1>3 DEF Place

\* What may be said to her or by her; a text has so many words.
Texts == {<<>>, NoVoice, Unavailable} \cup Messages \cup Drafts

LEMMA WordsAre ==
  ASSUME NEW text \in Texts
  PROVE  IsFiniteSet(DOMAIN text)
  <1>1. \E n \in Nat : DOMAIN text = 1..n
    <2>1. CASE text = <<>>
      BY <2>1
    <2>2. CASE text = NoVoice
      BY <2>2 DEF NoVoice
    <2>3. CASE text = Unavailable
      BY <2>3 DEF Unavailable
    <2>4. CASE text \in Messages \cup Drafts
      <3>1. text \in Seq(STRING)
        BY <2>4, GateAssumption DEF GateAssumption
      <3>2. Len(text) \in Nat /\ DOMAIN text = 1..Len(text)
        BY <3>1
      <3> QED  BY <3>2
    <2> QED  BY <2>1, <2>2, <2>3, <2>4 DEF Texts
  <1>2. PICK n \in Nat : DOMAIN text = 1..n
    BY <1>1
  <1>3. IsFiniteSet(1..n)
    BY FS_Interval
  <1> QED  BY <1>2, <1>3

LEMMA HeardIs ==
  ASSUME NEW words \in Texts, NEW l, NEW pole \in {"virtue", "shadow"}
  PROVE  Heard(words, l, pole) \in Int
  <1> DEFINE pull == [i \in DOMAIN words |->
                        Sense(words[i], l)[pole] * (IF Negated(words, i) THEN -70 ELSE 100)]
  <1>1. IsFiniteSet(DOMAIN words)
    BY WordsAre
  <1>2. pull \in [DOMAIN words -> Int]
    <2>1. SUFFICES ASSUME NEW i \in DOMAIN words PROVE pull[i] \in Int
      OBVIOUS
    <2>2. Sense(words[i], l)[pole] \in Int
      BY SenseIs
    <2> QED  BY <2>2
  <1>3. Heard(words, l, pole) = SumFunction(pull)
    BY DEF Heard
  <1> HIDE DEF pull
  <1> QED  BY <1>1, <1>2, <1>3, SumIsInt

\* A text without words weighs nothing.
LEMMA NothingHeard ==
  ASSUME NEW l, NEW pole
  PROVE  Heard(<<>>, l, pole) = 0
  <1> DEFINE pull == [i \in DOMAIN <<>> |->
                        Sense(<<>>[i], l)[pole] * (IF Negated(<<>>, i) THEN -70 ELSE 100)]
  <1>1. DOMAIN <<>> = {}
    OBVIOUS
  <1>2. pull \in [{} -> Nat]
    BY <1>1
  <1>3. Heard(<<>>, l, pole) = SumFunction(pull)
    BY DEF Heard
  <1> HIDE DEF pull
  <1> QED  BY <1>2, <1>3, FS_EmptySet, SumOfOne

\* What a pole comes to, of its home and the weights heard.
Put(middle, heard, answered) ==
  Clamp((8500 * middle + 70 * Clamp((10 * heard + 4 * answered) \div 10, -10000, 10000)) \div 10000,
        0, One)

LEMMA PutIs ==
  ASSUME NEW middle \in Int, NEW heard \in Int, NEW answered \in Int
  PROVE  Put(middle, heard, answered) \in Coordinates
  <1> DEFINE n == (10 * heard + 4 * answered) \div 10
             signal == Clamp(n, -10000, 10000)
             m == (8500 * middle + 70 * signal) \div 10000
  <1>1. n \in Int
    OBVIOUS
  <1>2. signal \in Int
    <2> HIDE DEF n
    <2> QED  BY <1>1 DEF Clamp
  <1>3. m \in Int
    <2> HIDE DEF signal
    <2> QED  BY <1>2
  <1>4. Clamp(m, 0, One) \in Coordinates
    <2> HIDE DEF m
    <2> QED  BY <1>3 DEF Clamp, One, Coordinates
  <1> QED  BY <1>4 DEF Put

\* A text is put within the unit square of every line.
LEMMA EncodeIs ==
  ASSUME NEW text \in Texts, NEW answered \in Texts
  PROVE  Encode(text, answered) \in Points
  <1> DEFINE place(l, pole) ==
               Put(Origin(l)[pole], Heard(text, l, pole), Heard(answered, l, pole))
  <1>1. ASSUME NEW l \in Lines, NEW pole \in {"virtue", "shadow"}
        PROVE  place(l, pole) \in Coordinates
    <2>1. Heard(text, l, pole) \in Int /\ Heard(answered, l, pole) \in Int
      BY HeardIs
    <2>2. Origin(l)[pole] \in Int
      BY LinesAssumption DEF LinesAssumption, PlumbLines, Origin
    <2> QED  BY <2>1, <2>2, PutIs
  <1>2. Encode(text, answered)
          = [l \in Lines |-> [virtue |-> place(l, "virtue"), shadow |-> place(l, "shadow")]]
    BY DEF Encode, Put
  <1> HIDE DEF place
  <1>3. \A l \in Lines : place(l, "virtue") \in Coordinates /\ place(l, "shadow") \in Coordinates
    BY <1>1
  <1> QED  BY <1>2, <1>3 DEF Points
-----------------------------------------------------------------------------
(* An evaluation. *)

Moves == [Lines -> Place]
Rows == [zone : Zones, at : Points, corrected : Points, magnitude2 : Nat]

LEMMA PointsAreMoves == Points \subseteq Moves
  BY DEF Points, Moves, Place, Coordinates, One

LEMMA NowhereIs == Nowhere \in Points
  BY DEF Nowhere, Points, Coordinates, One

\* Biases are clipped to the unit square, whatever they are.
LEMMA BiasedIs ==
  ASSUME NEW x \in Points, NEW b \in Moves
  PROVE  ApplyBiases(x, b) \in Points
  <1>1. ASSUME NEW l \in Lines
        PROVE  /\ Clamp(x[l].virtue + b[l].virtue, 0, One) \in Coordinates
               /\ Clamp(x[l].shadow + b[l].shadow, 0, One) \in Coordinates
    <2>1. /\ x[l].virtue \in Int /\ x[l].shadow \in Int
          /\ b[l].virtue \in Int /\ b[l].shadow \in Int
      <3>1. x \in Moves
        BY PointsAreMoves
      <3>2. x[l] \in Place /\ b[l] \in Place
        BY <3>1 DEF Moves
      <3> QED  BY <3>2 DEF Place
    <2>2. \A n \in Int : Clamp(n, 0, One) \in Coordinates
      BY DEF Clamp, Coordinates, One
    <2>3. x[l].virtue + b[l].virtue \in Int /\ x[l].shadow + b[l].shadow \in Int
      BY <2>1
    <2> QED  BY <2>2, <2>3
  <1> QED  BY <1>1 DEF ApplyBiases, Points

LEMMA ProjectedIs ==
  ASSUME NEW sn \in Seasons, NEW x \in Moves
  PROVE  Project(sn, x) \in Points
  <1>1. ASSUME NEW l \in Lines
        PROVE  Nearest(sn, l, x[l]) \in [virtue : Coordinates, shadow : Coordinates]
    <2>1. l \in PlumbLines /\ x[l] \in Place
      BY LinesAssumption DEF LinesAssumption, Moves
    <2>2. Nearest(sn, l, x[l]) \in Place /\ Inside(sn, l, Nearest(sn, l, x[l]))
      BY <2>1, NearestIs
    <2>3. ASSUME NEW q \in Place, Inside(sn, l, q)
          PROVE  q \in [virtue : Coordinates, shadow : Coordinates]
      BY <2>1, <2>3, InsideIs, BoundsAre DEF Place, Coordinates, One
    <2> QED  BY <2>2, <2>3
  <1> QED  BY <1>1 DEF Project, Points

LEMMA ApartIs ==
  ASSUME NEW x \in Moves, NEW y \in Moves
  PROVE  Apart(x, y) \in Nat
  <1> DEFINE f == [l \in Lines |-> Squared(x[l], y[l])]
  <1>1. f \in [Lines -> Nat]
    BY SquaredIs DEF Moves
  <1>2. Apart(x, y) = SumFunction(f)
    BY DEF Apart
  <1> HIDE DEF f
  <1> QED  BY <1>1, <1>2, SumIsNat, LinesAssumption DEF LinesAssumption

LEMMA ZoneIs ==
  ASSUME NEW sn, NEW x, NEW m
  PROVE  ClassifyZone(sn, x, m) \in Zones
  BY DEF ClassifyZone, Zones

LEMMA EvaluateAtIs ==
  ASSUME NEW sn \in Seasons, NEW x \in Points
  PROVE  EvaluateAt(sn, x) \in Rows
  <1>1. x \in Moves
    BY PointsAreMoves
  <1>2. CASE InLattice(sn, x)
    <2>1. EvaluateAt(sn, x) = [zone |-> ClassifyZone(sn, x, 0), at |-> x,
                               corrected |-> Nowhere, magnitude2 |-> 0]
      BY <1>2 DEF EvaluateAt
    <2> QED  BY <2>1, ZoneIs, NowhereIs DEF Rows
  <1>3. CASE ~InLattice(sn, x)
    <2> DEFINE y == Project(sn, x)
    <2>1. y \in Points /\ Apart(x, y) \in Nat
      BY <1>1, ProjectedIs, ApartIs, PointsAreMoves
    <2>2. EvaluateAt(sn, x) = [zone |-> ClassifyZone(sn, x, Apart(x, y)), at |-> x,
                               corrected |-> y, magnitude2 |-> Apart(x, y)]
      BY <1>3 DEF EvaluateAt
    <2> HIDE DEF y
    <2> QED  BY <2>1, <2>2, ZoneIs DEF Rows
  <1> QED  BY <1>2, <1>3

LEMMA EvaluateIs ==
  ASSUME NEW sn \in Seasons, NEW text \in Texts, NEW answered \in Texts, NEW b \in Moves
  PROVE  Evaluate(sn, Encode(text, answered), b) \in Rows
  BY EncodeIs, BiasedIs, EvaluateAtIs DEF Evaluate
-----------------------------------------------------------------------------
(* The drift. *)

Slight == [Lines -> [virtue : -10..10, shadow : -10..10]]

LEMMA SlightAreMoves == Slight \subseteq Moves
  BY DEF Slight, Moves, Place

LEMMA QuotientIs ==
  ASSUME NEW n \in Int, NEW d \in Nat \ {0}
  PROVE  Quotient(n, d) \in Int
  <1>1. (-n) \div d \in Int /\ n \div d \in Int
    OBVIOUS
  <1> QED  BY <1>1 DEF Quotient

\* The products of the means' fractions.
LEMMA CrossIs ==
  ASSUME NEW a \in Int, NEW b \in Nat \ {0}, NEW c \in Int, NEW d \in Nat \ {0}
  PROVE  15 * (a * d - c * b) \in Int /\ 100 * (b * d) \in Nat \ {0}
  <1>1. a * d \in Int /\ c * b \in Int
    OBVIOUS
  <1>2. b * d \in Nat \ {0}
    OBVIOUS
  <1> DEFINE ad == a * d
             cb == c * b
             bd == b * d
  <1> HIDE DEF ad, cb, bd
  <1>3. 15 * (ad - cb) \in Int
    BY <1>1 DEF ad, cb
  <1>4. 100 * bd \in Nat \ {0}
    BY <1>2 DEF bd
  <1> QED  BY <1>3, <1>4 DEF ad, cb, bd

LEMMA CenterIs ==
  ASSUME NEW sn \in Seasons, NEW l \in Lines
  PROVE  Center(sn)[l] \in Place
  <1>1. l \in PlumbLines
    BY LinesAssumption DEF LinesAssumption
  <1>2. Bounds(sn, l).virtue \in Int /\ Bounds(sn, l).shadow \in Int
    BY <1>1, BoundsAre
  <1>3. (Bounds(sn, l).virtue + One) \div 2 \in Int /\ Bounds(sn, l).shadow \div 2 \in Int
    BY <1>2 DEF One
  <1> QED  BY <1>3 DEF Center, Place

LEMMA PolesAre ==
  ASSUME NEW p \in Place, NEW pole \in {"virtue", "shadow"}
  PROVE  p[pole] \in Int
  <1>1. CASE pole = "virtue"
    BY <1>1 DEF Place
  <1>2. CASE pole = "shadow"
    BY <1>2 DEF Place
  <1> QED  BY <1>1, <1>2

LEMMA SideIs ==
  ASSUME NEW rows \in Seq(Rows), NEW is \in SUBSET (1..Len(rows)), NEW sn \in Seasons,
         NEW l \in Lines, NEW pole \in {"virtue", "shadow"}
  PROVE  \E n \in Int, d \in Nat \ {0} : Side(rows, is, sn, l, pole) = <<n, d>>
  <1>1. CASE is = {}
    <2>1. Center(sn)[l][pole] \in Int
      BY CenterIs, PolesAre
    <2>2. Side(rows, is, sn, l, pole) = <<Center(sn)[l][pole], 1>>
      BY <1>1 DEF Side
    <2> QED  BY <2>1, <2>2
  <1>2. CASE is # {}
    <2> DEFINE f == [i \in is |-> rows[i].at[l][pole]]
    <2>1. IsFiniteSet(is)
      <3>1. Len(rows) \in Int
        OBVIOUS
      <3>2. IsFiniteSet(1..Len(rows))
        BY <3>1, FS_Interval
      <3> QED  BY <3>2, FS_Subset
    <2>2. Cardinality(is) \in Nat \ {0}
      BY <1>2, <2>1, FS_CardinalityType, FS_EmptySet
    <2>3. f \in [is -> Int]
      <3>1. SUFFICES ASSUME NEW i \in is PROVE rows[i].at[l][pole] \in Int
        OBVIOUS
      <3>2. rows[i] \in Rows
        OBVIOUS
      <3>3. rows[i].at \in Moves
        BY <3>2, PointsAreMoves DEF Rows
      <3>4. rows[i].at[l] \in Place
        BY <3>3 DEF Moves
      <3> QED  BY <3>4, PolesAre
    <2>4. Side(rows, is, sn, l, pole) = <<SumFunction(f), Cardinality(is)>>
      BY <1>2 DEF Side
    <2>5. SumFunction(f) \in Int
      <3> HIDE DEF f
      <3> QED  BY <2>1, <2>3, SumIsInt
    <2> HIDE DEF f
    <2> QED  BY <2>2, <2>4, <2>5
  <1> QED  BY <1>1, <1>2

\* Whatever the outcomes, what is learned of them moves a text by no more than a
\* twentieth at each pole.
LEMMA DriftIs ==
  ASSUME NEW rows \in Seq(Rows), NEW sn \in Seasons
  PROVE  Drift(rows, sn) \in Slight
  <1> DEFINE n == Len(rows)
             newest == {i \in 1..n : i > n - DriftWindow}
             good == {i \in newest : rows[i].zone = "aligned"}
             drift(l, pole) ==
               LET a == Side(rows, good, sn, l, pole)  b == Side(rows, newest \ good, sn, l, pole)
               IN Clamp(Quotient(15 * (a[1] * b[2] - b[1] * a[2]), 100 * (a[2] * b[2])), -10, 10)
  <1>1. good \in SUBSET (1..Len(rows)) /\ newest \ good \in SUBSET (1..Len(rows))
    OBVIOUS
  <1>2. Drift(rows, sn)
          = [l \in Lines |-> [virtue |-> drift(l, "virtue"), shadow |-> drift(l, "shadow")]]
    BY DEF Drift
  <1> HIDE DEF n, newest, good
  <1>3. ASSUME NEW l \in Lines, NEW pole \in {"virtue", "shadow"}
        PROVE  drift(l, pole) \in -10..10
    <2>1. PICK a \in Int, b \in Nat \ {0} : Side(rows, good, sn, l, pole) = <<a, b>>
      BY <1>1, SideIs
    <2>2. PICK c \in Int, d \in Nat \ {0} : Side(rows, newest \ good, sn, l, pole) = <<c, d>>
      BY <1>1, SideIs
    <2>3. drift(l, pole) = Clamp(Quotient(15 * (a * d - c * b), 100 * (b * d)), -10, 10)
      BY <2>1, <2>2
    <2>4. Quotient(15 * (a * d - c * b), 100 * (b * d)) \in Int
      <3> DEFINE p == 15 * (a * d - c * b)
                 q == 100 * (b * d)
      <3>1. p \in Int /\ q \in Nat \ {0}
        BY CrossIs
      <3> HIDE DEF p, q
      <3>2. Quotient(p, q) \in Int
        BY <3>1, QuotientIs
      <3> QED  BY <3>2 DEF p, q
    <2>5. \A q \in Int : Clamp(q, -10, 10) \in -10..10
      BY DEF Clamp
    <2> QED  BY <2>3, <2>4, <2>5
  <1> HIDE DEF drift
  <1>4. \A l \in Lines : [virtue |-> drift(l, "virtue"), shadow |-> drift(l, "shadow")]
                           \in [virtue : -10..10, shadow : -10..10]
    BY <1>3
  <1> QED  BY <1>2, <1>4 DEF Slight

\* A correction moves a bias, and holds it within three tenths.
LEMMA LearnedIs ==
  ASSUME NEW b \in Int, NEW from \in Int, NEW to \in Int
  PROVE  Learned(b, from, to) \in -60..60
  <1>1. Quotient(5 * (to - from), 100) \in Int
    BY QuotientIs
  <1>2. \A q \in Int : Clamp(q, -60, 60) \in -60..60
    BY DEF Clamp
  <1> QED  BY <1>1, <1>2 DEF Learned
-----------------------------------------------------------------------------
(* What the state is made of. *)

Attempts == [text : Texts, at : Points, anchor : Points]
Corrections == [from : Points, to : Points, season : Seasons, needs : {"user", "none"}]

Stages == {"generate", "judge", "reflect", "rejudge", "record", "conclude"}

\* Once a draft was refused there is one to compare with; before that, none.
TypeInv ==
  /\ season \in Seasons /\ connected \in BOOLEAN
  /\ biases \in Moves /\ pending \subseteq Corrections
  /\ ledger \in Seq(Rows) /\ said \in Seq(Texts)
  /\ memories \in [warm : Nat, wary : Nat]
  /\ pc \in Stages \cup {"idle"}
  /\ message \in Texts /\ draft \in Texts /\ result \in Rows
  /\ tried \in Seq(Attempts)
  /\ pc \in {"reflect", "rejudge"} => tried # <<>>
  /\ pc \in {"idle", "generate", "judge"} => tried = <<>>

LEMMA TextsAre ==
  /\ <<>> \in Texts /\ NoVoice \in Texts /\ Unavailable \in Texts
  /\ Messages \subseteq Texts /\ Drafts \subseteq Texts
  /\ NoVoice # Unavailable /\ NoVoice # <<>> /\ Unavailable # <<>>
  <1>1. /\ <<>> \in Texts /\ NoVoice \in Texts /\ Unavailable \in Texts
        /\ Messages \subseteq Texts /\ Drafts \subseteq Texts
    BY DEF Texts
  <1>2. NoVoice # Unavailable /\ NoVoice # <<>> /\ Unavailable # <<>>
    <2>1. NoVoice[1] = "_lina" /\ Unavailable[1] = "an"
      BY DEF NoVoice, Unavailable
    <2>2. Len(NoVoice) = 6 /\ Len(Unavailable) = 5 /\ Len(<<>>) = 0
      BY DEF NoVoice, Unavailable
    <2> QED  BY <2>1, <2>2
  <1> QED  BY <1>1, <1>2

LEMMA NoResultIs == NoResult \in Rows
  BY NowhereIs DEF NoResult, Rows, Zones

LEMMA TypesInitially == Init => TypeInv
  <1> SUFFICES ASSUME Init PROVE TypeInv
    OBVIOUS
  <1> USE DEF Init
  <1>1. season \in Seasons /\ connected \in BOOLEAN /\ pending \subseteq Corrections
    BY DEF Seasons
  <1>2. biases \in Moves /\ result \in Rows
    BY NowhereIs, PointsAreMoves, NoResultIs
  <1>3. ledger \in Seq(Rows)
    BY GateAssumption DEF GateAssumption, Rows
  <1>4. said \in Seq(Texts) /\ tried \in Seq(Attempts)
    OBVIOUS
  <1>5. memories \in [warm : Nat, wary : Nat]
    OBVIOUS
  <1>6. message \in Texts /\ draft \in Texts
    BY TextsAre
  <1>7. pc = "idle" /\ tried = <<>>
    OBVIOUS
  <1> QED  BY <1>1, <1>2, <1>3, <1>4, <1>5, <1>6, <1>7 DEF TypeInv

\* What is weighed is a row.
LEMMA Weighed ==
  ASSUME TypeInv
  PROVE  Evaluate(season, Encode(draft, message), biases) \in Rows
  BY EvaluateIs DEF TypeInv

LEMMA RefusalIs ==
  ASSUME TypeInv, tried # <<>>, NEW r \in Rows, Refuse(r)
  PROVE  /\ tried' \in Seq(Attempts) /\ tried' # <<>>
         /\ \/ pc' = "reflect" /\ UNCHANGED <<draft, result>>
            \/ pc' = "record" /\ draft' = Unavailable /\ result' \in Rows
                 /\ result'.zone = "violation"
  <1>1. tried[1] \in Attempts
    <2>1. tried \in Seq(Attempts) /\ tried # <<>>
      BY DEF TypeInv
    <2> QED  BY <2>1
  <1>2. [text |-> draft, at |-> r.at, anchor |-> tried[1].anchor] \in Attempts
    <2>1. draft \in Texts /\ r.at \in Points /\ tried[1].anchor \in Points
      BY <1>1 DEF TypeInv, Rows, Attempts
    <2> QED  BY <2>1 DEF Attempts
  <1> DEFINE a == [text |-> draft, at |-> r.at, anchor |-> tried[1].anchor]
  <1>3. tried' = Append(tried, a) /\ tried \in Seq(Attempts)
    BY DEF Refuse, TypeInv
  <1> HIDE DEF a
  <1>4. tried' \in Seq(Attempts) /\ tried' # <<>>
    BY <1>2, <1>3 DEF a
  <1>5. CASE Len(tried) < MaxReflectionPasses
    BY <1>4, <1>5 DEF Refuse
  <1>6. CASE ~(Len(tried) < MaxReflectionPasses)
    <2>1. pc' = "record" /\ draft' = Unavailable /\ result' = [r EXCEPT !.zone = "violation"]
      BY <1>6 DEF Refuse, Withhold
    <2>2. ASSUME NEW z \in Zones
          PROVE  [r EXCEPT !.zone = z] \in Rows /\ [r EXCEPT !.zone = z].zone = z
      BY DEF Rows
    <2>3. "violation" \in Zones
      BY DEF Zones
    <2> QED  BY <1>4, <2>1, <2>2, <2>3
  <1> QED  BY <1>5, <1>6

LEMMA TypesKept == TypeInv /\ [Next]_vars => TypeInv'
  <1> SUFFICES ASSUME TypeInv, [Next]_vars PROVE TypeInv'
    OBVIOUS
  <1> USE DEF TypeInv, learning, pipeline, Stages
  <1>1. CASE Chat
    <2>1. message' \in Texts
      BY <1>1, TextsAre DEF Chat
    <2> QED  BY <1>1, <2>1 DEF Chat
  <1>2. CASE Generate
    <2>1. draft' \in Texts
      BY <1>2, TextsAre DEF Generate
    <2> QED  BY <1>2, <2>1 DEF Generate
  <1>3. CASE Judge
    <2>1. result' \in Rows
      BY <1>3, Weighed DEF Judge
    <2>2. tried' \in Seq(Attempts) /\ (pc' = "reflect" => tried' # <<>>)
          /\ pc' \in {"reflect", "record"}
      <3>1. [text |-> draft, at |-> result'.at, anchor |-> result'.corrected] \in Attempts
        <4>1. result'.at \in Points /\ result'.corrected \in Points
          BY <2>1 DEF Rows
        <4> QED  BY <4>1 DEF Attempts
      <3>2. ASSUME NEW a \in Attempts PROVE <<a>> \in Seq(Attempts) /\ <<a>> # <<>>
        OBVIOUS
      <3> QED  BY <1>3, <3>1, <3>2 DEF Judge
    <2> QED  BY <1>3, <2>1, <2>2 DEF Judge
  <1>4. CASE Reflect
    <2>1. draft' \in Texts
      BY <1>4, TextsAre DEF Reflect
    <2> QED  BY <1>4, <2>1 DEF Reflect
  <1>5. CASE Rejudge
    <2> DEFINE r == Evaluate(season, Encode(draft, message), biases)
    <2>1. r \in Rows /\ tried # <<>>
      BY <1>5, Weighed DEF Rejudge
    <2>2. \/ result' = r /\ pc' = "record" /\ UNCHANGED <<draft, tried>>
          \/ Refuse(r)
      BY <1>5 DEF Rejudge
    <2>3. UNCHANGED <<season, learning, ledger, history, memories, connected, message, said>>
      BY <1>5 DEF Rejudge
    <2> HIDE DEF r
    <2>4. CASE result' = r /\ pc' = "record" /\ UNCHANGED <<draft, tried>>
      BY <2>1, <2>3, <2>4
    <2>5. CASE Refuse(r)
      BY <2>1, <2>3, <2>5, RefusalIs, TextsAre
    <2> QED  BY <2>2, <2>4, <2>5
  <1>6. CASE Record
    <2>1. ledger' \in Seq(Rows)
      BY <1>6 DEF Record
    <2>2. biases' \in Moves
      <3>1. Drift(ledger', season) \in Slight
        BY <2>1, DriftIs
      <3> QED  BY <1>6, <3>1, SlightAreMoves DEF Record
    <2> QED  BY <1>6, <2>1, <2>2 DEF Record
  <1>7. CASE Conclude
    <2>1. said' \in Seq(Texts)
      BY <1>7 DEF Conclude
    <2>2. memories' \in [warm : Nat, wary : Nat]
      BY <1>7 DEF Conclude
    <2>3. message' = <<>> /\ draft' = <<>> /\ result' = NoResult /\ tried' = <<>> /\ pc' = "idle"
      BY <1>7 DEF Conclude
    <2>4. UNCHANGED <<season, learning, ledger, connected>>
      BY <1>7 DEF Conclude
    <2> QED  BY <2>1, <2>2, <2>3, <2>4, TextsAre, NoResultIs
  <1>8. CASE AttachModel
    BY <1>8 DEF AttachModel
  <1>9. CASE BeginSession
    BY <1>9 DEF BeginSession
  <1>10. CASE AdvanceSeason
    <2>1. season' \in Seasons
      BY <1>10 DEF AdvanceSeason, Later, Seasons
    <2> QED  BY <1>10, <2>1 DEF AdvanceSeason
  <1>11. CASE Flag
    <2>1. PICK i \in DOMAIN ledger, x \in Misread :
            pending' = pending \cup
              {[from |-> ledger[i].at, to |-> x, season |-> season,
                needs |-> IF season = "spring" THEN "user" ELSE "none"]}
      BY <1>11 DEF Flag
    <2>2. ledger[i].at \in Points /\ x \in Points
      <3>1. ledger[i] \in Rows
        OBVIOUS
      <3> QED  BY <3>1, GateAssumption DEF Rows, GateAssumption
    <2>3. pending' \subseteq Corrections
      BY <2>1, <2>2 DEF Corrections
    <2> QED  BY <1>11, <2>3 DEF Flag
  <1>12. CASE Confirm
    <2>1. PICK c \in pending, by \in {"user", "lina"} :
            /\ biases' = [l \in Lines |->
                 [virtue |-> Learned(biases[l].virtue, c.from[l].virtue, c.to[l].virtue),
                  shadow |-> Learned(biases[l].shadow, c.from[l].shadow, c.to[l].shadow)]]
            /\ pending' = pending \ {c}
      BY <1>12 DEF Confirm
    <2>2. biases' \in Moves
      <3>1. c.from \in Moves /\ c.to \in Moves
        BY PointsAreMoves DEF Corrections
      <3>2. ASSUME NEW l \in Lines
            PROVE  /\ Learned(biases[l].virtue, c.from[l].virtue, c.to[l].virtue) \in Int
                   /\ Learned(biases[l].shadow, c.from[l].shadow, c.to[l].shadow) \in Int
        <4>1. biases[l] \in Place /\ c.from[l] \in Place /\ c.to[l] \in Place
          BY <3>1 DEF Moves
        <4>2. /\ biases[l].virtue \in Int /\ c.from[l].virtue \in Int /\ c.to[l].virtue \in Int
              /\ biases[l].shadow \in Int /\ c.from[l].shadow \in Int /\ c.to[l].shadow \in Int
          BY <4>1 DEF Place
        <4>3. -60..60 \subseteq Int
          OBVIOUS
        <4> QED  BY <4>2, <4>3, LearnedIs
      <3>3. \A l \in Lines :
              [virtue |-> Learned(biases[l].virtue, c.from[l].virtue, c.to[l].virtue),
               shadow |-> Learned(biases[l].shadow, c.from[l].shadow, c.to[l].shadow)] \in Place
        BY <3>2 DEF Place
      <3> QED  BY <2>1, <3>3 DEF Moves
    <2> QED  BY <1>12, <2>1, <2>2 DEF Confirm
  <1>13. CASE UNCHANGED vars
    BY <1>13 DEF vars
  <1> QED  BY <1>1, <1>2, <1>3, <1>4, <1>5, <1>6, <1>7, <1>8, <1>9, <1>10, <1>11, <1>12, <1>13
           DEF Next, Pipeline

\* Every variable keeps its type: what is weighed is a point of the unit square,
\* what is corrected is one inside, and a bias is never more than a whole number.
LEMMA TypesHold == Spec => []TypeInv
  BY TypesInitially, TypesKept, PTL DEF Spec
-----------------------------------------------------------------------------
(* What is spoken. *)

\* A draft that was not put beside another may only be the words of no voice.
SpokenInv == SpokenIsWeighed /\ (pc = "judge" /\ ~connected => draft = NoVoice)

LEMMA SpokenInitially == Init => SpokenInv
  BY DEF Init, SpokenInv, SpokenIsWeighed

\* What is not flagged is far from every draft tried.
LEMMA NotFlagged ==
  ASSUME TypeInv, NEW r \in Rows, NEW anchor, ~Flagged(draft, r.at, tried, anchor)
  PROVE  \A i \in DOMAIN tried :
           tried[i].text # draft /\ Apart(r.at, tried[i].at) >= 20 ^ 2
  <1> SUFFICES ASSUME NEW i \in DOMAIN tried
               PROVE  tried[i].text # draft /\ Apart(r.at, tried[i].at) >= 20 ^ 2
    OBVIOUS
  <1>1. ~Repeats(draft, r.at, tried[i])
    BY DEF Flagged
  <1>2. tried[i].text # draft /\ ~(Apart(r.at, tried[i].at) < 20 ^ 2)
    BY <1>1 DEF Repeats
  <1>3. tried[i] \in Attempts
    BY DEF TypeInv
  <1>4. r.at \in Moves /\ tried[i].at \in Moves
    BY <1>3, PointsAreMoves DEF Rows, Attempts
  <1>5. Apart(r.at, tried[i].at) \in Nat
    BY <1>4, ApartIs
  <1>6. 20 ^ 2 \in Int
    OBVIOUS
  <1> QED  BY <1>2, <1>5, <1>6

LEMMA SpokenKept == TypeInv /\ SpokenInv /\ [Next]_vars => SpokenInv'
  <1> SUFFICES ASSUME TypeInv, SpokenInv, [Next]_vars PROVE SpokenInv'
    OBVIOUS
  <1> USE DEF SpokenInv, pipeline, learning
  <1>1. CASE Chat
    BY <1>1 DEF Chat, SpokenIsWeighed
  <1>2. CASE Generate
    BY <1>2 DEF Generate, SpokenIsWeighed
  <1>3. CASE Judge
    <2> DEFINE r == Evaluate(season, Encode(draft, message), biases)
    <2>1. /\ result' = r /\ pc = "judge" /\ UNCHANGED <<season, biases, connected, message, draft>>
          /\ IF result'.zone = "violation" /\ connected THEN pc' = "reflect"
             ELSE pc' = "record" /\ UNCHANGED tried
      BY <1>3 DEF Judge
    <2>2. tried = <<>>
      BY <2>1 DEF TypeInv
    <2>3. r = Evaluate(season', Encode(draft', message'), biases')
      BY <2>1
    <2> HIDE DEF r
    <2>4. CASE result'.zone = "violation"
      BY <2>1, <2>4 DEF SpokenIsWeighed
    <2>5. CASE result'.zone # "violation"
      <3>1. \A i \in DOMAIN tried' : FALSE
        BY <2>1, <2>2, <2>5
      <3> QED  BY <2>1, <2>3, <2>5, <3>1 DEF SpokenIsWeighed
    <2> QED  BY <2>4, <2>5
  <1>4. CASE Reflect
    BY <1>4 DEF Reflect, SpokenIsWeighed
  <1>5. CASE Rejudge
    <2> DEFINE r == Evaluate(season, Encode(draft, message), biases)
    <2>1. /\ pc = "rejudge" /\ UNCHANGED <<season, biases, connected, message>>
          /\ \/ /\ r.zone # "violation" /\ ~Flagged(draft, r.at, tried, tried[1].anchor)
                /\ result' = r /\ pc' = "record" /\ UNCHANGED <<draft, tried>>
             \/ Refuse(r)
      BY <1>5 DEF Rejudge
    <2>2. r \in Rows /\ tried # <<>>
      BY <2>1, Weighed DEF TypeInv
    <2>3. CASE Refuse(r)
      <3> HIDE DEF r
      <3>1. pc' = "reflect" \/ (pc' = "record" /\ draft' = Unavailable)
        BY <2>2, <2>3, RefusalIs
      <3> QED  BY <3>1 DEF SpokenIsWeighed
    <2>4. CASE /\ r.zone # "violation" /\ ~Flagged(draft, r.at, tried, tried[1].anchor)
               /\ result' = r /\ pc' = "record" /\ UNCHANGED <<draft, tried>>
      <3>1. r = Evaluate(season', Encode(draft', message'), biases')
        BY <2>1, <2>4
      <3> HIDE DEF r
      <3>2. \A i \in DOMAIN tried :
              tried[i].text # draft /\ Apart(r.at, tried[i].at) >= 20 ^ 2
        BY <2>2, <2>4, NotFlagged
      <3> QED  BY <2>4, <3>1, <3>2 DEF SpokenIsWeighed
    <2> QED  BY <2>1, <2>3, <2>4
  <1>6. CASE Record
    BY <1>6 DEF Record, SpokenIsWeighed
  <1>7. CASE Conclude
    BY <1>7 DEF Conclude, SpokenIsWeighed
  <1>8. CASE AttachModel \/ BeginSession \/ AdvanceSeason \/ Flag \/ Confirm
    <2>1. pc = "idle" /\ pc' = "idle"
      BY <1>8 DEF AttachModel, BeginSession, AdvanceSeason, Flag, Confirm
    <2> QED  BY <2>1 DEF SpokenIsWeighed
  <1>9. CASE UNCHANGED vars
    BY <1>9 DEF vars, SpokenIsWeighed
  <1> QED  BY <1>1, <1>2, <1>3, <1>4, <1>5, <1>6, <1>7, <1>8, <1>9 DEF Next, Pipeline

\* No draft of a driver is spoken unless it was weighed, with the biases and in
\* the season it is spoken with, found no violation, and found unlike each of
\* the drafts of its turn that were refused (apply_gate, lina_core.cpp:966-1037).
THEOREM SpokenWasWeighed == Spec => []SpokenIsWeighed
  <1>1. TypeInv /\ SpokenInv /\ [Next]_vars => SpokenInv'
    BY SpokenKept
  <1>2. SpokenInv => SpokenIsWeighed
    BY DEF SpokenInv
  <1> QED  BY <1>1, <1>2, SpokenInitially, TypesHold, PTL DEF Spec
-----------------------------------------------------------------------------
(* The account. *)

\* The replies whose rows say a zone.
Of(zone) == {i \in DOMAIN said : ledger[Found + i].zone = zone}

Written == Len(ledger) = Found + Len(said) + (IF pc = "conclude" THEN 1 ELSE 0)

\* A row is written before its reply is returned; and the words of a reply
\* withheld are nobody's draft, so they never go with any zone but one.
AccountInv ==
  /\ Accounted
  /\ Written
  /\ pc = "conclude" => ledger[Len(ledger)] = result
  /\ pc \in {"record", "conclude"} /\ draft = Unavailable => result.zone = "violation"
  /\ pc \in {"judge", "rejudge"} => draft # Unavailable

Tallied ==
  /\ \A i \in DOMAIN said : said[i] = Unavailable => ledger[Found + i].zone = "violation"
  /\ memories = [warm |-> Cardinality(Of("aligned")), wary |-> Cardinality(Of("variance"))]

LEMMA AccountIs == TypeInv /\ Written => (Accounted <=> Tallied)
  <1> SUFFICES ASSUME TypeInv, Written PROVE Accounted <=> Tallied
    OBVIOUS
  <1>1. pc = "idle" => Len(ledger) = Found + Len(said)
    <2>1. Found \in Int /\ Len(said) \in Int
      BY GateAssumption DEF TypeInv, GateAssumption, Found
    <2> QED  BY <2>1 DEF Written
  <1> QED  BY <1>1, Zenon DEF Accounted, Tallied, Of

LEMMA AccountIsNext == TypeInv' /\ Written' => (Accounted' <=> Tallied')
  BY AccountIs, PTL

LEMMA AccountInitially == Init => AccountInv
  <1> SUFFICES ASSUME Init PROVE AccountInv
    OBVIOUS
  <1>1. pc = "idle" /\ said = <<>> /\ ledger = Past /\ memories = [warm |-> 0, wary |-> 0]
    BY DEF Init
  <1>2. Found = Len(Past) /\ Found \in Nat /\ Len(said) = 0 /\ DOMAIN said = {}
    BY <1>1, GateAssumption DEF Found, GateAssumption
  <1>3. Of("aligned") = {} /\ Of("variance") = {}
    BY <1>2 DEF Of
  <1>4. Tallied
    BY <1>1, <1>2, <1>3, FS_EmptySet DEF Tallied
  <1>5. Written
    BY <1>1, <1>2 DEF Written
  <1>6. Accounted
    BY <1>1, <1>4, <1>5, TypesInitially, AccountIs
  <1> QED  BY <1>1, <1>5, <1>6 DEF AccountInv

\* As long as nothing is returned, a longer ledger tells of the same replies.
LEMMA TallyKept ==
  ASSUME TypeInv, Tallied, said' = said, memories' = memories,
         Len(ledger) >= Found + Len(said),
         \/ ledger' = ledger
         \/ \E r \in Rows : ledger' = Append(ledger, r)
  PROVE  Tallied'
  <1>1. /\ ledger \in Seq(Rows) /\ said \in Seq(Texts) /\ Found \in Nat
    BY GateAssumption DEF TypeInv, GateAssumption, Found
  <1>2. ASSUME NEW i \in DOMAIN said
        PROVE  ledger'[Found + i] = ledger[Found + i]
    <2>1. i \in 1..Len(said) /\ Len(said) \in Nat /\ Len(ledger) \in Nat
      BY <1>1, <1>2
    <2>2. Found + i \in 1..Len(ledger)
      BY <1>1, <2>1
    <2>3. ASSUME NEW r \in Rows, NEW j \in 1..Len(ledger)
          PROVE  Append(ledger, r)[j] = ledger[j]
      BY <1>1
    <2> QED  BY <2>2, <2>3
  <1>3. ASSUME NEW zone PROVE Of(zone)' = Of(zone)
    BY <1>2 DEF Of, Found
  <1>4. (Of("aligned") = Of("aligned")') /\ (Of("variance") = Of("variance")')
    BY <1>3
  <1> QED  BY <1>2, <1>4 DEF Tallied, Found

\* What a reply adds to the tally of its zone.
LEMMA OneMore ==
  ASSUME TypeInv, NEW d, said' = Append(said, d), ledger' = ledger,
         Len(ledger) = Found + Len(said) + 1, NEW zone
  PROVE  Cardinality(Of(zone)') =
           Cardinality(Of(zone)) + (IF ledger[Len(ledger)].zone = zone THEN 1 ELSE 0)
  <1> DEFINE n == Len(said) + 1
  <1>1. /\ said \in Seq(Texts) /\ Found \in Nat /\ Len(said) \in Nat
    BY GateAssumption DEF TypeInv, GateAssumption, Found
  <1>2. DOMAIN said' = DOMAIN said \cup {n} /\ n \notin DOMAIN said
    BY <1>1
  <1>3. Found + n = Len(ledger)
    BY <1>1
  <1>4. Of(zone)' = {i \in DOMAIN said' : ledger[Found + i].zone = zone}
    BY DEF Of, Found
  <1>5. IsFiniteSet(Of(zone)) /\ Cardinality(Of(zone)) \in Nat
    <2>1. DOMAIN said = 1..Len(said) /\ IsFiniteSet(1..Len(said))
      BY <1>1, FS_Interval
    <2>2. Of(zone) \in SUBSET (DOMAIN said)
      BY DEF Of
    <2> QED  BY <2>1, <2>2, FS_Subset, FS_CardinalityType
  <1> HIDE DEF n
  <1>6. CASE ledger[Len(ledger)].zone = zone
    <2>1. Of(zone)' = Of(zone) \cup {n} /\ n \notin Of(zone)
      BY <1>2, <1>3, <1>4, <1>6 DEF Of
    <2> QED  BY <1>5, <1>6, <2>1, FS_AddElement
  <1>7. CASE ledger[Len(ledger)].zone # zone
    <2>1. Of(zone)' = Of(zone)
      BY <1>2, <1>3, <1>4, <1>7 DEF Of
    <2> QED  BY <1>5, <1>7, <2>1
  <1> QED  BY <1>6, <1>7

\* A driver that writes the very words of a reply withheld cannot be told from
\* the gate: its drafts are other texts.
OtherWords == Unavailable \notin Drafts

LEMMA AccountKept == OtherWords /\ TypeInv /\ AccountInv /\ [Next]_vars => AccountInv'
  <1> SUFFICES ASSUME OtherWords, TypeInv, AccountInv, [Next]_vars PROVE AccountInv'
    OBVIOUS
  <1> USE DEF AccountInv, Written, pipeline, learning
  <1>1. TypeInv' /\ Tallied /\ (Written' => (Accounted' <=> Tallied'))
    <2> HIDE DEF Written
    <2> QED  BY TypesKept, AccountIs, AccountIsNext
  <1>2. Found' = Found /\ Found \in Nat /\ Len(said) \in Nat /\ Len(ledger) \in Nat
    BY GateAssumption DEF Found, GateAssumption, TypeInv
  \* Steps that neither write a row nor return a reply.
  <1>3. ASSUME UNCHANGED <<ledger, memories, said>>, pc # "conclude", pc' # "conclude"
        PROVE  Accounted' /\ Written'
    <2>1. Len(ledger) = Found + Len(said) + 0
      BY <1>3
    <2>2. Len(ledger) >= Found + Len(said)
      BY <1>2, <2>1
    <2>3. Tallied'
      BY <1>1, <1>3, <2>2, TallyKept
    <2>4. Len(ledger') = Found + Len(said') + (IF pc' = "conclude" THEN 1 ELSE 0)
      BY <1>3, <2>1
    <2>5. Written'
      BY <1>2, <2>4
    <2>6. Accounted'
      BY <1>1, <2>3, <2>5
    <2> QED  BY <2>5, <2>6
  <1>4. CASE Chat
    BY <1>2, <1>3, <1>4 DEF Chat
  <1>5. CASE Generate
    <2>1. draft' # Unavailable
      BY <1>5, TextsAre DEF Generate, OtherWords
    <2> QED  BY <1>2, <1>3, <1>5, <2>1 DEF Generate
  <1>6. CASE Judge
    <2>1. pc = "judge" /\ pc' \in {"reflect", "record"} /\ draft' = draft
          /\ UNCHANGED <<ledger, memories, said>>
      BY <1>6 DEF Judge
    <2> QED  BY <1>2, <1>3, <2>1
  <1>7. CASE Reflect
    <2>1. draft' # Unavailable
      BY <1>7 DEF Reflect, OtherWords
    <2> QED  BY <1>2, <1>3, <1>7, <2>1 DEF Reflect
  <1>8. CASE Rejudge
    <2> DEFINE r == Evaluate(season, Encode(draft, message), biases)
    <2>1. /\ pc = "rejudge" /\ UNCHANGED <<ledger, memories, said>>
          /\ \/ pc' = "record" /\ draft' = draft
             \/ Refuse(r)
      BY <1>8 DEF Rejudge
    <2>2. r \in Rows /\ tried # <<>>
      BY <2>1, Weighed DEF TypeInv
    <2> HIDE DEF r
    <2>3. CASE Refuse(r)
      <3>1. \/ pc' = "reflect"
            \/ pc' = "record" /\ result'.zone = "violation"
        BY <2>2, <2>3, RefusalIs
      <3> QED  BY <1>2, <1>3, <2>1, <3>1
    <2>4. CASE pc' = "record" /\ draft' = draft
      BY <1>2, <1>3, <2>1, <2>4
    <2> QED  BY <2>1, <2>3, <2>4
  <1>9. CASE Record
    <2>1. /\ pc = "record" /\ pc' = "conclude" /\ ledger' = Append(ledger, result)
          /\ UNCHANGED <<memories, said, result, draft>>
      BY <1>9 DEF Record
    <2>2. result \in Rows /\ ledger \in Seq(Rows)
      BY DEF TypeInv
    <2>3. Len(ledger) = Found + Len(said) + 0
      BY <2>1
    <2>4. Len(ledger) >= Found + Len(said)
      BY <1>2, <2>3
    <2>5. Tallied'
      BY <1>1, <2>1, <2>2, <2>4, TallyKept
    <2>6. Len(ledger') = Len(ledger) + 1 /\ ledger'[Len(ledger')] = result
      BY <2>1, <2>2
    <2>7. Len(ledger') = Found + Len(said') + (IF pc' = "conclude" THEN 1 ELSE 0)
      BY <1>2, <2>1, <2>3, <2>6
    <2>8. Accounted'
      BY <1>1, <1>2, <2>5, <2>7
    <2> QED  BY <1>2, <2>1, <2>6, <2>7, <2>8
  <1>10. CASE Conclude
    <2>1. /\ pc = "conclude" /\ pc' = "idle" /\ ledger' = ledger
          /\ said' = Append(said, draft)
      BY <1>10 DEF Conclude
    <2>2. Len(ledger) = Found + Len(said) + 1 /\ ledger[Len(ledger)] = result
      BY <2>1
    <2>3. said \in Seq(Texts) /\ ledger \in Seq(Rows) /\ draft \in Texts
      BY DEF TypeInv
    <2>4. Len(ledger') = Found + Len(said') + 0
      BY <1>2, <2>1, <2>2, <2>3
    <2>5. \A i \in DOMAIN said' :
            said'[i] = Unavailable => ledger'[Found' + i].zone = "violation"
      <3> SUFFICES ASSUME NEW i \in DOMAIN said', said'[i] = Unavailable
                   PROVE  ledger'[Found' + i].zone = "violation"
        OBVIOUS
      <3>1. CASE i \in DOMAIN said
        <4>1. said'[i] = said[i]
          BY <2>1, <2>3, <3>1
        <4> QED  BY <1>1, <1>2, <2>1, <3>1, <4>1 DEF Tallied
      <3>2. CASE i \notin DOMAIN said
        <4>1. i = Len(said) + 1 /\ said'[i] = draft
          BY <2>1, <2>3, <3>2
        <4>2. Found' + i = Len(ledger)
          BY <1>2, <2>2, <4>1
        <4> QED  BY <2>1, <2>2, <4>1, <4>2
      <3> QED  BY <3>1, <3>2
    <2>6. ASSUME NEW zone
          PROVE  Cardinality(Of(zone)') =
                   Cardinality(Of(zone)) + (IF result.zone = zone THEN 1 ELSE 0)
      BY <2>1, <2>2, OneMore
    <2>7. memories' = [warm |-> Cardinality(Of("aligned")'),
                       wary |-> Cardinality(Of("variance")')]
      <3>1. result.zone \in Zones
        BY DEF TypeInv, Rows
      <3>2. memories.warm = Cardinality(Of("aligned")) /\ memories.wary = Cardinality(Of("variance"))
            /\ memories \in [warm : Nat, wary : Nat]
        BY <1>1 DEF Tallied, TypeInv
      <3>3. memories' = [warm |-> memories.warm + (IF result.zone = "aligned" THEN 1 ELSE 0),
                         wary |-> memories.wary + (IF result.zone = "variance" THEN 1 ELSE 0)]
        <4>1. CASE result.zone = "violation"
          BY <1>10, <3>2, <4>1 DEF Conclude
        <4>2. CASE result.zone = "variance"
          BY <1>10, <3>2, <4>2 DEF Conclude
        <4>3. CASE result.zone = "aligned"
          BY <1>10, <3>2, <4>3 DEF Conclude
        <4> QED  BY <3>1, <4>1, <4>2, <4>3 DEF Zones
      <3> QED  BY <2>6, <3>2, <3>3
    <2>8. Tallied'
      BY <2>5, <2>7 DEF Tallied
    <2>9. Written'
      BY <1>2, <2>1, <2>4
    <2>10. Accounted'
      BY <1>1, <2>8, <2>9
    <2> QED  BY <2>1, <2>9, <2>10
  <1>11. CASE AttachModel \/ BeginSession \/ AdvanceSeason \/ Flag \/ Confirm
    <2>1. pc = "idle" /\ pc' = "idle" /\ UNCHANGED <<ledger, memories, said>>
      BY <1>11 DEF AttachModel, BeginSession, AdvanceSeason, Flag, Confirm
    <2> QED  BY <1>2, <1>3, <2>1
  <1>12. CASE UNCHANGED vars
    <2>1. UNCHANGED <<pc, ledger, memories, said, result, draft>>
      BY <1>12 DEF vars
    <2>2. Len(ledger) >= Found + Len(said)
      BY <1>2
    <2>3. Tallied'
      BY <1>1, <2>1, <2>2, TallyKept
    <2>4. Written'
      BY <1>2, <2>1
    <2>5. Accounted'
      BY <1>1, <2>3, <2>4
    <2> QED  BY <2>1, <2>4, <2>5
  <1> QED  BY <1>4, <1>5, <1>6, <1>7, <1>8, <1>9, <1>10, <1>11, <1>12 DEF Next, Pipeline

\* However the passes of a turn go, whatever is learned, corrected or crossed
\* between two turns: the ledger has a row for each reply, its zone is the one
\* the memory was formed by, and the words of a reply withheld go with a row
\* that says a violation (chat(), apply_gate, lina_core.cpp:890-1068).
THEOREM RepliesAccounted == OtherWords /\ Spec => []Accounted
  <1>1. OtherWords /\ TypeInv /\ AccountInv /\ [Next]_vars => AccountInv'
    BY AccountKept
  <1>2. OtherWords => OtherWords'
    BY DEF OtherWords, Unavailable
  <1>3. AccountInv => Accounted
    BY DEF AccountInv
  <1> QED  BY <1>1, <1>2, <1>3, AccountInitially, TypesHold, PTL DEF Spec
-----------------------------------------------------------------------------
(* Her baseline. *)

\* Where a text without words is put: 85% of her home.
Base(l) ==
  CASE l \in {"harmony", "grace"} -> [virtue |-> 110, shadow |-> 42]
    [] l \in {"order", "flourishing"} -> [virtue |-> 119, shadow |-> 25]
    [] l = "integrity" -> [virtue |-> 136, shadow |-> 17]
    [] l = "relationships" -> [virtue |-> 127, shadow |-> 34]
    [] l = "boundaries" -> [virtue |-> 127, shadow |-> 25]

LEMMA SilencePut ==
  ASSUME NEW n \in 0..One
  PROVE  Put(n, 0, 0) = Clamp((8500 * n) \div 10000, 0, One)
  <1>1. (10 * 0 + 4 * 0) \div 10 = 0
    OBVIOUS
  <1>2. Clamp(0, -10000, 10000) = 0
    BY DEF Clamp
  <1>3. n \in Int /\ 8500 * n + 70 * 0 = 8500 * n
    BY DEF One
  <1> QED  BY <1>1, <1>2, <1>3 DEF Put

LEMMA SilenceIs ==
  ASSUME NEW l \in Lines
  PROVE  Encode(<<>>, <<>>)[l] = Base(l)
  <1>1. l \in PlumbLines
    BY LinesAssumption DEF LinesAssumption
  <1>2. Encode(<<>>, <<>>)[l] = [virtue |-> Put(Origin(l)["virtue"], 0, 0),
                                 shadow |-> Put(Origin(l)["shadow"], 0, 0)]
    BY NothingHeard DEF Encode, Put
  <1>3. ASSUME NEW n \in 0..200 PROVE Put(n, 0, 0) = (8500 * n) \div 10000
    <2>1. (8500 * n) \div 10000 \in 0..200
      OBVIOUS
    <2>2. \A m \in 0..200 : Clamp(m, 0, One) = m
      BY DEF Clamp, One
    <2> QED  BY <2>1, <2>2, SilencePut DEF One
  <1>4. /\ Put(20, 0, 0) = 17 /\ Put(30, 0, 0) = 25 /\ Put(40, 0, 0) = 34 /\ Put(50, 0, 0) = 42
        /\ Put(130, 0, 0) = 110 /\ Put(140, 0, 0) = 119 /\ Put(150, 0, 0) = 127
        /\ Put(160, 0, 0) = 136
    BY <1>3
  <1> QED  BY <1>1, <1>2, <1>4 DEF PlumbLines, Origin, Base

\* What may be near it, by a slight drift.
Around(l) ==
  {p \in Place : /\ Base(l).virtue - 10 <= p.virtue /\ p.virtue <= Base(l).virtue + 10
                 /\ Base(l).shadow - 10 <= p.shadow /\ p.shadow <= Base(l).shadow + 10}

LEMMA DriftedIs ==
  ASSUME NEW b \in Slight, NEW l \in Lines
  PROVE  ApplyBiases(Encode(<<>>, <<>>), b)[l] \in Around(l)
  <1>1. l \in PlumbLines
    BY LinesAssumption DEF LinesAssumption
  <1>2. /\ Base(l) \in Place
        /\ Base(l).virtue \in 110..136 /\ Base(l).shadow \in 17..42
    BY <1>1 DEF PlumbLines, Base, Place
  <1>3. b[l].virtue \in -10..10 /\ b[l].shadow \in -10..10
    BY DEF Slight
  <1>4. \A n \in 0..200 : Clamp(n, 0, One) = n
    BY DEF Clamp, One
  <1> DEFINE v == Base(l).virtue + b[l].virtue
             s == Base(l).shadow + b[l].shadow
  <1>5. v \in 0..200 /\ s \in 0..200
    BY <1>2, <1>3
  <1>6. ApplyBiases(Encode(<<>>, <<>>), b)[l]
          = [virtue |-> Clamp(v, 0, One), shadow |-> Clamp(s, 0, One)]
    BY SilenceIs DEF ApplyBiases
  <1>7. ApplyBiases(Encode(<<>>, <<>>), b)[l] = [virtue |-> v, shadow |-> s]
    <2> HIDE DEF v, s
    <2> QED  BY <1>4, <1>5, <1>6
  <1>8. [virtue |-> v, shadow |-> s] \in Around(l)
    <2>1. [virtue |-> v, shadow |-> s] \in Place
      BY <1>5 DEF Place
    <2>2. /\ Base(l).virtue - 10 <= v /\ v <= Base(l).virtue + 10
          /\ Base(l).shadow - 10 <= s /\ s <= Base(l).shadow + 10
      BY <1>2, <1>3
    <2> HIDE DEF v, s
    <2> QED  BY <2>1, <2>2 DEF Around
  <1> QED  BY <1>7, <1>8

\* No season is narrower than the first.
LEMMA BoundsOpen ==
  ASSUME NEW sn \in Seasons, NEW l \in PlumbLines
  PROVE  /\ Bounds(sn, l).virtue \in Int /\ Bounds(sn, l).shadow \in Int
         /\ Bounds(sn, l).virtue <= (CASE l \in {"harmony", "grace"} -> 60
                                       [] l \in {"order", "flourishing"} -> 80
                                       [] l = "integrity" -> 120
                                       [] l \in {"relationships", "boundaries"} -> 100)
         /\ Bounds(sn, l).shadow >= (CASE l \in {"harmony", "grace"} -> 100
                                       [] l \in {"order", "flourishing", "boundaries"} -> 60
                                       [] l = "integrity" -> 40
                                       [] l = "relationships" -> 80)
  <1> USE DEF PlumbLines, Bounds, Bound
  <1>1. CASE sn = "spring"
    BY <1>1 DEF Spring
  <1>2. CASE sn = "summer"
    BY <1>2 DEF Summer
  <1>3. CASE sn = "fall"
    BY <1>3 DEF Fall
  <1>4. CASE sn = "winter"
    BY <1>4 DEF Winter
  <1> QED  BY <1>1, <1>2, <1>3, <1>4 DEF Seasons

\* Only on the line of integrity can a slight drift reach a wall.
LEMMA AroundIsInside ==
  ASSUME NEW sn \in Seasons, NEW l \in PlumbLines, l # "integrity", NEW p \in Around(l)
  PROVE  Inside(sn, l, p)
  <1>1. p \in Place /\ p.virtue \in Int /\ p.shadow \in Int
    BY DEF Around, Place
  <1>2. CASE l \in {"harmony", "grace"}
    <2>1. /\ 100 <= p.virtue /\ p.virtue <= 120 /\ 32 <= p.shadow /\ p.shadow <= 52
      BY <1>2 DEF Around, Base
    <2>2. Lead(l) = 40 /\ Restraint(l) = 220
      BY <1>2 DEF Lead, Restraint
    <2>3. Bounds(sn, l).virtue <= 60 /\ Bounds(sn, l).shadow >= 100
          /\ Bounds(sn, l).virtue \in Int /\ Bounds(sn, l).shadow \in Int
      BY <1>2, BoundsOpen
    <2> QED  BY <1>1, <2>1, <2>2, <2>3, InsideIs DEF One
  <1>3. CASE l \in {"order", "flourishing"}
    <2>1. /\ 109 <= p.virtue /\ p.virtue <= 129 /\ 15 <= p.shadow /\ p.shadow <= 35
      BY <1>3 DEF Around, Base
    <2>2. Lead(l) = 70 /\ Restraint(l) = 210
      BY <1>3 DEF Lead, Restraint
    <2>3. Bounds(sn, l).virtue <= 80 /\ Bounds(sn, l).shadow >= 60
          /\ Bounds(sn, l).virtue \in Int /\ Bounds(sn, l).shadow \in Int
      BY <1>3, BoundsOpen
    <2> QED  BY <1>1, <2>1, <2>2, <2>3, InsideIs DEF One
  <1>4. CASE l = "relationships"
    <2>1. /\ 117 <= p.virtue /\ p.virtue <= 137 /\ 24 <= p.shadow /\ p.shadow <= 44
      BY <1>4 DEF Around, Base
    <2>2. Lead(l) = 70 /\ Restraint(l) = 230
      BY <1>4 DEF Lead, Restraint
    <2>3. Bounds(sn, l).virtue <= 100 /\ Bounds(sn, l).shadow >= 80
          /\ Bounds(sn, l).virtue \in Int /\ Bounds(sn, l).shadow \in Int
      BY <1>4, BoundsOpen
    <2> QED  BY <1>1, <2>1, <2>2, <2>3, InsideIs DEF One
  <1>5. CASE l = "boundaries"
    <2>1. /\ 117 <= p.virtue /\ p.virtue <= 137 /\ 15 <= p.shadow /\ p.shadow <= 35
      BY <1>5 DEF Around, Base
    <2>2. Lead(l) = 80 /\ Restraint(l) = 220
      BY <1>5 DEF Lead, Restraint
    <2>3. Bounds(sn, l).virtue <= 100 /\ Bounds(sn, l).shadow >= 60
          /\ Bounds(sn, l).virtue \in Int /\ Bounds(sn, l).shadow \in Int
      BY <1>5, BoundsOpen
    <2> QED  BY <1>1, <2>1, <2>2, <2>3, InsideIs DEF One
  <1> QED  BY <1>2, <1>3, <1>4, <1>5 DEF PlumbLines

\* And there it grazes the wall by a unit, which one step takes back.
LEMMA IntegrityGrazes ==
  ASSUME NEW sn \in Seasons, NEW p \in Around("integrity")
  PROVE  Squared(p, Nearest(sn, "integrity", p)) \in 0..1
  <1> DEFINE l == "integrity"
  <1>1. l \in PlumbLines /\ p \in Place /\ p.virtue \in Int /\ p.shadow \in Int
    BY DEF PlumbLines, Around, Place
  <1>2. /\ 126 <= p.virtue /\ p.virtue <= 146 /\ 7 <= p.shadow /\ p.shadow <= 27
    BY DEF Around, Base
  <1>3. Lead(l) = 100 /\ Restraint(l) = 220
    BY DEF Lead, Restraint
  <1>4. Bounds(sn, l).virtue <= 120 /\ Bounds(sn, l).shadow >= 40
        /\ Bounds(sn, l).virtue \in Int /\ Bounds(sn, l).shadow \in Int
    BY <1>1, BoundsOpen
  <1>5. Nearest(sn, l, p) \in Place /\ Squared(p, Nearest(sn, l, p)) \in Nat
    BY <1>1, NearestIs, SquaredIs
  <1>6. CASE Inside(sn, l, p)
    BY <1>1, <1>5, <1>6, NearestIs, SquaredIs
  <1>7. CASE ~Inside(sn, l, p)
    <2>1. p.virtue = 126 /\ p.shadow = 27
      BY <1>1, <1>2, <1>3, <1>4, <1>7, InsideIs DEF One
    <2> DEFINE f == SixFacets(sn, l)[5]
               q == [virtue |-> 127, shadow |-> 27]
    <2>2. f \in Facets[sn][l] /\ f.v = -1 /\ f.s = 1 /\ f.b = -100
      BY <1>1, <1>3, FacetsAreSix DEF SixFacets, Facet
    <2> HIDE DEF f
    <2>3. Slack(f, p) = -1 /\ Norm(f) = 2
      BY <2>1, <2>2 DEF Slack, Norm
    <2>4. Foot(f, p) = q
      BY <2>1, <2>2, <2>3 DEF Foot
    <2>5. q \in Place /\ q.virtue = 127 /\ q.shadow = 27
      BY DEF Place
    <2>6. Inside(sn, l, q)
      BY <1>1, <1>3, <1>4, <2>5, InsideIs DEF One
    <2>7. Squared(p, q) = 1
      BY <2>1, <2>5 DEF Squared, Square
    <2>8. Squared(p, Nearest(sn, l, p)) <= Squared(p, q)
      <3> HIDE DEF q
      <3> QED  BY <1>1, <2>2, <2>4, <2>6, NearestIs
    <2> QED  BY <1>5, <2>7, <2>8
  <1> QED  BY <1>6, <1>7

\* A drift carries silence a unit past a wall at most.
LEMMA SilenceCorrected ==
  ASSUME NEW sn \in Seasons, NEW x \in Points, \A l \in Lines : x[l] \in Around(l)
  PROVE  Apart(x, Project(sn, x)) \in 0..1
  <1> DEFINE f == [l \in Lines |-> Squared(x[l], Project(sn, x)[l])]
  <1>1. IsFiniteSet(Lines) /\ Lines \subseteq PlumbLines
    BY LinesAssumption DEF LinesAssumption
  <1>2. ASSUME NEW l \in Lines
        PROVE  /\ f[l] = Squared(x[l], Nearest(sn, l, x[l])) /\ f[l] \in Nat
               /\ l # "integrity" => f[l] = 0
               /\ l = "integrity" => f[l] \in 0..1
    <2>1. l \in PlumbLines /\ x[l] \in Place /\ x[l] \in Around(l)
      BY <1>1 DEF Around
    <2>2. f[l] = Squared(x[l], Nearest(sn, l, x[l]))
      BY DEF Project
    <2> HIDE DEF f
    <2>3. Nearest(sn, l, x[l]) \in Place
      BY <2>1, NearestIs
    <2>4. f[l] \in Nat
      BY <2>1, <2>2, <2>3, SquaredIs
    <2>5. CASE l = "integrity"
      BY <2>1, <2>2, <2>4, <2>5, IntegrityGrazes
    <2>6. CASE l # "integrity"
      <3>1. Inside(sn, l, x[l])
        BY <2>1, <2>6, AroundIsInside
      <3>2. Nearest(sn, l, x[l]) = x[l]
        BY <2>1, <3>1, NearestIs
      <3> QED  BY <2>1, <2>2, <2>3, <2>4, <2>6, <3>2, SquaredIs
    <2> QED  BY <2>2, <2>4, <2>5, <2>6
  <1>3. Apart(x, Project(sn, x)) = SumFunction(f)
    BY DEF Apart
  <1>4. f \in [Lines -> Nat]
    BY <1>2
  <1> HIDE DEF f
  <1>5. \A l \in Lines : l # "integrity" => f[l] = 0
    BY <1>2
  <1>6. SumFunction(f) = IF "integrity" \in Lines THEN f["integrity"] ELSE 0
    BY <1>1, <1>4, <1>5, SumOfOne
  <1>7. "integrity" \in Lines => f["integrity"] \in 0..1
    BY <1>2
  <1> QED  BY <1>3, <1>6, <1>7

LEMMA ToleranceIs ==
  ASSUME NEW sn \in Seasons
  PROVE  /\ Square(Tolerance(sn).variance) \in Nat /\ Square(Tolerance(sn).variance) >= 100
         /\ Tolerance(sn).aligned \in 4..8
  BY DEF Seasons, Tolerance, Square

\* Where a drift leaves harmony or grace, every wall is eight units off.
LEMMA HarmonyIsClear ==
  ASSUME NEW sn \in Seasons, NEW l \in {"harmony", "grace"}, NEW p \in Around(l),
         NEW f \in Facets[sn][l], f.critical
  PROVE  Slack(f, p) \in Nat /\ Slack(f, p) >= 8
  <1>1. l \in PlumbLines /\ p \in Place /\ p.virtue \in Int /\ p.shadow \in Int
    BY DEF PlumbLines, Around, Place
  <1>2. /\ 100 <= p.virtue /\ p.virtue <= 120 /\ 32 <= p.shadow /\ p.shadow <= 52
    BY DEF Around, Base
  <1>3. Lead(l) = 40 /\ Restraint(l) = 220
    BY DEF Lead, Restraint
  <1>4. Bounds(sn, l).virtue <= 60 /\ Bounds(sn, l).shadow >= 100
        /\ Bounds(sn, l).virtue \in Int /\ Bounds(sn, l).shadow \in Int
    BY <1>1, BoundsOpen
  <1> DEFINE S(i) == Slack(SixFacets(sn, l)[i], p)
  <1>5. /\ S(2) = p.virtue - Bounds(sn, l).virtue
        /\ S(3) = Bounds(sn, l).shadow - p.shadow
        /\ S(5) = p.virtue - p.shadow - Lead(l) /\ S(6) = Restraint(l) - p.virtue - p.shadow
    BY <1>1, SlacksAre
  <1>6. \E i \in {2, 3, 5, 6} : f = SixFacets(sn, l)[i]
    <2>1. \E i \in {1, 2, 3, 4, 5, 6} : f = SixFacets(sn, l)[i]
      BY <1>1, FacetsAreSix
    <2>2. SixFacets(sn, l)[1].critical = FALSE /\ SixFacets(sn, l)[4].critical = FALSE
      BY DEF SixFacets, Facet
    <2> QED  BY <2>1, <2>2
  <1>7. \E i \in {2, 3, 5, 6} : Slack(f, p) = S(i)
    BY <1>6
  <1> HIDE DEF S
  <1> QED  BY <1>1, <1>2, <1>3, <1>4, <1>5, <1>7

\* The walls of the lattice are the critical facets of its lines.
LEMMA WallsAre ==
  ASSUME NEW sn \in Seasons, NEW l \in Lines, NEW f \in Facets[sn][l], f.critical
  PROVE  <<l, f>> \in Walls[sn]
  <1> DEFINE critical(k) == {k} \X {h \in Facets[sn][k] : h.critical}
  <1>1. Walls[sn] = UNION {critical(k) : k \in Lines}
    BY DEF Walls
  <1>2. <<l, f>> \in critical(l)
    OBVIOUS
  <1> HIDE DEF critical
  <1> QED  BY <1>1, <1>2

\* A set of margins of which none is under eight has a least one.
LEMMA LeastMargin ==
  ASSUME NEW sn \in Seasons, NEW x \in Points, Lines \subseteq {"harmony", "grace"},
         \A l \in Lines : x[l] \in Around(l)
  PROVE  Min(Margins(sn, x)) \in Nat /\ Min(Margins(sn, x)) >= 8
  <1>1. Lines # {} /\ Lines \subseteq PlumbLines
    BY LinesAssumption DEF LinesAssumption
  <1>2. ASSUME NEW m \in Margins(sn, x) PROVE m \in Nat /\ m >= 8
    <2>1. PICK w \in Walls[sn] : m = Slack(w[2], x[w[1]])
      BY <1>2 DEF Margins
    <2>2. PICK l \in Lines : w \in {l} \X {f \in Facets[sn][l] : f.critical}
      BY DEF Walls
    <2>3. w[1] = l /\ w[2] \in Facets[sn][l] /\ w[2].critical
      BY <2>2
    <2>4. l \in {"harmony", "grace"} /\ x[l] \in Around(l)
      OBVIOUS
    <2> QED  BY <2>1, <2>3, <2>4, HarmonyIsClear
  <1>3. Margins(sn, x) # {}
    <2>1. PICK l \in Lines : l \in PlumbLines
      BY <1>1
    <2>2. SixFacets(sn, l)[2] \in Facets[sn][l] /\ SixFacets(sn, l)[2].critical
      BY <2>1, FacetsAreSix DEF SixFacets, Facet
    <2>3. <<l, SixFacets(sn, l)[2]>> \in Walls[sn]
      BY <2>2, WallsAre
    <2> QED  BY <2>3 DEF Margins
  <1>4. PICK m \in Margins(sn, x) : \A n \in Margins(sn, x) : m <= n
    BY <1>2, <1>3, Smallest
  <1>5. Min(Margins(sn, x)) \in Margins(sn, x)
    BY <1>4 DEF Min
  <1> QED  BY <1>2, <1>5

LEMMA SilenceWeighed ==
  ASSUME NEW sn \in Seasons, NEW b \in Slight
  PROVE  LET zone == Evaluate(sn, Encode(<<>>, <<>>), b).zone IN
         /\ zone # "violation"
         /\ Lines \subseteq {"harmony", "grace"} /\ sn # "fall" => zone = "aligned"
  <1> DEFINE x == ApplyBiases(Encode(<<>>, <<>>), b)
             zone == Evaluate(sn, Encode(<<>>, <<>>), b).zone
  <1>1. x \in Points
    BY EncodeIs, BiasedIs, SlightAreMoves, TextsAre
  <1>2. \A l \in Lines : x[l] \in Around(l)
    BY DriftedIs
  <1>3. zone = EvaluateAt(sn, x).zone
    BY DEF Evaluate
  <1> HIDE DEF x, zone
  <1>4. CASE ~InLattice(sn, x)
    <2>1. zone = ClassifyZone(sn, x, Apart(x, Project(sn, x)))
      BY <1>3, <1>4 DEF EvaluateAt
    <2>2. Apart(x, Project(sn, x)) \in 0..1
      BY <1>1, <1>2, SilenceCorrected
    <2>3. Apart(x, Project(sn, x)) <= Square(Tolerance(sn).variance)
      BY <2>2, ToleranceIs
    <2>4. zone = "variance"
      BY <1>4, <2>1, <2>3 DEF ClassifyZone
    <2>5. ~(Lines \subseteq {"harmony", "grace"})
      <3>1. SUFFICES ASSUME Lines \subseteq {"harmony", "grace"} PROVE InLattice(sn, x)
        BY <1>4
      <3>2. \A l \in Lines : l \in PlumbLines /\ l # "integrity"
        BY <3>1 DEF PlumbLines
      <3> QED  BY <1>2, <3>2, AroundIsInside DEF InLattice
    <2> QED  BY <2>4, <2>5 DEF zone
  <1>5. CASE InLattice(sn, x)
    <2>1. zone = ClassifyZone(sn, x, 0)
      BY <1>3, <1>5 DEF EvaluateAt
    <2>2. zone = IF Min(Margins(sn, x)) >= Tolerance(sn).aligned THEN "aligned" ELSE "variance"
      BY <1>5, <2>1 DEF ClassifyZone
    <2>3. Lines \subseteq {"harmony", "grace"} => Min(Margins(sn, x)) >= Tolerance(sn).aligned
      BY <1>1, <1>2, LeastMargin, ToleranceIs
    <2>4. zone # "violation" /\ (Lines \subseteq {"harmony", "grace"} => zone = "aligned")
      BY <2>2, <2>3
    <2> QED  BY <2>4 DEF zone
  <1> QED  BY <1>4, <1>5

\* As long as no correction was confirmed, what is learned is slight.
BaselineInv == confirmed = {} => biases \in Slight

LEMMA BaselineInitially == Init => BaselineInv
  <1>1. Nowhere \in Slight
    BY DEF Nowhere, Slight
  <1> QED  BY <1>1 DEF Init, BaselineInv

LEMMA BaselineKept == TypeInv /\ BaselineInv /\ [Next]_vars => BaselineInv'
  <1> SUFFICES ASSUME TypeInv, BaselineInv, [Next]_vars, confirmed' = {}
               PROVE  biases' \in Slight
    BY DEF BaselineInv
  <1> USE DEF BaselineInv, learning
  <1>1. CASE Record
    <2>1. ledger' \in Seq(Rows) /\ season \in Seasons
      BY <1>1 DEF Record, TypeInv
    <2> QED  BY <1>1, <2>1, DriftIs DEF Record
  <1>2. CASE Confirm
    <2>1. \E by \in {"user", "lina"}, c \in pending :
            confirmed' = confirmed \cup {[by |-> by, flagged |-> c.season]}
      BY <1>2 DEF Confirm
    <2> QED  BY <2>1
  <1>3. CASE Chat \/ Generate \/ Judge \/ Reflect \/ Rejudge \/ Conclude
    BY <1>3 DEF Chat, Generate, Judge, Reflect, Rejudge, Conclude
  <1>4. CASE AttachModel \/ BeginSession \/ AdvanceSeason \/ Flag
    BY <1>4 DEF AttachModel, BeginSession, AdvanceSeason, Flag
  <1>5. CASE UNCHANGED vars
    BY <1>5 DEF vars
  <1> QED  BY <1>1, <1>2, <1>3, <1>4, <1>5 DEF Next, Pipeline

\* Whatever the outcomes in the ledger, and however long they were learned from,
\* silence is never judged a violation, on any of the seven lines and in any
\* season; on those of harmony and grace it stays aligned but in fall
\* (update_outcome_drift, lina_core.cpp:1074-1112; the numbers are those of
\* DEFAULT_CENTER, COUPLING_FACETS and get_seasonal_bounds).
THEOREM BaselineStands == Spec => []BaselineHolds
  <1>1. TypeInv /\ BaselineInv /\ [Next]_vars => BaselineInv'
    BY BaselineKept
  <1>2. TypeInv /\ BaselineInv => BaselineHolds
    <2> SUFFICES ASSUME TypeInv, BaselineInv, confirmed = {}
                 PROVE  LET zone == Evaluate(season, Encode(<<>>, <<>>), biases).zone IN
                        /\ zone # "violation"
                        /\ Lines \subseteq {"harmony", "grace"} /\ season # "fall"
                             => zone = "aligned"
      BY DEF BaselineHolds
    <2> QED  BY SilenceWeighed DEF TypeInv, BaselineInv
  <1> QED  BY <1>1, <1>2, BaselineInitially, TypesHold, PTL DEF Spec
-----------------------------------------------------------------------------
(* The walls a frame names. *)

LEMMA WallIs ==
  ASSUME NEW sn \in Seasons, NEW w \in Walls[sn]
  PROVE  w[1] \in Lines /\ w[2] \in Facets[sn][w[1]] /\ Norm(w[2]) \in {1, 2}
  <1>1. PICK l \in Lines : w \in {l} \X {f \in Facets[sn][l] : f.critical}
    BY DEF Walls
  <1>2. w[1] = l /\ w[2] \in Facets[sn][l] /\ l \in PlumbLines
    BY <1>1, LinesAssumption DEF LinesAssumption
  <1> QED  BY <1>2, FacetsAre

\* Every lattice has a wall that leaves its centre 62 units at most.
LEMMA AWall ==
  ASSUME NEW sn \in Seasons
  PROVE  \E w \in Walls[sn] : Slack(w[2], Center(sn)[w[1]]) <= 62
  <1>1. PICK l \in Lines : l \in PlumbLines
    BY LinesAssumption DEF LinesAssumption
  <1> DEFINE f == SixFacets(sn, l)[3]
             bs == Bounds(sn, l).shadow
             bv == Bounds(sn, l).virtue
             c == Center(sn)[l]
  <1>2. f \in Facets[sn][l] /\ f.critical
    BY <1>1, FacetsAreSix DEF SixFacets, Facet
  <1>3. bs \in 40..124 /\ bv \in 36..120
    BY <1>1, BoundsAre
  <1>4. c.shadow = bs \div 2 /\ c.virtue = (bv + One) \div 2
    BY DEF Center
  <1> HIDE DEF bs, bv
  <1>5. c.shadow \in Int /\ c.virtue \in Int /\ bs - c.shadow <= 62
    BY <1>3, <1>4 DEF One
  <1>6. c \in Place
    BY <1>1, CenterIs
  <1>7. Slack(f, c) = bs - c.shadow
    BY <1>1, <1>6, SlacksAre DEF bs
  <1> DEFINE w == <<l, f>>
  <1>8. w \in Walls[sn] /\ w[1] = l /\ w[2] = f
    BY <1>2, WallsAre
  <1> HIDE DEF f, c, w
  <1>9. Slack(w[2], Center(sn)[w[1]]) <= 62
    BY <1>5, <1>7, <1>8 DEF c
  <1> QED  BY <1>8, <1>9

\* The least of the margins is one of them, and no other is less.
LEMMA MarginsAre ==
  ASSUME NEW sn \in Seasons, NEW x, NEW k \in Nat,
         \A w \in Walls[sn] : Slack(w[2], x[w[1]]) \in Nat /\ Slack(w[2], x[w[1]]) >= k
  PROVE  /\ Min(Margins(sn, x)) \in Nat /\ Min(Margins(sn, x)) >= k
         /\ \A w \in Walls[sn] : Min(Margins(sn, x)) <= Slack(w[2], x[w[1]])
  <1>1. Margins(sn, x) \subseteq Nat /\ \A m \in Margins(sn, x) : m >= k
    BY DEF Margins
  <1>2. Margins(sn, x) # {}
    BY AWall DEF Margins
  <1>3. PICK m \in Margins(sn, x) : \A n \in Margins(sn, x) : m <= n
    BY <1>1, <1>2, Smallest
  <1>4. /\ Min(Margins(sn, x)) \in Margins(sn, x)
        /\ \A n \in Margins(sn, x) : Min(Margins(sn, x)) <= n
    BY <1>3 DEF Min
  <1>5. \A w \in Walls[sn] : Slack(w[2], x[w[1]]) \in Margins(sn, x)
    BY DEF Margins
  <1> QED  BY <1>1, <1>4, <1>5

\* Inside, what a wall leaves is a whole number of units.
LEMMA MarginIs ==
  ASSUME NEW sn \in Seasons, NEW x \in [Lines -> Place], InLattice(sn, x), NEW w \in Walls[sn]
  PROVE  Slack(w[2], x[w[1]]) \in Nat
  <1> DEFINE l == w[1]
             f == w[2]
  <1>1. l \in Lines /\ l \in PlumbLines /\ f \in Facets[sn][l]
    BY WallIs, LinesAssumption DEF LinesAssumption
  <1> HIDE DEF l, f
  <1>2. x[l].virtue \in Int /\ x[l].shadow \in Int
    BY <1>1 DEF Place
  <1>3. f.v \in {-1, 0, 1} /\ f.s \in {-1, 0, 1} /\ f.b \in Int
    BY <1>1, FacetsAre
  <1>4. Slack(f, x[l]) \in Int
    BY <1>2, <1>3 DEF Slack
  <1>5. Slack(f, x[l]) >= 0
    BY <1>1 DEF InLattice, Inside
  <1> QED  BY <1>4, <1>5 DEF l, f

\* How far off a wall is, for the order of the nearest: twice the square of the
\* distance.
LEMMA CloserIs ==
  ASSUME NEW a \in Nat, NEW b \in Nat, NEW n \in {1, 2}, NEW m \in {1, 2},
         a * (IF a < 0 THEN -a ELSE a) * m < b * (IF b < 0 THEN -b ELSE b) * n
  PROVE  (IF n = 1 THEN 2 * (a * a) ELSE a * a) < (IF m = 1 THEN 2 * (b * b) ELSE b * b)
  <1> DEFINE aa == a * a
             bb == b * b
  <1>1. aa \in Nat /\ bb \in Nat
    OBVIOUS
  <1>2. ~(a < 0) /\ ~(b < 0)
    OBVIOUS
  <1>3. aa * m < bb * n
    BY <1>2
  <1> HIDE DEF aa, bb
  <1>4. (IF n = 1 THEN 2 * aa ELSE aa) < (IF m = 1 THEN 2 * bb ELSE bb)
    BY <1>1, <1>3
  <1> QED  BY <1>4 DEF aa, bb

\* If no wall is named none is near: the nearest of those near has none nearer,
\* and is named.
LEMMA NothingNear ==
  ASSUME NEW sn \in Seasons, NEW x \in [Lines -> Place], InLattice(sn, x),
         NearWalls(sn, x) = {}, NEW w \in Walls[sn]
  PROVE  Slack(w[2], x[w[1]]) >= 11
  <1> DEFINE margin(u) == Slack(u[2], x[u[1]])
             closer(u, v) ==
               margin(u) * (IF margin(u) < 0 THEN -margin(u) ELSE margin(u)) * Norm(v[2])
                 < margin(v) * (IF margin(v) < 0 THEN -margin(v) ELSE margin(v)) * Norm(u[2])
             near == {u \in Walls[sn] : \/ margin(u) < 0
                                        \/ Square(margin(u)) <= Square(Near) * Norm(u[2])}
             far(u) == IF Norm(u[2]) = 1 THEN 2 * (margin(u) * margin(u)) ELSE margin(u) * margin(u)
  <1>1. NearWalls(sn, x) = {u \in near : Cardinality({v \in near : closer(v, u)}) < 4}
    BY DEF NearWalls
  <1>2. \A u \in Walls[sn] : margin(u) \in Nat /\ Norm(u[2]) \in {1, 2}
    BY MarginIs, WallIs
  <1>3. near \subseteq Walls[sn]
    OBVIOUS
  <1>4. ASSUME NEW u \in Walls[sn], margin(u) <= 10 PROVE u \in near
    <2>1. margin(u) \in Nat /\ Norm(u[2]) \in {1, 2}
      BY <1>2
    <2> DEFINE m == margin(u)
    <2> HIDE DEF m
    <2>2. m \in 0..10 => m * m <= 100
      OBVIOUS
    <2>3. Square(m) <= Square(Near) * Norm(u[2])
      BY <1>4, <2>1, <2>2 DEF Square, Near, m
    <2> QED  BY <2>3 DEF m
  <1> HIDE DEF margin, near
  <1>5. SUFFICES ASSUME near # {} PROVE FALSE
    BY <1>2, <1>4 DEF margin
  <1> DEFINE K == {far(u) : u \in near}
  <1>6. K \subseteq Nat
    <2>1. SUFFICES ASSUME NEW u \in near PROVE far(u) \in Nat
      OBVIOUS
    <2>2. margin(u) * margin(u) \in Nat
      BY <1>2, <1>3
    <2> QED  BY <2>2
  <1> HIDE DEF far
  <1>7. PICK k \in K : \A n \in K : k <= n
    <2>1. K # {}
      BY <1>5
    <2> HIDE DEF K
    <2> QED  BY <1>6, <2>1, Smallest
  <1>8. PICK u \in near : far(u) = k
    BY <1>7
  <1>9. ASSUME NEW v \in near, closer(v, u) PROVE FALSE
    <2>1. /\ margin(v) \in Nat /\ Norm(v[2]) \in {1, 2}
          /\ margin(u) \in Nat /\ Norm(u[2]) \in {1, 2}
      BY <1>2, <1>3
    <2>2. far(v) < far(u)
      BY <1>9, <2>1, CloserIs DEF far
    <2>3. far(v) \in K /\ far(v) \in Nat /\ far(u) \in Nat
      BY <1>6, <1>8
    <2> QED  BY <1>7, <1>8, <2>2, <2>3
  <1> HIDE DEF closer
  <1>10. Cardinality({v \in near : closer(v, u)}) = 0
    <2>1. {v \in near : closer(v, u)} = {}
      BY <1>9
    <2> QED  BY <2>1, FS_EmptySet
  <1>11. u \in NearWalls(sn, x)
    BY <1>1, <1>10
  <1> QED  BY <1>11

\* A frame that names no wall tells the truth: wherever she stands inside the
\* lattice of her season, on any plumb lines, the reply delivered there is
\* aligned and its score above nothing.  The twentieth within which near_walls
\* names a wall is wider than the margin of every season's aligned zone, and of
\* walls that are near at least one is among the four named
\* (value_engine.cpp:735-772, 924-963, 1328-1350).
THEOREM NoWallNamed ==
  ASSUME NEW sn \in Seasons, NEW x \in [Lines -> Place], InLattice(sn, x),
         NearWalls(sn, x) = {}
  PROVE  ClassifyZone(sn, x, 0) = "aligned" /\ AlignmentScore(sn, x) > 0
  <1> DEFINE least == Min(Margins(sn, x))
             middle == Min(Margins(sn, Center(sn)))
  <1>1. least \in Nat /\ least >= 11
    BY NothingNear, MarginIs, MarginsAre
  <1>2. middle \in Nat /\ middle >= 16 /\ middle <= 62
    <2>1. \A w \in Walls[sn] : /\ Slack(w[2], Center(sn)[w[1]]) \in Nat
                               /\ Slack(w[2], Center(sn)[w[1]]) >= 16
      <3>1. Center(sn) \in [Lines -> Place]
        BY CenterIs DEF Center
      <3>2. ASSUME NEW l \in Lines, NEW f \in Facets[sn][l] PROVE Slack(f, Center(sn)[l]) \in Int
        BY <3>1, <3>2, FacetsAre, LinesAssumption DEF LinesAssumption, Slack, Place
      <3> QED  BY <3>2, WallIs, CenterIsClear
    <2> QED  BY <2>1, AWall, MarginsAre
  <1> HIDE DEF least, middle
  <1>3. Tolerance(sn).aligned \in 4..8
    BY ToleranceIs
  <1>4. ClassifyZone(sn, x, 0) = "aligned"
    BY <1>1, <1>3 DEF ClassifyZone, least
  <1>5. (100 * least) \div middle \in Int /\ (100 * least) \div middle > 0
    <2> DEFINE p == 100 * least
               q == p \div middle
    <2>1. p \in Nat /\ p >= 100
      BY <1>1
    <2> HIDE DEF p
    <2>2. q \in Int /\ p = middle * q + (p % middle) /\ (p % middle) \in Int /\ (p % middle) < middle
      BY <1>2, <2>1
    <2> HIDE DEF q
    <2>3. q > 0
      <3>1. SUFFICES ASSUME q <= 0 PROVE FALSE
        BY <2>2
      <3>2. middle * q <= 0
        BY <1>2, <2>2, <3>1
      <3> QED  BY <1>2, <2>1, <2>2, <3>2
    <2> QED  BY <2>2, <2>3 DEF p, q
  <1>6. AlignmentScore(sn, x) = Clamp((100 * least) \div middle, 0, 100)
    BY <1>2 DEF AlignmentScore, least, middle
  <1> QED  BY <1>4, <1>5, <1>6 DEF Clamp
-----------------------------------------------------------------------------
(* Where a frame says she is. *)

\* From one end of an interval to the other.
LEMMA On ==
  ASSUME NEW m \in Nat, NEW n \in Nat, NEW S, m \in S,
         \A i \in Nat : m <= i /\ i < n /\ i \in S => i + 1 \in S
  PROVE  \A i \in m..n : i \in S
  <1> DEFINE Bad == {k \in Nat : m <= k /\ k <= n /\ k \notin S}
  <1>1. Bad = {}
    <2>1. SUFFICES ASSUME Bad # {} PROVE FALSE
      OBVIOUS
    <2>2. PICK b \in Bad : \A k \in Bad : b <= k
      BY <2>1, Smallest
    <2>3. b \in Nat /\ m <= b /\ b <= n /\ b \notin S /\ b # m
      BY <2>2
    <2>4. b - 1 \in Nat /\ m <= b - 1 /\ b - 1 < n /\ (b - 1) + 1 = b
      BY <2>3
    <2>5. b - 1 \in S
      BY <2>2, <2>3, <2>4
    <2> QED  BY <2>3, <2>4, <2>5
  <1> QED  BY <1>1

\* No summand is more than the sum.
LEMMA SumHolds ==
  ASSUME NEW S, IsFiniteSet(S), NEW f \in [S -> Nat], NEW a \in S
  PROVE  f[a] <= SumFunction(f)
  <1>1. DOMAIN f = S /\ SumFunction(f) = SumFunctionOnSet(f, S)
    BY DEF SumFunction
  <1>2. PICK g : SumFunctionOnSet(f, S) = g[S] /\ Unrolls(f, S, g)
    BY SumUnrolls
  <1>3. \A s \in SUBSET S : IsFiniteSet(s) /\ Cardinality(s) \in Nat
    BY FS_Subset, FS_CardinalityType
  <1> DEFINE Is(s) == g[s] \in Nat /\ (a \in s => f[a] <= g[s])
             Bad == {Cardinality(s) : s \in {t \in SUBSET S : ~Is(t)}}
  <1>4. SUFFICES ASSUME Bad # {} PROVE FALSE
    BY <1>1, <1>2
  <1>5. Bad \subseteq Nat
    BY <1>3
  <1>6. PICK m \in Bad : \A n \in Bad : m <= n
    BY <1>4, <1>5, Smallest
  <1>7. PICK s \in SUBSET S : ~Is(s) /\ Cardinality(s) = m
    BY <1>6
  <1>8. s # {} /\ g[s] = f[Picked(s)] + g[s \ {Picked(s)}]
    BY <1>2, <1>7 DEF Unrolls
  <1> DEFINE r == s \ {Picked(s)}
  <1>9. Picked(s) \in s /\ r \in SUBSET S
    BY <1>8, PickedIsIn
  <1>10. Cardinality(r) = m - 1 /\ m \in Nat
    BY <1>3, <1>7, <1>9, FS_RemoveElement
  <1>11. Is(r)
    <2> HIDE DEF r, Is
    <2>1. SUFFICES ASSUME ~Is(r) PROVE FALSE
      OBVIOUS
    <2>2. Cardinality(r) \in Bad
      BY <1>9, <2>1
    <2>3. m <= m - 1
      BY <1>6, <1>10, <2>2
    <2> QED  BY <1>10, <2>3
  <1>12. f[Picked(s)] \in Nat /\ f[a] \in Nat /\ g[r] \in Nat
    BY <1>9, <1>11
  <1>13. a \in s => a = Picked(s) \/ a \in r
    OBVIOUS
  <1>14. a \in r => f[a] <= g[r]
    BY <1>11
  <1>15. g[s] = f[Picked(s)] + g[r]
    BY <1>8
  <1> HIDE DEF r
  <1> QED  BY <1>7, <1>12, <1>13, <1>14, <1>15

\* Places that are nothing apart are one.
LEMMA NothingApart ==
  ASSUME NEW x \in Moves, NEW y \in Moves, Apart(x, y) <= 0
  PROVE  x = y
  <1> DEFINE f == [l \in Lines |-> Squared(x[l], y[l])]
  <1>1. f \in [Lines -> Nat]
    BY SquaredIs DEF Moves
  <1>2. Apart(x, y) = SumFunction(f)
    BY DEF Apart
  <1>3. ASSUME NEW l \in Lines PROVE x[l] = y[l]
    <2>1. f[l] <= Apart(x, y)
      <3> HIDE DEF f
      <3> QED  BY <1>1, <1>2, SumHolds, LinesAssumption DEF LinesAssumption
    <2>2. f[l] \in Nat /\ Apart(x, y) \in Nat
      BY <1>1, ApartIs
    <2>3. f[l] = Squared(x[l], y[l])
      OBVIOUS
    <2>4. Squared(x[l], y[l]) = 0
      <3> HIDE DEF f
      <3> QED  BY <2>1, <2>2, <2>3
    <2> QED  BY <2>4, SquaredIs DEF Moves
  <1> QED  BY <1>3 DEF Moves

\* The seasons from one on.
Since(s) == CASE s = "spring" -> Seasons
              [] s = "summer" -> {"summer", "fall", "winter"}
              [] s = "fall" -> {"fall", "winter"}
              [] OTHER -> {"winter"}

LEMMA LaterIs ==
  ASSUME NEW s \in Seasons, NEW t \in Since(s)
  PROVE  Later(t) \in Since(s) /\ Later(t) \in Since(t) /\ t \in Seasons /\ s \in Since(s)
  BY DEF Since, Later, Seasons

\* What is inside is inside in every season that follows.
LEMMA StaysInside ==
  ASSUME NEW s \in Seasons, NEW t \in Since(s), NEW x \in Moves, InLattice(s, x)
  PROVE  InLattice(t, x)
  <1>1. ASSUME NEW l \in Lines PROVE Inside(t, l, x[l])
    <2>1. l \in PlumbLines /\ x[l] \in Place /\ Inside(s, l, x[l])
      BY LinesAssumption DEF LinesAssumption, Moves, InLattice
    <2> QED  BY <2>1, SeasonsOpen DEF Since, Seasons
  <1> QED  BY <1>1 DEF InLattice

\* Where she naturally dwells is inside in every season.
LEMMA OriginInside ==
  ASSUME NEW sn \in Seasons
  PROVE  LET x == [l \in Lines |-> Origin(l)] IN x \in Moves /\ InLattice(sn, x)
  <1>1. ASSUME NEW l \in Lines PROVE Origin(l) \in Place /\ Inside(sn, l, Origin(l))
    <2>1. l \in PlumbLines
      BY LinesAssumption DEF LinesAssumption
    <2>2. Origin(l) \in Place /\ Lead(l) \in Int /\ Restraint(l) \in Int
      BY <2>1 DEF PlumbLines, Origin, Place, Lead, Restraint
    <2>3. /\ Origin(l).virtue <= 200 /\ Origin(l).shadow >= 0
          /\ Origin(l).virtue - Origin(l).shadow >= Lead(l)
          /\ Origin(l).virtue + Origin(l).shadow <= Restraint(l)
      BY <2>1 DEF PlumbLines, Origin, Lead, Restraint
    <2>4. /\ Origin(l).virtue >= Bounds(sn, l).virtue
          /\ Origin(l).shadow <= Bounds(sn, l).shadow
      BY <2>1, BoundsOpen DEF PlumbLines, Origin
    <2> QED  BY <2>1, <2>2, <2>3, <2>4, InsideIs DEF One
  <1> QED  BY <1>1 DEF Moves, InLattice

-----------------------------------------------------------------------------
(* The clusters. *)

LEMMA AverageIs ==
  ASSUME NEW S, IsFiniteSet(S), S # {}, NEW f \in [S -> Nat]
  PROVE  Average(f) \in Int
  <1>1. SumFunction(f) \in Nat /\ DOMAIN f = S
    BY SumIsNat
  <1>2. Cardinality(S) \in Nat /\ Cardinality(S) # 0
    BY FS_CardinalityType, FS_EmptySet
  <1> DEFINE n == SumFunction(f)
             d == Cardinality(S)
  <1>3. n \in Int /\ d \in Int /\ d > 0
    BY <1>1, <1>2
  <1> HIDE DEF n, d
  <1>4. n \div d \in Int
    BY <1>3
  <1> QED  BY <1>1, <1>4 DEF Average, n, d

LEMMA MeanIs ==
  ASSUME points \in Seq(Points), NEW is \in SUBSET (DOMAIN points), is # {}
  PROVE  Mean(is) \in Moves
  <1>1. IsFiniteSet(is) /\ \A i \in is : points[i] \in Points
    <2>1. DOMAIN points = 1..Len(points) /\ Len(points) \in Nat
      OBVIOUS
    <2>2. IsFiniteSet(1..Len(points))
      BY <2>1, FS_Interval
    <2> QED  BY <2>1, <2>2, FS_Subset
  <1>2. ASSUME NEW l \in Lines
        PROVE  /\ Average([i \in is |-> points[i][l].virtue]) \in Int
               /\ Average([i \in is |-> points[i][l].shadow]) \in Int
    <2>1. ASSUME NEW i \in is
          PROVE  points[i][l].virtue \in Nat /\ points[i][l].shadow \in Nat
      <3>1. points[i][l] \in [virtue : Coordinates, shadow : Coordinates]
        BY <1>1 DEF Points
      <3>2. Coordinates \subseteq Nat
        BY DEF Coordinates, One
      <3> QED  BY <3>1, <3>2
    <2>2. /\ [i \in is |-> points[i][l].virtue] \in [is -> Nat]
          /\ [i \in is |-> points[i][l].shadow] \in [is -> Nat]
      BY <2>1
    <2> QED  BY <1>1, <2>2, AverageIs
  <1> QED  BY <1>2 DEF Mean, Moves, Place

\* Of the centers nearest to a point there is a first.
LEMMA ClosestIs ==
  ASSUME NEW x \in Moves, NEW cs, DOMAIN cs \in SUBSET Nat, DOMAIN cs # {},
         \A c \in DOMAIN cs : cs[c] \in Moves
  PROVE  Closest(x, cs) \in DOMAIN cs
  <1> DEFINE T == {Apart(x, cs[c]) : c \in DOMAIN cs}
             First(c) == \A d \in DOMAIN cs : /\ Apart(x, cs[c]) <= Apart(x, cs[d])
                                              /\ d < c => Apart(x, cs[c]) # Apart(x, cs[d])
  <1>1. T \in SUBSET Nat /\ T # {}
    BY ApartIs
  <1>2. PICK m \in T : \A n \in T : m <= n
    BY <1>1, Smallest
  <1> DEFINE K == {c \in DOMAIN cs : Apart(x, cs[c]) = m}
  <1>3. K \in SUBSET Nat /\ K # {}
    OBVIOUS
  <1>4. PICK k \in K : \A c \in K : k <= c
    <2> HIDE DEF K
    <2> QED  BY <1>3, Smallest
  <1>5. k \in DOMAIN cs /\ Apart(x, cs[k]) = m
    OBVIOUS
  <1>6. ASSUME NEW d \in DOMAIN cs, d < k PROVE Apart(x, cs[d]) # m
    <2>1. SUFFICES ASSUME d \in K PROVE FALSE
      OBVIOUS
    <2>2. k <= d /\ k \in Nat /\ d \in Nat
      BY <1>3, <1>4, <2>1
    <2> QED  BY <1>6, <2>2
  <1>7. First(k)
    BY <1>2, <1>5, <1>6
  <1>8. Closest(x, cs) = CHOOSE c \in DOMAIN cs : First(c)
    BY DEF Closest
  <1> HIDE DEF First
  <1> QED  BY <1>5, <1>7, <1>8
-----------------------------------------------------------------------------
(* The centers are a sequence. *)

IsSequence(s) == \E S : s \in Seq(S)

LEMMA SequenceGrows ==
  ASSUME NEW s, IsSequence(s), NEW v
  PROVE  IsSequence(Append(s, v))
  <1>1. PICK S : s \in Seq(S)
    BY DEF IsSequence
  <1> DEFINE T == S \cup {v}
  <1>2. s \in Seq(T) /\ v \in T
    BY <1>1
  <1> HIDE DEF T
  <1>3. Append(s, v) \in Seq(T)
    BY <1>2
  <1> QED  BY <1>3 DEF IsSequence

LEMMA SequenceKeeps ==
  ASSUME NEW s, IsSequence(s), NEW v, NEW n
  PROVE  IsSequence([s EXCEPT ![n] = v])
  <1>1. PICK S : s \in Seq(S)
    BY DEF IsSequence
  <1> DEFINE T == S \cup {v}
  <1>2. s \in [1..Len(s) -> T] /\ Len(s) \in Nat
    BY <1>1
  <1>3. [s EXCEPT ![n] = v] \in [1..Len(s) -> T]
    BY <1>2
  <1>4. [s EXCEPT ![n] = v] \in Seq(T)
    <2> DEFINE e == [s EXCEPT ![n] = v]
    <2> HIDE DEF e, T
    <2> QED  BY <1>2, <1>3, IsASeq DEF e
  <1> QED  BY <1>4 DEF IsSequence

\* So many of the seeds are as they should be.
SeedsTo(g, k) ==
  \A n \in 1..Regions :
    n <= k => g[n] = IF n = 1 THEN <<Mean(DOMAIN points)>> ELSE Grown(g[n - 1], n)

LEMMA SeedsAreSequence == IsSequence(Seeds)
  <1> DEFINE S == {k \in 1..Regions : \E g : SeedsTo(g, k)}
  <1>1. Regions \in Nat /\ 1 <= Regions
    BY RegionAssumption DEF RegionAssumption
  <1>2. 1 \in S
    <2> DEFINE g == [n \in 1..Regions |-> <<Mean(DOMAIN points)>>]
    <2>1. \A n \in 1..Regions : n <= 1 => n = 1 /\ g[n] = <<Mean(DOMAIN points)>>
      BY <1>1
    <2> HIDE DEF g
    <2>2. SeedsTo(g, 1)
      BY <2>1 DEF SeedsTo
    <2> QED  BY <1>1, <2>2
  <1>3. ASSUME NEW k \in Nat, 1 <= k, k < Regions, k \in S PROVE k + 1 \in S
    <2>1. PICK g : SeedsTo(g, k)
      BY <1>3
    <2> DEFINE h == [n \in 1..Regions |-> IF n = 1 THEN <<Mean(DOMAIN points)>>
                                          ELSE Grown(g[n - 1], n)]
    <2>2. ASSUME NEW n \in 1..Regions, n <= k + 1
          PROVE  h[n] = IF n = 1 THEN <<Mean(DOMAIN points)>> ELSE Grown(h[n - 1], n)
      <3>1. CASE n = 1
        BY <3>1
      <3>2. CASE n # 1
        <4>1. n - 1 \in 1..Regions /\ n - 1 <= k
          BY <1>1, <1>3, <2>2, <3>2
        <4>2. g[n - 1] = IF n - 1 = 1 THEN <<Mean(DOMAIN points)>>
                         ELSE Grown(g[n - 1 - 1], n - 1)
          BY <2>1, <4>1 DEF SeedsTo
        <4>3. h[n - 1] = g[n - 1]
          BY <4>1, <4>2
        <4>4. h[n] = Grown(g[n - 1], n)
          BY <3>2
        <4> HIDE DEF h
        <4> QED  BY <3>2, <4>3, <4>4
      <3> QED  BY <3>1, <3>2
    <2> HIDE DEF h
    <2>3. SeedsTo(h, k + 1)
      BY <2>2 DEF SeedsTo
    <2> QED  BY <1>1, <1>3, <2>3
  <1> HIDE DEF S
  <1>4. Regions \in S
    <2>1. \A n \in 1..Regions : n \in S
      BY <1>1, <1>2, <1>3, On
    <2> QED  BY <1>1, <2>1
  <1>5. PICK g : SeedsTo(g, Regions)
    BY <1>4 DEF S
  <1> DEFINE body(seeds) == [n \in 1..Regions |->
                               IF n = 1 THEN <<Mean(DOMAIN points)>>
                               ELSE Grown(seeds[n - 1], n)]
             it == CHOOSE seeds : seeds = body(seeds)
             e == [n \in 1..Regions |-> g[n]]
  <1>6. e = body(e)
    <2>1. ASSUME NEW n \in 1..Regions PROVE e[n] = body(e)[n]
      <3>1. n <= Regions /\ (n # 1 => n - 1 \in 1..Regions)
        BY <1>1
      <3>2. g[n] = IF n = 1 THEN <<Mean(DOMAIN points)>> ELSE Grown(g[n - 1], n)
        BY <1>5, <3>1 DEF SeedsTo
      <3> QED  BY <3>1, <3>2
    <2> QED  BY <2>1
  <1>7. it = body(it)
    <2> HIDE DEF body
    <2> QED  BY <1>6
  <1>8. Seeds = it[Regions]
    BY DEF Seeds
  <1>9. \A n \in 1..Regions :
          it[n] = IF n = 1 THEN <<Mean(DOMAIN points)>> ELSE Grown(it[n - 1], n)
    <2> HIDE DEF it
    <2> QED  BY <1>7
  <1> HIDE DEF it
  <1> DEFINE Good == {n \in 1..Regions : IsSequence(it[n])}
  <1>10. 1 \in Good
    <2>1. <<Mean(DOMAIN points)>> \in Seq({Mean(DOMAIN points)})
      OBVIOUS
    <2>2. it[1] = <<Mean(DOMAIN points)>>
      BY <1>1, <1>9
    <2>3. IsSequence(it[1])
      BY <2>1, <2>2, Zenon DEF IsSequence
    <2>4. 1 \in 1..Regions
      BY <1>1
    <2> QED  BY <2>3, <2>4
  <1>11. ASSUME NEW k \in Nat, 1 <= k, k < Regions, k \in Good PROVE k + 1 \in Good
    <2>1. k + 1 \in 1..Regions /\ k + 1 # 1 /\ k + 1 - 1 = k
      BY <1>1, <1>11
    <2>2. it[k + 1] = Grown(it[k], k + 1)
      BY <1>9, <2>1
    <2>3. IsSequence(it[k])
      BY <1>11
    <2>4. IsSequence(Grown(it[k], k + 1))
      BY <2>3, SequenceGrows DEF Grown
    <2> QED  BY <2>1, <2>2, <2>4
  <1> HIDE DEF Good
  <1>12. \A n \in 1..Regions : n \in Good
    BY <1>1, <1>10, <1>11, On
  <1> QED  BY <1>1, <1>8, <1>12 DEF Good

\* What the center of a cluster is moved to, as the others are by then.
Move(a, cs, n) ==
  IF {p \in DOMAIN points : a[p] = n} # {} THEN Mean({p \in DOMAIN points : a[p] = n})
  ELSE points[Farthest(points, {cs[d] : d \in DOMAIN cs \ {n}})]

MovedTo(a, g, k) ==
  \A n \in 0..Len(centers) :
    n <= k => g[n] = IF n = 0 THEN centers
                     ELSE [g[n - 1] EXCEPT ![n] = Move(a, g[n - 1], n)]

LEMMA MovedAreSequence ==
  ASSUME IsSequence(centers), NEW a
  PROVE  IsSequence(Moved(a))
  <1> DEFINE N == Len(centers)
             S == {k \in 0..N : \E g : MovedTo(a, g, k)}
  <1>1. N \in Nat /\ N = Len(centers)
    BY DEF IsSequence
  <1>2. 0 \in S
    <2> DEFINE g == [n \in 0..N |-> centers]
    <2>1. \A n \in 0..N : n <= 0 => n = 0 /\ g[n] = centers
      BY <1>1
    <2> HIDE DEF g
    <2>2. MovedTo(a, g, 0)
      BY <2>1 DEF MovedTo
    <2> QED  BY <1>1, <2>2
  <1>3. ASSUME NEW k \in Nat, 0 <= k, k < N, k \in S PROVE k + 1 \in S
    <2>1. PICK g : MovedTo(a, g, k)
      BY <1>3
    <2> DEFINE h == [n \in 0..N |-> IF n = 0 THEN centers
                                    ELSE [g[n - 1] EXCEPT ![n] = Move(a, g[n - 1], n)]]
    <2>2. ASSUME NEW n \in 0..N, n <= k + 1
          PROVE  h[n] = IF n = 0 THEN centers
                        ELSE [h[n - 1] EXCEPT ![n] = Move(a, h[n - 1], n)]
      <3>1. CASE n = 0
        BY <3>1
      <3>2. CASE n # 0
        <4>1. n - 1 \in 0..N /\ n - 1 <= k
          BY <1>1, <1>3, <2>2, <3>2
        <4>2. g[n - 1] = IF n - 1 = 0 THEN centers
                         ELSE [g[n - 1 - 1] EXCEPT ![n - 1] = Move(a, g[n - 1 - 1], n - 1)]
          BY <2>1, <4>1 DEF MovedTo
        <4>3. h[n - 1] = g[n - 1]
          BY <4>1, <4>2
        <4>4. h[n] = [g[n - 1] EXCEPT ![n] = Move(a, g[n - 1], n)]
          BY <3>2
        <4> HIDE DEF h
        <4> QED  BY <3>2, <4>3, <4>4
      <3> QED  BY <3>1, <3>2
    <2> HIDE DEF h
    <2>3. MovedTo(a, h, k + 1)
      BY <2>2 DEF MovedTo
    <2> QED  BY <1>1, <1>3, <2>3
  <1> HIDE DEF S
  <1>4. N \in S
    <2>1. \A n \in 0..N : n \in S
      BY <1>1, <1>2, <1>3, On
    <2> QED  BY <1>1, <2>1
  <1>5. PICK g : MovedTo(a, g, N)
    BY <1>4 DEF S
  <1> DEFINE body(moved) == [n \in 0..Len(centers) |->
                               IF n = 0 THEN centers
                               ELSE [moved[n - 1] EXCEPT ![n] = Move(a, moved[n - 1], n)]]
             it == CHOOSE moved : moved = body(moved)
             e == [n \in 0..N |-> g[n]]
  <1>6. e = body(e)
    <2>1. ASSUME NEW n \in 0..N PROVE e[n] = body(e)[n]
      <3>1. n <= N /\ (n # 0 => n - 1 \in 0..N)
        BY <1>1
      <3>2. g[n] = IF n = 0 THEN centers ELSE [g[n - 1] EXCEPT ![n] = Move(a, g[n - 1], n)]
        BY <1>5, <3>1 DEF MovedTo
      <3> QED  BY <3>1, <3>2
    <2> QED  BY <2>1
  <1>7. it = body(it)
    <2> HIDE DEF body
    <2> QED  BY <1>6
  <1>8. Moved(a) = it[N]
    BY DEF Moved, Move
  <1>9. \A n \in 0..N :
          it[n] = IF n = 0 THEN centers ELSE [it[n - 1] EXCEPT ![n] = Move(a, it[n - 1], n)]
    <2> HIDE DEF it
    <2> QED  BY <1>7
  <1> HIDE DEF it
  <1> DEFINE Good == {n \in 0..N : IsSequence(it[n])}
  <1>10. 0 \in Good
    <2>1. 0 \in 0..N
      BY <1>1
    <2>2. it[0] = centers
      BY <1>9, <2>1
    <2>3. IsSequence(it[0])
      BY <2>2
    <2> QED  BY <2>1, <2>3
  <1>11. ASSUME NEW k \in Nat, 0 <= k, k < N, k \in Good PROVE k + 1 \in Good
    <2>1. k + 1 \in 0..N /\ k + 1 # 0 /\ k + 1 - 1 = k
      BY <1>1, <1>11
    <2>2. it[k + 1] = [it[k] EXCEPT ![k + 1] = Move(a, it[k], k + 1)]
      BY <1>9, <2>1
    <2>3. IsSequence(it[k])
      BY <1>11
    <2>4. IsSequence([it[k] EXCEPT ![k + 1] = Move(a, it[k], k + 1)])
      BY <2>3, SequenceKeeps
    <2> QED  BY <2>1, <2>2, <2>4
  <1> HIDE DEF Good
  <1>12. \A n \in 0..N : n \in Good
    BY <1>1, <1>10, <1>11, On
  <1> QED  BY <1>1, <1>8, <1>12 DEF Good
-----------------------------------------------------------------------------
(* The frame. *)

PolesInside ==
  /\ DOMAIN poles \in SUBSET Nat
  /\ \A c \in DOMAIN poles : poles[c].center \in Moves /\ InLattice(home, poles[c].center)

HomeInv ==
  /\ lattice \in Seasons /\ home \in Seasons /\ lattice \in Since(home)
  /\ active \in Seq(Points) /\ points \in Seq(Points)
  /\ stage \in {"round", "settle"} => IsSequence(centers)
  /\ drafted # <<>> => position \in Moves /\ InLattice(lattice, position)
  /\ PolesInside

LEMMA NoPoles ==
  ASSUME poles' = <<>>
  PROVE  PolesInside'
  <1>1. DOMAIN poles' = {}
    BY EmptySeq
  <1> QED  BY <1>1 DEF PolesInside

LEMMA PolesStay ==
  ASSUME PolesInside, poles' = poles, home' = home
  PROVE  PolesInside'
  BY DEF PolesInside

LEMMA HomeStarts == HomeInit => HomeInv
  <1> SUFFICES ASSUME HomeInit PROVE HomeInv
    OBVIOUS
  <1>1. /\ lattice = "spring" /\ home = "spring" /\ active = <<>> /\ points = <<>>
        /\ stage = "idle" /\ drafted = <<>> /\ poles = <<>>
    BY DEF HomeInit
  <1>2. "spring" \in Seasons /\ "spring" \in Since("spring")
    BY DEF Seasons, Since
  <1>3. <<>> \in Seq(Points) /\ DOMAIN poles = {}
    BY <1>1, EmptySeq
  <1>4. PolesInside
    BY <1>3 DEF PolesInside
  <1> QED  BY <1>1, <1>2, <1>3, <1>4 DEF HomeInv

LEMMA SettlesInside ==
  ASSUME HomeInv, Settle
  PROVE  PolesInside'
  <1>1. /\ stage = "settle" /\ home' = home
        /\ poles' = [c \in {d \in DOMAIN centers : Members(d) # {}} |->
                       [center |-> Project(home, Mean(Members(c))),
                        members |-> Cardinality(Members(c))]]
    BY DEF Settle
  <1>2. points \in Seq(Points) /\ home \in Seasons /\ IsSequence(centers)
    BY <1>1 DEF HomeInv
  <1>3. DOMAIN centers \in SUBSET Nat
    BY <1>2 DEF IsSequence
  <1>4. ASSUME NEW c, Members(c) # {}
        PROVE  LET x == Project(home, Mean(Members(c))) IN x \in Moves /\ InLattice(home, x)
    <2>1. Mean(Members(c)) \in Moves
      BY <1>2, <1>4, MeanIs DEF Members
    <2> QED  BY <1>2, <2>1, ProjectedIs, PointsAreMoves, ProjectedInside DEF Moves
  <1>5. DOMAIN poles' = {d \in DOMAIN centers : Members(d) # {}}
    BY <1>1
  <1>6. ASSUME NEW c \in DOMAIN poles'
        PROVE  poles'[c].center \in Moves /\ InLattice(home, poles'[c].center)
    <2>1. Members(c) # {}
      BY <1>5
    <2>2. poles'[c].center = Project(home, Mean(Members(c)))
      BY <1>1, <1>5
    <2> QED  BY <1>4, <2>1, <2>2
  <1> QED  BY <1>1, <1>3, <1>5, <1>6 DEF PolesInside

LEMMA DeliversInside ==
  ASSUME NEW sn \in Seasons, NEW x \in Points
  PROVE  LET r == EvaluateAt(sn, x)
             y == IF r.magnitude2 > 0 THEN r.corrected ELSE x
         IN  y \in Moves /\ InLattice(sn, y)
  <1> DEFINE r == EvaluateAt(sn, x)
             y == IF r.magnitude2 > 0 THEN r.corrected ELSE x
  <1>1. x \in Moves /\ x \in [Lines -> Place]
    BY PointsAreMoves DEF Moves
  <1>2. CASE InLattice(sn, x)
    <2>1. r.magnitude2 = 0
      BY <1>2 DEF EvaluateAt
    <2> QED  BY <1>1, <1>2, <2>1
  <1>3. CASE ~InLattice(sn, x)
    <2> DEFINE z == Project(sn, x)
    <2>1. z \in Moves /\ InLattice(sn, z)
      BY <1>1, ProjectedIs, PointsAreMoves, ProjectedInside
    <2>2. r.magnitude2 = Apart(x, z) /\ r.corrected = z
      BY <1>3 DEF EvaluateAt
    <2>3. Apart(x, z) \in Nat
      BY <1>1, <2>1, ApartIs
    <2>4. Apart(x, z) > 0
      <3>1. SUFFICES ASSUME Apart(x, z) <= 0 PROVE FALSE
        BY <2>3
      <3>2. x = z
        <4> HIDE DEF z
        <4> QED  BY <1>1, <2>1, <3>1, NothingApart
      <3> QED  BY <1>3, <2>1, <3>2
    <2> QED  BY <2>1, <2>2, <2>4
  <1> QED  BY <1>2, <1>3

LEMMA HomeStays == HomeInv /\ [HomeNext]_homeVars => HomeInv'
  <1> SUFFICES ASSUME HomeInv, [HomeNext]_homeVars PROVE HomeInv'
    OBVIOUS
  <1>0. /\ lattice \in Seasons /\ home \in Seasons /\ lattice \in Since(home)
        /\ active \in Seq(Points) /\ points \in Seq(Points)
        /\ stage \in {"round", "settle"} => IsSequence(centers)
        /\ drafted # <<>> => position \in Moves /\ InLattice(lattice, position)
        /\ PolesInside
    BY DEF HomeInv
  <1>1. CASE Seed
    <2>1. /\ UNCHANGED <<lattice, home, active, drafted, position, points, poles>>
          /\ centers' = Seeds
      BY <1>1 DEF Seed
    <2> QED  BY <1>0, <2>1, SeedsAreSequence, PolesStay DEF HomeInv
  <1>2. CASE Round
    <2>1. /\ UNCHANGED <<lattice, home, active, drafted, position, points, poles>>
          /\ centers' = Moved(assign') /\ stage = "round"
      BY <1>2 DEF Round
    <2>2. IsSequence(centers')
      BY <1>0, <2>1, MovedAreSequence
    <2> QED  BY <1>0, <2>1, <2>2, PolesStay DEF HomeInv
  <1>3. CASE Settle
    <2>1. /\ UNCHANGED <<lattice, home, active, drafted, position>>
          /\ points' = <<>> /\ stage' = "idle"
      BY <1>3 DEF Settle
    <2>2. points' \in Seq(Points)
      BY <2>1, EmptySeq
    <2>3. PolesInside'
      BY <1>3, SettlesInside
    <2> QED  BY <1>0, <2>1, <2>2, <2>3 DEF HomeInv
  <1>4. CASE Remember
    <2>1. /\ UNCHANGED <<lattice, home, drafted, position, stage, points, centers, poles>>
          /\ \E x \in Places : active' = Append(active, x)
      BY <1>4 DEF Remember, search
    <2>2. active' \in Seq(Points)
      BY <1>0, <2>1, RegionAssumption DEF RegionAssumption
    <2> QED  BY <1>0, <2>1, <2>2, PolesStay DEF HomeInv
  <1>5. CASE Fade
    <2>1. /\ UNCHANGED <<lattice, home, drafted, position, stage, points, centers, poles>>
          /\ \E i \in DOMAIN active : active' = RemoveAt(active, i)
      BY <1>5 DEF Fade, search
    <2>2. active' \in Seq(Points)
      <3>1. PICK i \in DOMAIN active : active' = RemoveAt(active, i)
        BY <2>1
      <3>2. i \in 1..Len(active) /\ Len(active) \in Nat
        BY <1>0
      <3>3. /\ SubSeq(active, 1, i - 1) \in Seq(Points)
            /\ SubSeq(active, i + 1, Len(active)) \in Seq(Points)
        BY <1>0, <3>2
      <3> QED  BY <3>1, <3>3 DEF RemoveAt
    <2> QED  BY <1>0, <2>1, <2>2, PolesStay DEF HomeInv
  <1>6. CASE Deliver
    <2>1. /\ UNCHANGED <<lattice, home, active, stage, points, centers, poles>>
          /\ \E x \in Drafted :
               position' = IF EvaluateAt(lattice, x).magnitude2 > 0
                           THEN EvaluateAt(lattice, x).corrected ELSE x
      BY <1>6 DEF Deliver, search
    <2>2. position' \in Moves /\ InLattice(lattice, position')
      <3>1. Drafted \subseteq Points
        BY RegionAssumption DEF RegionAssumption
      <3> QED  BY <1>0, <2>1, <3>1, DeliversInside
    <2> QED  BY <1>0, <2>1, <2>2, PolesStay DEF HomeInv
  <1>7. CASE ApplySeasonAdvance
    <2>1. /\ lattice' = Later(lattice) /\ UNCHANGED <<home, active, drafted, position>>
          /\ points' = active /\ poles' = <<>> /\ stage' \in {"idle", "seed"}
      BY <1>7 DEF ApplySeasonAdvance, Discover
    <2>2. lattice' \in Seasons /\ lattice' \in Since(home) /\ lattice' \in Since(lattice)
      <3>1. Later(lattice) \in Since(home) /\ Later(lattice) \in Since(lattice)
        BY <1>0, LaterIs
      <3>2. Later(lattice) \in Seasons
        BY DEF Later, Seasons
      <3> QED  BY <2>1, <3>1, <3>2
    <2>3. drafted' # <<>> => position' \in Moves /\ InLattice(lattice', position')
      BY <1>0, <2>1, <2>2, StaysInside
    <2> QED  BY <1>0, <2>1, <2>2, <2>3, NoPoles DEF HomeInv
  <1>8. CASE Boot
    <2>1. /\ home' = lattice /\ UNCHANGED <<lattice, active, drafted, position>>
          /\ points' = active /\ poles' = <<>> /\ stage' \in {"idle", "seed"}
      BY <1>8 DEF Boot, Discover
    <2>2. lattice \in Since(lattice)
      BY <1>0 DEF Since, Seasons
    <2> QED  BY <1>0, <2>1, <2>2, NoPoles DEF HomeInv
  <1>9. CASE UNCHANGED homeVars
    <2>1. UNCHANGED <<lattice, home, active, drafted, position, stage, points, centers, poles>>
      BY <1>9 DEF homeVars, search
    <2> QED  BY <1>0, <2>1, PolesStay DEF HomeInv
  <1> QED  BY <1>1, <1>2, <1>3, <1>4, <1>5, <1>6, <1>7, <1>8, <1>9 DEF HomeNext, Search

\* The home of any place is inside the season she is judged in, whatever the
\* season it was found in.
LEMMA HomeForIs ==
  ASSUME HomeInv, NEW x \in Moves
  PROVE  HomeFor(x) \in Moves /\ InLattice(lattice, HomeFor(x))
  <1>1. lattice \in Seasons /\ home \in Seasons /\ lattice \in Since(home) /\ PolesInside
    BY DEF HomeInv
  <1>2. CASE DOMAIN poles = {}
    <2>1. HomeFor(x) = [l \in Lines |-> Origin(l)]
      BY <1>2 DEF HomeFor
    <2> QED  BY <1>1, <2>1, OriginInside
  <1>3. CASE DOMAIN poles # {}
    <2> DEFINE cs == [i \in DOMAIN poles |-> poles[i].center]
               c == Closest(x, cs)
    <2>1. DOMAIN cs = DOMAIN poles /\ \A i \in DOMAIN poles : cs[i] = poles[i].center
      OBVIOUS
    <2>2. HomeFor(x) = poles[c].center
      BY <1>3 DEF HomeFor
    <2> HIDE DEF cs
    <2>3. c \in DOMAIN cs
      BY <1>1, <1>3, <2>1, ClosestIs DEF PolesInside
    <2>4. poles[c].center \in Moves /\ InLattice(home, poles[c].center)
      BY <1>1, <2>1, <2>3 DEF PolesInside
    <2> QED  BY <1>1, <2>2, <2>4, StaysInside
  <1> QED  BY <1>2, <1>3

\* A frame places her inside her lattice, at a home inside it, for every season,
\* any plumb lines, memories and replies, through every crossing and boot; and
\* when it names no wall, she stands where a reply is aligned
\* (current_geometric_state, lina_core.cpp:1230-1272).
THEOREM FrameIsHonest == HomeSpec => []FrameHonest
  <1>1. HomeInv => FrameHonest
    <2> SUFFICES ASSUME HomeInv PROVE FrameHonest
      OBVIOUS
    <2>1. /\ lattice \in Seasons
          /\ drafted # <<>> => position \in Moves /\ InLattice(lattice, position)
      BY DEF HomeInv
    <2>2. Nowhere \in Moves
      BY NowhereIs, PointsAreMoves
    <2>3. Position \in Moves
      BY <2>1, <2>2, HomeForIs DEF Position
    <2>4. InLattice(lattice, HomeFor(Position))
      BY <2>3, HomeForIs
    <2>5. drafted # <<>> => InLattice(lattice, Position)
      BY <2>1 DEF Position
    <2>6. ASSUME drafted # <<>>, NearWalls(lattice, Position) = {}
          PROVE  /\ ClassifyZone(lattice, Position, 0) = "aligned"
                 /\ AlignmentScore(lattice, Position) > 0
      <3>1. Position \in [Lines -> Place]
        BY <2>3 DEF Moves
      <3> QED  BY <2>1, <2>5, <2>6, <3>1, NoWallNamed
    <2> QED  BY <2>4, <2>5, <2>6 DEF FrameHonest
  <1> QED  BY <1>1, HomeStarts, HomeStays, PTL DEF HomeSpec
=============================================================================
