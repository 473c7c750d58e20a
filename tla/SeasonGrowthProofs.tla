------------------------- MODULE SeasonGrowthProofs -------------------------
(***************************************************************************)
(* Theorems about SeasonGrowth, for any number of sessions, evaluations,   *)
(* memories and stops of the process: the rows agree, nothing is taken     *)
(* back and no season is crossed before the rows hold what it asks for.    *)
(***************************************************************************)
EXTENDS SeasonGrowth, FiniteSetTheorems, TLAPS

\* An identity record, as far as sessions and seasons go.
IsRecord(r) ==
  /\ DOMAIN r = {"season", "count", "total", "rate"}
  /\ r.season \in Seasons /\ r.count \in Nat

Crossing == {"adopt", "rehome", "imprint"}
Crossed == {s \in Seasons : 1 < Place(s) /\ Place(s) <= Place(identity.season)}

\* Between the read of begin_session and its write of the whole record, the
\* record has not changed, and the number drawn is the next one.
CopyIsFresh ==
  /\ pc \in {"open", "count"} => copy = identity /\ sid = identity.count + 1
  /\ pc = "count" => sid \in opened

\* Only a boot and the step of a crossing leave the engine behind the row.
EngineFollows ==
  pc \notin {"down", "adopt"} => engine = identity.season /\ feedback = identity.season

\* A crossing in progress is the only one that may lack its landmark.
LandmarksFollow ==
  /\ landmarks \subseteq Crossed
  /\ pc \notin Crossing => Crossed \subseteq landmarks \cup cut
  /\ pc \in Crossing => /\ identity.season \in Crossed
                        /\ Crossed \ {identity.season} \subseteq landmarks \cup cut

GrowthInv ==
  /\ IsRecord(identity) /\ IsRecord(copy)
  /\ CountBacked
  /\ CopyIsFresh /\ EngineFollows /\ LandmarksFollow

-----------------------------------------------------------------------------
(* The seasons. *)

LEMMA SeasonsInOrder ==
  ASSUME NEW s \in Seasons
  PROVE  /\ NextSeason(s) \in Seasons \cup {None}
         /\ NextSeason(s) # None =>
              /\ NextSeason(s) \in Seasons
              /\ Place(NextSeason(s)) = Place(s) + 1
         /\ Place(s) \in 1..4
         /\ \A t \in Seasons : Place(t) = Place(s) => t = s
  BY DEF Seasons, None, NextSeason, Requirements, Place

LEMMA NotNone == None \notin Seasons
  BY DEF None, Seasons
-----------------------------------------------------------------------------
(* The invariant. *)

LEMMA GrowthInit == Init => GrowthInv
  <1> SUFFICES ASSUME Init PROVE GrowthInv
    OBVIOUS
  <1>1. identity \in Identity
    BY GrowthAssumption DEF Init, GrowthAssumption
  <1>2. IsRecord(identity) /\ IsRecord(copy)
    BY <1>1 DEF Init, Identity, IsRecord
  <1>3. CountBacked
    BY <1>2 DEF Init, CountBacked, IsRecord
  <1> QED
    BY <1>2, <1>3 DEF Init, GrowthInv, CopyIsFresh, EngineFollows, LandmarksFollow,
                      Crossed, Crossing

LEMMA GrowthNext == GrowthInv /\ [Next]_vars => GrowthInv'
  <1> SUFFICES ASSUME GrowthInv, [Next]_vars PROVE GrowthInv'
    OBVIOUS
  <1> USE DEF GrowthInv
  <1>1. CASE Boot
    BY <1>1 DEF Boot, rows, IsRecord, CountBacked, CopyIsFresh, EngineFollows,
                LandmarksFollow, Crossed, Crossing
  <1>2. CASE DiscoverHomes
    BY <1>2 DEF DiscoverHomes, rows, memory, IsRecord, CountBacked, CopyIsFresh,
                EngineFollows, LandmarksFollow, Crossed, Crossing
  <1>3. CASE BeginSession
    BY <1>3 DEF BeginSession, rows, IsRecord, CountBacked, CopyIsFresh,
                EngineFollows, LandmarksFollow, Crossed, Crossing
  <1>4. CASE CreateSession
    <2>1. CountBacked'
      <3>1. /\ opened' = opened \cup {identity.count + 1} /\ UNCHANGED identity
            /\ identity.count \in Nat
        BY <1>4 DEF CreateSession, CopyIsFresh, IsRecord
      <3>2. identity.count + 1 \in 1..(identity.count + 1)
        BY <3>1
      <3> QED  BY <3>1, <3>2 DEF CountBacked
    <2>2. CopyIsFresh'
      BY <1>4 DEF CreateSession, memory, CopyIsFresh
    <2> QED
      BY <1>4, <2>1, <2>2 DEF CreateSession, memory, IsRecord, EngineFollows,
                        LandmarksFollow, Crossed, Crossing
  <1>5. CASE CountSession
    <2>1. /\ identity' = [identity EXCEPT !.count = @ + 1]
          /\ identity'.season = identity.season
          /\ identity'.count = identity.count + 1
      BY <1>5 DEF CountSession, CopyIsFresh, IsRecord
    <2>2. IsRecord(identity') /\ IsRecord(copy')
      BY <1>5, <2>1 DEF CountSession, memory, IsRecord
    <2>3. CountBacked'
      BY <1>5, <2>1, <2>2 DEF CountSession, CountBacked, CopyIsFresh, IsRecord
    <2> QED
      BY <1>5, <2>1, <2>2, <2>3 DEF CountSession, memory, CopyIsFresh,
                        EngineFollows, LandmarksFollow, Crossed, Crossing
  <1>6. CASE EndSession
    BY <1>6 DEF EndSession, rows, memory, IsRecord, CountBacked, CopyIsFresh,
                EngineFollows, LandmarksFollow, Crossed, Crossing
  <1>7. CASE FinalizeSession
    BY <1>7 DEF FinalizeSession, memory, IsRecord, CountBacked, CopyIsFresh,
                EngineFollows, LandmarksFollow, Crossed, Crossing
  <1>8. CASE Gather
    BY <1>8 DEF Gather, rows, IsRecord, CountBacked, CopyIsFresh, EngineFollows,
                LandmarksFollow, Crossed, Crossing
  <1>9. CASE Refresh
    <2>1. identity'.season = identity.season /\ identity'.count = identity.count
      BY <1>9 DEF Refresh, IsRecord
    <2>2. IsRecord(identity') /\ IsRecord(copy')
      BY <1>9, <2>1 DEF Refresh, IsRecord
    <2> QED
      BY <1>9, <2>1, <2>2 DEF Refresh, Finished, CountBacked, CopyIsFresh,
                        EngineFollows, LandmarksFollow, Crossed, Crossing
  <1>10. CASE Cross
    <2>1. CASE NextSeason(identity.season) = None
      BY <1>10, <2>1 DEF Cross, Finished, IsRecord, CountBacked, CopyIsFresh,
                         EngineFollows, LandmarksFollow, Crossed, Crossing
    <2>2. CASE NextSeason(identity.season) # None
      <3>1. /\ identity'.season = NextSeason(identity.season)
            /\ identity'.count = identity.count
            /\ pc' = "adopt" /\ pc = "cross"
            /\ UNCHANGED <<opened, landmarks, cut, copy>>
        BY <1>10, <2>2 DEF Cross, IsRecord
      <3>2. IsRecord(identity') /\ IsRecord(copy')
        BY <1>10, <2>2, <3>1, SeasonsInOrder DEF Cross, IsRecord
      <3>3. /\ identity'.season \in Seasons /\ identity.season \in Seasons
            /\ Place(identity'.season) = Place(identity.season) + 1
        BY <2>2, <3>1, SeasonsInOrder DEF IsRecord
      <3>4. Crossed \subseteq Crossed' /\ Crossed' \ {identity'.season} \subseteq Crossed
        BY <3>3, SeasonsInOrder DEF Crossed
      <3>5. identity'.season \in Crossed'
        BY <3>3, SeasonsInOrder DEF Crossed
      <3>6. LandmarksFollow'
        BY <3>1, <3>4, <3>5 DEF LandmarksFollow, Crossing
      <3> QED
        BY <3>1, <3>2, <3>6 DEF CountBacked, CopyIsFresh, EngineFollows
    <2> QED  BY <2>1, <2>2
  <1>11. CASE Adopt
    BY <1>11 DEF Adopt, rows, IsRecord, CountBacked, CopyIsFresh, EngineFollows,
                 LandmarksFollow, Crossed, Crossing
  <1>12. CASE RediscoverHomes
    BY <1>12 DEF RediscoverHomes, rows, memory, IsRecord, CountBacked, CopyIsFresh,
                 EngineFollows, LandmarksFollow, Crossed, Crossing
  <1>13. CASE Imprint
    <2>1. /\ landmarks' = landmarks \cup {identity.season}
          /\ pc = "imprint" /\ pc' = "idle"
          /\ UNCHANGED <<identity, opened, copy, engine, feedback, cut>>
      BY <1>13 DEF Imprint, Finished
    <2>2. Crossed' = Crossed
      BY <2>1 DEF Crossed
    <2> QED
      BY <2>1, <2>2 DEF IsRecord, CountBacked, CopyIsFresh, EngineFollows,
                        LandmarksFollow, Crossing
  <1>14. CASE Quit
    BY <1>14 DEF Quit, rows, memory, IsRecord, CountBacked, CopyIsFresh,
                 EngineFollows, LandmarksFollow, Crossed, Crossing
  <1>15. CASE Converse \/ HostStores
    <2>1. UNCHANGED <<identity, opened, landmarks, pc, sid, copy, engine, feedback, cut>>
      BY <1>15 DEF Converse, HostStores, memory
    <2> QED
      BY <2>1 DEF IsRecord, CountBacked, CopyIsFresh, EngineFollows, LandmarksFollow,
                  Crossed, Crossing
  <1>16. CASE Crash
    BY <1>16 DEF Crash, rows, IsRecord, CountBacked, CopyIsFresh, EngineFollows,
                 LandmarksFollow, Crossed, Crossing
  <1>17. CASE UNCHANGED vars
    BY <1>17 DEF vars, rows, memory, IsRecord, CountBacked, CopyIsFresh,
                 EngineFollows, LandmarksFollow, Crossed, Crossing
  <1> QED
    BY <1>1, <1>2, <1>3, <1>4, <1>5, <1>6, <1>7, <1>8, <1>9, <1>10, <1>11, <1>12,
       <1>13, <1>14, <1>15, <1>16, <1>17 DEF Next, OwnerSteps

LEMMA GrowthInvariant == Spec => []GrowthInv
  BY GrowthInit, GrowthNext, PTL DEF Spec
-----------------------------------------------------------------------------
(* The ledger and the metrics: what was gathered is no more than what the rows *)
(* hold by the time it is used.                                             *)

MetricsBehind ==
  /\ wisdom \in Nat /\ ledger \in Seq(Rates)
  /\ pc \in {"refresh", "cross"} =>
       /\ metrics.season = identity.season
       /\ metrics.sessions = identity.count
       /\ metrics.wisdom \in Nat /\ metrics.wisdom <= wisdom
       /\ metrics.total \in Nat /\ metrics.total <= Batch * Len(ledger)
  /\ pc = "cross" => CanAdvance(metrics)

LEMMA Times ==
  ASSUME NEW a \in Nat, NEW m \in Nat, NEW n \in Nat, m <= n
  PROVE  a * m \in Nat /\ a * m <= a * n
  <1>1. n - m \in Nat /\ a * (n - m) \in Nat
    OBVIOUS
  <1>2. a * n = a * m + a * (n - m)
    OBVIOUS
  <1>3. a * m \in Nat /\ a * n \in Nat
    OBVIOUS
  <1> QED  BY <1>1, <1>2, <1>3

\* The window is a part of the ledger.
LEMMA WindowFits ==
  ASSUME ledger \in Seq(Rates)
  PROVE  WindowSize \in Nat /\ WindowSize <= Batch * Len(ledger)
  <1> DEFINE w == 100 \div Batch
  <1>1. Batch \in Nat /\ w \in Nat /\ Len(ledger) \in Nat
    BY GrowthAssumption DEF GrowthAssumption
  <1> HIDE DEF w
  <1>2. Window = IF Len(ledger) <= w THEN ledger
                 ELSE SubSeq(ledger, Len(ledger) - w + 1, Len(ledger))
    BY DEF Window, w
  <1>3. Len(Window) \in Nat /\ Len(Window) <= Len(ledger)
    <2>1. CASE Len(ledger) <= w
      BY <1>1, <1>2, <2>1
    <2>2. CASE ~(Len(ledger) <= w)
      <3>1. Len(SubSeq(ledger, Len(ledger) - w + 1, Len(ledger))) = w
        BY <1>1, <2>2
      <3> QED  BY <1>1, <1>2, <2>2, <3>1
    <2> QED  BY <2>1, <2>2
  <1> QED  BY <1>1, <1>3, Times DEF WindowSize

LEMMA MetricsInit == Init => MetricsBehind
  <1> SUFFICES ASSUME Init PROVE MetricsBehind
    OBVIOUS
  <1>1. wisdom \in Nat
    BY DEF Init
  <1>2. ledger \in Seq(Rates)
    BY GrowthAssumption DEF Init, GrowthAssumption
  <1> QED  BY <1>1, <1>2 DEF Init, MetricsBehind

LEMMA MetricsNext == GrowthInv /\ MetricsBehind /\ [Next]_vars => MetricsBehind'
  <1> SUFFICES ASSUME GrowthInv, MetricsBehind, [Next]_vars PROVE MetricsBehind'
    OBVIOUS
  <1> USE DEF MetricsBehind
  <1>1. CASE Gather
    <2>1. metrics' = SeasonMetrics /\ pc' = "refresh" /\ UNCHANGED <<identity, wisdom, ledger>>
      BY <1>1 DEF Gather, rows
    <2> QED  BY <2>1, WindowFits DEF SeasonMetrics
  <1>2. CASE Refresh
    <2>1. identity'.season = identity.season /\ identity'.count = identity.count
      BY <1>2 DEF Refresh, GrowthInv, IsRecord
    <2> QED  BY <1>2, <2>1 DEF Refresh, Finished
  <1>3. CASE Converse
    <2>1. PICK r \in Rates : ledger' = Append(ledger, r)
      BY <1>3 DEF Converse
    <2>2. ledger' \in Seq(Rates) /\ Len(ledger') = Len(ledger) + 1
      BY <2>1
    <2>3. Batch * Len(ledger) <= Batch * Len(ledger') /\ Batch * Len(ledger) \in Nat
          /\ Batch * Len(ledger') \in Nat
      BY <2>2, Times, GrowthAssumption DEF GrowthAssumption
    <2> QED  BY <1>3, <2>2, <2>3 DEF Converse, memory
  <1>4. CASE HostStores
    BY <1>4 DEF HostStores, memory
  <1>5. CASE Imprint
    BY <1>5 DEF Imprint, Finished
  <1>6. CASE Cross \/ Crash
    BY <1>6 DEF Cross, Crash, Finished, rows
  <1>7. CASE Boot \/ DiscoverHomes \/ BeginSession \/ CreateSession \/ CountSession
             \/ EndSession \/ FinalizeSession \/ Adopt \/ RediscoverHomes \/ Quit
    BY <1>7 DEF Boot, DiscoverHomes, BeginSession, CreateSession, CountSession,
                EndSession, FinalizeSession, Adopt, RediscoverHomes, Quit, rows, memory
  <1>8. CASE UNCHANGED vars
    BY <1>8 DEF vars, rows, memory
  <1> QED
    BY <1>1, <1>2, <1>3, <1>4, <1>5, <1>6, <1>7, <1>8 DEF Next, OwnerSteps

LEMMA MetricsInvariant == Spec => [](GrowthInv /\ MetricsBehind)
  BY GrowthInvariant, MetricsInit, MetricsNext, PTL DEF Spec
-----------------------------------------------------------------------------
(* The theorems. *)

\* The rows agree with each other and with the engine (lina_core.cpp:1114-1142,
\* 1318-1354): for any number of sessions and stops, no session is counted that
\* has no row, no engine runs in a season that is not the row's, and no landmark
\* stands for a crossing that was not made.
THEOREM RowsAgreeAlways == Spec => []RowsAgree
  <1>1. GrowthInv => RowsAgree
    BY DEF GrowthInv, RowsAgree, EngineFollows, EngineInSeason, LandmarksFollow,
           LandmarksHonest, Crossed, Crossing
  <1> QED  BY <1>1, GrowthInvariant, PTL

LEMMA IdentityChanges ==
  ASSUME GrowthInv, [Next]_vars
  PROVE  /\ identity'.count >= identity.count
         /\ \/ identity'.season = identity.season
            \/ /\ pc = "cross"
               /\ identity'.season = NextSeason(identity.season)
               /\ NextSeason(identity.season) # None
  <1> USE DEF GrowthInv
  <1>1. CASE CountSession
    BY <1>1 DEF CountSession, CopyIsFresh, IsRecord
  <1>2. CASE Refresh
    BY <1>2 DEF Refresh, IsRecord
  <1>3. CASE Cross
    BY <1>3 DEF Cross, IsRecord
  <1>4. ASSUME UNCHANGED identity PROVE identity'.count >= identity.count
    BY <1>4 DEF IsRecord
  <1>5. CASE UNCHANGED vars \/ Converse \/ HostStores \/ Crash \/ Imprint
             \/ Boot \/ DiscoverHomes \/ BeginSession \/ CreateSession
             \/ EndSession \/ FinalizeSession \/ Gather \/ Adopt
             \/ RediscoverHomes \/ Quit
    <2>1. UNCHANGED identity
      BY <1>5 DEF vars, rows, Converse, HostStores, Crash, Imprint, Boot, DiscoverHomes,
                  BeginSession, CreateSession, EndSession, FinalizeSession, Gather,
                  Adopt, RediscoverHomes, Quit
    <2> QED  BY <1>4, <2>1
  <1> QED  BY <1>1, <1>2, <1>3, <1>5 DEF Next, OwnerSteps

\* Three operations write the identity row whole, from records read earlier
\* (lina_core.cpp:1114-1137, 1310-1316, 1338): none takes back a session or a
\* season.
THEOREM NothingIsTakenBack == Spec => NothingTakenBack
  <1>1. GrowthInv /\ [Next]_vars =>
          [/\ identity'.count >= identity.count
           /\ Place(identity'.season) >= Place(identity.season)]_vars
    <2> SUFFICES ASSUME GrowthInv, [Next]_vars
                 PROVE  /\ identity'.count >= identity.count
                        /\ Place(identity'.season) >= Place(identity.season)
      OBVIOUS
    <2>1. identity.season \in Seasons
      BY DEF GrowthInv, IsRecord
    <2> QED  BY <2>1, IdentityChanges, SeasonsInOrder
  <1> QED  BY <1>1, GrowthInvariant, PTL DEF Spec, NothingTakenBack

\* A season turns into the next one only, once the rows themselves hold the
\* sessions, the evaluations and the memories it asks for (can_advance,
\* value_engine.cpp:1591-1652, against lina_core.cpp:1280-1338), whatever
\* came in since the metrics were read.
THEOREM CrossingIsEarned == Spec => CrossingEarned
  <1> DEFINE Earns == identity'.season # identity.season =>
                        LET req == Requirements[identity.season] IN
                        /\ identity'.season = req.to
                        /\ Cardinality(opened) >= req.sessions
                        /\ Batch * Len(ledger) >= req.evaluations
                        /\ wisdom >= req.wisdom
  <1>1. ASSUME GrowthInv, MetricsBehind, [Next]_vars PROVE Earns
    <2> SUFFICES ASSUME identity'.season # identity.season PROVE Earns
      OBVIOUS
    <2> DEFINE req == Requirements[identity.season]
    <2>1. /\ pc = "cross" /\ identity.season \in Seasons /\ identity.count \in Nat
          /\ identity'.season = req.to
      BY <1>1, IdentityChanges DEF GrowthInv, IsRecord, NextSeason
    <2>2. /\ req.sessions \in Nat /\ req.evaluations \in Nat /\ req.wisdom \in Nat
      BY <2>1 DEF Seasons, Requirements
    <2>3. Reasons(metrics) = {} /\ metrics.season = identity.season
      BY <1>1, <2>1 DEF MetricsBehind, CanAdvance
    <2> HIDE DEF req
    <2>4. /\ ~(metrics.sessions < req.sessions)
          /\ ~(metrics.total < req.evaluations)
          /\ ~(metrics.wisdom < req.wisdom)
      BY <2>3 DEF Reasons, req
    <2>5. req.sessions <= identity.count /\ req.wisdom <= wisdom
          /\ req.evaluations <= Batch * Len(ledger)
      <3>1. Batch * Len(ledger) \in Nat
        BY <1>1, Times, GrowthAssumption DEF GrowthAssumption, MetricsBehind
      <3> QED  BY <1>1, <2>1, <2>2, <2>4, <3>1 DEF MetricsBehind
    <2>6. Cardinality(opened) >= identity.count /\ Cardinality(opened) \in Nat
      <3>1. /\ IsFiniteSet(1..identity.count) /\ Cardinality(1..identity.count) = identity.count
            /\ IsFiniteSet(1..(identity.count + 1))
        BY <2>1, FS_Interval
      <3>2. 1..identity.count \subseteq opened /\ opened \subseteq 1..(identity.count + 1)
        BY <1>1 DEF GrowthInv, CountBacked
      <3>3. IsFiniteSet(opened)
        BY <3>1, <3>2, FS_Subset
      <3> QED  BY <3>1, <3>2, <3>3, FS_Subset, FS_CardinalityType
    <2> QED  BY <1>1, <2>1, <2>2, <2>5, <2>6 DEF req, MetricsBehind
  <1>2. GrowthInv /\ MetricsBehind /\ [Next]_vars => [Earns]_vars
    BY <1>1
  <1> QED  BY <1>2, MetricsInvariant, PTL DEF Spec, CrossingEarned
=============================================================================
