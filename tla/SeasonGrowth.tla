---------------------------- MODULE SeasonGrowth ----------------------------
(***************************************************************************)
(* Sessions and seasons: boot, begin_session, end_session and the growth   *)
(* loop (src/src/lina_core.cpp, src/src/value_engine.cpp), over the        *)
(* identity row, the session rows, the evaluation ledger and the landmark  *)
(* memories of PostgreSQL.                                                 *)
(*                                                                         *)
(* The owner's thread makes one storage call a step.  Turn threads append  *)
(* to the ledger meanwhile.  A storage call that throws ends the process,  *)
(* in the command line (main's handler) as in the window (its destructor); *)
(* its statement may have been carried out: the process may stop between   *)
(* any two steps, and what it kept in memory is gone.                      *)
(***************************************************************************)
EXTENDS Integers, FiniteSets, SequencesExt

CONSTANTS
  Identities,   \* identity rows the database may begin with
  Ledgers,      \* ledgers it may begin with
  Rates,        \* evaluations out of a batch that are no violation
  Batch,        \* evaluations a session's conversation adds at a time
  MaxBatches,   \* bound: batches in the ledger
  MaxBegun,     \* bound: sessions begun
  MaxStored,    \* bound: memories the host stores
  MaxCrashes    \* bound: stops of the process

VARIABLES
  identity,   \* lina_identity_core: [season, count, total, rate]
  opened,     \* lina_sessions: the numbers that have a row
  finalized,  \* of those, the ones finalized
  ledger,     \* lina_evaluations: per batch, how many are no violation
  wisdom,     \* memories formed by choice (count_qualifying_memories)
  landmarks,  \* seasons whose beginning is remembered
  pc,         \* where the owner's thread is
  sid,        \* current_session_id_: its number, or 0
  copy,       \* the identity record begin_session has read
  metrics,    \* the SeasonAdvancementMetrics of the check
  engine,     \* the season of the value engine's constraints
  feedback,   \* the season of its feedback system
  poles,      \* the season of the lattice its home regions lie in
  spent,      \* auxiliary: sessions begun, memories stored by the host, stops
  cut         \* auxiliary: seasons whose crossing was cut short by a stop

rows == <<identity, opened, finalized, ledger, wisdom, landmarks>>
memory == <<sid, copy, metrics, engine, feedback, poles>>
vars == <<rows, pc, memory, spent, cut>>

Seasons == {"spring", "summer", "fall", "winter"}
None == "none"
Place(s) == CASE s = "spring" -> 1 [] s = "summer" -> 2
              [] s = "fall" -> 3   [] s = "winter" -> 4 [] s = None -> 0

Identity == [season : Seasons, count : Nat, total : Nat, rate : 0..100]
Metrics == [season : Seasons, sessions : Nat, total : Nat, rate : 0..100, wisdom : Nat]
NoMetrics == [season |-> "spring", sessions |-> 0, total |-> 0, rate |-> 0, wisdom |-> 0]

GrowthAssumption ==
  /\ Identities \subseteq Identity
  /\ Batch \in Nat \ {0} /\ 100 % Batch = 0
  /\ Rates \subseteq 0..Batch
  /\ Ledgers \subseteq Seq(Rates)
  /\ {MaxBatches, MaxBegun, MaxStored, MaxCrashes} \subseteq Nat
ASSUME GrowthAssumption
-----------------------------------------------------------------------------
(* The season advancement evaluator. *)

Requirements ==
  [spring |-> [sessions |-> 5,  evaluations |-> 50, rate |-> 85, wisdom |-> 7,  to |-> "summer"],
   summer |-> [sessions |-> 10, evaluations |-> 50, rate |-> 88, wisdom |-> 15, to |-> "fall"],
   fall   |-> [sessions |-> 20, evaluations |-> 50, rate |-> 90, wisdom |-> 30, to |-> "winter"],
   winter |-> [sessions |-> 0,  evaluations |-> 0,  rate |-> 0,  wisdom |-> 0,  to |-> None]]

\* Mutant: the requirements must be exceeded.
MustExceed(m) ==
  LET req == Requirements[m.season] IN
  {c \in {"sessions", "evaluations", "wisdom", "rate"} :
     CASE c = "sessions" -> m.sessions <= req.sessions
       [] c = "evaluations" -> m.total < req.evaluations
       [] c = "wisdom" -> m.wisdom < req.wisdom
       [] c = "rate" -> m.rate < req.rate}

\* The criteria not met yet; their wording is left out.
Reasons(m) ==
  LET req == Requirements[m.season] IN
  {c \in {"sessions", "evaluations", "wisdom", "rate"} :
     CASE c = "sessions" -> m.sessions < req.sessions
       [] c = "evaluations" -> m.total < req.evaluations
       [] c = "wisdom" -> m.wisdom < req.wisdom
       [] c = "rate" -> m.rate < req.rate}

NextSeason(s) == Requirements[s].to
CanAdvance(m) == NextSeason(m.season) # None /\ Reasons(m) = {}

\* The newest hundred evaluations, as batches of the ledger.
Window ==
  LET n == Len(ledger)  w == 100 \div Batch
  IN IF n <= w THEN ledger ELSE SubSeq(ledger, n - w + 1, n)

Total(s) == FoldSeq(LAMBDA a, b : a + b, 0, s)
WindowSize == Batch * Len(Window)
\* In whole percents; what is no violation counts as aligned.
WindowRate == IF Window = <<>> THEN 0 ELSE (100 * Total(Window)) \div WindowSize

SeasonMetrics ==
  [season |-> identity.season, sessions |-> identity.count,
   total |-> WindowSize, rate |-> WindowRate, wisdom |-> wisdom]
-----------------------------------------------------------------------------
(* Boot. *)

Running == pc # "down"

\* The identity row gives the engine, the feedback and the poles their season.
Boot ==
  /\ pc = "down"
  /\ engine' = identity.season
  /\ feedback' = identity.season
  /\ poles' = identity.season
  /\ copy' = identity
  /\ pc' = "homes"
  /\ UNCHANGED <<rows, sid, metrics, spent, cut>>

\* discover_home_regions: the memories are clustered and their centroids put
\* into the lattice the region engine was built with.
DiscoverHomes ==
  /\ pc = "homes"
  /\ pc' = "gather"
  /\ UNCHANGED <<rows, memory, spent, cut>>
-----------------------------------------------------------------------------
(* Sessions. *)

\* Mutant: the count is written before the row it counts.
CountEarly ==
  /\ pc = "idle" /\ sid = 0
  /\ spent.begun < MaxBegun
  /\ spent' = [spent EXCEPT !.begun = @ + 1]
  /\ copy' = identity
  /\ sid' = identity.count + 1
  /\ identity' = [identity EXCEPT !.count = @ + 1]
  /\ pc' = "open"
  /\ UNCHANGED <<opened, finalized, ledger, wisdom, landmarks, metrics, engine,
                 feedback, poles, cut>>

\* begin_session itself does not ask for a session to be over; its callers open
\* one and end it before they open another (lina_ui.cpp:977 and 1014,
\* lina_core.cpp:1360 and 1380).
BeginSession ==
  /\ pc = "idle" /\ sid = 0
  /\ spent.begun < MaxBegun
  /\ spent' = [spent EXCEPT !.begun = @ + 1]
  /\ copy' = identity
  /\ sid' = identity.count + 1
  /\ pc' = "open"
  /\ UNCHANGED <<rows, metrics, engine, feedback, poles, cut>>

CreateSession ==
  /\ pc = "open"
  /\ opened' = opened \cup {sid}
  /\ pc' = "count"
  /\ UNCHANGED <<identity, finalized, ledger, wisdom, landmarks, memory, spent, cut>>

\* The whole record that was read goes back, with the new count.
CountSession ==
  /\ pc = "count"
  /\ identity' = [copy EXCEPT !.count = sid]
  /\ pc' = "idle"
  /\ UNCHANGED <<opened, finalized, ledger, wisdom, landmarks, memory, spent, cut>>

\* The sweep and the maintenance, then the row is finalized.
EndSession ==
  /\ pc = "idle" /\ sid # 0
  /\ pc' = "finalize"
  /\ UNCHANGED <<rows, memory, spent, cut>>

FinalizeSession ==
  /\ pc = "finalize"
  /\ finalized' = finalized \cup (opened \cap {sid})
  /\ pc' = "gather"
  /\ UNCHANGED <<identity, opened, ledger, wisdom, landmarks, memory, spent, cut>>
-----------------------------------------------------------------------------
(* The growth loop, at boot and at the end of a session. *)

Gather ==
  /\ pc = "gather"
  /\ metrics' = SeasonMetrics
  /\ pc' = "refresh"
  /\ UNCHANGED <<rows, sid, copy, engine, feedback, poles, spent, cut>>

\* The check is over: the constructor or end_session returns.
Finished == pc' = "idle" /\ sid' = 0 /\ metrics' = NoMetrics

\* Mutant: the record begin_session has read goes back.
RefreshStale ==
  /\ pc = "refresh"
  /\ identity' = [copy EXCEPT !.total = metrics.total, !.rate = metrics.rate]
  /\ IF CanAdvance(metrics) THEN pc' = "cross" /\ UNCHANGED <<sid, metrics>> ELSE Finished
  /\ UNCHANGED <<opened, finalized, ledger, wisdom, landmarks, copy,
                 engine, feedback, poles, spent, cut>>

\* The identity's totals are refreshed from the window of the ledger.
Refresh ==
  /\ pc = "refresh"
  /\ identity' = [identity EXCEPT !.total = metrics.total, !.rate = metrics.rate]
  /\ IF CanAdvance(metrics) THEN pc' = "cross" /\ UNCHANGED <<sid, metrics>> ELSE Finished
  /\ UNCHANGED <<opened, finalized, ledger, wisdom, landmarks, copy,
                 engine, feedback, poles, spent, cut>>

\* The season of the row turns first.
Cross ==
  /\ pc = "cross"
  /\ IF NextSeason(identity.season) = None
     THEN Finished /\ UNCHANGED identity
     ELSE /\ identity' = [identity EXCEPT !.season = NextSeason(@)]
          /\ pc' = "adopt"
          /\ UNCHANGED <<sid, metrics>>
  /\ UNCHANGED <<opened, finalized, ledger, wisdom, landmarks, copy,
                 engine, feedback, poles, spent, cut>>

\* advance_season: constraints, lattice and feedback.
Adopt ==
  /\ pc = "adopt"
  /\ engine' = identity.season
  /\ feedback' = identity.season
  /\ pc' = "rehome"
  /\ UNCHANGED <<rows, sid, copy, metrics, poles, spent, cut>>

\* The homes are found again; the region engine keeps the constraints of its
\* construction.
RediscoverHomes ==
  /\ pc = "rehome"
  /\ pc' = "imprint"
  /\ UNCHANGED <<rows, memory, spent, cut>>

\* The landmark; formed by "reflection", it is a qualifying memory itself.
Imprint ==
  /\ pc = "imprint"
  /\ landmarks' = landmarks \cup {identity.season}
  /\ wisdom' = wisdom + 1
  /\ Finished
  /\ UNCHANGED <<identity, opened, finalized, ledger, copy, engine,
                 feedback, poles, spent, cut>>
-----------------------------------------------------------------------------
(* The others. *)

\* A conversation's turns record their outcomes.
Converse ==
  /\ Running /\ pc \notin {"homes"}
  /\ Len(ledger) < MaxBatches
  /\ \E r \in Rates : ledger' = Append(ledger, r)
  /\ UNCHANGED <<identity, opened, finalized, wisdom, landmarks, pc, memory, spent, cut>>

\* The host stores a memory formed by choice; nothing in src/ does, but the
\* crossing itself.
HostStores ==
  /\ spent.stored < MaxStored
  /\ spent' = [spent EXCEPT !.stored = @ + 1]
  /\ wisdom' = wisdom + 1
  /\ UNCHANGED <<identity, opened, finalized, ledger, landmarks, pc, memory, cut>>

\* The program is left between two sessions.
Quit ==
  /\ pc = "idle" /\ sid = 0
  /\ pc' = "down"
  /\ UNCHANGED <<rows, memory, spent, cut>>

Crash ==
  /\ Running
  /\ spent.crashes < MaxCrashes
  /\ spent' = [spent EXCEPT !.crashes = @ + 1]
  /\ pc' = "down"
  /\ sid' = 0 /\ metrics' = NoMetrics
  /\ cut' = IF pc \in {"adopt", "rehome", "imprint"}
            THEN cut \cup {identity.season} ELSE cut
  /\ UNCHANGED <<rows, copy, engine, feedback, poles>>

Init ==
  /\ identity \in Identities
  /\ opened = 1..identity.count
  /\ finalized = opened
  /\ ledger \in Ledgers
  /\ wisdom \in {Requirements[identity.season].wisdom - 1, 30} \cap Nat
  /\ landmarks = {s \in Seasons : 1 < Place(s) /\ Place(s) <= Place(identity.season)}
  /\ pc = "down"
  /\ sid = 0
  /\ copy = identity
  /\ metrics = NoMetrics
  /\ engine = identity.season /\ feedback = identity.season /\ poles = identity.season
  /\ spent = [begun |-> 0, stored |-> 0, crashes |-> 0]
  /\ cut = {}

OwnerSteps ==
  \/ Boot \/ DiscoverHomes
  \/ BeginSession \/ CreateSession \/ CountSession
  \/ EndSession \/ FinalizeSession
  \/ Gather \/ Refresh \/ Cross \/ Adopt \/ RediscoverHomes \/ Imprint
  \/ Quit

Next == OwnerSteps \/ Converse \/ HostStores \/ Crash

\* The process is started again whenever it is down, and its sessions begin and end.
Fairness == WF_vars(OwnerSteps)

Spec == Init /\ [][Next]_vars /\ Fairness
-----------------------------------------------------------------------------
TypeOK ==
  /\ identity \in Identity
  /\ opened \subseteq Nat /\ finalized \subseteq opened
  /\ ledger \in Seq(Rates)
  /\ wisdom \in Nat
  /\ landmarks \subseteq Seasons /\ cut \subseteq Seasons
  /\ pc \in {"down", "homes", "idle", "open", "count", "finalize", "gather",
             "refresh", "cross", "adopt", "rehome", "imprint"}
  /\ sid \in Nat /\ copy \in Identity /\ metrics \in Metrics
  /\ {engine, feedback, poles} \subseteq Seasons
  /\ spent \in [begun : 0..MaxBegun, stored : 0..MaxStored, crashes : 0..MaxCrashes]

\* Every session counted has its row, and at most one row is not counted:
\* a stop between create_session and update_identity never counts a session
\* that is not there (lina_core.cpp:1127-1131).
CountBacked ==
  /\ 1..identity.count \subseteq opened
  /\ opened \subseteq 1..(identity.count + 1)

\* The identity row is written whole by three operations, from records read
\* earlier: none of them takes a session or a season back.
NothingTakenBack ==
  [][/\ identity'.count >= identity.count
     /\ Place(identity'.season) >= Place(identity.season)]_vars

\* A season turns into the next one only, and only once the rows themselves
\* hold the sessions, the evaluations and the memories it asks for - whatever
\* was appended or stored since the metrics were read.
CrossingEarned ==
  [][identity'.season # identity.season =>
       LET req == Requirements[identity.season] IN
       /\ identity'.season = req.to
       /\ Cardinality(opened) >= req.sessions
       /\ Batch * Len(ledger) >= req.evaluations
       /\ wisdom >= req.wisdom]_vars

\* Between operations the engine and its feedback are in the season of the
\* identity row, after any stop and at any crossing.
EngineInSeason == pc = "idle" => engine = identity.season /\ feedback = identity.season

\* No landmark without its crossing; and only a crossing cut short by a stop
\* is not remembered.
LandmarksHonest ==
  LET crossed == {s \in Seasons : 1 < Place(s) /\ Place(s) <= Place(identity.season)} IN
  /\ landmarks \subseteq crossed
  /\ pc = "idle" => crossed \subseteq landmarks \cup cut

\* The rows agree with each other and with the engine, at any crossing and
\* after any stop: no session counted without its row, no landmark without its
\* crossing, no value engine in another season than the identity row's.
RowsAgree == CountBacked /\ EngineInSeason /\ LandmarksHonest

\* The autonomy watch: a season whose requirements the rows meet for good is
\* left in the end, at a boot or at the end of a session, though the process
\* may stop in between.
Earned ==
  LET req == Requirements[identity.season] IN
  /\ req.to # None
  /\ identity.count >= req.sessions /\ WindowSize >= req.evaluations
  /\ wisdom >= req.wisdom /\ WindowRate >= req.rate
EarnedIsGranted == ~<>[]Earned

\* Seasons are crossed when they are earned: never before, and in the end.
CrossingSound == CrossingEarned /\ EarnedIsGranted

\* "Her homes move with the lattice - same memories, new bounds"
\* (lina_core.cpp:1341, docs/DECISIONS.md D-048).  They stay in the lattice of
\* the boot.
HomesMove == pc = "idle" => poles = engine
=============================================================================
