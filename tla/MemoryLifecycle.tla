-------------------------- MODULE MemoryLifecycle --------------------------
(***************************************************************************)
(* The memory module over its PostgreSQL store: formation, the sweep of    *)
(* the tiers, the maintenance of active and subconscious memories, and the *)
(* legacy review (src/src/memory_module.cpp).                              *)
(*                                                                         *)
(* A memory is one row with a standing tier and a lifecycle status; a tier *)
(* move updates the row in place.  The owner's thread sweeps and maintains *)
(* at the end of a session, one storage call at a time, while the turn     *)
(* threads form new memories between any two of its calls.  A storage call *)
(* may throw; the process may stop between two calls.                      *)
(*                                                                         *)
(* Scores are hundredths, as the column DECIMAL(5,2) keeps them, and times *)
(* are days.  Decay is taken in whole half-lives.                          *)
(***************************************************************************)
EXTENDS Integers, Sequences

CONSTANTS
  Items,        \* the identifiers generate_item_id draws
  Geometries,   \* geometric significances a narrative may have, in 0..10
  Days,         \* the days on which something happens
  Forms,        \* how the store may hand a time back: "sql" or "iso"
  Existing,     \* rows an existing database may already hold
  ScoreBound    \* bound: no review runs once a score is past it

VARIABLES
  form,     \* the form in which this store hands times back
  rows,     \* lina_memory_items: a row, or NoRow
  born,     \* identifiers already drawn
  day,      \* the clock
  pc,       \* where the owner is: a tier, a status, "review" or "idle"
  todo,     \* per tier or status, the fetched rows still to visit
  calls,    \* storage calls the visit of one item has still to make
  steps,    \* auxiliary: tier steps each item took in this sweep
  fell,     \* auxiliary: the day an item entered the fallout, the gate it failed
  refused   \* auxiliary: items whose move to long term met a storage error

vars == <<form, rows, born, day, pc, todo, calls, steps, fell, refused>>

NoRow == [tier |-> "none"]
Never == -1
Tiers == {"t1", "t2", "t3", "fallout"}
Statuses == {"active", "subconscious", "legacy"}
Loops == Tiers \cup Statuses
Row == [score : 0..(ScoreBound + 200), status : Statuses, tier : Tiers \cup {"long_term"},
        keep : BOOLEAN, refs : Nat, created : Days \cup {Never},
        decay : Days \cup {Never}]

GATE_T1_TO_T2 == 300
FORMATION_LONG_TERM_BYPASS == 800
SUBCONSCIOUS_LINE == 400
LEGACY_ENTER == 950
LEGACY_FLOOR == 800
GONE_LINE == 50
TRIGGER_RETENTION_FLOOR == 500

Gate == [t1 |-> GATE_T1_TO_T2, t2 |-> 350, t3 |-> 500]
NextTier == [t1 |-> "t2", t2 |-> "t3"]

MemoryAssumption ==
  /\ Geometries \subseteq 0..10
  /\ 0 \in Days /\ Days \subseteq Nat
  /\ Forms \subseteq {"sql", "iso"}
  /\ Existing \subseteq Row
  /\ ScoreBound \in Nat /\ ScoreBound >= 1000
ASSUME MemoryAssumption

Present(i) == rows[i] # NoRow
LowerOf(a, b) == IF a < b THEN a ELSE b
HigherOf(a, b) == IF a > b THEN a ELSE b
-----------------------------------------------------------------------------
(* Formation. *)

\* The blend of a moment's factors, at emotional intensity 0.5 (a multiplier
\* of one); factors in 0..10, the score in hundredths.
ScoreMemory(emotional, relational, identity, geometric) ==
  LowerOf(30 * identity + 25 * geometric + 25 * emotional + 20 * relational, 1000)

\* A new item: active and unprotected whatever its route will say.
BuildItem(score, keep) ==
  [score |-> score, status |-> "active", tier |-> "t1", keep |-> keep,
   refs |-> 0, created |-> day, decay |-> Never]

RouteStage(score) == IF score >= Gate["t3"] THEN "long_term" ELSE "t1"
RouteStatus(score) ==
  IF score >= FORMATION_LONG_TERM_BYPASS THEN "legacy" ELSE "active"

Insert(i, row) ==
  /\ i \notin born
  /\ born' = born \cup {i}
  /\ rows' = [rows EXCEPT ![i] = row]
  /\ UNCHANGED <<form, day, pc, todo, calls, steps, fell, refused>>

\* A delivered reply is stored as it is, with no route: the column's default
\* tier is t1.
StoreReply(i) ==
  \E g \in Geometries : Insert(i, BuildItem(ScoreMemory(5, 0, 0, g), FALSE))

\* The landmark of a season crossing.
StoreLandmark(i) ==
  \E g \in Geometries : Insert(i, BuildItem(ScoreMemory(10, 0, 10, g), TRUE))

\* A moment of a batch: scored by its own weight, then routed.
FormItem(i) ==
  \E g \in Geometries, weight \in {0, 6, 10} :
    LET score == ScoreMemory(weight, 0, 0, g) IN
    Insert(i, [BuildItem(score, FALSE) EXCEPT !.tier = RouteStage(score),
                                              !.status = RouteStatus(score)])

\* A trigger: floored at the retention floor and stored in long term.
IngestTrigger(i) ==
  \E g \in Geometries :
    LET score == HigherOf(ScoreMemory(5, 5, 3, g), TRIGGER_RETENTION_FLOOR) IN
    Insert(i, [BuildItem(score, FALSE) EXCEPT !.tier = "long_term",
                                              !.status = RouteStatus(score)])
-----------------------------------------------------------------------------
(* The decisions. *)

\* parse_iso reads "YYYY-MM-DDTHH:MM:SS"; a TIMESTAMP column comes back with a
\* blank in place of the T, and does not parse.
ParseIso(t) == IF form = "iso" THEN t ELSE Never

\* Rewards for use; an age penalty for what was never referenced.
MaintenanceDelta(row) ==
  LET reward == CASE row.refs >= 25 -> 200
                  [] row.refs >= 10 -> 150
                  [] row.refs >= 3  -> 100
                  [] OTHER          -> 0
      born_on == ParseIso(row.created)
      age == day - born_on
  IN IF born_on = Never THEN reward
     ELSE IF age >= 180 THEN -200
     ELSE IF age >= 90 THEN -100
     ELSE reward

\* Mutant: the floor is lost.
AdjustedFreely(row, kept) == HigherOf(0, row.score + MaintenanceDelta(row))

\* MemoryDial::adjust: never below the floor, which for a must-keep row is
\* its own score.
Adjusted(row, kept) ==
  HigherOf(IF kept THEN row.score ELSE 0, row.score + MaintenanceDelta(row))

MonthlyStatus(score) ==
  CASE score >= LEGACY_ENTER -> "legacy"
    [] score < SUBCONSCIOUS_LINE -> "subconscious"
    [] OTHER -> "active"

Judged(row, score, status) ==
  [row EXCEPT !.score = score, !.status = status,
              !.decay = IF status = "subconscious" THEN day ELSE Never]

ApplyMonthly(row) ==
  LET score == Adjusted(row, row.keep) IN Judged(row, score, MonthlyStatus(score))

\* No row is ever protected: the flag of the route is not stored.
ApplyLegacyReview(row) ==
  LET score == Adjusted(row, FALSE) IN
  Judged(row, score, IF score < LEGACY_FLOOR THEN "subconscious" ELSE "legacy")

\* The slope, from the later of decay start and creation.
Anchor(row) == HigherOf(ParseIso(row.decay), ParseIso(row.created))
IdleDays(row) == day - Anchor(row)
Slope(row) == row.score \div 2 ^ (IdleDays(row) \div 200)
Gone(row) ==
  /\ Anchor(row) # Never
  /\ IdleDays(row) >= 730 \/ Slope(row) < GONE_LINE
SlopeEffective(row) == IF Anchor(row) = Never THEN row.score ELSE Slope(row)
-----------------------------------------------------------------------------
(* Storage calls; "try" says that run_sweep catches what the call throws. *)

StoreTier(i, tier, row) ==
  [op |-> "store", item |-> i, row |-> [row EXCEPT !.tier = tier], try |-> FALSE]
StoreLongTerm(i, row) == StoreTier(i, "long_term", [row EXCEPT !.status = "active"])
DeleteTier(i, tier) == [op |-> "delete", item |-> i, tier |-> tier, try |-> FALSE]
LogPromotion(i) == [op |-> "log", item |-> i, try |-> FALSE]
UpdateItem(i, row) == [op |-> "update", item |-> i, row |-> row, try |-> FALSE]
DeleteItem(i) == [op |-> "forget", item |-> i, try |-> FALSE]

Try(c) == [c EXCEPT !.try = TRUE]

\* The upsert moves the row in place and keeps the times it does not name.
Upserted(i, row) ==
  IF Present(i) THEN [row EXCEPT !.created = rows[i].created, !.decay = rows[i].decay]
  ELSE row

\* Mutant: the delete names the item alone.
DeletedAnywhere(i, tier) == NoRow

\* A delete of a tier leaves a row that has moved on alone.
Deleted(i, tier) == IF rows[i].tier = tier THEN NoRow ELSE rows[i]

\* The row of a call's item after the call.
After(c) ==
  CASE c.op = "store"  -> Upserted(c.item, c.row)
    [] c.op = "delete" -> Deleted(c.item, c.tier)
    [] c.op = "log"    -> rows[c.item]
    [] c.op = "update" -> IF Present(c.item) THEN c.row ELSE NoRow
    [] c.op = "forget" -> NoRow

Call ==
  /\ calls # <<>>
  /\ rows' = [rows EXCEPT ![Head(calls).item] = After(Head(calls))]
  /\ calls' = Tail(calls)
  /\ UNCHANGED <<form, born, day, pc, todo, steps, fell, refused>>

\* The call throws, its statement carried out or not.  In the promotion out
\* of t3 the handler removes the row from t3; anywhere else the exception
\* leaves end_session.
CallThrows ==
  /\ calls # <<>>
  /\ LET c == Head(calls) IN
     /\ \/ rows' = rows
        \/ rows' = [rows EXCEPT ![c.item] = After(c)]
     /\ IF c.try
        THEN /\ calls' = <<DeleteTier(c.item, "t3")>>
             /\ refused' = refused \cup {c.item}
             /\ UNCHANGED <<pc, todo>>
        ELSE /\ calls' = <<>>
             /\ pc' = "idle"
             /\ todo' = [l \in Loops |-> {}]
             /\ UNCHANGED refused
  /\ UNCHANGED <<form, born, day, steps, fell>>

\* The process stops; the rows are all that is left.
Crash ==
  /\ pc # "idle"
  /\ pc' = "idle"
  /\ calls' = <<>>
  /\ todo' = [l \in Loops |-> {}]
  /\ UNCHANGED <<form, rows, born, day, steps, fell, refused>>
-----------------------------------------------------------------------------
(* The sweep. *)

StandingIn(t) == {i \in Items : Present(i) /\ rows[i].tier = t}
WithStatus(s) == {i \in Items : Present(i) /\ rows[i].status = s}

\* One snapshot of every tier before any item is moved.
RunSweep ==
  /\ pc = "idle"
  /\ pc' = "t1"
  /\ todo' = [l \in Loops |-> IF l \in Tiers THEN StandingIn(l) ELSE {}]
  /\ steps' = [i \in Items |-> 0]
  /\ UNCHANGED <<form, rows, born, day, calls, fell, refused>>

Visit(i, l) ==
  /\ pc = l
  /\ calls = <<>>
  /\ i \in todo[l]
  /\ todo' = [todo EXCEPT ![l] = @ \ {i}]

TakesStep(i) == steps' = [steps EXCEPT ![i] = @ + 1]

\* Past its gate: one tier up, or from t3 to long term.
Promote(i, t) ==
  /\ Visit(i, t)
  /\ rows[i].score >= Gate[t]
  /\ calls' = IF t = "t3"
              THEN <<Try(StoreLongTerm(i, rows[i])), Try(LogPromotion(i)),
                     Try(DeleteTier(i, t))>>
              ELSE <<StoreTier(i, NextTier[t], rows[i]), DeleteTier(i, t),
                     LogPromotion(i)>>
  /\ TakesStep(i)
  /\ UNCHANGED <<form, rows, born, day, pc, fell, refused>>

\* Under its gate: into the fallout.  The upsert has no column for the gate it
\* failed and the time it fell; "fell" keeps them for the properties.
FallOut(i, t) ==
  /\ Visit(i, t)
  /\ rows[i].score < Gate[t]
  /\ calls' = <<StoreTier(i, "fallout", rows[i]), DeleteTier(i, t)>>
  /\ fell' = [fell EXCEPT ![i] = [on |-> day, gate |-> Gate[t]]]
  /\ TakesStep(i)
  /\ UNCHANGED <<form, rows, born, day, pc, refused>>

\* Out of the fallout.  entered_fallout_at and failed_gate read as NULL: no
\* grace is found, and the gate is the first one.
LeaveFallout(i) ==
  /\ Visit(i, "fallout")
  /\ calls' = IF rows[i].score < GATE_T1_TO_T2
              THEN <<DeleteTier(i, "fallout")>>
              ELSE <<StoreTier(i, "t1", rows[i]), DeleteTier(i, "fallout"),
                     LogPromotion(i)>>
  /\ TakesStep(i)
  /\ UNCHANGED <<form, rows, born, day, pc, fell, refused>>
-----------------------------------------------------------------------------
(* Maintenance and review. *)

Judge(i, row) ==
  calls' = IF row.status = rows[i].status THEN <<UpdateItem(i, row)>>
           ELSE <<LogPromotion(i), UpdateItem(i, row)>>

Reevaluate(i) ==
  /\ Visit(i, "active")
  /\ Judge(i, ApplyMonthly(rows[i]))
  /\ UNCHANGED <<form, rows, born, day, pc, steps, fell, refused>>

Decay(i) ==
  /\ Visit(i, "subconscious")
  /\ calls' = IF Gone(rows[i]) THEN <<DeleteItem(i)>>
              ELSE <<UpdateItem(i, [rows[i] EXCEPT !.score = SlopeEffective(rows[i])])>>
  /\ UNCHANGED <<form, rows, born, day, pc, steps, fell, refused>>

RunLegacyReview ==
  /\ pc = "idle"
  /\ \A i \in Items : Present(i) => rows[i].score <= ScoreBound
  /\ pc' = "legacy"
  /\ todo' = [todo EXCEPT !["legacy"] = WithStatus("legacy")]
  /\ UNCHANGED <<form, rows, born, day, calls, steps, fell, refused>>

Review(i) ==
  /\ Visit(i, "legacy")
  /\ Judge(i, ApplyLegacyReview(rows[i]))
  /\ UNCHANGED <<form, rows, born, day, pc, steps, fell, refused>>

\* The next loop of the sweep and of the maintenance that follows it, with the
\* rows it fetches.
NextLoop ==
  [t1 |-> "t2", t2 |-> "t3", t3 |-> "fallout", fallout |-> "active",
   active |-> "subconscious", subconscious |-> "idle", legacy |-> "idle"]

\* Mutant: each loop scans its tier when it starts.
ProceedRescans ==
  /\ pc # "idle"
  /\ calls = <<>>
  /\ todo[pc] = {}
  /\ pc' = NextLoop[pc]
  /\ todo' = CASE pc' \in Statuses -> [todo EXCEPT ![pc'] = WithStatus(pc')]
              [] pc' \in Tiers -> [todo EXCEPT ![pc'] = StandingIn(pc')]
              [] OTHER -> todo
  /\ UNCHANGED <<form, rows, born, day, calls, steps, fell, refused>>

Proceed ==
  /\ pc # "idle"
  /\ calls = <<>>
  /\ todo[pc] = {}
  /\ pc' = NextLoop[pc]
  /\ todo' = IF pc' \in {"active", "subconscious"}
             THEN [todo EXCEPT ![pc'] = WithStatus(pc')] ELSE todo
  /\ UNCHANGED <<form, rows, born, day, calls, steps, fell, refused>>
-----------------------------------------------------------------------------
\* Days pass between the sessions; a sweep takes less than one.
Tick ==
  /\ pc = "idle"
  /\ \E d \in Days : d > day /\ day' = d
  /\ UNCHANGED <<form, rows, born, pc, todo, calls, steps, fell, refused>>

Init ==
  /\ form \in Forms
  /\ born \in SUBSET Items
  /\ rows \in {r \in [Items -> Existing \cup {NoRow}] :
                 \A i \in Items : r[i] # NoRow <=> i \in born}
  /\ day = 0
  /\ pc = "idle"
  /\ todo = [l \in Loops |-> {}]
  /\ calls = <<>>
  /\ steps = [i \in Items |-> 0]
  /\ fell = [i \in Items |-> [on |-> Never, gate |-> 0]]
  /\ refused = {}

Formation(i) ==
  StoreReply(i) \/ StoreLandmark(i) \/ FormItem(i) \/ IngestTrigger(i)
SweepItem(i) ==
  \/ \E t \in {"t1", "t2", "t3"} : Promote(i, t) \/ FallOut(i, t)
  \/ LeaveFallout(i)
Maintain(i) == Reevaluate(i) \/ Decay(i) \/ Review(i)

Next ==
  \/ \E i \in Items : Formation(i) \/ SweepItem(i) \/ Maintain(i)
  \/ RunSweep \/ RunLegacyReview \/ Proceed
  \/ Call \/ CallThrows \/ Crash \/ Tick

Spec == Init /\ [][Next]_vars
-----------------------------------------------------------------------------
TypeOK ==
  /\ form \in {"sql", "iso"}
  /\ rows \in [Items -> Row \cup {NoRow}]
  /\ born \subseteq Items
  /\ day \in Days
  /\ pc \in Loops \cup {"idle"}
  /\ todo \in [Loops -> SUBSET Items]
  /\ steps \in [Items -> Nat]
  /\ refused \subseteq Items
  /\ \A i \in Items : Present(i) => i \in born

\* A sweep takes no memory more than one step, up, out or back: what it has
\* promoted it does not look at again, and what it has let fall it does not
\* purge (memory_module.cpp:504-598, the snapshots before the loops).
OneStepASweep == \A i \in Items : steps[i] <= 1

Removed(i) == Present(i) /\ ~Present(i)'

\* A memory disappears for three reasons only: it had fallen and was purged
\* below the first gate, the slope had carried it off, or a storage error met
\* its promotion out of t3.  A landmark disappears for the last one alone.
LossAccounted ==
  [][\A i \in Items : Removed(i) =>
       \/ i \in refused'
       \/ /\ ~rows[i].keep
          /\ \/ rows[i].tier = "fallout" /\ rows[i].score < GATE_T1_TO_T2
             \/ rows[i].status = "subconscious" /\ Gone(rows[i])]_vars

\* A memory that slipped into the subconscious never becomes active again, by
\* whatever tier it still passes: no sweep crowns it on its way through t3.
SubconsciousOneWay ==
  [][\A i \in Items :
       Present(i) /\ Present(i)' /\ rows[i].status = "subconscious"
         => rows'[i].status = "subconscious"]_vars

\* A landmark keeps its score and stays within reach of recall, whatever its
\* age and its tier ("immovable", memory_module.cpp:219).
LandmarkStays ==
  [][\A i \in Items :
       Present(i) /\ Present(i)' /\ rows[i].keep
         => /\ rows'[i].score >= rows[i].score
            /\ rows'[i].status \in {"active", "legacy"}]_vars

\* What stands stays, and what sank stays below, through every sweep,
\* maintenance and review, and every storage error and stop in them.
StandingKept == LandmarkStays /\ SubconsciousOneWay

\* D-027: what fell is left alone for 48 hours (docs/TECHNICAL.md:365-367).
\* The store does not keep the time it fell.
LeavesFallout(i) ==
  /\ Present(i) /\ rows[i].tier = "fallout"
  /\ ~Present(i)' \/ rows'[i].tier # "fallout"
GraceKept == [][\A i \in Items : LeavesFallout(i) => day - fell[i].on >= 2]_vars

\* D-026: once a maintenance is over, nothing idle for 730 days is left in the
\* subconscious (docs/TECHNICAL.md:379-384).  The times of the PostgreSQL
\* store do not parse, and nothing is ever forgotten.
SlopeForgets ==
  pc = "subconscious" /\ todo[pc] = {} /\ calls = <<>> =>
    \A i \in WithStatus("subconscious") :
      day - HigherOf(rows[i].decay, rows[i].created) < 730
=============================================================================
