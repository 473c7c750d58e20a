----------------------- MODULE MemoryLifecycleProofs -----------------------
(***************************************************************************)
(* The sweep of the memory module takes each memory one step, and no       *)
(* memory is lost but for its three reasons, for any memories, scores and  *)
(* times, whatever the storage throws and wherever the process stops.      *)
(***************************************************************************)
EXTENDS MemoryLifecycle, TLAPS

\* What the argument needs to know of the state: no row, no score and no time.
SweepTypes ==
  /\ todo \in [Loops -> SUBSET Items]
  /\ steps \in [Items -> Nat]

\* The snapshots are taken once and share no memory: what is in one of them has
\* taken no step yet, and leaves it with its step.
SnapshotsApart ==
  \A i \in Items, t, u \in Tiers :
    i \in todo[t] => steps[i] = 0 /\ (i \in todo[u] => t = u)

SweepInv == SweepTypes /\ SnapshotsApart /\ OneStepASweep

LEMMA TiersAreLoops == /\ Tiers \subseteq Loops /\ Statuses \subseteq Loops
                       /\ Tiers \cap Statuses = {}
  BY DEF Tiers, Statuses, Loops

LEMMA SweepInit == Init => SweepInv
  BY TiersAreLoops DEF Init, SweepInv, SweepTypes, SnapshotsApart, OneStepASweep

\* A visit that takes a step takes the memory out of the one snapshot that held it.
LEMMA StepTaken ==
  ASSUME SweepInv, NEW i \in Items, NEW t \in Tiers, Visit(i, t), TakesStep(i)
  PROVE  SweepInv'
  <1> USE TiersAreLoops DEF SweepInv, SweepTypes, Visit, TakesStep
  <1>1. SweepTypes'
    OBVIOUS
  <1>2. steps[i] = 0 /\ \A u \in Tiers : i \in todo[u] => u = t
    BY DEF SnapshotsApart
  <1>3. \A u \in Tiers : i \notin todo'[u]
    BY <1>2
  <1>4. SnapshotsApart'
    BY <1>1, <1>3 DEF SnapshotsApart
  <1>5. OneStepASweep'
    BY <1>2 DEF OneStepASweep
  <1> QED  BY <1>1, <1>4, <1>5

\* A step that empties no snapshot of a tier but may shrink it, and takes no step.
LEMMA NothingTaken ==
  ASSUME SweepInv, UNCHANGED steps, todo' \in [Loops -> SUBSET Items],
         \A t \in Tiers : todo'[t] \subseteq todo[t]
  PROVE  SweepInv'
  BY TiersAreLoops DEF SweepInv, SweepTypes, SnapshotsApart, OneStepASweep

LEMMA SweepNext == SweepInv /\ [Next]_vars => SweepInv'
  <1> SUFFICES ASSUME SweepInv, [Next]_vars PROVE SweepInv'
    OBVIOUS
  <1> USE TiersAreLoops
  <1>1. ASSUME NEW i \in Items, Formation(i) PROVE SweepInv'
    <2>1. UNCHANGED <<todo, steps>>
      BY <1>1 DEF Formation, StoreReply, StoreLandmark, FormItem, IngestTrigger, Insert
    <2> QED  BY <2>1, NothingTaken DEF SweepInv, SweepTypes
  <1>2. ASSUME NEW i \in Items, SweepItem(i) PROVE SweepInv'
    <2>1. PICK t \in Tiers : Visit(i, t) /\ TakesStep(i)
      BY <1>2 DEF SweepItem, Promote, FallOut, LeaveFallout, Tiers
    <2> QED  BY <2>1, StepTaken
  <1>3. ASSUME NEW i \in Items, Maintain(i) PROVE SweepInv'
    <2>1. PICK s \in Statuses : Visit(i, s) /\ UNCHANGED steps
      BY <1>3 DEF Maintain, Reevaluate, Decay, Review, Statuses
    <2>2. todo' = [todo EXCEPT ![s] = @ \ {i}]
      BY <2>1 DEF Visit
    <2> QED  BY <2>1, <2>2, NothingTaken DEF SweepInv, SweepTypes
  <1>4. CASE RunSweep
    <2>1. \A t \in Tiers : todo'[t] = StandingIn(t)
      BY <1>4 DEF RunSweep
    <2>2. SweepTypes'
      BY <1>4 DEF RunSweep, SweepTypes, StandingIn
    <2>3. \A i \in Items : steps'[i] = 0
      BY <1>4 DEF RunSweep
    <2> QED  BY <2>1, <2>2, <2>3 DEF SweepInv, SnapshotsApart, OneStepASweep, StandingIn
  <1>5. CASE RunLegacyReview
    <2>1. todo' = [todo EXCEPT !["legacy"] = WithStatus("legacy")] /\ UNCHANGED steps
      BY <1>5 DEF RunLegacyReview
    <2>2. todo' \in [Loops -> SUBSET Items] /\ \A t \in Tiers : todo'[t] = todo[t]
      BY <2>1 DEF SweepInv, SweepTypes, WithStatus, Statuses, Tiers
    <2> QED  BY <2>1, <2>2, NothingTaken
  <1>6. CASE Proceed
    <2>1. \/ UNCHANGED todo
          \/ \E s \in Statuses : todo' = [todo EXCEPT ![s] = WithStatus(s)]
      BY <1>6 DEF Proceed, Statuses
    <2>2. todo' \in [Loops -> SUBSET Items] /\ \A t \in Tiers : todo'[t] = todo[t]
      BY <2>1 DEF SweepInv, SweepTypes, WithStatus
    <2> QED  BY <1>6, <2>2, NothingTaken DEF Proceed
  <1>7. CASE Call \/ CallThrows \/ Crash
    <2>1. UNCHANGED todo \/ todo' = [l \in Loops |-> {}]
      BY <1>7 DEF Call, CallThrows, Crash
    <2>2. UNCHANGED steps
      BY <1>7 DEF Call, CallThrows, Crash
    <2> QED  BY <2>1, <2>2, NothingTaken DEF SweepInv, SweepTypes
  <1>8. CASE Tick \/ UNCHANGED vars
    BY <1>8, NothingTaken DEF Tick, vars, SweepInv, SweepTypes
  <1> QED
    BY <1>1, <1>2, <1>3, <1>4, <1>5, <1>6, <1>7, <1>8 DEF Next

\* No sweep moves a memory twice, up, out or back (memory_module.cpp:504-598):
\* the snapshots before the loops are enough, whatever happens between the
\* storage calls.
THEOREM OneStep == Spec => []OneStepASweep
  <1>1. SweepInv => OneStepASweep
    BY DEF SweepInv
  <1> QED  BY SweepInit, SweepNext, <1>1, PTL DEF Spec
-----------------------------------------------------------------------------
(* No memory is lost but for the three known reasons. *)

\* A row of the store has every column.
IsRow(r) ==
  \E score, status, tier, keep, refs, created, decay :
    r = [score |-> score, status |-> status, tier |-> tier, keep |-> keep,
         refs |-> refs, created |-> created, decay |-> decay]

\* A landmark has the score, the references and the status of its formation.
Sound(r) ==
  /\ IsRow(r)
  /\ r.tier \in Tiers \cup {"long_term"}
  /\ r.keep => r.score \in 550..800 /\ r.refs = 0 /\ r.status = "active"

RowsSound ==
  /\ rows = [i \in Items |-> rows[i]]
  /\ \A i \in Items : Present(i) => i \in born /\ Sound(rows[i])

\* The loops the owner has still to walk: nothing is left in the others.
Ahead ==
  [idle |-> {}, t1 |-> Tiers, t2 |-> {"t2", "t3", "fallout"}, t3 |-> {"t3", "fallout"},
   fallout |-> {"fallout"}, active |-> {"active"}, subconscious |-> {"subconscious"},
   legacy |-> {"legacy"}]

LoopsInTurn ==
  /\ pc \in Loops \cup {"idle"}
  /\ \A l \in Loops : l \notin Ahead[pc] => todo[l] = {}

\* What was fetched and not yet visited is still there.
Fetched ==
  \A l \in Loops : \A i \in todo[l] :
    Present(i) /\ (l \in Statuses => rows[i].status = l)

\* A row an update writes over another leaves a landmark as it was.
Keeps(old, new) ==
  /\ Sound(new)
  /\ old.keep => new.score >= old.score /\ new.status = "active"

\* What may be left of the calls of a visit, against the row as it is.
Moves(i) ==
  \E t, u \in Tiers :
    /\ t # u
    /\ \/ calls = <<StoreTier(i, u, rows[i]), DeleteTier(i, t), LogPromotion(i)>>
       \/ calls = <<StoreTier(i, u, rows[i]), DeleteTier(i, t)>>
Crowns(i) ==
  calls = <<Try(StoreLongTerm(i, rows[i])), Try(LogPromotion(i)), Try(DeleteTier(i, "t3"))>>
Crowned(i) ==
  /\ rows[i].tier # "t3"
  /\ \/ calls = <<Try(LogPromotion(i)), Try(DeleteTier(i, "t3"))>>
     \/ calls = <<Try(DeleteTier(i, "t3"))>>
Moved(i) ==
  \E t \in Tiers :
    /\ rows[i].tier # t
    /\ calls = <<DeleteTier(i, t), LogPromotion(i)>> \/ calls = <<DeleteTier(i, t)>>
Logs(i) == calls = <<LogPromotion(i)>>
Rewrites(i) ==
  \E row : /\ Keeps(rows[i], row)
           /\ calls = <<UpdateItem(i, row)>> \/ calls = <<LogPromotion(i), UpdateItem(i, row)>>
Orphans(i) == i \in refused /\ calls = <<DeleteTier(i, "t3")>>
Purges(i) ==
  /\ ~rows[i].keep /\ rows[i].score < GATE_T1_TO_T2
  /\ calls = <<DeleteTier(i, "fallout")>>
Forgets(i) ==
  /\ ~rows[i].keep /\ rows[i].status = "subconscious" /\ Gone(rows[i])
  /\ calls = <<DeleteItem(i)>>

Plan(i) ==
  Moves(i) \/ Crowns(i) \/ Crowned(i) \/ Moved(i) \/ Logs(i) \/ Rewrites(i)
    \/ Orphans(i) \/ Purges(i) \/ Forgets(i)

CallsSafe ==
  calls # <<>> =>
    /\ pc # "idle"
    /\ \E i \in Items : /\ Present(i) /\ Plan(i)
                        /\ \A l \in Loops : i \notin todo[l]

MemoryInv == SweepInv /\ RowsSound /\ LoopsInTurn /\ Fetched /\ CallsSafe

LEMMA TiersAre == /\ Tiers = {"t1", "t2", "t3", "fallout"} /\ "long_term" \notin Tiers
                  /\ "none" \notin Tiers \cup {"long_term"}
  BY DEF Tiers

\* A row that is somewhere is no NoRow.
LEMMA SoundIsPresent ==
  ASSUME NEW r, Sound(r)
  PROVE  r # NoRow
  <1>1. r.tier # "none"
    BY TiersAre DEF Sound
  <1>2. NoRow.tier = "none"
    BY DEF NoRow
  <1> QED  BY <1>1, <1>2

LEMMA KeepsItself ==
  ASSUME NEW r, Sound(r)
  PROVE  Keeps(r, r)
  BY DEF Keeps, Sound

Alike(r, x) == x.score = r.score /\ x.keep = r.keep /\ x.refs = r.refs

LEMMA StatusChanged ==
  ASSUME NEW r, IsRow(r), NEW a, NEW x, x = [r EXCEPT !.status = a]
  PROVE  IsRow(x) /\ Alike(r, x) /\ x.status = a /\ x.tier = r.tier
  BY DEF IsRow, Alike

LEMMA TierChanged ==
  ASSUME NEW r, IsRow(r), NEW u, NEW x, x = [r EXCEPT !.tier = u]
  PROVE  IsRow(x) /\ Alike(r, x) /\ x.status = r.status /\ x.tier = u
  BY DEF IsRow, Alike

\* The upsert names no time.
LEMMA TimesKept ==
  ASSUME NEW r, IsRow(r), NEW q, NEW x,
         x = [r EXCEPT !.created = q.created, !.decay = q.decay]
  PROVE  IsRow(x) /\ Alike(r, x) /\ x.status = r.status /\ x.tier = r.tier
  <1> DEFINE c == q.created
             d == q.decay
  <1>1. x = [r EXCEPT !.created = c, !.decay = d]
    OBVIOUS
  <1> HIDE DEF c, d
  <1> QED  BY <1>1 DEF IsRow, Alike

LEMMA AlikeKeeps ==
  ASSUME NEW r, NEW x, Sound(r), IsRow(x), Alike(r, x),
         x.tier \in Tiers \cup {"long_term"}, x.status \in {r.status, "active"}
  PROVE  Keeps(r, x)
  BY DEF Keeps, Sound, Alike

\* A move of tier, and a crowning, by the upsert.
LEMMA MoveKeeps ==
  ASSUME NEW r, Sound(r), NEW u \in Tiers
  PROVE  LET x == [[r EXCEPT !.tier = u] EXCEPT !.created = r.created, !.decay = r.decay]
         IN Keeps(r, x) /\ x.tier = u
  <1> DEFINE z == [r EXCEPT !.tier = u]
             x == [z EXCEPT !.created = r.created, !.decay = r.decay]
  <1>1. IsRow(r)
    BY DEF Sound
  <1>2. IsRow(z) /\ Alike(r, z) /\ z.status = r.status /\ z.tier = u
    BY <1>1, TierChanged
  <1> HIDE DEF z
  <1>3. IsRow(x) /\ Alike(z, x) /\ x.status = z.status /\ x.tier = z.tier
    BY <1>2, TimesKept
  <1> HIDE DEF x
  <1>4. Alike(r, x)
    BY <1>2, <1>3, Zenon DEF Alike
  <1>5. Keeps(r, x) /\ x.tier = u
    BY <1>2, <1>3, <1>4, AlikeKeeps
  <1> QED  BY <1>5, Zenon DEF x, z

LEMMA CrownKeeps ==
  ASSUME NEW r, Sound(r), NEW s, s = "active", NEW u, u = "long_term"
  PROVE  LET x == [[[r EXCEPT !.status = s] EXCEPT !.tier = u]
                      EXCEPT !.created = r.created, !.decay = r.decay]
         IN Keeps(r, x) /\ x.tier = "long_term"
  <1> DEFINE y == [r EXCEPT !.status = s]
             z == [y EXCEPT !.tier = u]
             x == [z EXCEPT !.created = r.created, !.decay = r.decay]
  <1>1. IsRow(r)
    BY DEF Sound
  <1>2. IsRow(y) /\ Alike(r, y) /\ y.status = s
    BY <1>1, StatusChanged
  <1> HIDE DEF y
  <1>3. IsRow(z) /\ Alike(y, z) /\ z.status = y.status /\ z.tier = u
    BY <1>2, TierChanged
  <1> HIDE DEF z
  <1>4. IsRow(x) /\ Alike(z, x) /\ x.status = z.status /\ x.tier = z.tier
    BY <1>3, TimesKept
  <1> HIDE DEF x
  <1>5. Alike(r, x)
    BY <1>2, <1>3, <1>4, Zenon DEF Alike
  <1>6. x.status = "active" /\ x.tier = "long_term"
    BY <1>2, <1>3, <1>4
  <1>7. Keeps(r, x)
    BY <1>4, <1>5, <1>6, AlikeKeeps
  <1> QED  BY <1>6, <1>7, Zenon DEF x, y, z

\* What each call does to the row of its item.
LEMMA StoreDoes ==
  ASSUME NEW i \in Items, Present(i), Sound(rows[i]), NEW u \in Tiers,
         NEW c, c = StoreTier(i, u, rows[i])
  PROVE  /\ c.item = i /\ ~c.try
         /\ Keeps(rows[i], After(c)) /\ After(c).tier = u
  <1> DEFINE r == rows[i]
             z == [r EXCEPT !.tier = u]
             x == [z EXCEPT !.created = r.created, !.decay = r.decay]
  <1>1. Keeps(r, x) /\ x.tier = u
    BY MoveKeeps, Zenon
  <1>2. c = [op |-> "store", item |-> i, row |-> z, try |-> FALSE]
    BY Zenon DEF StoreTier
  <1>3. Upserted(i, z) = x
    BY Zenon DEF Upserted
  <1> HIDE DEF x, z
  <1>4. c.op = "store" /\ c.item = i /\ c.row = z /\ ~c.try
    BY <1>2
  <1>5. After(c) = Upserted(c.item, c.row)
    BY <1>4 DEF After
  <1>6. After(c) = x
    BY <1>3, <1>4, <1>5, Zenon
  <1> QED  BY <1>1, <1>4, <1>6, Zenon

LEMMA CrownDoes ==
  ASSUME NEW i \in Items, Present(i), Sound(rows[i]),
         NEW c, c = Try(StoreLongTerm(i, rows[i]))
  PROVE  /\ c.item = i /\ c.try
         /\ Keeps(rows[i], After(c)) /\ After(c).tier = "long_term"
  <1> DEFINE r == rows[i]
             y == [r EXCEPT !.status = "active"]
             z == [y EXCEPT !.tier = "long_term"]
             x == [z EXCEPT !.created = r.created, !.decay = r.decay]
             b == [op |-> "store", item |-> i, row |-> z, try |-> FALSE]
  <1>1. Keeps(r, x) /\ x.tier = "long_term"
    BY CrownKeeps, Zenon
  <1>2. c = [b EXCEPT !.try = TRUE]
    BY Zenon DEF StoreTier, StoreLongTerm, Try
  <1>3. Upserted(i, z) = x
    BY Zenon DEF Upserted
  <1> HIDE DEF x, y, z
  <1>4. c.op = "store" /\ c.item = i /\ c.row = z /\ c.try
    BY <1>2
  <1>5. After(c) = Upserted(c.item, c.row)
    BY <1>4 DEF After
  <1>6. After(c) = x
    BY <1>3, <1>4, <1>5, Zenon
  <1> QED  BY <1>1, <1>4, <1>6, Zenon

LEMMA DeleteDoes ==
  ASSUME NEW i, NEW t
  PROVE  LET c == DeleteTier(i, t) IN
         /\ c.item = i /\ ~c.try /\ After(c) = Deleted(i, t)
         /\ Try(c).item = i /\ Try(c).try /\ After(Try(c)) = Deleted(i, t)
  BY DEF DeleteTier, Try, After

LEMMA LogDoes ==
  ASSUME NEW i
  PROVE  LET c == LogPromotion(i) IN
         /\ c.item = i /\ ~c.try /\ After(c) = rows[i]
         /\ Try(c).item = i /\ Try(c).try /\ After(Try(c)) = rows[i]
  BY DEF LogPromotion, Try, After

LEMMA UpdateDoes ==
  ASSUME NEW i, NEW r, Present(i)
  PROVE  LET c == UpdateItem(i, r) IN c.item = i /\ ~c.try /\ After(c) = r
  BY DEF UpdateItem, After

LEMMA ForgetDoes ==
  ASSUME NEW i
  PROVE  LET c == DeleteItem(i) IN c.item = i /\ ~c.try /\ After(c) = NoRow
  BY DEF DeleteItem, After

LEMMA Tails1 == ASSUME NEW a PROVE Head(<<a>>) = a /\ Tail(<<a>>) = <<>>
  OBVIOUS

LEMMA Tails2 == ASSUME NEW a, NEW b PROVE Head(<<a, b>>) = a /\ Tail(<<a, b>>) = <<b>>
  OBVIOUS

LEMMA Tails3 ==
  ASSUME NEW a, NEW b, NEW c
  PROVE  Head(<<a, b, c>>) = a /\ Tail(<<a, b, c>>) = <<b, c>>
  OBVIOUS

\* Why a row may go.
Lost(i) ==
  \/ i \in refused
  \/ /\ ~rows[i].keep
     /\ \/ rows[i].tier = "fallout" /\ rows[i].score < GATE_T1_TO_T2
        \/ rows[i].status = "subconscious" /\ Gone(rows[i])

\* What the next call of a plan does: the row is lost for a reason, and the plan
\* is over, or it is kept.
NextDoes(i) ==
  /\ calls # <<>> /\ Head(calls).item = i
  /\ \/ /\ ~Head(calls).try /\ After(Head(calls)) = NoRow
        /\ Tail(calls) = <<>> /\ Lost(i)
     \/ Keeps(rows[i], After(Head(calls)))

LEMMA NextCall ==
  ASSUME NEW i \in Items, Present(i), Sound(rows[i]), Plan(i)
  PROVE  NextDoes(i)
  <1>1. CASE Moves(i)
    <2>1. PICK t \in Tiers, u \in Tiers :
            \/ calls = <<StoreTier(i, u, rows[i]), DeleteTier(i, t), LogPromotion(i)>>
            \/ calls = <<StoreTier(i, u, rows[i]), DeleteTier(i, t)>>
      BY <1>1 DEF Moves
    <2>2. calls # <<>> /\ Head(calls) = StoreTier(i, u, rows[i])
      BY <2>1
    <2>3. Head(calls).item = i /\ Keeps(rows[i], After(Head(calls)))
      BY <2>2, StoreDoes
    <2> QED  BY <2>2, <2>3 DEF NextDoes
  <1>2. CASE Crowns(i)
    <2>1. calls # <<>> /\ Head(calls) = Try(StoreLongTerm(i, rows[i]))
      BY <1>2 DEF Crowns
    <2>2. Head(calls).item = i /\ Keeps(rows[i], After(Head(calls)))
      BY <2>1, CrownDoes
    <2> QED  BY <2>1, <2>2 DEF NextDoes
  <1>3. ASSUME NEW t, rows[i].tier # t, calls # <<>>,
               Head(calls) \in {DeleteTier(i, t), Try(DeleteTier(i, t))}
        PROVE  NextDoes(i)
    <2>1. Deleted(i, t) = rows[i]
      BY <1>3 DEF Deleted
    <2> QED  BY <1>3, <2>1, DeleteDoes, KeepsItself DEF NextDoes
  <1>4. ASSUME calls # <<>>, Head(calls) \in {LogPromotion(i), Try(LogPromotion(i))}
        PROVE  NextDoes(i)
    BY <1>4, LogDoes, KeepsItself DEF NextDoes
  <1>5. CASE Crowned(i)
    <2>1. /\ rows[i].tier # "t3" /\ calls # <<>>
          /\ Head(calls) \in {Try(LogPromotion(i)), Try(DeleteTier(i, "t3"))}
      BY <1>5 DEF Crowned
    <2> QED  BY <2>1, <1>3, <1>4
  <1>6. CASE Moved(i)
    <2>1. PICK t \in Tiers : /\ rows[i].tier # t /\ calls # <<>>
                             /\ Head(calls) = DeleteTier(i, t)
      BY <1>6 DEF Moved
    <2> QED  BY <2>1, <1>3
  <1>7. CASE Logs(i)
    <2>1. calls # <<>> /\ Head(calls) = LogPromotion(i)
      BY <1>7 DEF Logs
    <2> QED  BY <2>1, <1>4
  <1>8. CASE Rewrites(i)
    <2>1. PICK row : /\ Keeps(rows[i], row)
                     /\ \/ calls = <<UpdateItem(i, row)>>
                        \/ calls = <<LogPromotion(i), UpdateItem(i, row)>>
      BY <1>8 DEF Rewrites
    <2>2. calls # <<>> /\ Head(calls) \in {UpdateItem(i, row), LogPromotion(i)}
      BY <2>1
    <2> QED  BY <2>1, <2>2, <1>4, UpdateDoes DEF NextDoes
  <1>9. ASSUME NEW t, calls = <<DeleteTier(i, t)>>, rows[i].tier = t => Lost(i)
        PROVE  NextDoes(i)
    <2>1. calls # <<>> /\ Head(calls) = DeleteTier(i, t) /\ Tail(calls) = <<>>
      BY <1>9
    <2>2. CASE rows[i].tier = t
      <3>1. Deleted(i, t) = NoRow
        BY <2>2 DEF Deleted
      <3> QED  BY <1>9, <2>1, <2>2, <3>1, DeleteDoes DEF NextDoes
    <2>3. CASE rows[i].tier # t
      BY <2>1, <2>3, <1>3
    <2> QED  BY <2>2, <2>3
  <1>10. CASE Orphans(i)
    BY <1>10, <1>9 DEF Orphans, Lost
  <1>11. CASE Purges(i)
    BY <1>11, <1>9 DEF Purges, Lost
  <1>12. CASE Forgets(i)
    <2>1. calls # <<>> /\ Head(calls) = DeleteItem(i) /\ Tail(calls) = <<>>
      BY <1>12 DEF Forgets
    <2>2. Lost(i)
      BY <1>12 DEF Forgets, Lost
    <2> QED  BY <2>1, <2>2, ForgetDoes DEF NextDoes
  <1> QED
    BY <1>1, <1>2, <1>5, <1>6, <1>7, <1>8, <1>10, <1>11, <1>12 DEF Plan

\* A plan goes on after a call that left its row.
LEMMA PlanGoesOn ==
  ASSUME NEW i \in Items, Present(i), Sound(rows[i]), Plan(i),
         rows'[i] = After(Head(calls)), calls' = Tail(calls), After(Head(calls)) # NoRow
  PROVE  calls' = <<>> \/ Plan(i)'
  <1>1. CASE Moves(i)
    <2>1. PICK t \in Tiers, u \in Tiers :
            /\ t # u
            /\ \/ calls = <<StoreTier(i, u, rows[i]), DeleteTier(i, t), LogPromotion(i)>>
               \/ calls = <<StoreTier(i, u, rows[i]), DeleteTier(i, t)>>
      BY <1>1 DEF Moves
    <2> DEFINE store == StoreTier(i, u, rows[i])
               del == DeleteTier(i, t)
               log == LogPromotion(i)
    <2>2. Head(calls) = store /\ (calls' = <<del, log>> \/ calls' = <<del>>)
      <3> HIDE DEF store, del, log
      <3>1. CASE calls = <<store, del, log>>
        BY <3>1, Tails3, Zenon
      <3>2. CASE calls = <<store, del>>
        BY <3>2, Tails2, Zenon
      <3> QED  BY <2>1, <3>1, <3>2, Zenon DEF store, del, log
    <2>4. rows'[i].tier = u
      BY <2>2, StoreDoes
    <2>5. Moved(i)'
      BY <2>1, <2>2, <2>4 DEF Moved
    <2> QED  BY <2>5 DEF Plan
  <1>2. CASE Crowns(i)
    <2>1. /\ Head(calls) = Try(StoreLongTerm(i, rows[i]))
          /\ calls' = <<Try(LogPromotion(i)), Try(DeleteTier(i, "t3"))>>
      BY <1>2 DEF Crowns
    <2>3. rows'[i].tier = "long_term"
      BY <2>1, CrownDoes
    <2>4. Crowned(i)'
      BY <2>1, <2>3 DEF Crowned
    <2> QED  BY <2>4 DEF Plan
  <1>3. CASE Crowned(i)
    <2>1. CASE calls = <<Try(LogPromotion(i)), Try(DeleteTier(i, "t3"))>>
      <3>1. Head(calls) = Try(LogPromotion(i)) /\ calls' = <<Try(DeleteTier(i, "t3"))>>
        BY <2>1
      <3>2. rows'[i] = rows[i]
        BY <3>1, LogDoes
      <3>3. Crowned(i)'
        BY <1>3, <3>1, <3>2 DEF Crowned
      <3> QED  BY <3>3 DEF Plan
    <2>2. CASE calls = <<Try(DeleteTier(i, "t3"))>>
      BY <2>2
    <2> QED  BY <1>3, <2>1, <2>2 DEF Crowned
  <1>4. CASE Moved(i)
    <2>1. calls' = <<>> \/ calls' = <<LogPromotion(i)>>
      BY <1>4, Tails1, Tails2, Zenon DEF Moved
    <2> QED  BY <2>1 DEF Plan, Logs
  <1>5. CASE Rewrites(i)
    <2>1. PICK row : /\ Keeps(rows[i], row)
                     /\ \/ calls = <<UpdateItem(i, row)>>
                        \/ calls = <<LogPromotion(i), UpdateItem(i, row)>>
      BY <1>5 DEF Rewrites
    <2>2. CASE calls = <<UpdateItem(i, row)>>
      BY <2>2
    <2>3. CASE calls = <<LogPromotion(i), UpdateItem(i, row)>>
      <3>1. Head(calls) = LogPromotion(i) /\ calls' = <<UpdateItem(i, row)>>
        BY <2>3
      <3>2. rows'[i] = rows[i]
        BY <3>1, LogDoes
      <3>3. Rewrites(i)'
        BY <2>1, <3>1, <3>2 DEF Rewrites, Keeps
      <3> QED  BY <3>3 DEF Plan
    <2> QED  BY <2>1, <2>2, <2>3
  <1>6. CASE Logs(i) \/ Orphans(i) \/ Purges(i) \/ Forgets(i)
    BY <1>6, Tails1, Zenon DEF Logs, Orphans, Purges, Forgets
  <1> QED  BY <1>1, <1>2, <1>3, <1>4, <1>5, <1>6 DEF Plan

-----------------------------------------------------------------------------
(* The rows that are written. *)

LEMMA Built ==
  ASSUME NEW s
  PROVE  /\ s \in 550..800 => Sound(BuildItem(s, TRUE))
         /\ Sound(BuildItem(s, FALSE))
  <1>1. ASSUME NEW keep, keep \in BOOLEAN, keep => s \in 550..800,
               NEW x, x = [score |-> s, status |-> "active", tier |-> "t1", keep |-> keep,
                           refs |-> 0, created |-> day, decay |-> Never]
        PROVE  Sound(x)
    <2>1. IsRow(x)
      BY <1>1, Zenon DEF IsRow
    <2>2. x.tier = "t1" /\ x.status = "active" /\ x.refs = 0 /\ x.score = s /\ x.keep = keep
      BY <1>1
    <2> QED  BY <1>1, <2>1, <2>2, TiersAre DEF Sound
  <1>2. ASSUME s \in 550..800 PROVE Sound(BuildItem(s, TRUE))
    BY <1>1, <1>2, Zenon DEF BuildItem
  <1>3. Sound(BuildItem(s, FALSE))
    BY <1>1, Zenon DEF BuildItem
  <1> QED  BY <1>2, <1>3

LEMMA Scored ==
  ASSUME NEW r, IsRow(r), NEW a, NEW x, x = [r EXCEPT !.score = a]
  PROVE  IsRow(x) /\ x.tier = r.tier /\ x.keep = r.keep
  <1>1. PICK score, status, tier, keep, refs, created, decay :
          r = [score |-> score, status |-> status, tier |-> tier, keep |-> keep,
               refs |-> refs, created |-> created, decay |-> decay]
    BY DEF IsRow
  <1>2. x = [score |-> a, status |-> status, tier |-> tier, keep |-> keep,
             refs |-> refs, created |-> created, decay |-> decay]
    BY <1>1
  <1>3. IsRow(x)
    BY <1>2, Zenon DEF IsRow
  <1> QED  BY <1>1, <1>2, <1>3

LEMMA JudgedRow ==
  ASSUME NEW r, IsRow(r), NEW a, NEW b, NEW x, x = Judged(r, a, b)
  PROVE  /\ IsRow(x) /\ x.score = a /\ x.status = b
         /\ x.tier = r.tier /\ x.keep = r.keep /\ x.refs = r.refs
  <1> DEFINE d == IF b = "subconscious" THEN day ELSE Never
  <1>1. x = [r EXCEPT !.score = a, !.status = b, !.decay = d]
    BY Zenon DEF Judged
  <1> HIDE DEF d
  <1>2. PICK score, status, tier, keep, refs, created, decay :
          r = [score |-> score, status |-> status, tier |-> tier, keep |-> keep,
               refs |-> refs, created |-> created, decay |-> decay]
    BY DEF IsRow
  <1>3. x = [score |-> a, status |-> b, tier |-> tier, keep |-> keep,
             refs |-> refs, created |-> created, decay |-> d]
    BY <1>1, <1>2
  <1>4. IsRow(x)
    BY <1>3, Zenon DEF IsRow
  <1> QED  BY <1>2, <1>3, <1>4

Placed(r, u, b) == [r EXCEPT !.tier = u, !.status = b]

LEMMA PlacedRow ==
  ASSUME NEW r, IsRow(r), NEW u, NEW b, NEW x, x = Placed(r, u, b)
  PROVE  IsRow(x) /\ x.tier = u /\ x.keep = r.keep
  <1>1. PICK score, status, tier, keep, refs, created, decay :
          r = [score |-> score, status |-> status, tier |-> tier, keep |-> keep,
               refs |-> refs, created |-> created, decay |-> decay]
    BY DEF IsRow
  <1>2. x = [score |-> score, status |-> b, tier |-> u, keep |-> keep,
             refs |-> refs, created |-> created, decay |-> decay]
    BY <1>1 DEF Placed
  <1>3. IsRow(x)
    BY <1>2, Zenon DEF IsRow
  <1> QED  BY <1>1, <1>2, <1>3

\* A row that is no landmark may be given any score, status and decay.
LEMMA FreeKeeps ==
  ASSUME NEW r, Sound(r), ~r.keep, NEW x, IsRow(x), ~x.keep,
         x.tier \in Tiers \cup {"long_term"}
  PROVE  Keeps(r, x)
  BY DEF Keeps, Sound

LEMMA JudgedKeeps ==
  ASSUME NEW r, Sound(r), ~r.keep, NEW x, \E a, b : x = Judged(r, a, b)
  PROVE  Keeps(r, x)
  <1>1. IsRow(r) /\ r.tier \in Tiers \cup {"long_term"}
    BY DEF Sound
  <1>2. PICK a, b : x = Judged(r, a, b)
    OBVIOUS
  <1>3. IsRow(x) /\ x.tier = r.tier /\ x.keep = r.keep
    BY <1>1, <1>2, JudgedRow
  <1> QED  BY <1>1, <1>3, FreeKeeps

LEMMA LandmarkKeeps ==
  ASSUME NEW r, Sound(r), NEW b, b = "active", NEW a, a = r.score,
         NEW x, x = Judged(r, a, b)
  PROVE  Keeps(r, x)
  <1>1. IsRow(r) /\ r.tier \in Tiers \cup {"long_term"}
    BY DEF Sound
  <1>2. /\ IsRow(x) /\ x.score = a /\ x.status = b
        /\ x.tier = r.tier /\ x.keep = r.keep /\ x.refs = r.refs
    BY <1>1, JudgedRow
  <1> QED  BY <1>1, <1>2 DEF Keeps, Sound

\* The maintenance leaves a landmark the score it has, whatever its age: the
\* penalty stops at the floor, and the score is between the two lines.
LEMMA LandmarkJudged ==
  ASSUME NEW r, Sound(r), r.keep
  PROVE  Keeps(r, ApplyMonthly(r))
  <1>1. /\ r.score \in 550..800 /\ r.refs = 0 /\ r.status = "active"
        /\ r.tier \in Tiers \cup {"long_term"} /\ IsRow(r)
    BY DEF Sound
  <1>2. MaintenanceDelta(r) \in {0, -100, -200}
    BY <1>1 DEF MaintenanceDelta
  <1>3. Adjusted(r, r.keep) = r.score
    BY <1>1, <1>2 DEF Adjusted, HigherOf
  <1>4. MonthlyStatus(r.score) = "active"
    BY <1>1 DEF MonthlyStatus, LEGACY_ENTER, SUBCONSCIOUS_LINE
  <1> DEFINE x == ApplyMonthly(r)
             b == MonthlyStatus(r.score)
  <1>5. x = Judged(r, r.score, b)
    BY <1>3, Zenon DEF ApplyMonthly
  <1> HIDE DEF x, b
  <1>6. Keeps(r, x)
    BY <1>4, <1>5, LandmarkKeeps DEF b
  <1> QED  BY <1>6 DEF x

LEMMA MonthlyKeeps ==
  ASSUME NEW r, Sound(r)
  PROVE  Keeps(r, ApplyMonthly(r))
  <1>1. CASE r.keep
    BY <1>1, LandmarkJudged
  <1>2. CASE ~r.keep
    <2> DEFINE x == ApplyMonthly(r)
    <2>1. \E a, b : x = Judged(r, a, b)
      BY Zenon DEF ApplyMonthly
    <2> HIDE DEF x
    <2>2. Keeps(r, x)
      BY <1>2, <2>1, JudgedKeeps
    <2> QED  BY <2>2 DEF x
  <1> QED  BY <1>1, <1>2

LEMMA ReviewKeeps ==
  ASSUME NEW r, Sound(r), ~r.keep
  PROVE  Keeps(r, ApplyLegacyReview(r))
  <1> DEFINE x == ApplyLegacyReview(r)
  <1>1. \E a, b : x = Judged(r, a, b)
    BY Zenon DEF ApplyLegacyReview
  <1> HIDE DEF x
  <1>2. Keeps(r, x)
    BY <1>1, JudgedKeeps
  <1> QED  BY <1>2 DEF x

\* Every memory is formed sound.
LEMMA FormedSound ==
  ASSUME MemoryAssumption, NEW i \in Items, Formation(i)
  PROVE  \E row : Insert(i, row) /\ Sound(row)
  <1>1. CASE StoreReply(i)
    BY <1>1, Built DEF StoreReply
  <1>2. CASE StoreLandmark(i)
    <2>1. PICK g \in Geometries : Insert(i, BuildItem(ScoreMemory(10, 0, 10, g), TRUE))
      BY <1>2, Zenon DEF StoreLandmark
    <2>2. ScoreMemory(10, 0, 10, g) \in 550..800
      BY DEF ScoreMemory, LowerOf, MemoryAssumption
    <2> QED  BY <2>1, <2>2, Built, Zenon
  <1>3. CASE FormItem(i)
    <2>1. PICK g \in Geometries, weight \in {0, 6, 10} :
            LET score == ScoreMemory(weight, 0, 0, g) IN
            Insert(i, [BuildItem(score, FALSE) EXCEPT !.tier = RouteStage(score),
                                                      !.status = RouteStatus(score)])
      BY <1>3, Zenon DEF FormItem
    <2> DEFINE s == ScoreMemory(weight, 0, 0, g)
               u == RouteStage(s)
               b == RouteStatus(s)
               r == BuildItem(s, FALSE)
    <2>2. Insert(i, [r EXCEPT !.tier = u, !.status = b])
      BY <2>1, Zenon
    <2>3. Sound(r) /\ ~r.keep
      BY Built DEF BuildItem
    <2>4. u \in Tiers \cup {"long_term"}
      BY TiersAre DEF RouteStage
    <2> HIDE DEF r, u, b
    <2> DEFINE x == Placed(r, u, b)
    <2>5. IsRow(r)
      BY <2>3 DEF Sound
    <2>6. IsRow(x) /\ x.tier = u /\ x.keep = r.keep
      BY <2>5, PlacedRow
    <2> HIDE DEF x
    <2>7. Sound(x)
      BY <2>3, <2>4, <2>6, FreeKeeps DEF Keeps
    <2> QED  BY <2>2, <2>7, Zenon DEF x, Placed
  <1>4. CASE IngestTrigger(i)
    <2>1. PICK g \in Geometries :
            LET score == HigherOf(ScoreMemory(5, 5, 3, g), TRIGGER_RETENTION_FLOOR) IN
            Insert(i, [BuildItem(score, FALSE) EXCEPT !.tier = "long_term",
                                                      !.status = RouteStatus(score)])
      BY <1>4, Zenon DEF IngestTrigger
    <2> DEFINE s == HigherOf(ScoreMemory(5, 5, 3, g), TRIGGER_RETENTION_FLOOR)
               u == "long_term"
               b == RouteStatus(s)
               r == BuildItem(s, FALSE)
    <2>2. Insert(i, [r EXCEPT !.tier = u, !.status = b])
      BY <2>1, Zenon
    <2>3. Sound(r) /\ ~r.keep
      BY Built DEF BuildItem
    <2>4. u \in Tiers \cup {"long_term"}
      OBVIOUS
    <2> HIDE DEF r, u, b
    <2> DEFINE x == Placed(r, u, b)
    <2>5. IsRow(r)
      BY <2>3 DEF Sound
    <2>6. IsRow(x) /\ x.tier = u /\ x.keep = r.keep
      BY <2>5, PlacedRow
    <2> HIDE DEF x
    <2>7. Sound(x)
      BY <2>3, <2>4, <2>6, FreeKeeps DEF Keeps
    <2> QED  BY <2>2, <2>7, Zenon DEF x, Placed
  <1> QED  BY <1>1, <1>2, <1>3, <1>4 DEF Formation
-----------------------------------------------------------------------------
(* The steps. *)

LEMMA LoopsAre ==
  /\ Loops = {"t1", "t2", "t3", "fallout", "active", "subconscious", "legacy"}
  /\ Tiers = {"t1", "t2", "t3", "fallout"}
  /\ Statuses = {"active", "subconscious", "legacy"}
  BY DEF Loops, Tiers, Statuses

\* The plan of a visit stands while its row, and what it was judged by, stands.
LEMMA PlanStands ==
  ASSUME NEW i, Plan(i), rows'[i] = rows[i], UNCHANGED <<form, day, calls, refused>>
  PROVE  Plan(i)'
  BY DEF Plan, Moves, Crowns, Crowned, Moved, Logs, Rewrites, Orphans, Purges, Forgets,
         Keeps, Gone, Anchor, IdleDays, Slope, ParseIso, StoreTier, StoreLongTerm

\* A memory is formed.
LEMMA FormationSafe ==
  ASSUME MemoryInv, NEW i \in Items, NEW row, Insert(i, row), Sound(row), SweepInv'
  PROVE  MemoryInv'
  <1>1. /\ i \notin born /\ born' = born \cup {i} /\ rows' = [rows EXCEPT ![i] = row]
        /\ UNCHANGED <<form, day, pc, todo, calls, refused>>
    BY DEF Insert
  <1>2. ~Present(i) /\ rows = [j \in Items |-> rows[j]]
    BY <1>1 DEF MemoryInv, RowsSound
  <1>3. rows'[i] = row /\ \A j \in Items : j # i => rows'[j] = rows[j]
    BY <1>1, <1>2
  <1>4. RowsSound'
    <2>1. rows' = [j \in Items |-> rows'[j]]
      BY <1>1, <1>2
    <2>2. \A j \in Items : Present(j)' => j \in born' /\ Sound(rows'[j])
      BY <1>1, <1>3 DEF MemoryInv, RowsSound, Present
    <2> QED  BY <2>1, <2>2 DEF RowsSound, Present
  <1>5. LoopsInTurn'
    BY <1>1 DEF MemoryInv, LoopsInTurn, Ahead
  <1>6. Fetched'
    <2> SUFFICES ASSUME NEW l \in Loops, NEW j \in todo[l]
                 PROVE  (Present(j) /\ (l \in Statuses => rows[j].status = l))'
      BY <1>1 DEF Fetched
    <2>1. j \in Items /\ Present(j) /\ (l \in Statuses => rows[j].status = l)
      BY DEF MemoryInv, Fetched, SweepInv, SweepTypes
    <2>2. rows'[j] = rows[j]
      BY <1>2, <1>3, <2>1
    <2> QED  BY <2>1, <2>2 DEF Present
  <1>7. CallsSafe'
    <2> SUFFICES ASSUME calls' # <<>> PROVE CallsSafe'
      BY DEF CallsSafe
    <2>1. PICK j \in Items : /\ Present(j) /\ Plan(j)
                             /\ \A l \in Loops : j \notin todo[l]
      BY <1>1 DEF MemoryInv, CallsSafe
    <2>2. rows'[j] = rows[j] /\ Present(j)'
      BY <1>2, <1>3, <2>1 DEF Present
    <2>3. Plan(j)'
      BY <1>1, <2>1, <2>2, PlanStands
    <2> QED  BY <1>1, <2>1, <2>2, <2>3 DEF CallsSafe, MemoryInv
  <1> QED  BY <1>4, <1>5, <1>6, <1>7 DEF MemoryInv

\* A visit takes its memory out of the one list that held it, and plans its calls.
LEMMA VisitSafe ==
  ASSUME MemoryInv, NEW i \in Items, NEW l \in Loops, Visit(i, l), Plan(i)',
         UNCHANGED <<rows, born, pc>>, SweepInv'
  PROVE  MemoryInv'
  <1>1. /\ pc = l /\ i \in todo[l] /\ todo' = [todo EXCEPT ![l] = @ \ {i}]
        /\ todo \in [Loops -> SUBSET Items]
    BY DEF Visit, MemoryInv, SweepInv, SweepTypes
  <1>2. \A k \in Loops : todo'[k] \subseteq todo[k] /\ i \notin todo'[l]
    BY <1>1
  <1>3. \A k \in Loops : i \notin todo'[k]
    <2> TAKE k \in Loops
    <2>1. CASE k = l
      BY <1>2, <2>1
    <2>2. CASE k # l /\ k \in Tiers /\ l \in Tiers
      BY <1>1, <1>2, <2>2 DEF MemoryInv, SweepInv, SnapshotsApart
    <2>3. CASE k # l /\ ~(k \in Tiers /\ l \in Tiers)
      <3>1. k \notin Ahead[l]
        BY <2>3, LoopsAre DEF Ahead
      <3> QED  BY <1>1, <1>2, <3>1 DEF MemoryInv, LoopsInTurn
    <2> QED  BY <2>1, <2>2, <2>3
  <1>4. RowsSound'
    BY DEF MemoryInv, RowsSound, Present, Sound, IsRow
  <1>5. LoopsInTurn'
    BY <1>2 DEF MemoryInv, LoopsInTurn, Ahead
  <1>6. Fetched'
    BY <1>1, <1>2 DEF MemoryInv, Fetched, Present
  <1>7. Present(i)' /\ pc' # "idle"
    BY <1>1, LoopsAre DEF MemoryInv, Fetched, Present
  <1>8. CallsSafe'
    BY <1>3, <1>7 DEF CallsSafe
  <1> QED  BY <1>4, <1>5, <1>6, <1>8 DEF MemoryInv

\* A call changes the row of its own memory, which no list holds.
LEMMA RowChanged ==
  ASSUME MemoryInv, NEW i \in Items, NEW x, x = NoRow \/ Sound(x), Present(i),
         \A l \in Loops : i \notin todo[l],
         rows' = rows \/ rows' = [rows EXCEPT ![i] = x], UNCHANGED born
  PROVE  /\ RowsSound'
         /\ UNCHANGED todo => Fetched'
         /\ rows'[i] = rows[i] \/ rows'[i] = x
         /\ \A j \in Items : j # i => rows'[j] = rows[j]
  <1>1. rows = [j \in Items |-> rows[j]] /\ i \in born
    BY DEF MemoryInv, RowsSound
  <1>2. /\ rows'[i] = rows[i] \/ rows'[i] = x
        /\ \A j \in Items : j # i => rows'[j] = rows[j]
        /\ rows' = [j \in Items |-> rows'[j]]
    BY <1>1
  <1>3. \A j \in Items : Present(j)' => j \in born' /\ Sound(rows'[j])
    BY <1>1, <1>2 DEF MemoryInv, RowsSound, Present
  <1>4. RowsSound'
    BY <1>2, <1>3 DEF RowsSound, Present
  <1>5. UNCHANGED todo => Fetched'
    BY <1>2 DEF MemoryInv, Fetched, Present, SweepInv, SweepTypes
  <1> QED  BY <1>2, <1>4, <1>5

\* What a step may do to the memories: the two action properties.
Accounted ==
  \A i \in Items : Removed(i) =>
    \/ i \in refused'
    \/ /\ ~rows[i].keep
       /\ \/ rows[i].tier = "fallout" /\ rows[i].score < GATE_T1_TO_T2
          \/ rows[i].status = "subconscious" /\ Gone(rows[i])

LandmarksKept ==
  \A i \in Items :
    Present(i) /\ Present(i)' /\ rows[i].keep
      => /\ rows'[i].score >= rows[i].score
         /\ rows'[i].status \in {"active", "legacy"}

LEMMA NothingChanged ==
  ASSUME MemoryInv, \A j \in Items : Present(j) => rows'[j] = rows[j]
  PROVE  Accounted /\ LandmarksKept
  BY DEF MemoryInv, RowsSound, Sound, Accounted, LandmarksKept, Removed, Present

\* A call of a plan: the memory goes for one of the reasons, or stays as it must.
LEMMA RowCalled ==
  ASSUME MemoryInv, NEW i \in Items, Present(i), NextDoes(i), refused \subseteq refused',
         rows'[i] = rows[i] \/ rows'[i] = After(Head(calls)),
         \A j \in Items : j # i => rows'[j] = rows[j]
  PROVE  Accounted /\ LandmarksKept
  <1> DEFINE x == After(Head(calls))
  <1>1. (x = NoRow /\ Lost(i)) \/ Keeps(rows[i], x)
    BY DEF NextDoes
  <1> HIDE DEF x
  <1>2. rows'[i] = rows[i] \/ rows'[i] = x
    BY DEF x
  <1>3. \A j \in Items : Present(j) => Sound(rows[j])
    BY DEF MemoryInv, RowsSound
  <1>4. CASE rows'[i] = rows[i]
    BY <1>4, NothingChanged
  <1>5. CASE rows'[i] = x /\ x = NoRow /\ Lost(i)
    <2>1. Accounted
      BY <1>5 DEF Accounted, Removed, Present, Lost
    <2>2. LandmarksKept
      BY <1>3, <1>5 DEF LandmarksKept, Present, Sound
    <2> QED  BY <2>1, <2>2
  <1>6. CASE rows'[i] = x /\ Keeps(rows[i], x)
    <2>1. x # NoRow
      BY <1>6, SoundIsPresent DEF Keeps
    <2>2. Accounted
      BY <1>6, <2>1 DEF Accounted, Removed, Present
    <2>3. LandmarksKept
      BY <1>3, <1>6 DEF LandmarksKept, Present, Sound, Keeps
    <2> QED  BY <2>2, <2>3
  <1> QED  BY <1>1, <1>2, <1>4, <1>5, <1>6

\* The plan under way, and what its next call does.
LEMMA UnderWay ==
  ASSUME MemoryInv, calls # <<>>
  PROVE  /\ pc # "idle"
         /\ \E i \in Items :
              /\ Present(i) /\ Sound(rows[i]) /\ Plan(i) /\ NextDoes(i)
              /\ \A l \in Loops : i \notin todo[l]
              /\ After(Head(calls)) = NoRow \/ Sound(After(Head(calls)))
  <1>1. pc # "idle"
    BY DEF MemoryInv, CallsSafe
  <1>2. PICK i \in Items : /\ Present(i) /\ Plan(i)
                           /\ \A l \in Loops : i \notin todo[l]
    BY DEF MemoryInv, CallsSafe
  <1>3. Sound(rows[i])
    BY <1>2 DEF MemoryInv, RowsSound
  <1>4. NextDoes(i)
    BY <1>2, <1>3, NextCall
  <1>5. After(Head(calls)) = NoRow \/ Sound(After(Head(calls)))
    BY <1>4 DEF NextDoes, Keeps
  <1> QED  BY <1>1, <1>2, <1>3, <1>4, <1>5

LEMMA CallSafe ==
  ASSUME MemoryInv, Call, SweepInv'
  PROVE  MemoryInv' /\ Accounted /\ LandmarksKept
  <1> DEFINE x == After(Head(calls))
  <1>1. /\ calls # <<>> /\ calls' = Tail(calls)
        /\ rows' = [rows EXCEPT ![Head(calls).item] = x]
        /\ UNCHANGED <<form, born, day, pc, todo, refused>>
    BY DEF Call
  <1>2. PICK i \in Items :
          /\ Present(i) /\ Sound(rows[i]) /\ Plan(i) /\ NextDoes(i)
          /\ \A l \in Loops : i \notin todo[l]
          /\ x = NoRow \/ Sound(x)
    BY <1>1, UnderWay
  <1>3. pc # "idle"
    BY <1>1, UnderWay
  <1>4. Head(calls).item = i
    BY <1>2 DEF NextDoes
  <1>5. rows' = [rows EXCEPT ![i] = x]
    BY <1>1, <1>4
  <1>6. rows'[i] = x
    BY <1>5 DEF MemoryInv, RowsSound
  <1>7. CallsSafe'
    <2>1. CASE x = NoRow
      <3>1. calls' = <<>>
        BY <1>1, <1>2, <2>1, SoundIsPresent DEF NextDoes, Keeps
      <3> QED  BY <3>1 DEF CallsSafe
    <2>2. CASE x # NoRow
      <3>1. calls' = <<>> \/ Plan(i)'
        BY <1>1, <1>2, <1>6, <2>2, PlanGoesOn
      <3>2. Present(i)'
        BY <1>6, <2>2 DEF Present
      <3> QED  BY <1>1, <1>2, <1>3, <3>1, <3>2 DEF CallsSafe
    <2> QED  BY <2>1, <2>2
  <1> HIDE DEF x
  <1>8. /\ RowsSound' /\ Fetched'
        /\ \A j \in Items : j # i => rows'[j] = rows[j]
    BY <1>1, <1>2, <1>5, RowChanged
  <1>9. LoopsInTurn'
    BY <1>1 DEF MemoryInv, LoopsInTurn, Ahead
  <1>10. Accounted /\ LandmarksKept
    BY <1>1, <1>2, <1>6, <1>8, RowCalled DEF x
  <1> QED  BY <1>7, <1>8, <1>9, <1>10 DEF MemoryInv

LEMMA CallThrowsSafe ==
  ASSUME MemoryInv, CallThrows, SweepInv'
  PROVE  MemoryInv' /\ Accounted /\ LandmarksKept
  <1> DEFINE c == Head(calls)
             x == After(c)
  <1>1. /\ calls # <<>>
        /\ rows' = rows \/ rows' = [rows EXCEPT ![c.item] = x]
        /\ \/ /\ c.try /\ calls' = <<DeleteTier(c.item, "t3")>>
              /\ refused' = refused \cup {c.item} /\ UNCHANGED <<pc, todo>>
           \/ /\ calls' = <<>> /\ pc' = "idle" /\ todo' = [l \in Loops |-> {}]
              /\ UNCHANGED refused
        /\ UNCHANGED <<form, born, day>>
    BY Zenon DEF CallThrows
  <1>2. PICK i \in Items :
          /\ Present(i) /\ Sound(rows[i]) /\ Plan(i) /\ NextDoes(i)
          /\ \A l \in Loops : i \notin todo[l]
          /\ x = NoRow \/ Sound(x)
    BY <1>1, UnderWay
  <1>3. pc # "idle"
    BY <1>1, UnderWay
  <1>4. c.item = i
    BY <1>2 DEF NextDoes
  <1>5. rows' = rows \/ rows' = [rows EXCEPT ![i] = x]
    BY <1>1, <1>4
  <1>6. c.try => x # NoRow
    BY <1>2, SoundIsPresent DEF NextDoes, Keeps
  <1> HIDE DEF c, x
  <1>7. /\ RowsSound' /\ (UNCHANGED todo => Fetched')
        /\ rows'[i] = rows[i] \/ rows'[i] = x
        /\ \A j \in Items : j # i => rows'[j] = rows[j]
    BY <1>1, <1>2, <1>5, RowChanged
  <1>8. refused \subseteq refused'
    BY <1>1
  <1>9. Accounted /\ LandmarksKept
    BY <1>2, <1>7, <1>8, RowCalled DEF x, c
  <1>10. CASE /\ c.try /\ calls' = <<DeleteTier(c.item, "t3")>>
              /\ refused' = refused \cup {c.item} /\ UNCHANGED <<pc, todo>>
    <2>1. Present(i)' /\ Orphans(i)'
      BY <1>2, <1>4, <1>6, <1>7, <1>10 DEF Present, Orphans
    <2>2. CallsSafe'
      BY <1>2, <1>3, <1>10, <2>1 DEF CallsSafe, Plan
    <2>3. LoopsInTurn'
      BY <1>10 DEF MemoryInv, LoopsInTurn, Ahead
    <2> QED  BY <1>7, <1>9, <1>10, <2>2, <2>3 DEF MemoryInv
  <1>11. CASE calls' = <<>> /\ pc' = "idle" /\ todo' = [l \in Loops |-> {}]
    <2>1. LoopsInTurn' /\ Fetched' /\ CallsSafe'
      BY <1>11 DEF LoopsInTurn, Fetched, CallsSafe
    <2> QED  BY <1>7, <1>9, <2>1 DEF MemoryInv
  <1> QED  BY <1>1, <1>10, <1>11

\* Every visit of the sweep and of the maintenance plans calls that are safe.
LEMMA VisitPlans ==
  ASSUME MemoryInv, NEW i \in Items, SweepItem(i) \/ Maintain(i)
  PROVE  /\ \E l \in Loops : Visit(i, l)
         /\ UNCHANGED <<form, rows, born, day, pc, refused>>
         /\ Plan(i)'
  <1>1. ASSUME NEW l \in Loops, Visit(i, l)
        PROVE  Sound(rows[i]) /\ (l \in Statuses => rows[i].status = l)
    BY <1>1 DEF MemoryInv, RowsSound, Fetched, Visit
  <1>2. ASSUME NEW t \in {"t1", "t2", "t3"}, Promote(i, t)
        PROVE  Plan(i)'
    <2>1. CASE t = "t3"
      <3>1. Crowns(i)'
        BY <1>2, <2>1 DEF Promote, Crowns, StoreLongTerm, StoreTier
      <3> QED  BY <3>1 DEF Plan
    <2>2. CASE t # "t3"
      <3>1. NextTier[t] \in Tiers /\ NextTier[t] # t /\ t \in Tiers
        BY <2>2, LoopsAre DEF NextTier
      <3> DEFINE u == NextTier[t]
      <3>2. calls' = <<StoreTier(i, u, rows[i]), DeleteTier(i, t), LogPromotion(i)>>
        BY <1>2, <2>2, Zenon DEF Promote
      <3>3. UNCHANGED rows
        BY <1>2 DEF Promote
      <3> HIDE DEF u
      <3>4. Moves(i)'
        BY <3>1, <3>2, <3>3 DEF Moves, StoreTier, u
      <3> QED  BY <3>4 DEF Plan
    <2> QED  BY <2>1, <2>2
  <1>3. ASSUME NEW t \in {"t1", "t2", "t3"}, FallOut(i, t)
        PROVE  Plan(i)'
    <2> DEFINE u == "fallout"
    <2>1. calls' = <<StoreTier(i, u, rows[i]), DeleteTier(i, t)>> /\ UNCHANGED rows
      BY <1>3, Zenon DEF FallOut
    <2>2. t \in Tiers /\ u \in Tiers /\ t # u
      BY LoopsAre
    <2> HIDE DEF u
    <2>3. Moves(i)'
      BY <2>1, <2>2 DEF Moves, StoreTier
    <2> QED  BY <2>3 DEF Plan
  <1>4. ASSUME LeaveFallout(i)
        PROVE  Plan(i)'
    <2>1. CASE ~(rows[i].score < GATE_T1_TO_T2)
      <3> DEFINE u == "t1"
                 t == "fallout"
      <3>1. calls' = <<StoreTier(i, u, rows[i]), DeleteTier(i, t), LogPromotion(i)>>
            /\ UNCHANGED rows
        BY <1>4, <2>1, Zenon DEF LeaveFallout
      <3>2. t \in Tiers /\ u \in Tiers /\ t # u
        BY LoopsAre
      <3> HIDE DEF u, t
      <3>3. Moves(i)'
        BY <3>1, <3>2 DEF Moves, StoreTier
      <3> QED  BY <3>3 DEF Plan
    <2>2. CASE rows[i].score < GATE_T1_TO_T2
      <3>1. calls' = <<DeleteTier(i, "fallout")>> /\ UNCHANGED rows
        BY <1>4, <2>2 DEF LeaveFallout
      <3>2. Sound(rows[i])
        BY <1>1, <1>4, LoopsAre DEF LeaveFallout
      <3>3. ~rows[i].keep
        BY <2>2, <3>2 DEF Sound, GATE_T1_TO_T2
      <3>4. Purges(i)'
        BY <2>2, <3>1, <3>3 DEF Purges, DeleteTier, GATE_T1_TO_T2
      <3> QED  BY <3>4 DEF Plan
    <2> QED  BY <2>1, <2>2
  <1>5. ASSUME NEW row, Judge(i, row), Keeps(rows[i], row), UNCHANGED rows
        PROVE  Plan(i)'
    <2>1. Rewrites(i)'
      BY <1>5 DEF Judge, Rewrites, Keeps, UpdateItem, LogPromotion
    <2> QED  BY <2>1 DEF Plan
  <1>6. ASSUME Reevaluate(i)
        PROVE  Plan(i)'
    <2>1. Sound(rows[i]) /\ Judge(i, ApplyMonthly(rows[i])) /\ UNCHANGED rows
      BY <1>1, <1>6, LoopsAre DEF Reevaluate
    <2> QED  BY <1>5, <2>1, MonthlyKeeps
  <1>7. ASSUME Review(i)
        PROVE  Plan(i)'
    <2>1. /\ Sound(rows[i]) /\ rows[i].status = "legacy"
          /\ Judge(i, ApplyLegacyReview(rows[i])) /\ UNCHANGED rows
      BY <1>1, <1>7, LoopsAre DEF Review
    <2>2. ~rows[i].keep
      BY <2>1 DEF Sound
    <2> QED  BY <1>5, <2>1, <2>2, ReviewKeeps
  <1>8. ASSUME Decay(i)
        PROVE  Plan(i)'
    <2>1. /\ Sound(rows[i]) /\ rows[i].status = "subconscious"
          /\ UNCHANGED <<rows, form, day>>
      BY <1>1, <1>8, LoopsAre DEF Decay
    <2>2. ~rows[i].keep
      BY <2>1 DEF Sound
    <2>3. CASE Gone(rows[i])
      <3>1. calls' = <<DeleteItem(i)>>
        BY <1>8, <2>3 DEF Decay
      <3>2. Gone(rows[i])'
        BY <2>1, <2>3 DEF Gone, Anchor, IdleDays, Slope, ParseIso
      <3>3. Forgets(i)'
        BY <2>1, <2>2, <3>1, <3>2 DEF Forgets, DeleteItem
      <3> QED  BY <3>3 DEF Plan
    <2>4. CASE ~Gone(rows[i])
      <3> DEFINE x == [rows[i] EXCEPT !.score = SlopeEffective(rows[i])]
      <3>1. calls' = <<UpdateItem(i, x)>>
        BY <1>8, <2>4, Zenon DEF Decay
      <3>2. IsRow(x) /\ x.tier = rows[i].tier /\ x.keep = rows[i].keep
        BY <2>1, Scored DEF Sound
      <3> HIDE DEF x
      <3>3. Keeps(rows[i], x)
        BY <2>1, <2>2, <3>2, FreeKeeps DEF Sound
      <3>4. Rewrites(i)'
        BY <2>1, <3>1, <3>3 DEF Rewrites, Keeps, UpdateItem
      <3> QED  BY <3>4 DEF Plan
    <2> QED  BY <2>3, <2>4
  <1>9. \E l \in Loops : Visit(i, l)
    BY LoopsAre DEF SweepItem, Maintain, Promote, FallOut, LeaveFallout, Reevaluate,
                    Decay, Review
  <1>10. UNCHANGED <<form, rows, born, day, pc, refused>>
    BY DEF SweepItem, Maintain, Promote, FallOut, LeaveFallout, Reevaluate, Decay, Review
  <1> QED
    BY <1>2, <1>3, <1>4, <1>6, <1>7, <1>8, <1>9, <1>10 DEF SweepItem, Maintain

LEMMA MemoryNext == MemoryInv /\ [Next]_vars => MemoryInv' /\ Accounted /\ LandmarksKept
  <1> SUFFICES ASSUME MemoryInv, [Next]_vars
               PROVE  MemoryInv' /\ Accounted /\ LandmarksKept
    OBVIOUS
  <1> SweepInv'
    BY SweepNext DEF MemoryInv
  <1>1. ASSUME NEW i \in Items, Formation(i)
        PROVE  MemoryInv' /\ Accounted /\ LandmarksKept
    <2>1. PICK row : Insert(i, row) /\ Sound(row)
      BY <1>1, FormedSound, MemoryAssumption
    <2>2. MemoryInv'
      BY <2>1, FormationSafe
    <2>3. \A j \in Items : Present(j) => rows'[j] = rows[j]
      BY <2>1 DEF Insert, MemoryInv, RowsSound
    <2> QED  BY <2>2, <2>3, NothingChanged
  <1>2. ASSUME NEW i \in Items, SweepItem(i) \/ Maintain(i)
        PROVE  MemoryInv' /\ Accounted /\ LandmarksKept
    <2>1. PICK l \in Loops : Visit(i, l)
      BY <1>2, VisitPlans
    <2>2. UNCHANGED <<rows, born, pc>> /\ Plan(i)'
      BY <1>2, VisitPlans
    <2>3. MemoryInv'
      BY <2>1, <2>2, VisitSafe
    <2> QED  BY <2>2, <2>3, NothingChanged
  <1>3. ASSUME UNCHANGED <<rows, born>>, calls' = <<>>, LoopsInTurn', Fetched'
        PROVE  MemoryInv' /\ Accounted /\ LandmarksKept
    <2>1. RowsSound'
      BY <1>3 DEF MemoryInv, RowsSound, Present, Sound, IsRow
    <2>2. CallsSafe'
      BY <1>3 DEF CallsSafe
    <2> QED  BY <1>3, <2>1, <2>2, NothingChanged DEF MemoryInv
  <1>4. pc = "idle" => calls = <<>> /\ todo = [l \in Loops |-> {}]
    BY DEF MemoryInv, CallsSafe, LoopsInTurn, Ahead, SweepInv, SweepTypes
  <1>5. CASE RunSweep
    <2>1. LoopsInTurn'
      BY <1>5, LoopsAre DEF RunSweep, LoopsInTurn, Ahead
    <2>2. Fetched'
      BY <1>5, LoopsAre DEF RunSweep, Fetched, StandingIn, Present
    <2> QED  BY <1>3, <1>4, <1>5, <2>1, <2>2 DEF RunSweep
  <1>6. CASE RunLegacyReview
    <2>1. LoopsInTurn'
      BY <1>4, <1>6, LoopsAre DEF RunLegacyReview, LoopsInTurn, Ahead
    <2>2. Fetched'
      BY <1>4, <1>6, LoopsAre DEF RunLegacyReview, Fetched, WithStatus, Present
    <2> QED  BY <1>3, <1>4, <1>6, <2>1, <2>2 DEF RunLegacyReview
  <1>7. CASE Proceed
    <2>1. /\ pc \in Loops /\ todo[pc] = {} /\ pc' = NextLoop[pc]
          /\ todo \in [Loops -> SUBSET Items]
          /\ \A l \in Loops : l \notin Ahead[pc] => todo[l] = {}
      BY <1>7 DEF Proceed, MemoryInv, LoopsInTurn, SweepInv, SweepTypes
    <2>2. \A l \in Loops : l \notin Ahead[pc'] =>
             todo[l] = {} /\ l \notin {pc'} \cap {"active", "subconscious"}
      BY <2>1, LoopsAre DEF Ahead, NextLoop
    <2>3. \A l \in Loops :
            todo'[l] = IF l \in {pc'} \cap {"active", "subconscious"}
                       THEN WithStatus(l) ELSE todo[l]
      BY <1>7, <2>1, LoopsAre DEF Proceed
    <2>4. LoopsInTurn'
      BY <2>1, <2>2, <2>3, LoopsAre DEF LoopsInTurn, NextLoop, Ahead
    <2>5. Fetched'
      BY <1>7, <2>3, LoopsAre DEF Proceed, Fetched, WithStatus, Present, MemoryInv
    <2> QED  BY <1>3, <1>7, <2>4, <2>5 DEF Proceed
  <1>8. CASE Call
    BY <1>8, CallSafe
  <1>9. CASE CallThrows
    BY <1>9, CallThrowsSafe
  <1>10. CASE Crash
    <2>1. LoopsInTurn' /\ Fetched'
      BY <1>10 DEF Crash, LoopsInTurn, Fetched
    <2> QED  BY <1>3, <1>10, <2>1 DEF Crash
  <1>11. CASE Tick
    <2>1. LoopsInTurn' /\ Fetched'
      BY <1>11 DEF Tick, MemoryInv, LoopsInTurn, Ahead, Fetched, Present
    <2> QED  BY <1>3, <1>4, <1>11, <2>1 DEF Tick
  <1>12. CASE UNCHANGED vars
    <2> UNCHANGED <<rows, born, pc, todo>>
      BY <1>12 DEF vars
    <2>1. RowsSound'
      BY DEF MemoryInv, RowsSound, Present, Sound, IsRow
    <2>2. LoopsInTurn'
      BY DEF MemoryInv, LoopsInTurn, Ahead
    <2>3. Fetched'
      BY DEF MemoryInv, Fetched, Present
    <2>4. CallsSafe'
      <3> SUFFICES ASSUME calls' # <<>> PROVE CallsSafe'
        BY DEF CallsSafe
      <3>1. PICK i \in Items : /\ Present(i) /\ Plan(i)
                               /\ \A l \in Loops : i \notin todo[l]
        BY <1>12 DEF vars, MemoryInv, CallsSafe
      <3>2. Plan(i)'
        BY <1>12, <3>1, PlanStands DEF vars
      <3> QED  BY <1>12, <3>1, <3>2 DEF vars, CallsSafe, MemoryInv, Present
    <2>5. Accounted /\ LandmarksKept
      BY <1>12, NothingChanged DEF vars
    <2> QED  BY <2>1, <2>2, <2>3, <2>4, <2>5 DEF MemoryInv
  <1> QED
    BY <1>1, <1>2, <1>5, <1>6, <1>7, <1>8, <1>9, <1>10, <1>11, <1>12 DEF Next

\* The landmarks an existing database holds were formed as landmarks are.
LandmarksFormed ==
  \A r \in Existing :
    r.keep => r.score \in 550..800 /\ r.refs = 0 /\ r.status = "active"

LEMMA MemoryInit == LandmarksFormed /\ Init => MemoryInv
  <1> SUFFICES ASSUME LandmarksFormed, Init PROVE MemoryInv
    OBVIOUS
  <1>1. SweepInv
    BY SweepInit
  <1>2. ASSUME NEW r \in Existing PROVE Sound(r)
    <2>1. r \in Row
      BY MemoryAssumption DEF MemoryAssumption
    <2>2. IsRow(r) /\ r.tier \in Tiers \cup {"long_term"}
      BY <2>1 DEF Row, IsRow
    <2> QED  BY <2>2 DEF LandmarksFormed, Sound
  <1>3. RowsSound
    <2>1. /\ rows \in [Items -> Existing \cup {NoRow}]
          /\ \A i \in Items : Present(i) <=> i \in born
      BY DEF Init, Present
    <2> QED  BY <1>2, <2>1 DEF RowsSound, Present
  <1>4. LoopsInTurn /\ Fetched /\ CallsSafe
    BY DEF Init, LoopsInTurn, Fetched, CallsSafe
  <1> QED  BY <1>1, <1>3, <1>4 DEF MemoryInv

\* No memory is lost but below the first gate in the fallout, by the slope, or to
\* a storage error in its promotion, and no landmark but to the last; a landmark
\* keeps its score and its standing (memory_module.cpp:219-598): for any
\* memories and times, whatever call throws and wherever the process stops.
THEOREM LossIsAccounted == LandmarksFormed /\ Spec => LossAccounted /\ LandmarkStays
  <1>1. MemoryInv /\ [Next]_vars => MemoryInv'
    BY MemoryNext
  <1>2. MemoryInv /\ [Next]_vars =>
          [\A i \in Items : Removed(i) =>
             \/ i \in refused'
             \/ /\ ~rows[i].keep
                /\ \/ rows[i].tier = "fallout" /\ rows[i].score < GATE_T1_TO_T2
                   \/ rows[i].status = "subconscious" /\ Gone(rows[i])]_vars
    BY MemoryNext DEF Accounted
  <1>3. MemoryInv /\ [Next]_vars =>
          [\A i \in Items :
             Present(i) /\ Present(i)' /\ rows[i].keep
               => /\ rows'[i].score >= rows[i].score
                  /\ rows'[i].status \in {"active", "legacy"}]_vars
    BY MemoryNext DEF LandmarksKept
  <1> QED
    BY MemoryInit, <1>1, <1>2, <1>3, PTL DEF Spec, LossAccounted, LandmarkStays
=============================================================================
