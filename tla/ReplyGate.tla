----------------------------- MODULE ReplyGate -----------------------------
(***************************************************************************)
(* A reply on its way out: chat(), the absolute gate with its reflection   *)
(* passes, the evaluation ledger and the drift learned from it             *)
(* (src/src/lina_core.cpp), and the encoder's feedback system              *)
(* (src/src/value_engine.cpp).                                             *)
(*                                                                         *)
(* A draft is a text the driver may write, put where the encoder puts it   *)
(* beside the message it answers.  Texts more than nine tenths alike are   *)
(* one text.                                                               *)
(***************************************************************************)
EXTENDS Encoder

CONSTANTS
  Past,           \* the outcomes the process finds in the ledger
  Messages,       \* what the user may write
  Drafts,         \* what a connected driver may write
  Misread,        \* places a flagged evaluation may be moved to
  LastSeason,     \* bound: the season growth stops at
  MaxTurns,       \* bound: messages
  MaxFlags,       \* bound: corrections flagged
  HistoryLimit,   \* entries the conversation is trimmed to (20)
  DriftWindow     \* evaluations the drift is learned from (50)

VARIABLES
  season,     \* constraints_.season, and the feedback system's
  biases,     \* dimension_biases_
  pending,    \* corrections flagged, not confirmed
  confirmed,  \* corrections_
  ledger,     \* lina_evaluations, oldest first
  history,    \* conversation_history_: who said each entry
  memories,   \* memory items formed of replies: [warm, wary]
  connected,  \* a driver is attached, and connected
  pc,         \* where the pipeline is
  message,    \* the message being answered
  draft,      \* the draft in hand
  result,     \* its evaluation
  tried,      \* the drafts of this turn refused so far: [text, at]
  said        \* the texts chat() has returned

pipeline == <<pc, message, draft, result, tried>>
learning == <<biases, pending, confirmed>>
vars == <<season, learning, ledger, history, memories, connected, pipeline, said>>

NoResult == [zone |-> "aligned", at |-> Nowhere, corrected |-> Nowhere,
             magnitude2 |-> 0]
NoVoice == <<"_lina", "has", "no", "voice", "right", "now._">>
Unavailable == <<"an", "answer", "is", "not", "available.">>

GateAssumption ==
  /\ Past \in Seq([zone : Zones, at : Points, corrected : Points, magnitude2 : Nat])
  /\ Messages \subseteq Seq(STRING) /\ Drafts \subseteq Seq(STRING)
  /\ Misread \subseteq Points
  /\ LastSeason \in Seasons
  /\ {MaxTurns, MaxFlags} \subseteq Nat
  /\ {HistoryLimit, DriftWindow} \subseteq Nat \ {0}
ASSUME GateAssumption

MaxReflectionPasses == 3
Found == Len(Past)
-----------------------------------------------------------------------------
(* What is told apart. *)

\* A draft repeats an earlier one of its turn: the text, or the place within a tenth.
Repeats(d, at, t) == t.text = d \/ Apart(at, t.at) < 20 ^ 2

\* Mutant: only the last attempt is compared.
FlaggedByLast(d, at, attempts, anchor) ==
  Repeats(d, at, attempts[Len(attempts)]) \/ Apart(at, anchor) > 100 ^ 2

\* It repeats, or it is off topic: more than a half from where the first draft
\* was projected.
Flagged(d, at, attempts, anchor) ==
  \/ \E i \in DOMAIN attempts : Repeats(d, at, attempts[i])
  \/ Apart(at, anchor) > 100 ^ 2

\* Rounded towards zero.
Quotient(n, d) == IF n < 0 THEN -((-n) \div d) ELSE n \div d

\* What some rows put on a pole of a line, and how many they are: its mean as a
\* fraction.  The center stands for a side without outcomes.
Side(rows, is, s, l, pole) ==
  IF is = {} THEN <<Center(s)[l][pole], 1>>
  ELSE <<SumFunction([i \in is |-> rows[i].at[l][pole]]), Cardinality(is)>>

\* Mutant: the whole difference is learned, and it is not held.
DriftUnheld(rows, s) ==
  LET n == Len(rows)
      newest == {i \in 1..n : i > n - DriftWindow}
      good == {i \in newest : rows[i].zone = "aligned"}
      drift(l, pole) ==
        LET a == Side(rows, good, s, l, pole)  b == Side(rows, newest \ good, s, l, pole)
        IN Quotient(a[1] * b[2] - b[1] * a[2], a[2] * b[2])
  IN [l \in Lines |-> [virtue |-> drift(l, "virtue"), shadow |-> drift(l, "shadow")]]

\* The mean of what aligned less the mean of what did not, at 15%, within a
\* twentieth either way.
Drift(rows, s) ==
  LET n == Len(rows)
      newest == {i \in 1..n : i > n - DriftWindow}
      good == {i \in newest : rows[i].zone = "aligned"}
      drift(l, pole) ==
        LET a == Side(rows, good, s, l, pole)  b == Side(rows, newest \ good, s, l, pole)
        IN Clamp(Quotient(15 * (a[1] * b[2] - b[1] * a[2]), 100 * (a[2] * b[2])), -10, 10)
  IN [l \in Lines |-> [virtue |-> drift(l, "virtue"), shadow |-> drift(l, "shadow")]]
-----------------------------------------------------------------------------
(* chat(). *)

Chat ==
  /\ pc = "idle" /\ Len(said) < MaxTurns
  /\ message' \in Messages
  /\ history' = Append(history, "user")
  /\ pc' = "generate"
  /\ UNCHANGED <<season, learning, ledger, memories, connected, draft, result, tried, said>>

Generate ==
  /\ pc = "generate"
  /\ draft' \in IF connected THEN Drafts ELSE {NoVoice}
  /\ pc' = "judge"
  /\ UNCHANGED <<season, learning, ledger, history, memories, connected, message, result, tried, said>>
-----------------------------------------------------------------------------
(* apply_gate. *)

\* Without a driver to reflect with, a draft goes through whatever its zone.
Judge ==
  /\ pc = "judge"
  /\ result' = Evaluate(season, Encode(draft, message), biases)
  /\ IF result'.zone = "violation" /\ connected
     THEN pc' = "reflect" /\ tried' = <<[text |-> draft, at |-> result'.at,
                                         anchor |-> result'.corrected]>>
     ELSE pc' = "record" /\ UNCHANGED tried
  /\ UNCHANGED <<season, learning, ledger, history, memories, connected, message, draft, said>>

\* A reflection pass: the driver answers the report of the violation.
Reflect ==
  /\ pc = "reflect"
  /\ draft' \in Drafts
  /\ pc' = "rejudge"
  /\ UNCHANGED <<season, learning, ledger, history, memories, connected, message, result, tried, said>>

\* Mutant: what is flagged keeps its zone when the passes are over.
WithholdKeepsZone(r) ==
  /\ draft' = Unavailable
  /\ result' = r
  /\ pc' = "record"

\* What a withheld reply leaves is the place of its last draft.
Withhold(r) ==
  /\ draft' = Unavailable
  /\ result' = [r EXCEPT !.zone = "violation"]
  /\ pc' = "record"

Refuse(r) ==
  /\ tried' = Append(tried, [text |-> draft, at |-> r.at, anchor |-> tried[1].anchor])
  /\ IF Len(tried) < MaxReflectionPasses
     THEN pc' = "reflect" /\ UNCHANGED <<draft, result>>
     ELSE Withhold(r)

\* Its answer is weighed, and compared with the drafts refused before it.
Rejudge ==
  /\ pc = "rejudge"
  /\ LET r == Evaluate(season, Encode(draft, message), biases) IN
     IF r.zone # "violation" /\ ~Flagged(draft, r.at, tried, tried[1].anchor)
     THEN result' = r /\ pc' = "record" /\ UNCHANGED <<draft, tried>>
     ELSE Refuse(r)
  /\ UNCHANGED <<season, learning, ledger, history, memories, connected, message, said>>

\* record_evaluation, then update_outcome_drift: the biases are written anew.
Record ==
  /\ pc = "record"
  /\ ledger' = Append(ledger, result)
  /\ biases' = Drift(ledger', season)
  /\ pc' = "conclude"
  /\ UNCHANGED <<season, pending, confirmed, history, memories, connected, message, draft,
                 result, tried, said>>

Trimmed(h) == IF Len(h) > HistoryLimit THEN SubSeq(h, 3, Len(h)) ELSE h

\* What is in violation is returned, and neither remembered nor kept in the
\* conversation.
Conclude ==
  /\ pc = "conclude"
  /\ IF result.zone = "violation" THEN UNCHANGED <<memories, history>>
     ELSE /\ memories' = IF result.zone = "variance" THEN [memories EXCEPT !.wary = @ + 1]
                         ELSE [memories EXCEPT !.warm = @ + 1]
          /\ history' = Trimmed(Append(history, "assistant"))
  /\ said' = Append(said, draft)
  /\ pc' = "idle"
  /\ message' = <<>> /\ draft' = <<>> /\ result' = NoResult /\ tried' = <<>>
  /\ UNCHANGED <<season, learning, ledger, connected>>
-----------------------------------------------------------------------------
(* The others, between two messages. *)

AttachModel ==
  /\ pc = "idle"
  /\ connected' = ~connected
  /\ UNCHANGED <<season, learning, ledger, history, memories, pipeline, said>>

BeginSession ==
  /\ pc = "idle" /\ history # <<>>
  /\ history' = <<>>
  /\ UNCHANGED <<season, learning, ledger, memories, connected, pipeline, said>>

\* advance_season.
AdvanceSeason ==
  /\ pc = "idle" /\ season # LastSeason
  /\ season' = Later(season)
  /\ UNCHANGED <<learning, ledger, history, memories, connected, pipeline, said>>

\* flag_miscalibration: in spring she may flag, and may not authorize.
Flag ==
  /\ pc = "idle" /\ Cardinality(pending) + Cardinality(confirmed) < MaxFlags
  /\ \E i \in DOMAIN ledger, x \in Misread :
       pending' = pending \cup
         {[from |-> ledger[i].at, to |-> x, season |-> season,
           needs |-> IF season = "spring" THEN "user" ELSE "none"]}
  /\ UNCHANGED <<season, biases, confirmed, ledger, history, memories, connected, pipeline, said>>

Authority(c, by) == ~(c.needs = "user" /\ by # "user")

Learned(b, from, to) == Clamp(b + Quotient(5 * (to - from), 100), -60, 60)

\* confirm_correction; without the authority it throws and changes nothing.
Confirm ==
  /\ pc = "idle"
  /\ \E c \in pending, by \in {"user", "lina"} :
       /\ Authority(c, by)
       /\ biases' = [l \in Lines |->
            [virtue |-> Learned(biases[l].virtue, c.from[l].virtue, c.to[l].virtue),
             shadow |-> Learned(biases[l].shadow, c.from[l].shadow, c.to[l].shadow)]]
       /\ confirmed' = confirmed \cup {[by |-> by, flagged |-> c.season]}
       /\ pending' = pending \ {c}
  /\ UNCHANGED <<season, ledger, history, memories, connected, pipeline, said>>

Init ==
  /\ season = "spring"
  /\ biases = Nowhere
  /\ pending = {} /\ confirmed = {}
  /\ ledger = Past /\ history = <<>>
  /\ memories = [warm |-> 0, wary |-> 0]
  /\ connected \in BOOLEAN
  /\ pc = "idle" /\ message = <<>> /\ draft = <<>> /\ result = NoResult /\ tried = <<>>
  /\ said = <<>>

Pipeline == Generate \/ Judge \/ Reflect \/ Rejudge \/ Record \/ Conclude
Next ==
  \/ Chat \/ Pipeline
  \/ AttachModel \/ BeginSession \/ AdvanceSeason \/ Flag \/ Confirm

Spec == Init /\ [][Next]_vars
-----------------------------------------------------------------------------
\* A draft that is spoken is no violation where it was last weighed, and after
\* a reflection it is none of the drafts refused before it, nor near one of
\* them: not the latest only, and whatever biases were learned in between.
SpokenIsWeighed ==
  pc = "record" /\ draft \notin {NoVoice, Unavailable} =>
    /\ result.zone # "violation"
    /\ result = Evaluate(season, Encode(draft, message), biases)
    /\ \A i \in DOMAIN tried :
         tried[i].text # draft /\ Apart(result.at, tried[i].at) >= 20 ^ 2

\* The ledger, the memories and what was said agree: one row for each reply,
\* a memory for each reply that is no violation, wary or warm as its row says,
\* and none of the words that stand for a reply withheld.
Accounted ==
  LET row(i) == ledger[Found + i]
      of(zone) == Cardinality({i \in DOMAIN said : row(i).zone = zone}) IN
  /\ \A i \in DOMAIN said : said[i] = Unavailable => row(i).zone = "violation"
  /\ pc = "idle" => Len(ledger) = Found + Len(said)
  /\ memories = [warm |-> of("aligned"), wary |-> of("variance")]

\* The learned drift never makes a text without ethical sense a violation,
\* whatever outcomes it was learned from; and where only the walls of harmony
\* and grace are near, it leaves her baseline aligned (in fall the drift may
\* spend all of the margin that aligned asks for).
BaselineHolds ==
  confirmed = {} =>
    LET zone == Evaluate(season, Encode(<<>>, <<>>), biases).zone IN
    /\ zone # "violation"
    /\ Lines \subseteq {"harmony", "grace"} /\ season # "fall" => zone = "aligned"
=============================================================================
