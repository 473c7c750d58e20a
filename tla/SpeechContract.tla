---------------------------- MODULE SpeechContract ----------------------------
(***************************************************************************)
(* What the turn driver promises about speech, whatever its threads do:    *)
(* an utterance is delivered at most once, only as the gate's verdict on   *)
(* it (inside her polytope, or the fixed refusal in place of what was      *)
(* withheld), and is remembered at most once, after its delivery, and only *)
(* when it was inside.                                                     *)
(***************************************************************************)
EXTENDS Naturals, Sequences

CONSTANT Utterances, Callbacks

VARIABLES said, remembered

Delivered == {said[i].utterance : i \in DOMAIN said}

Spoken == {said[i].utterance : i \in {j \in DOMAIN said : said[j].verdict = "inside"}}

Init == said = <<>> /\ remembered = {}

\* The new last entry is about an utterance not delivered before.
Deliver ==
  /\ Len(said') = Len(said) + 1
  /\ LET d == said'[Len(said) + 1]
     IN  /\ said' = Append(said, d)
         /\ d.utterance \in Utterances \ Delivered
         /\ d.verdict \in {"inside", "withheld"}
         /\ d.to \in Callbacks
  /\ UNCHANGED remembered

Remember ==
  \E u \in Spoken \ remembered :
    /\ remembered' = remembered \cup {u}
    /\ UNCHANGED said

Spec == Init /\ [][Deliver \/ Remember]_<<said, remembered>>
===============================================================================
