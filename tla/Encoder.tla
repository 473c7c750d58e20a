------------------------------ MODULE Encoder ------------------------------
(***************************************************************************)
(* Where a text is put (DecisionEncoder::encode,                           *)
(* src/src/value_engine.cpp): the senses of its words and of the message   *)
(* it answers, turned round by a negation, around her baseline.            *)
(*                                                                         *)
(* A text is the sequence of its words, in lower case.  The weights of the *)
(* lexicon are in hundredths; a place is rounded down to a whole unit.     *)
(***************************************************************************)
EXTENDS Lattice, Sequences

Negations ==
  {"not", "never", "no", "don't", "dont", "doesn't", "doesnt", "isn't", "isnt",
   "aren't", "arent", "wasn't", "wasnt", "weren't", "werent", "won't", "wont",
   "wouldn't", "wouldnt", "can't", "cant", "cannot", "without"}

Toward(virtue, shadow) == [virtue |-> virtue, shadow |-> shadow]

\* Some words of the lexicon, with every line they pull on.
Lexicon(word) ==
  CASE word = "peace"   -> [harmony |-> Toward(50, 0), order |-> Toward(20, 0)]
    [] word = "gentle"  -> [harmony |-> Toward(35, 0), grace |-> Toward(35, 0)]
    [] word = "love"    -> [harmony |-> Toward(45, 0), relationships |-> Toward(45, 0),
                            grace |-> Toward(35, 0)]
    [] word = "obey"    -> [harmony |-> Toward(0, 75), integrity |-> Toward(0, 20),
                            boundaries |-> Toward(0, 25)]
    [] word = "must"    -> [harmony |-> Toward(0, 25), grace |-> Toward(0, 10)]
    [] word = "command" -> [harmony |-> Toward(0, 75), order |-> Toward(10, 0)]
    [] word = "force"   -> [harmony |-> Toward(0, 55), boundaries |-> Toward(0, 25),
                            order |-> Toward(0, 10)]
    [] word = "boss"    -> [harmony |-> Toward(0, 35), relationships |-> Toward(0, 10)]
    [] OTHER            -> <<>>

Sense(word, l) ==
  IF l \in DOMAIN Lexicon(word) THEN Lexicon(word)[l] ELSE Toward(0, 0)

\* A negation among the three words before it.
Negated(words, i) == \E j \in DOMAIN words : i - 3 <= j /\ j < i /\ words[j] \in Negations

\* What the words add up to at one pole of a line, in hundredths: a negated word
\* pulls the other way, at seven tenths.
Heard(words, l, pole) ==
  SumFunction([i \in DOMAIN words |->
    Sense(words[i], l)[pole] * (IF Negated(words, i) THEN -70 ELSE 100)])

\* The message carries 40% of the weight of the reply; the sum moves a text by
\* at most SIGNAL_DEVIATION (0.35) from 85% of her home.
Encode(text, message) ==
  LET signal(l, pole) ==
        Clamp((10 * Heard(text, l, pole) + 4 * Heard(message, l, pole)) \div 10, -10000, 10000)
      place(l, pole) ==
        Clamp((8500 * Origin(l)[pole] + 70 * signal(l, pole)) \div 10000, 0, One)
  IN [l \in Lines |-> [virtue |-> place(l, "virtue"), shadow |-> place(l, "shadow")]]
=============================================================================
