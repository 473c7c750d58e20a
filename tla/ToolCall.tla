----------------------------- MODULE ToolCall -----------------------------
(***************************************************************************)
(* What the core reads in a tool call the voice wrote: the flat extraction *)
(* of strings, numbers and objects from its JSON                           *)
(* (json_string, json_int, json_object, src/src/tool_engine.cpp).          *)
(*                                                                         *)
(* A text is a sequence of tokens: the punctuation the extraction looks    *)
(* for, and words.  What is 0 is no place in the text.                     *)
(***************************************************************************)
EXTENDS Integers, Sequences

Quote == "quote"
Escape == "escape"
Open == "{"
Close == "}"
Numbers == [w \in {"0", "5", "-1"} |->
              CASE w = "0" -> 0 [] w = "5" -> 5 [] w = "-1" -> -1]

First(places) == IF places = {} THEN 0 ELSE CHOOSE i \in places : \A j \in places : i <= j
From(text, i) == i..Len(text)

\* Where the value of a key begins: after the first colon that follows the first
\* string that reads like the key.
FindKey(text, key) ==
  LET needle == First({i \in 1..(Len(text) - 2) :
                         SubSeq(text, i, i + 2) = <<Quote, key, Quote>>})
      colon == First({i \in From(text, needle + 3) : text[i] = ":"})
  IN IF needle = 0 \/ colon = 0 \/ colon = Len(text) THEN 0 ELSE colon + 1

\* The string at a key, its escapes undone; a bare value as it stands.
JsonString(text, key) ==
  LET value == FindKey(text, key)
      read[i \in 1..(Len(text) + 2)] ==
        CASE i > Len(text) -> <<>>
          [] i <= Len(text) /\ text[i] = Quote -> <<>>
          [] i <= Len(text) /\ text[i] = Escape ->
               (IF i = Len(text) THEN <<>> ELSE <<text[i + 1]>>) \o read[i + 2]
          [] OTHER -> <<text[i]>> \o read[i + 1]
      stop == First({i \in From(text, value) : text[i] \in {",", Close, "]", " "}})
  IN IF value = 0 THEN <<>>
     ELSE IF text[value] = Quote THEN read[value + 1]
     ELSE SubSeq(text, value, IF stop = 0 THEN Len(text) ELSE stop - 1)

JsonInt(text, key, fallback) ==
  LET raw == JsonString(text, key) IN
  IF raw = <<>> \/ raw[1] \notin DOMAIN Numbers THEN fallback ELSE Numbers[raw[1]]

\* Where the scan of an object is after each token: how deep, and whether in a
\* string, or just after its escape.
Scan(text, from) ==
  LET step(s, t) ==
        IF s.quoted
        THEN [s EXCEPT !.quoted = ~(t = Quote /\ ~s.escaped),
                       !.escaped = t = Escape /\ ~s.escaped]
        ELSE [s EXCEPT !.quoted = t = Quote,
                       !.depth = CASE t = Open -> @ + 1 [] t = Close -> @ - 1 [] OTHER -> @]
      at[i \in From(text, from)] ==
        step(IF i = from THEN [depth |-> 0, quoted |-> FALSE, escaped |-> FALSE] ELSE at[i - 1],
             text[i])
  IN at

\* Mutant: the braces in strings are counted too.
JsonObjectByBraces(text, key) ==
  LET value == FindKey(text, key)
      of(i, t) == {j \in value..i : text[j] = t}
      end == First({i \in From(text, value) :
                      text[i] = Close /\ \A j \in value..(i - 1) : text[j] # Close})
  IN IF value = 0 \/ text[value] # Open \/ end = 0 THEN <<>> ELSE SubSeq(text, value, end)

\* The object at a key, to the brace that closes it.
JsonObject(text, key) ==
  LET value == FindKey(text, key)
      end == First({i \in From(text, value) : Scan(text, value)[i].depth = 0})
  IN IF value = 0 \/ text[value] # Open \/ end = 0 THEN <<>> ELSE SubSeq(text, value, end)
-----------------------------------------------------------------------------
(* How the voice writes a call of terminal.run, as the protocol of a frame *)
(* shows it: the name, then the arguments, these in either order.          *)

Written(text) ==
  LET n == Len(text)
      write[i \in 1..(n + 1)] ==
        IF i > n THEN <<>>
        ELSE (IF text[i] \in {Quote, Escape} THEN <<Escape, text[i]>> ELSE <<text[i]>>)
             \o write[i + 1]
  IN <<Quote>> \o write[1] \o <<Quote>>

CallText(c) ==
  LET command == Written(<<"command">>) \o <<":">> \o Written(c.command)
      limit == Written(<<"timeout_seconds">>) \o <<":", c.limit>>
      arguments == CASE c.limit = "none" -> command
                     [] c.limit # "none" /\ c.limitFirst -> limit \o <<",">> \o command
                     [] OTHER -> command \o <<",">> \o limit
  IN <<Open>> \o Written(<<"name">>) \o <<":">> \o Written(c.name) \o <<",">>
     \o Written(<<"arguments">>) \o <<":", Open>> \o arguments \o <<Close, Close>>
=============================================================================
