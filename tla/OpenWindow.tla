----------------------------- MODULE OpenWindow -----------------------------
(***************************************************************************)
(* The channels of one turn: the voice's generation loop                   *)
(* (Generator::run, src/src/llama_adapter.cpp), the parser that sorts its  *)
(* stream (src/src/stream_parser.cpp), and what the turn loop and the      *)
(* voluntary turn do with each channel (src/src/lina_core.cpp).            *)
(*                                                                         *)
(* The stream is a sequence of tokens, each a marker or a word.  A marker  *)
(* that comes in pieces is found once its last piece is in the buffer:     *)
(* StreamPieces has the pieces.                                            *)
(* Words carry their place in the stream, and whether a thought was open   *)
(* when they were written.                                                 *)
(***************************************************************************)
EXTENDS Integers, Sequences

CONSTANTS
  MaxTokens,   \* config_.max_tokens, and the 128 of a voluntary turn
  MaxCalls     \* kMaxToolCallsPerTurn (8)

VARIABLES
  turn,       \* "user" or "own", or "none" between turns
  place,      \* where the turn is
  stop,       \* turn_stop_
  stream,     \* what the voice wrote in this pass
  buffer,     \* the parser's buffer_
  swept,      \* the thoughts it completed in this pass: shown live in a user's turn
  calls,      \* tool_calls
  ran,        \* the call handed to the executor after this pass
  delivered   \* what the turn delivered

windowVars == <<turn, place, stop, stream, buffer, swept, calls, ran, delivered>>

WindowAssumption == MaxTokens \in Nat /\ MaxCalls \in Nat
ASSUME WindowAssumption

Markers == {"[thought]", "[/thought]", "<tool_call>", "</tool_call>"}
Token(mark, at, inner) == [mark |-> mark, at |-> at, inner |-> inner]
-----------------------------------------------------------------------------
(* The parser. *)

\* The first marker of a kind at or after a place; 0 when there is none.
Find(text, mark, from) ==
  LET found == {i \in from..Len(text) : text[i].mark = mark} IN
  IF found = {} THEN 0 ELSE CHOOSE i \in found : \A j \in found : i <= j

Between(text, i, j) == SubSeq(text, i + 1, j - 1)
Erase(text, i, j) == SubSeq(text, 1, i - 1) \o SubSeq(text, j + 1, Len(text))

\* Where the first block of two markers opens, and where it closes; 0 for none.
Opening(text, mark) == Find(text, mark, 1)
Closing(text, open, close) ==
  IF Opening(text, open) = 0 THEN 0 ELSE Find(text, close, Opening(text, open) + 1)

\* A completed thought is taken out, if there is one.
Pull(s) ==
  LET open == Opening(s.rest, "[thought]")
      close == Closing(s.rest, "[thought]", "[/thought]")
  IN IF close = 0 THEN s
     ELSE [rest |-> Erase(s.rest, open, close),
           found |-> Append(s.found, Between(s.rest, open, close))]

\* And so on, until there is none: there are fewer of them than tokens.
Pulled(text) ==
  LET after[n \in 0..Len(text)] ==
        IF n = 0 THEN [rest |-> text, found |-> <<>>] ELSE Pull(after[n - 1])
  IN after
Sweep(text) == Pulled(text)[Len(text)]

\* Mutant: a closing marker is paired with what was fed with it.
FeedByPiece(token) ==
  LET s == Sweep(<<token>>) IN
  /\ buffer' = buffer \o s.rest
  /\ swept' = swept \o s.found

Feed(token) ==
  LET s == Sweep(Append(buffer, token)) IN
  /\ buffer' = s.rest
  /\ swept' = swept \o s.found

\* Mutant: the call stays in the text.
ResultKeepsCall(text) ==
  LET open == Opening(text, "<tool_call>")
      close == Closing(text, "<tool_call>", "</tool_call>")
  IN [called |-> close # 0,
      call |-> IF close = 0 THEN <<>> ELSE Between(text, open, close),
      response |-> Sweep(text).rest]

\* The first complete call, and the response: what is left without it and
\* without the thoughts that are left.
Result(text) ==
  LET open == Opening(text, "<tool_call>")
      close == Closing(text, "<tool_call>", "</tool_call>")
  IN [called |-> close # 0,
      call |-> IF close = 0 THEN <<>> ELSE Between(text, open, close),
      response |-> Sweep(IF close = 0 THEN text ELSE Erase(text, open, close)).rest]
-----------------------------------------------------------------------------
(* The turn. *)

NoPass == stream' = <<>> /\ buffer' = <<>> /\ swept' = <<>> /\ ran' = <<>>
Begin(kind) ==
  /\ turn = "none"
  /\ turn' = kind
  /\ place' = IF kind = "user" THEN "loop" ELSE "pass"
  /\ stop' = IF kind = "user" THEN FALSE ELSE stop
  /\ NoPass /\ calls' = 0 /\ delivered' = <<>>

BeginTurn == Begin("user")
RunVoluntaryTurn == Begin("own")

StopTurn ==
  /\ ~stop /\ stop' = TRUE
  /\ UNCHANGED <<turn, place, stream, buffer, swept, calls, ran, delivered>>

\* The head of the loop: a stop here ends the turn with nothing to deliver.
Loop ==
  /\ place = "loop"
  /\ NoPass
  /\ IF stop THEN place' = "idle" /\ turn' = "none" ELSE place' = "pass" /\ UNCHANGED turn
  /\ UNCHANGED <<stop, calls, delivered>>

\* A thought is open for the voice from its marker to the closing one.
Inner == \E i \in DOMAIN stream :
           /\ stream[i].mark = "[thought]"
           /\ \A j \in (i + 1)..Len(stream) : stream[j].mark # "[/thought]"

\* After a token.  What closes a call ends the pass, unless its piece reaches past
\* the marker: the loop compares the end of what was written (StreamPieces).
GoesOn(mark) ==
  place' \in IF mark = "</tool_call>" THEN {"pass", "sort"} ELSE {"pass"}

\* A token: sampled, fed, and the thoughts it completes swept.
Generate ==
  /\ place = "pass" /\ ~stop /\ Len(stream) < MaxTokens
  /\ \E mark \in Markers \cup {"word"} :
       LET token == Token(mark, Len(stream) + 1, Inner) IN
       /\ stream' = Append(stream, token)
       /\ Feed(token)
       /\ GoesOn(mark)
  /\ UNCHANGED <<turn, stop, calls, ran, delivered>>

\* The end of the pass: the end of what the voice has to say, a failed prompt or
\* decoding, or what ends it whatever she would say.
EndPass ==
  /\ place = "pass"
  /\ place' = "sort"
  /\ UNCHANGED <<turn, stop, stream, buffer, swept, calls, ran, delivered>>

\* A call keeps the door open: it is executed, or told to lack a name, and the
\* loop goes round.
HandOver(r) ==
  /\ turn = "user" /\ ~stop
  /\ r.called /\ r.call # <<>> /\ calls < MaxCalls
  /\ calls' = calls + 1
  /\ \/ ran' = r.call
     \/ UNCHANGED ran
  /\ place' = "loop"
  /\ UNCHANGED <<turn, delivered>>

\* The gate lets the response through, or another text in its place.
Deliver(r) ==
  /\ ~(turn = "user" /\ ~stop /\ r.called /\ r.call # <<>> /\ calls < MaxCalls)
  /\ delivered' \in {<<>>, r.response}
  /\ place' = "idle" /\ turn' = "none"
  /\ UNCHANGED <<calls, ran>>

\* The stream is sorted even after a stop.
Sort ==
  /\ place = "sort"
  /\ LET r == Result(buffer) IN HandOver(r) \/ Deliver(r)
  /\ UNCHANGED <<stop, stream, buffer, swept>>

WindowInit ==
  /\ turn = "none" /\ place = "idle" /\ stop = FALSE
  /\ stream = <<>> /\ buffer = <<>> /\ swept = <<>>
  /\ calls = 0 /\ ran = <<>> /\ delivered = <<>>

Turn == Loop \/ Generate \/ EndPass \/ Sort
WindowNext == BeginTurn \/ RunVoluntaryTurn \/ StopTurn \/ Turn

\* A turn that has begun is scheduled until it ends.
WindowSpec == WindowInit /\ [][WindowNext]_windowVars /\ WF_windowVars(Turn)
-----------------------------------------------------------------------------
\* The parser sorts piece by piece as it would sort the whole stream at once:
\* the same thoughts in the same order, and the same text left.
LiveAsWhole == Sweep(stream) = [rest |-> buffer, found |-> swept]

Words(s) == {s[i].at : i \in {j \in DOMAIN s : s[j].mark = "word"}}

\* The channels stay apart.  A thought that was closed is not delivered, nor
\* a word of a complete call, and what was shown as a thought is not said.
ChannelsApart ==
  \A i \in DOMAIN delivered :
    LET t == delivered[i] IN
    /\ t.inner /\ t.mark = "word" => ~\E j \in t.at..Len(stream) : stream[j].mark = "[/thought]"
    /\ t.mark = "word" => ~\E j \in DOMAIN swept : t.at \in Words(swept[j])
    /\ t.mark = "word" => t.at \notin Words(Result(buffer).call)

\* "it is private and never delivered" (src/src/lina_core.cpp:674).  A thought
\* that is cut short by the end of its pass stays in the response.
ThoughtsPrivate == \A i \in DOMAIN delivered : ~(delivered[i].mark = "word" /\ delivered[i].inner)
=============================================================================
