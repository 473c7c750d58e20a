---------------------------- MODULE StreamPieces ----------------------------
(***************************************************************************)
(* The parser of src/src/stream_parser.cpp and the generation loop that    *)
(* feeds it (Generator::run, src/src/llama_adapter.cpp), on pieces that    *)
(* need not end where a marker does: the model's vocabulary cuts the text. *)
(* OpenWindow has the same parser on whole markers, and the turn around it.*)
(*                                                                         *)
(* A text is a sequence of fragments.  A marker is a run of them, and no   *)
(* fragment overlaps another one, so that finding a marker among the       *)
(* fragments is finding it among the characters.                           *)
(***************************************************************************)
EXTENDS Integers, Sequences, FiniteSetsExt

CONSTANTS
  Pieces,      \* what the voice writes at a time: texts
  MaxPieces    \* config.max_tokens

ThoughtOpen  == <<"[", "thought]">>
ThoughtClose == <<"[", "/", "thought]">>
CallOpen     == <<"<", "tool_call>">>
CallClose    == <<"<", "/", "tool_call>">>

Fragments == {"[", "<", "/", "thought]", "tool_call>", "word"}

ASSUME PiecesAssumption ==
  Pieces \subseteq Seq(Fragments) \ {<<>>} /\ MaxPieces \in Nat

VARIABLES
  pass,     \* the pass is "on" or "over"
  fed,      \* the pieces written in it
  written,  \* the generation loop's output
  kept,     \* the parser's buffer_
  shown     \* the thoughts it completed in this pass

pieceVars == <<pass, fed, written, kept, shown>>
-----------------------------------------------------------------------------
(* The parser. *)

\* std::string::find: the first place from a given one where a marker begins; 0
\* for none.
FoundAt(text, marker, from) ==
  LET n == Len(marker)
      found == {p \in from..(Len(text) - n + 1) : SubSeq(text, p, p + n - 1) = marker}
  IN IF found = {} THEN 0 ELSE Min(found)

\* Where the first block of two markers opens, and where it closes.
Block(text, open, close) ==
  LET at == FoundAt(text, open, 1)
  IN [open |-> at, close |-> IF at = 0 THEN 0 ELSE FoundAt(text, close, at + Len(open))]

Complete(text, open, close) == Block(text, open, close).close # 0

\* What is in that block, and the text without it.
Content(text, open, close) ==
  LET b == Block(text, open, close) IN SubSeq(text, b.open + Len(open), b.close - 1)
Without(text, open, close) ==
  LET b == Block(text, open, close)
  IN SubSeq(text, 1, b.open - 1) \o SubSeq(text, b.close + Len(close), Len(text))

\* Completed thoughts are taken out until there is none.
RECURSIVE PullAll(_)
PullAll(s) ==
  IF ~Complete(s.rest, ThoughtOpen, ThoughtClose) THEN s
  ELSE PullAll([rest  |-> Without(s.rest, ThoughtOpen, ThoughtClose),
              found |-> Append(s.found, Content(s.rest, ThoughtOpen, ThoughtClose))])

PulledOut(text) == PullAll([rest |-> text, found |-> <<>>])

\* Mutant: the sweep is spared when the piece holds no closing marker.
FeedPieceIfClosing(piece) ==
  LET s == IF FoundAt(piece, ThoughtClose, 1) = 0
           THEN [rest |-> kept \o piece, found |-> <<>>]
           ELSE PulledOut(kept \o piece)
  IN kept' = s.rest /\ shown' = shown \o s.found

FeedPiece(piece) ==
  LET s == PulledOut(kept \o piece)
  IN kept' = s.rest /\ shown' = shown \o s.found

\* Mutant: the thoughts that are left go first, then the call.
ResponseThoughtsFirst(text) ==
  LET t == PulledOut(text).rest
  IN IF Complete(t, CallOpen, CallClose) THEN Without(t, CallOpen, CallClose) ELSE t

\* ParsedTurn::response: the call is cut out, then the thoughts that are left.
Response(text) ==
  PulledOut(IF Complete(text, CallOpen, CallClose)
        THEN Without(text, CallOpen, CallClose) ELSE text).rest
-----------------------------------------------------------------------------
(* The pass. *)

\* output ends with the marker that closes a call.
EndsWithCall(text) ==
  LET n == Len(CallClose)
  IN Len(text) >= n /\ SubSeq(text, Len(text) - n + 1, Len(text)) = CallClose

\* A piece: appended, fed, and the end of what was written compared.
Write(piece) ==
  /\ pass = "on" /\ fed < MaxPieces
  /\ fed' = fed + 1
  /\ written' = written \o piece
  /\ FeedPiece(piece)
  /\ pass' = IF EndsWithCall(written') THEN "over" ELSE "on"

\* The other ends of a pass: a stop, the end of generation, the limit, a failure.
LeavePass ==
  /\ pass = "on"
  /\ pass' = "over"
  /\ UNCHANGED <<fed, written, kept, shown>>

\* reset, and the next pass.
NextPass ==
  /\ pass = "over"
  /\ pass' = "on" /\ fed' = 0
  /\ written' = <<>> /\ kept' = <<>> /\ shown' = <<>>

PieceInit ==
  pass = "on" /\ fed = 0 /\ written = <<>> /\ kept = <<>> /\ shown = <<>>

PieceNext == (\E piece \in Pieces : Write(piece)) \/ LeavePass \/ NextPass

PieceSpec == PieceInit /\ [][PieceNext]_pieceVars
-----------------------------------------------------------------------------
\* Wherever the pieces cut the markers, and whatever taking a thought out brings
\* together, the parser has found what it would find in the whole text at once;
\* and no complete thought is left in the response, not even one that cutting out
\* the call has brought together (stream_parser.cpp:33-45, 57-87).
SortedHoweverCut ==
  /\ PulledOut(written) = [rest |-> kept, found |-> shown]
  /\ ~Complete(Response(kept), ThoughtOpen, ThoughtClose)

\* "a complete <tool_call>...</tool_call> block ends this pass"
\* (src/src/llama_adapter.cpp:273).
CallEndsPass == pass = "on" => ~Complete(written, CallOpen, CallClose)
=============================================================================
