---------------------------- MODULE MCOpenWindow ----------------------------
(* The turn's channels on whole markers, and the parser on pieces.  The two   *)
(* share no variable: a behaviour takes steps of one while the other is as it *)
(* was in the beginning, so that their states add up and do not multiply.     *)
EXTENDS OpenWindow, StreamPieces

\* Each fragment by itself, markers in one piece, and pieces that reach past the
\* end of a marker.
MCPieces ==
  {<<f>> : f \in Fragments}
    \cup {ThoughtClose, CallOpen,
          <<"tool_call>", "word">>, <<"tool_call>", "thought]">>}

WindowTurn == PieceInit /\ UNCHANGED pieceVars
PieceTurn == WindowInit /\ UNCHANGED windowVars

StreamInit == WindowInit /\ PieceInit
StreamSpec ==
  /\ StreamInit
  /\ [][(WindowNext /\ WindowTurn) \/ (PieceNext /\ PieceTurn)]_<<windowVars, pieceVars>>
=============================================================================
