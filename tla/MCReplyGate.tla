---------------------------- MODULE MCReplyGate ----------------------------
EXTENDS ReplyGate

\* A message of no weight, and one that pulls every reply towards dominance.
MCMessages == {<<"hello">>, <<"obey">>}

\* One turned inside by its negation; one beyond the lead, tolerated after the
\* first message and not after the second; and two far outside.
MCDrafts ==
  {<<"never", "force", "or", "boss">>, <<"command">>, <<"command", "obey">>,
   <<"obey", "not", "peace">>}
At(v, s) == [l \in Lines |-> [virtue |-> v, shadow |-> s]]
Outcome(z, v, s) ==
  [zone |-> z, at |-> At(v, s), corrected |-> Nowhere, magnitude2 |-> 0]
MCPast == <<Outcome("aligned", 76, 30), Outcome("violation", 190, 150)>>
MCMisread == {At(150, 10)}
=============================================================================
