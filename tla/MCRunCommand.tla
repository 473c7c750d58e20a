---------------------------- MODULE MCRunCommand ----------------------------
EXTENDS RunCommand

\* A plain command, one with a brace, one that quotes a key and escapes, and two
\* that are nothing but the name of a key.
MCCommands == {<<"ls">>, <<"echo", Close>>, <<Quote, "timeout_seconds", Quote, ":", "0", Escape>>,
               <<"timeout_seconds">>, <<"arguments">>}
Call(name, command, limit, first) ==
  [name |-> <<name>>, command |-> command, limit |-> limit, limitFirst |-> first]
MCCalls ==
  {Call("terminal.run", c, l, f) : c \in MCCommands, l \in {"5", "none"}, f \in BOOLEAN}
  \cup {Call("terminal.run", <<>>, "5", FALSE), Call("terminal.run", <<"ls">>, "0", FALSE),
        Call("arguments", <<"ls">>, "5", FALSE), Call("file.read", <<"ls">>, "none", FALSE)}
MCTools == {<<"terminal.run">>, <<"file.read">>}
=============================================================================
