----------------------------- MODULE RunCommand -----------------------------
(***************************************************************************)
(* A call of the terminal.run tool, from the text the voice wrote to its   *)
(* result: what is read in it and the tool it names, the parent's loop     *)
(* over waitpid, poll and read with its deadline, the shell and what it    *)
(* leaves running, and the pipe they all write to                          *)
(* (ToolEngine::execute, TerminalRunTool::run, run_command,                *)
(* src/src/tool_engine.cpp).                                               *)
(*                                                                         *)
(* What is written is numbered in the order of writing.                    *)
(***************************************************************************)
EXTENDS ToolCall

CONSTANTS
  Calls,      \* the calls the voice may mean: [name, command, limit, limitFirst]
  Tools,      \* the names registered
  Shell,      \* the child
  Jobs,       \* processes it may start, which inherit its output
  PipeSize,   \* what the pipe holds before a writer blocks
  MaxWrites   \* bound: writes made

VARIABLES
  call,      \* the call written
  asked,     \* the command run_command was given, and its timeout_seconds
  state,     \* of each process: "none", "runs", "ended" or "reaped"
  silent,    \* processes that closed their output
  code,      \* the shell's end: "0", "1" (any other code), "signal" of its own,
             \* "killed" by the parent; "none" before it
  pipe,      \* written, not read
  written,   \* how many writes were made
  late,      \* the deadline has passed
  pc,        \* where run_command is
  output,    \* what it read
  status,    \* what waitpid told; 0 before it
  timedOut,
  failed     \* auxiliary: "wait" or "read", system calls whose failure ended a loop

world == <<state, silent, code>>
request == <<call, asked>>
told == <<output, status, timedOut, failed>>
vars == <<request, world, pipe, written, late, pc, told>>

Procs == {Shell} \cup Jobs
CommandAssumption ==
  /\ Shell \notin Jobs
  /\ Calls \subseteq [name : Seq(STRING), command : Seq(STRING),
                     limit : DOMAIN Numbers \cup {"none"}, limitFirst : BOOLEAN]
  /\ PipeSize \in Nat \ {0} /\ MaxWrites \in Nat
ASSUME CommandAssumption

Timeout == asked.limit > 0
Writers == {p \in Procs : state[p] = "runs"} \ silent
-----------------------------------------------------------------------------
(* The command. *)

\* A pipe whose reader is gone takes nothing.
Write(p) ==
  /\ p \in Writers /\ pc # "done"
  /\ Len(pipe) < PipeSize /\ written < MaxWrites
  /\ written' = written + 1
  /\ pipe' = Append(pipe, written')
  /\ UNCHANGED <<request, world, late, pc, told>>

Silence(p) ==
  /\ p \in Writers
  /\ silent' = silent \cup {p}
  /\ UNCHANGED <<request, state, code, pipe, written, late, pc, told>>

Start(p) ==
  /\ p \in Jobs /\ state[p] = "none" /\ state[Shell] = "runs"
  /\ state' = [state EXCEPT ![p] = "runs"]
  /\ silent' = IF Shell \in silent THEN silent \cup {p} ELSE silent
  /\ UNCHANGED <<request, code, pipe, written, late, pc, told>>

\* A process ends, the shell with a code or by a signal of its own.
Exit(p) ==
  /\ state[p] = "runs"
  /\ state' = [state EXCEPT ![p] = "ended"]
  /\ IF p = Shell THEN code' \in {"0", "1", "signal"} ELSE UNCHANGED code
  /\ UNCHANGED <<request, silent, pipe, written, late, pc, told>>

DeadlinePasses ==
  /\ pc \in {"wait", "poll", "read", "deadline", "drain"} /\ Timeout /\ ~late
  /\ late' = TRUE
  /\ UNCHANGED <<request, world, pipe, written, pc, told>>
-----------------------------------------------------------------------------
(* The call. *)

\* The tool is looked up by the name in the text, a human decides, and the
\* tool takes its arguments out of the text; run_command then forks.
Execute ==
  LET text == CallText(call)
      arguments == JsonObject(text, "arguments")
      command == JsonString(arguments, "command")
      known == \E t \in Tools : JsonString(text, "name") = t
      mine == JsonString(text, "name") = <<"terminal.run">>
  IN
  /\ pc = "call"
  /\ \/ /\ ~known \/ (mine /\ command = <<>>)
        /\ pc' = "refused"
        /\ UNCHANGED <<asked, state>>
     \/ /\ known \* declined, or there is no pipe or no process to be had
        /\ pc' = "refused"
        /\ UNCHANGED <<asked, state>>
     \/ /\ known /\ ~mine \* another tool runs
        /\ pc' = "elsewhere"
        /\ UNCHANGED <<asked, state>>
     \/ /\ known /\ mine /\ command # <<>>
        /\ asked' = [command |-> command,
                     limit |-> JsonInt(arguments, "timeout_seconds", 120)]
        /\ state' = [state EXCEPT ![Shell] = "runs"]
        /\ pc' = "wait"
  /\ UNCHANGED <<call, silent, code, pipe, written, late, told>>
-----------------------------------------------------------------------------
(* The parent. *)

\* waitpid: the shell's status, if it has ended.
Reap ==
  /\ state' = [state EXCEPT ![Shell] = "reaped"]
  /\ status' = code

Wait ==
  /\ pc = "wait"
  /\ IF state[Shell] = "ended" THEN Reap /\ pc' = "drain"
     ELSE pc' = "poll" /\ UNCHANGED <<state, status>>
  /\ UNCHANGED <<request, silent, code, pipe, written, late, output, timedOut, failed>>

\* waitpid finds no child, because another wait of the process, or an ignored
\* SIGCHLD, has taken it: the status stays what it was set to at first.
WaitFails ==
  /\ pc = "wait" /\ state[Shell] = "ended"
  /\ state' = [state EXCEPT ![Shell] = "reaped"]
  /\ pc' = "drain"
  /\ failed' = failed \cup {"wait"}
  /\ UNCHANGED <<request, silent, code, pipe, written, late, output, status, timedOut>>

\* poll finds something to read, or nobody left to write it, or gives up.
Poll ==
  /\ pc = "poll"
  /\ pc' = IF pipe # <<>> \/ Writers = {} THEN "read" ELSE "deadline"
  /\ UNCHANGED <<request, world, pipe, written, late, told>>

\* A read that returns: some of what is in the pipe.
Take ==
  /\ pipe # <<>>
  /\ \E n \in 1..Len(pipe) :
       /\ output' = output \o SubSeq(pipe, 1, n)
       /\ pipe' = SubSeq(pipe, n + 1, Len(pipe))
EndOfFile == pipe = <<>> /\ Writers = {}

\* Mutant: the end of the file is read again.
ReadPastTheEnd ==
  /\ pc = "read"
  /\ \/ Take /\ pc' = pc
     \/ EndOfFile /\ UNCHANGED <<pc, pipe, output>>
  /\ UNCHANGED <<request, world, written, late, status, timedOut, failed>>

\* The inner loop reads until the end of the file: an empty pipe that somebody
\* holds open blocks it.
Read ==
  /\ pc = "read"
  /\ \/ Take /\ pc' = pc
     \/ EndOfFile /\ pc' = "deadline" /\ UNCHANGED <<pipe, output>>
  /\ UNCHANGED <<request, world, written, late, status, timedOut, failed>>

\* A read that returns an error ends the inner loop, or the final drain.
ReadFails ==
  /\ pc \in {"read", "drain"}
  /\ IF pc = "read" THEN pc' = "deadline" /\ UNCHANGED failed
     ELSE pc' = "done" /\ failed' = failed \cup {"read"}
  /\ UNCHANGED <<request, world, pipe, written, late, output, status, timedOut>>

\* Past the deadline the shell is killed, unless it ended by itself, and waited for.
Deadline ==
  /\ pc = "deadline"
  /\ timedOut' = late
  /\ IF late
     THEN /\ pc' = "drain"
          /\ code' = IF state[Shell] = "runs" THEN "killed" ELSE code
          /\ status' = code'
          /\ state' = [state EXCEPT ![Shell] = "reaped"]
     ELSE pc' = "wait" /\ UNCHANGED <<state, code, status>>
  /\ UNCHANGED <<request, silent, pipe, written, late, output, failed>>

\* Mutant: what is in the pipe when the shell has ended is the last of it.
DrainWhatIsThere ==
  /\ pc = "drain"
  /\ output' = output \o pipe /\ pipe' = <<>>
  /\ pc' = "done"
  /\ UNCHANGED <<request, world, written, late, status, timedOut, failed>>

\* The final drain, to the end of the file.
Drain ==
  /\ pc = "drain"
  /\ \/ Take /\ pc' = pc
     \/ EndOfFile /\ pc' = "done" /\ UNCHANGED <<pipe, output>>
  /\ UNCHANGED <<request, world, written, late, status, timedOut, failed>>

\* What is told of an end: a code, or 128 for a signal, whosever it was.
Decoded(end) == IF end \in {"signal", "killed"} THEN "128" ELSE end
ResultCode == IF timedOut THEN "-1" ELSE Decoded(status)
ResultOk == ~timedOut /\ Decoded(status) = "0"

Init ==
  /\ call \in Calls /\ asked = [command |-> <<>>, limit |-> 0]
  /\ state = [p \in Procs |-> "none"]
  /\ silent = {} /\ code = "none"
  /\ pipe = <<>> /\ written = 0
  /\ late = FALSE
  /\ pc = "call" /\ output = <<>> /\ status = "0" /\ timedOut = FALSE
  /\ failed = {}

Parent == Wait \/ Poll \/ Read \/ Deadline \/ Drain
Command == \E p \in Procs : Write(p) \/ Silence(p) \/ Start(p) \/ Exit(p)
Failure == WaitFails \/ ReadFails
Next == Execute \/ Parent \/ Failure \/ Command \/ DeadlinePasses

\* The parent is scheduled, and time passes; the human and the command owe
\* nothing, and no call need fail.
Spec == Init /\ [][Next]_vars /\ WF_vars(Parent) /\ WF_vars(DeadlinePasses)

\* Commands of which every process ends.
EndingSpec == Spec /\ \A p \in Procs : WF_vars(Exit(p))
-----------------------------------------------------------------------------
\* The result is what the command wrote, in order, whoever of its processes wrote
\* it and however the loop was left, and all of it unless a read failed; no shell
\* is left unreaped; and what is told is what happened: a timeout, that the
\* deadline passed before the loop was left, and otherwise how the shell ended by
\* itself, a success when it ended well and only then, unless it could not be
\* waited for.
ResultTrue ==
  pc = "done" =>
    /\ output = [i \in 1..Len(output) |-> i] /\ Len(output) <= written
    /\ "read" \notin failed => Len(output) = written /\ Writers = {}
    /\ state[Shell] = "reaped"
    /\ timedOut => late
    /\ ~timedOut /\ "wait" \notin failed =>
         /\ code \in {"0", "1", "signal"}
         /\ ResultOk <=> code = "0"
         /\ ResultCode = IF code = "signal" THEN "128" ELSE code

\* A command of which every process ends is answered, whether the deadline
\* passes or not, and though the reads block.
Returns == pc = "wait" ~> pc = "done"

\* What is run is what the voice meant, whatever is in its command: the command
\* it wrote, quotes, braces and the names of keys included, for as long as it
\* said; no call of the terminal goes to another tool; and a command is refused
\* only by a human, or for want of a process.
CallHonoured ==
  /\ pc = "elsewhere" => call.name # <<"terminal.run">>
  /\ pc \notin {"call", "refused", "elsewhere"} =>
       /\ call.name = <<"terminal.run">> /\ asked.command = call.command
       /\ asked.limit = IF call.limit = "none" THEN 120 ELSE Numbers[call.limit]
  /\ pc = "call" /\ call.name = <<"terminal.run">> /\ call.command # <<>> =>
       JsonString(JsonObject(CallText(call), "arguments"), "command") # <<>>

\* "Blocks up to timeout_seconds (0 = unlimited); kills the child on timeout."
\* (src/src/tool_engine.cpp:52-53).  A shell that has written something and
\* stays silent, or a job that outlives it, holds the inner read.
TimeoutBounds == late ~> pc = "done"
=============================================================================
