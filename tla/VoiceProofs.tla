---------------------------- MODULE VoiceProofs ----------------------------
(***************************************************************************)
(* What becomes of what the voice writes.  A call of a tool is read, run   *)
(* and told of as it was written, for any command, any processes, any pipe *)
(* and any number of writes, wherever the deadline falls (RunCommand); and *)
(* of the stream a call is cut out of, thoughts, calls and speech stay     *)
(* apart, for any stream in any pieces (OpenWindow).                       *)
(***************************************************************************)
EXTENDS RunCommand, OpenWindow, WellFoundedInduction, SequenceTheorems, TLAPS

Looping == {"wait", "poll", "read", "deadline"}
Left == {"drain", "done"}
Unrun == {"call", "refused", "elsewhere"}
Own == {"0", "1", "signal"}
Codes == Own \cup {"killed"}

Kinds ==
  /\ state \in [Procs -> {"none", "runs", "ended", "reaped"}]
  /\ code \in Codes \cup {"none"} /\ status \in Codes
  /\ written \in Nat
  /\ pipe \in Seq(Nat) /\ output \in Seq(Nat)
  /\ late \in BOOLEAN /\ timedOut \in BOOLEAN
  /\ failed \subseteq {"wait", "read"}
  /\ pc \in Unrun \cup Looping \cup Left

\* What was read and what is in the pipe are all that was written, in order.
InOrder ==
  /\ Len(output) + Len(pipe) = written
  /\ \A i \in 1..Len(output) : output[i] = i
  /\ \A i \in 1..Len(pipe) : pipe[i] = Len(output) + i

\* The shell and what is known of it, while the loop runs and once it was left.
Shells ==
  /\ pc \in Unrun => /\ \A p \in Procs : state[p] = "none"
                     /\ code = "none" /\ ~timedOut
  /\ pc \in Looping => /\ ~timedOut
                       /\ \/ state[Shell] = "runs" /\ code = "none"
                          \/ state[Shell] = "ended" /\ code \in Own
  /\ pc \in Left => /\ state[Shell] = "reaped"
                    /\ code \in Codes
                    /\ timedOut => late
                    /\ ~timedOut => code \in Own
                    /\ ~timedOut /\ "wait" \notin failed => status = code

\* Nobody is left to write once the drain has met the end of the file.
NobodyWrites == pc = "done" /\ "read" \notin failed => Writers = {} /\ pipe = <<>>

CommandInv == Kinds /\ InOrder /\ Shells /\ NobodyWrites

LEMMA ShellIsOne == Shell \in Procs /\ \A p \in Jobs : p \in Procs /\ p # Shell
  BY CommandAssumption DEF Procs, CommandAssumption

LEMMA CommandInit == Init => CommandInv
  <1> SUFFICES ASSUME Init PROVE CommandInv
    OBVIOUS
  <1>1. <<>> \in Seq(Nat) /\ Len(<<>>) = 0
    OBVIOUS
  <1>2. Kinds
    BY <1>1 DEF Init, Kinds, Unrun, Codes, Own
  <1>3. InOrder
    BY <1>1 DEF Init, InOrder
  <1> QED
    BY <1>2, <1>3 DEF Init, CommandInv, Shells, NobodyWrites, Unrun, Looping, Left
-----------------------------------------------------------------------------
(* The pipe. *)

\* A step that leaves the pipe, what was read and what was written alone.
LEMMA PipeLeftAlone ==
  ASSUME InOrder, UNCHANGED <<pipe, written, output>>
  PROVE  InOrder'
  BY DEF InOrder

LEMMA Written1 ==
  ASSUME CommandInv, written' = written + 1, pipe' = Append(pipe, written'),
         UNCHANGED output
  PROVE  InOrder' /\ pipe' \in Seq(Nat) /\ written' \in Nat
  <1> DEFINE k == Len(pipe)
  <1>1. /\ k \in Nat /\ written \in Nat /\ pipe \in Seq(Nat) /\ Len(output) \in Nat
        /\ Len(output) + k = written
        /\ \A i \in 1..k : pipe[i] = Len(output) + i
    BY DEF CommandInv, Kinds, InOrder
  <1>2. /\ pipe' \in Seq(Nat) /\ Len(pipe') = k + 1 /\ pipe'[k + 1] = written + 1
        /\ \A i \in 1..k : pipe'[i] = pipe[i]
    BY <1>1
  <1> HIDE DEF k
  <1>3. \A i \in 1..(k + 1) : pipe'[i] = Len(output) + i
    <2> TAKE i \in 1..(k + 1)
    <2>1. CASE i = k + 1
      <3>1. pipe'[i] = written + 1
        BY <1>2, <2>1
      <3>2. written + 1 = Len(output) + (k + 1)
        BY <1>1
      <3> QED  BY <2>1, <3>1, <3>2
    <2>2. CASE i # k + 1
      <3>1. i \in 1..k
        BY <1>1, <2>2
      <3> QED  BY <1>1, <1>2, <3>1
    <2> QED  BY <2>1, <2>2
  <1>4. Len(output') + Len(pipe') = written'
    BY <1>1, <1>2
  <1>5. \A i \in 1..Len(output') : output'[i] = i
    BY DEF CommandInv, InOrder
  <1> QED  BY <1>1, <1>2, <1>3, <1>4, <1>5 DEF InOrder

\* A read moves the front of the pipe to the end of the output.
LEMMA Taken ==
  ASSUME CommandInv, Take, UNCHANGED written
  PROVE  InOrder' /\ pipe' \in Seq(Nat) /\ output' \in Seq(Nat)
  <1> DEFINE k == Len(pipe)
             m == Len(output)
  <1>1. PICK n \in 1..k : /\ output' = output \o SubSeq(pipe, 1, n)
                          /\ pipe' = SubSeq(pipe, n + 1, k)
    BY DEF Take
  <1>2. /\ k \in Nat /\ m \in Nat /\ pipe \in Seq(Nat) /\ output \in Seq(Nat)
        /\ m + k = written
        /\ \A i \in 1..k : pipe[i] = m + i
        /\ \A i \in 1..m : output[i] = i
    BY DEF CommandInv, Kinds, InOrder
  <1> DEFINE front == SubSeq(pipe, 1, n)
  <1>3. /\ front \in Seq(Nat) /\ Len(front) = n
        /\ \A i \in 1..n : front[i] = pipe[i]
    BY <1>2
  <1>4. /\ pipe' \in Seq(Nat) /\ Len(pipe') = k - n
        /\ \A i \in 1..(k - n) : pipe'[i] = pipe[n + i]
    <2>1. pipe' = SubSeq(pipe, n + 1, k) /\ n \in 1..k
      BY <1>1
    <2>2. k = Len(pipe) /\ k \in Nat /\ pipe \in Seq(Nat)
      BY <1>2
    <2> HIDE DEF k
    <2>3. \A i \in (n + 1)..k : pipe[i] \in Nat
      BY <2>1, <2>2
    <2>4. Len(pipe') = k - n /\ pipe' \in Seq(Nat)
      BY <2>1, <2>2, <2>3
    <2>5. \A i \in 1..(k - n) : pipe'[i] = pipe[n + i]
      BY <2>1, <2>2
    <2> QED  BY <2>4, <2>5
  <1> HIDE DEF front
  <1>5. /\ output' \in Seq(Nat) /\ Len(output') = m + n
        /\ \A i \in 1..m : output'[i] = output[i]
        /\ \A i \in (m + 1)..(m + n) : output'[i] = front[i - m]
    BY <1>1, <1>2, <1>3 DEF front
  <1> HIDE DEF k, m
  <1>6. \A i \in 1..(m + n) : output'[i] = i
    <2> TAKE i \in 1..(m + n)
    <2>1. CASE i <= m
      <3>1. i \in 1..m
        BY <1>2, <2>1
      <3> QED  BY <1>2, <1>5, <3>1
    <2>2. CASE ~(i <= m)
      <3>1. i \in (m + 1)..(m + n) /\ i - m \in 1..n /\ i - m \in 1..k
        BY <1>2, <2>2
      <3>2. output'[i] = m + (i - m)
        BY <1>2, <1>3, <1>5, <3>1
      <3> QED  BY <1>2, <3>2
    <2> QED  BY <2>1, <2>2
  <1>7. \A i \in 1..(k - n) : pipe'[i] = (m + n) + i
    <2> TAKE i \in 1..(k - n)
    <2>1. n + i \in 1..k
      BY <1>2
    <2>2. pipe'[i] = m + (n + i)
      BY <1>2, <1>4, <2>1
    <2> QED  BY <1>2, <2>2
  <1>8. Len(output') + Len(pipe') = written'
    BY <1>2, <1>4, <1>5
  <1> QED  BY <1>4, <1>5, <1>6, <1>7, <1>8 DEF InOrder
-----------------------------------------------------------------------------
(* The steps. *)

LEMMA CommandNext == CommandInv /\ [Next]_vars => CommandInv'
  <1> SUFFICES ASSUME CommandInv, [Next]_vars PROVE CommandInv'
    OBVIOUS
  <1> USE ShellIsOne DEF CommandInv
  <1>1. ASSUME NEW p \in Procs, Write(p) PROVE CommandInv'
    <2>1. InOrder' /\ pipe' \in Seq(Nat) /\ written' \in Nat
      BY <1>1, Written1 DEF Write, told
    <2>2. Kinds'
      BY <1>1, <2>1 DEF Write, Kinds, world, told
    <2>3. pc # "done"
      BY <1>1 DEF Write
    <2> QED
      BY <1>1, <2>1, <2>2, <2>3 DEF Write, Shells, NobodyWrites, world, told
  <1>2. ASSUME NEW p \in Procs, Silence(p) PROVE CommandInv'
    <2>1. InOrder'
      BY <1>2, PipeLeftAlone DEF Silence, told
    <2>2. Kinds'
      BY <1>2 DEF Silence, Kinds, told
    <2> QED
      BY <1>2, <2>1, <2>2 DEF Silence, Shells, NobodyWrites, Writers, told
  <1>3. ASSUME NEW p \in Procs, Start(p) PROVE CommandInv'
    <2>1. InOrder'
      BY <1>3, PipeLeftAlone DEF Start, told
    <2>2. Kinds'
      BY <1>3 DEF Start, Kinds, told
    <2>3. pc \in Looping /\ UNCHANGED <<pc, code, timedOut>> /\ state'[Shell] = state[Shell]
      BY <1>3 DEF Start, Kinds, Shells, Unrun, Left, Looping, told
    <2> QED
      BY <2>1, <2>2, <2>3 DEF Shells, NobodyWrites, Unrun, Looping, Left
  <1>4. ASSUME NEW p \in Procs, Exit(p) PROVE CommandInv'
    <2>1. InOrder'
      BY <1>4, PipeLeftAlone DEF Exit, told
    <2>2. Kinds'
      BY <1>4 DEF Exit, Kinds, Codes, Own, told
    <2>3. Shells'
      <3>1. CASE p = Shell
        <4>1. pc \in Looping
          BY <1>4, <3>1 DEF Exit, Kinds, Shells, Left, Looping, Unrun
        <4> QED
          BY <1>4, <3>1, <4>1 DEF Exit, Kinds, Shells, Left, Looping, Unrun, Own, told
      <3>2. CASE p # Shell
        <4>1. pc \notin Unrun
          BY <1>4 DEF Exit, Shells
        <4> QED
          BY <1>4, <3>2, <4>1 DEF Exit, Kinds, Shells, told
      <3> QED  BY <3>1, <3>2
    <2>4. NobodyWrites'
      BY <1>4 DEF Exit, NobodyWrites, Writers, Kinds, told
    <2> QED  BY <2>1, <2>2, <2>3, <2>4
  <1>5. CASE Execute
    <2>1. /\ pc = "call" /\ UNCHANGED <<code, pipe, written, late, told>>
          /\ \/ pc' \in {"refused", "elsewhere"} /\ UNCHANGED state
             \/ pc' = "wait" /\ state' = [state EXCEPT ![Shell] = "runs"]
      BY <1>5 DEF Execute
    <2>2. InOrder'
      BY <2>1, PipeLeftAlone DEF told
    <2>3. Kinds'
      BY <2>1 DEF Kinds, Unrun, Looping, told
    <2> QED
      BY <2>1, <2>2, <2>3 DEF Kinds, Shells, NobodyWrites, Unrun, Looping, Left, told
  <1>6. CASE Wait \/ WaitFails
    <2>1. InOrder'
      BY <1>6, PipeLeftAlone DEF Wait, WaitFails
    <2>2. Kinds'
      BY <1>6 DEF Wait, WaitFails, Reap, Kinds, Shells, Looping, Left, Codes, Own
    <2>3. Shells'
      BY <1>6 DEF Wait, WaitFails, Reap, Kinds, Shells, Unrun, Looping, Left, Codes, Own
    <2> QED  BY <1>6, <2>1, <2>2, <2>3 DEF Wait, WaitFails, NobodyWrites
  <1>7. CASE Poll
    <2>1. InOrder'
      BY <1>7, PipeLeftAlone DEF Poll, told
    <2>2. Kinds'
      BY <1>7 DEF Poll, world, Kinds, Looping, told
    <2> QED
      BY <1>7, <2>1, <2>2 DEF Poll, world, Shells, NobodyWrites, Unrun, Looping, Left, told
  <1>8. CASE Read
    <2>1. InOrder' /\ pipe' \in Seq(Nat) /\ output' \in Seq(Nat)
      BY <1>8, Taken, PipeLeftAlone DEF Read, EndOfFile, Kinds
    <2>2. pc = "read" /\ pc' \in {"read", "deadline"}
          /\ UNCHANGED <<world, written, late, status, timedOut, failed>>
      BY <1>8 DEF Read
    <2>3. Kinds'
      BY <2>1, <2>2 DEF world, Kinds, Looping
    <2> QED
      BY <2>1, <2>2, <2>3 DEF world, Shells, NobodyWrites, Unrun, Looping, Left
  <1>9. CASE Deadline
    <2>1. InOrder'
      BY <1>9, PipeLeftAlone DEF Deadline
    <2>2. Kinds'
      BY <1>9 DEF Deadline, Kinds, Looping, Left, Codes, Own, Shells
    <2>3. Shells'
      BY <1>9 DEF Deadline, Kinds, Shells, Unrun, Looping, Left, Codes, Own
    <2> QED  BY <1>9, <2>1, <2>2, <2>3 DEF Deadline, NobodyWrites
  <1>10. CASE Drain
    <2>1. InOrder' /\ pipe' \in Seq(Nat) /\ output' \in Seq(Nat)
      BY <1>10, Taken, PipeLeftAlone DEF Drain, EndOfFile, Kinds
    <2>2. pc = "drain" /\ pc' \in {"drain", "done"}
          /\ UNCHANGED <<world, written, late, status, timedOut, failed>>
      BY <1>10 DEF Drain
    <2>3. Kinds'
      BY <2>1, <2>2 DEF world, Kinds, Left
    <2>4. NobodyWrites'
      BY <1>10 DEF Drain, EndOfFile, NobodyWrites, Writers, world
    <2> QED
      BY <2>1, <2>2, <2>3, <2>4 DEF world, Shells, Unrun, Looping, Left
  <1>11. CASE ReadFails
    <2>1. InOrder'
      BY <1>11, PipeLeftAlone DEF ReadFails
    <2>2. Kinds'
      BY <1>11 DEF ReadFails, world, Kinds, Looping, Left
    <2>3. NobodyWrites'
      BY <1>11 DEF ReadFails, NobodyWrites
    <2> QED
      BY <1>11, <2>1, <2>2, <2>3 DEF ReadFails, world, Shells, Unrun, Looping, Left
  <1>12. CASE DeadlinePasses
    <2>1. InOrder'
      BY <1>12, PipeLeftAlone DEF DeadlinePasses, told
    <2>2. Kinds'
      BY <1>12 DEF DeadlinePasses, world, Kinds, told
    <2> QED
      BY <1>12, <2>1, <2>2 DEF DeadlinePasses, world, Shells, NobodyWrites, Writers, told
  <1>13. CASE UNCHANGED vars
    BY <1>13 DEF vars, told, world, Kinds, InOrder, Shells, NobodyWrites, Writers
  <1> QED
    BY <1>1, <1>2, <1>3, <1>4, <1>5, <1>6, <1>7, <1>8, <1>9, <1>10, <1>11, <1>12, <1>13
       DEF Next, Parent, Failure, Command
-----------------------------------------------------------------------------
LEMMA CommandInvariant == Spec => []CommandInv
  BY CommandInit, CommandNext, PTL DEF Spec

\* The result of run_command (tool_engine.cpp:52-134): what was written, in order,
\* by whichever process and all of it unless a read failed, and told as it
\* happened: whether the shell ended with a code, by a signal of its own, or
\* was overtaken by the deadline.
THEOREM ResultIsTrue == Spec => []ResultTrue
  <1>1. CommandInv => ResultTrue
    <2> SUFFICES ASSUME CommandInv, pc = "done" PROVE ResultTrue
      BY DEF ResultTrue
    <2>1. /\ output \in Seq(Nat) /\ written \in Nat /\ pipe \in Seq(Nat)
          /\ Len(output) + Len(pipe) = written
          /\ \A i \in 1..Len(output) : output[i] = i
      BY DEF CommandInv, Kinds, InOrder
    <2>2. output = [i \in 1..Len(output) |-> i] /\ Len(output) <= written
      BY <2>1
    <2>3. "read" \notin failed => Len(output) = written /\ Writers = {}
      BY <2>1 DEF CommandInv, NobodyWrites
    <2>4. /\ state[Shell] = "reaped"
          /\ timedOut => late
          /\ ~timedOut => code \in Own
          /\ ~timedOut /\ "wait" \notin failed => status = code
      BY DEF CommandInv, Shells, Left
    <2>5. ~timedOut /\ "wait" \notin failed =>
            /\ code \in {"0", "1", "signal"}
            /\ ResultOk <=> code = "0"
            /\ ResultCode = IF code = "signal" THEN "128" ELSE code
      BY <2>4 DEF ResultOk, ResultCode, Decoded, Own
    <2> QED  BY <2>2, <2>3, <2>4, <2>5 DEF ResultTrue
  <1> QED  BY <1>1, CommandInvariant, PTL
-----------------------------------------------------------------------------
(* The call that is read back. *)

LEMMA Smallest ==
  ASSUME NEW T \in SUBSET Nat, T # {}
  PROVE  \E m \in T : \A n \in T : m <= n
  <1> DEFINE R == {ss \in Nat \X Nat : ss[1] < ss[2]}
  <1>1. OpToRel(<, Nat) = R
    BY Zenon DEF OpToRel
  <1>2. IsWellFoundedOn(R, Nat)
    BY <1>1, NatLessThanWellFounded, Zenon
  <1>3. \E m \in T : \A n \in T : ~(<<n, m>> \in R)
    <2> HIDE DEF R
    <2> QED  BY <1>2, WFMin
  <1>4. PICK m \in T : \A n \in T : ~(<<n, m>> \in R)
    BY <1>3
  <1>5. ASSUME NEW n \in T PROVE m <= n
    <2>1. <<n, m>> \notin R
      BY <1>4
    <2>2. n \in Nat /\ m \in Nat
      OBVIOUS
    <2> QED  BY <2>1, <2>2
  <1> QED  BY <1>5

\* What holds at the end of a text and is handed down holds everywhere in it.
LEMMA Down ==
  ASSUME NEW n \in Nat, NEW S, n \in S, \A i \in Nat : i < n /\ i + 1 \in S /\ i > 0 => i \in S
  PROVE  \A i \in 1..n : i \in S
  <1> DEFINE Bad == {k \in Nat : k < n /\ n - k \notin S}
  <1>1. Bad = {}
    <2>1. SUFFICES ASSUME Bad # {} PROVE FALSE
      OBVIOUS
    <2>2. PICK m \in Bad : \A k \in Bad : m <= k
      BY <2>1, Smallest
    <2>3. m \in Nat /\ m < n /\ n - m \notin S
      BY <2>2
    <2>4. m # 0
      BY <2>3
    <2>5. m - 1 \in Nat /\ m - 1 \notin Bad
      BY <2>2, <2>3, <2>4
    <2>6. n - (m - 1) \in S
      BY <2>3, <2>5
    <2>7. n - (m - 1) = (n - m) + 1 /\ n - m \in Nat /\ n - m < n /\ n - m > 0
      BY <2>3, <2>4
    <2> QED  BY <2>3, <2>6, <2>7
  <1>2. ASSUME NEW i \in 1..n PROVE i \in S
    <2>1. n - i \in Nat /\ n - i < n /\ n - (n - i) = i
      OBVIOUS
    <2> QED  BY <1>1, <2>1
  <1> QED  BY <1>2

\* What holds at its beginning and is handed on.
LEMMA On ==
  ASSUME NEW m \in Nat, NEW n \in Nat, NEW S, m \in S,
         \A i \in Nat : m <= i /\ i < n /\ i \in S => i + 1 \in S
  PROVE  \A i \in m..n : i \in S
  <1> DEFINE Bad == {k \in Nat : m <= k /\ k <= n /\ k \notin S}
  <1>1. Bad = {}
    <2>1. SUFFICES ASSUME Bad # {} PROVE FALSE
      OBVIOUS
    <2>2. PICK b \in Bad : \A k \in Bad : b <= k
      BY <2>1, Smallest
    <2>3. b \in Nat /\ m <= b /\ b <= n /\ b \notin S /\ b # m
      BY <2>2
    <2>4. b - 1 \in Nat /\ m <= b - 1 /\ b - 1 < n /\ (b - 1) + 1 = b
      BY <2>3
    <2>5. b - 1 \in S
      BY <2>2, <2>3, <2>4
    <2> QED  BY <2>3, <2>4, <2>5
  <1> QED  BY <1>1

Comma == ","
Symbol == STRING \cup {Quote, Escape, Open, Close, ":", Comma, "name", "terminal.run",
                      "arguments", "command", "timeout_seconds", "0", "5", "-1"}

\* A piece of a text stands in it at a place.
Stands(s, text, p) ==
  /\ p \in Nat \ {0} /\ p + Len(s) <= Len(text) + 1
  /\ \A i \in 1..Len(s) : text[p + i - 1] = s[i]

LEMMA StandsApart ==
  ASSUME NEW text \in Seq(Symbol), NEW a \in Seq(Symbol), NEW b \in Seq(Symbol), NEW p,
         Stands(a \o b, text, p)
  PROVE  Stands(a, text, p) /\ Stands(b, text, p + Len(a))
  <1> HIDE DEF Symbol
  <1>1. /\ Len(a \o b) = Len(a) + Len(b) /\ Len(a) \in Nat /\ Len(b) \in Nat
        /\ \A i \in 1..Len(a) : (a \o b)[i] = a[i]
        /\ \A i \in 1..Len(b) : (a \o b)[Len(a) + i] = b[i]
    OBVIOUS
  <1>2. p \in Nat \ {0} /\ p + Len(a) + Len(b) <= Len(text) + 1 /\ Len(text) \in Nat
    BY <1>1 DEF Stands
  <1>3. Stands(a, text, p)
    BY <1>1, <1>2 DEF Stands
  <1>4. ASSUME NEW i \in 1..Len(b) PROVE text[p + Len(a) + i - 1] = b[i]
    <2>1. Len(a) + i \in 1..Len(a \o b) /\ p + (Len(a) + i) - 1 = p + Len(a) + i - 1
      BY <1>1, <1>2
    <2>2. text[p + (Len(a) + i) - 1] = (a \o b)[Len(a) + i]
      BY <2>1 DEF Stands
    <2> QED  BY <1>1, <2>1, <2>2
  <1> QED  BY <1>1, <1>2, <1>3, <1>4 DEF Stands

-----------------------------------------------------------------------------
(* What is written. *)

Writing(text) ==
  CHOOSE write : write = [i \in 1..(Len(text) + 1) |->
    IF i > Len(text) THEN <<>>
    ELSE (IF text[i] \in {Quote, Escape} THEN <<Escape, text[i]>> ELSE <<text[i]>>)
         \o write[i + 1]]

LEMMA WrittenIs ==
  ASSUME NEW text
  PROVE  Written(text) = <<Quote>> \o Writing(text)[1] \o <<Quote>>
  BY DEF Written, Writing

Mark(t) == IF t \in {Quote, Escape} THEN <<Escape, t>> ELSE <<t>>

\* As much of what is written as comes after a place.
WritesFrom(text, g, k) ==
  \A i \in 1..(Len(text) + 1) : i >= k =>
    g[i] = IF i > Len(text) THEN <<>> ELSE Mark(text[i]) \o g[i + 1]

LEMMA WritingStands ==
  ASSUME NEW text \in Seq(Symbol)
  PROVE  /\ Writing(text)[Len(text) + 1] = <<>>
         /\ \A i \in 1..Len(text) : Writing(text)[i] = Mark(text[i]) \o Writing(text)[i + 1]
  <1> DEFINE n == Len(text) + 1
             S == {k \in 1..n : \E g : WritesFrom(text, g, k)}
  <1> HIDE DEF Symbol
  <1>1. Len(text) \in Nat /\ n \in Nat
    OBVIOUS
  <1>2. n \in S
    <2>1. \A i \in 1..n : i >= n => i > Len(text) /\ [j \in 1..n |-> <<>>][i] = <<>>
      BY <1>1
    <2>2. WritesFrom(text, [j \in 1..n |-> <<>>], n)
      BY <2>1 DEF WritesFrom
    <2> QED  BY <1>1, <2>2
  <1>3. ASSUME NEW k \in Nat, k < n, k > 0, k + 1 \in S PROVE k \in S
    <2>1. PICK g : WritesFrom(text, g, k + 1)
      BY <1>3
    <2> DEFINE h == [i \in 1..n |-> IF i > Len(text) THEN <<>> ELSE Mark(text[i]) \o g[i + 1]]
    <2>2. ASSUME NEW i \in 1..n, i >= k
          PROVE  h[i] = IF i > Len(text) THEN <<>> ELSE Mark(text[i]) \o h[i + 1]
      <3>1. CASE i > Len(text)
        BY <3>1
      <3>2. CASE i <= Len(text)
        <4>1. i + 1 \in 1..n /\ i + 1 >= k + 1
          BY <1>1, <2>2, <3>2
        <4>2. g[i + 1] = IF i + 1 > Len(text) THEN <<>> ELSE Mark(text[i + 1]) \o g[i + 1 + 1]
          BY <2>1, <4>1 DEF WritesFrom
        <4>3. h[i + 1] = g[i + 1]
          BY <4>1, <4>2
        <4> QED  BY <1>1, <3>2, <4>3
      <3> QED  BY <1>1, <3>1, <3>2
    <2> HIDE DEF h
    <2>3. WritesFrom(text, h, k)
      BY <2>2 DEF WritesFrom
    <2> QED  BY <1>1, <1>3, <2>3
  <1> HIDE DEF S
  <1>4. 1 \in S
    BY <1>1, <1>2, <1>3, Down
  <1>5. PICK g : WritesFrom(text, g, 1)
    BY <1>4 DEF S
  <1> DEFINE body(w) == [i \in 1..(Len(text) + 1) |->
                IF i > Len(text) THEN <<>>
                ELSE (IF text[i] \in {Quote, Escape} THEN <<Escape, text[i]>> ELSE <<text[i]>>)
                     \o w[i + 1]]
             f == [i \in 1..n |-> g[i]]
  <1>6. f = body(f)
    <2>1. ASSUME NEW i \in 1..n PROVE f[i] = body(f)[i]
      <3>1. i > Len(text) \/ i + 1 \in 1..n
        BY <1>1
      <3> QED  BY <1>1, <1>5, <3>1 DEF WritesFrom, Mark
    <2> QED  BY <2>1
  <1>7. Writing(text) = body(Writing(text))
    <2> HIDE DEF f
    <2> QED  BY <1>6, Zenon DEF Writing
  <1>8. ASSUME NEW w, w = body(w), NEW i \in 1..n
        PROVE  w[i] = IF i > Len(text) THEN <<>> ELSE Mark(text[i]) \o w[i + 1]
    BY <1>8 DEF Mark
  <1> HIDE DEF body
  <1>9. \A i \in 1..n : Writing(text)[i] = IF i > Len(text) THEN <<>>
                                           ELSE Mark(text[i]) \o Writing(text)[i + 1]
    BY <1>7, <1>8
  <1>10. n \in 1..n /\ n > Len(text) /\ \A i \in 1..Len(text) : i \in 1..n /\ ~(i > Len(text))
    BY <1>1
  <1> QED  BY <1>9, <1>10

LEMMA MarkTyped ==
  ASSUME NEW t \in Symbol
  PROVE  Mark(t) \in Seq(Symbol)
  <1>1. Escape \in Symbol
    BY DEF Symbol
  <1> HIDE DEF Symbol
  <1> QED  BY <1>1 DEF Mark

LEMMA WritingTyped ==
  ASSUME NEW text \in Seq(Symbol)
  PROVE  \A i \in 1..(Len(text) + 1) : Writing(text)[i] \in Seq(Symbol)
  <1> DEFINE w == Writing(text)
             n == Len(text) + 1
             S == {i \in 1..n : w[i] \in Seq(Symbol)}
  <1> HIDE DEF Symbol
  <1>1. Len(text) \in Nat /\ n \in Nat /\ n = Len(text) + 1
    OBVIOUS
  <1>2. w[n] = <<>> /\ \A i \in 1..Len(text) : w[i] = Mark(text[i]) \o w[i + 1]
    BY WritingStands
  <1> HIDE DEF w, n
  <1>3. n \in S
    <2>1. <<>> \in Seq(Symbol)
      OBVIOUS
    <2>2. w[n] \in Seq(Symbol)
      BY <1>2, <2>1
    <2> QED  BY <1>1, <2>2
  <1>4. ASSUME NEW i \in Nat, i < n, i > 0, i + 1 \in S PROVE i \in S
    <2>1. i \in 1..Len(text) /\ i \in 1..n
      BY <1>1, <1>4
    <2>2. Mark(text[i]) \in Seq(Symbol) /\ w[i + 1] \in Seq(Symbol)
      BY <1>4, <2>1, MarkTyped
    <2>3. w[i] = Mark(text[i]) \o w[i + 1]
      BY <1>2, <2>1
    <2>4. w[i] \in Seq(Symbol)
      BY <2>2, <2>3
    <2> QED  BY <2>1, <2>4
  <1> HIDE DEF S
  <1>5. \A i \in 1..n : i \in S
    BY <1>1, <1>3, <1>4, Down
  <1> QED  BY <1>5, <1>1 DEF S, w

LEMMA WrittenTyped ==
  ASSUME NEW text \in Seq(Symbol)
  PROVE  /\ Writing(text)[1] \in Seq(Symbol)
         /\ Written(text) \in Seq(Symbol)
         /\ Len(Written(text)) = Len(Writing(text)[1]) + 2
  <1>1. Quote \in Symbol
    BY DEF Symbol
  <1> HIDE DEF Symbol
  <1>2. Writing(text)[1] \in Seq(Symbol)
    <2>1. 1 \in 1..(Len(text) + 1)
      OBVIOUS
    <2> QED  BY <2>1, WritingTyped
  <1> DEFINE w == Writing(text)[1]
  <1> HIDE DEF w
  <1>3. /\ <<Quote>> \o w \o <<Quote>> \in Seq(Symbol)
        /\ Len(<<Quote>> \o w \o <<Quote>>) = Len(w) + 2
    <2>1. w \in Seq(Symbol)
      BY <1>2 DEF w
    <2>2. <<Quote>> \in Seq(Symbol) /\ Len(<<Quote>>) = 1
      BY <1>1
    <2>3. <<Quote>> \o w \in Seq(Symbol) /\ Len(<<Quote>> \o w) = 1 + Len(w)
      BY <2>1, <2>2
    <2> DEFINE h == <<Quote>> \o w
    <2>4. h \o <<Quote>> \in Seq(Symbol) /\ Len(h \o <<Quote>>) = Len(h) + 1 /\ Len(w) \in Nat
      <3> HIDE DEF h
      <3> QED  BY <2>1, <2>2, <2>3, ConcatProperties DEF h
    <2> QED  BY <2>3, <2>4
  <1> QED  BY <1>2, <1>3, WrittenIs DEF w

-----------------------------------------------------------------------------
(* What is read. *)

Reading(text) ==
  CHOOSE read : read = [i \in 1..(Len(text) + 2) |->
    CASE i > Len(text) -> <<>>
      [] i <= Len(text) /\ text[i] = Quote -> <<>>
      [] i <= Len(text) /\ text[i] = Escape ->
           (IF i = Len(text) THEN <<>> ELSE <<text[i + 1]>>) \o read[i + 2]
      [] OTHER -> <<text[i]>> \o read[i + 1]]

\* What one place adds to what is read after it.
Reads(text, r, i) ==
  IF i > Len(text) \/ text[i] = Quote THEN <<>>
  ELSE IF text[i] = Escape THEN (IF i = Len(text) THEN <<>> ELSE <<text[i + 1]>>) \o r[i + 2]
  ELSE <<text[i]>> \o r[i + 1]

ReadsFrom(text, g, k) ==
  \A i \in 1..(Len(text) + 2) : i >= k => g[i] = Reads(text, g, i)

LEMMA ReadingUnrolls ==
  ASSUME NEW text \in Seq(Symbol)
  PROVE  \A i \in 1..(Len(text) + 2) : Reading(text)[i] = Reads(text, Reading(text), i)
  <1> DEFINE n == Len(text) + 2
             S == {k \in 1..n : \E g : ReadsFrom(text, g, k)}
  <1> HIDE DEF Symbol
  <1>1. Len(text) \in Nat /\ n \in Nat /\ n = Len(text) + 2
    OBVIOUS
  <1>2. n \in S
    <2>1. \A i \in 1..n : i >= n => i > Len(text) /\ [j \in 1..n |-> <<>>][i] = <<>>
      BY <1>1
    <2>2. ReadsFrom(text, [j \in 1..n |-> <<>>], n)
      BY <2>1 DEF ReadsFrom, Reads
    <2> QED  BY <1>1, <2>2
  <1>3. ASSUME NEW k \in Nat, k < n, k > 0, k + 1 \in S PROVE k \in S
    <2>1. PICK g : ReadsFrom(text, g, k + 1)
      BY <1>3
    <2> DEFINE h == [i \in 1..n |-> Reads(text, g, i)]
    <2>2. ASSUME NEW i \in 1..n, i >= k PROVE h[i] = Reads(text, h, i)
      <3>1. \A j \in 1..n : j > i => h[j] = g[j]
        BY <1>3, <2>1, <2>2 DEF ReadsFrom
      <3>2. i <= Len(text) => i + 1 \in 1..n /\ i + 2 \in 1..n /\ i + 1 > i /\ i + 2 > i
        BY <1>1
      <3>3. h[i] = Reads(text, g, i)
        BY <2>2
      <3> HIDE DEF h
      <3>4. i <= Len(text) => h[i + 1] = g[i + 1] /\ h[i + 2] = g[i + 2]
        BY <3>1, <3>2
      <3>5. i <= Len(text) \/ i > Len(text)
        BY <1>1
      <3> QED  BY <3>3, <3>4, <3>5 DEF Reads
    <2> HIDE DEF h
    <2>3. ReadsFrom(text, h, k)
      BY <2>2 DEF ReadsFrom
    <2> QED  BY <1>1, <1>3, <2>3
  <1> HIDE DEF S
  <1>4. 1 \in S
    BY <1>1, <1>2, <1>3, Down
  <1>5. PICK g : ReadsFrom(text, g, 1)
    BY <1>4 DEF S
  <1> DEFINE body(read) == [i \in 1..(Len(text) + 2) |->
               CASE i > Len(text) -> <<>>
                 [] i <= Len(text) /\ text[i] = Quote -> <<>>
                 [] i <= Len(text) /\ text[i] = Escape ->
                      (IF i = Len(text) THEN <<>> ELSE <<text[i + 1]>>) \o read[i + 2]
                 [] OTHER -> <<text[i]>> \o read[i + 1]]
             f == [i \in 1..n |-> g[i]]
  <1>6. ASSUME NEW r, NEW i \in 1..n PROVE body(r)[i] = Reads(text, r, i)
    <2>1. Quote # Escape
      BY DEF Quote, Escape
    <2>2. i <= Len(text) \/ i > Len(text)
      BY <1>1
    <2>3. ~(i <= Len(text) /\ i > Len(text))
      BY <1>1
    <2>4. body(r)[i] = CASE i > Len(text) -> <<>>
                 [] i <= Len(text) /\ text[i] = Quote -> <<>>
                 [] i <= Len(text) /\ text[i] = Escape ->
                      (IF i = Len(text) THEN <<>> ELSE <<text[i + 1]>>) \o r[i + 2]
                 [] OTHER -> <<text[i]>> \o r[i + 1]
      OBVIOUS
    <2> HIDE DEF body
    <2>5. CASE i > Len(text)
      BY <2>3, <2>4, <2>5 DEF Reads
    <2>6. CASE i <= Len(text) /\ text[i] = Quote
      BY <2>1, <2>3, <2>4, <2>6 DEF Reads
    <2>7. CASE i <= Len(text) /\ text[i] = Escape
      BY <2>1, <2>3, <2>4, <2>7 DEF Reads
    <2>8. CASE i <= Len(text) /\ text[i] # Quote /\ text[i] # Escape
      BY <2>3, <2>4, <2>8 DEF Reads
    <2> QED  BY <2>2, <2>5, <2>6, <2>7, <2>8
  <1>7. f = body(f)
    <2>1. ASSUME NEW i \in 1..n PROVE f[i] = Reads(text, f, i)
      <3>1. i <= Len(text) => i + 1 \in 1..n /\ i + 2 \in 1..n
        BY <1>1
      <3>2. f[i] = Reads(text, g, i)
        BY <1>1, <1>5 DEF ReadsFrom
      <3>3. i <= Len(text) => f[i + 1] = g[i + 1] /\ f[i + 2] = g[i + 2]
        BY <3>1
      <3>4. i <= Len(text) \/ i > Len(text)
        BY <1>1
      <3> HIDE DEF f
      <3> QED  BY <3>2, <3>3, <3>4 DEF Reads
    <2>2. \A i \in 1..n : f[i] = body(f)[i]
      <3> HIDE DEF body, f
      <3> QED  BY <1>6, <2>1
    <2>3. f = [i \in 1..n |-> f[i]] /\ body(f) = [i \in 1..n |-> body(f)[i]]
      OBVIOUS
    <2> HIDE DEF f, body
    <2> QED  BY <2>2, <2>3
  <1>8. Reading(text) = body(Reading(text))
    <2> HIDE DEF f
    <2> QED  BY <1>7, Zenon DEF Reading
  <1> HIDE DEF body
  <1>9. \A i \in 1..n : body(Reading(text))[i] = Reads(text, Reading(text), i)
    BY <1>6
  <1> QED  BY <1>8, <1>9

LEMMA ReadsMarked ==
  ASSUME NEW text, NEW r, NEW q \in Nat, Len(text) \in Nat, q < Len(text), text[q] = Escape
  PROVE  Reads(text, r, q) = <<text[q + 1]>> \o r[q + 2]
  <1>1. Escape # Quote
    BY DEF Escape, Quote
  <1>2. ~(q > Len(text)) /\ q # Len(text)
    OBVIOUS
  <1> QED  BY <1>1, <1>2, Zenon DEF Reads

LEMMA ReadsPlain ==
  ASSUME NEW text, NEW r, NEW q \in Nat, Len(text) \in Nat, q <= Len(text),
         text[q] \notin {Quote, Escape}
  PROVE  Reads(text, r, q) = <<text[q]>> \o r[q + 1]
  <1>1. ~(q > Len(text))
    OBVIOUS
  <1> QED  BY <1>1, Zenon DEF Reads

\* What was written is read back, wherever it stands before a quote.
LEMMA ReadsBack ==
  ASSUME NEW text \in Seq(Symbol), NEW t \in Seq(Symbol), NEW p,
         Stands(Writing(t)[1], text, p),
         p + Len(Writing(t)[1]) <= Len(text), text[p + Len(Writing(t)[1])] = Quote
  PROVE  Reading(text)[p] = t
  <1> DEFINE w == Writing(t)
             r == Reading(text)
             n == Len(t) + 1
             Back(i) == \A q \in Nat : /\ Stands(w[i], text, q)
                                       /\ q + Len(w[i]) <= Len(text)
                                       /\ text[q + Len(w[i])] = Quote
                                       => r[q] = SubSeq(t, i, Len(t))
             S == {i \in 1..n : Back(i)}
  <1> HIDE DEF Symbol
  <1>1. Len(t) \in Nat /\ Len(text) \in Nat /\ n \in Nat /\ n = Len(t) + 1
    OBVIOUS
  <1>2. w[n] = <<>> /\ \A i \in 1..Len(t) : w[i] = Mark(t[i]) \o w[i + 1]
    BY WritingStands
  <1>3. \A i \in 1..n : w[i] \in Seq(Symbol)
    BY WritingTyped
  <1>4. \A i \in 1..(Len(text) + 2) : r[i] = Reads(text, r, i)
    BY ReadingUnrolls
  <1> HIDE DEF w, r, n
  <1>5. n \in S
    <2>1. SUFFICES ASSUME NEW q \in Nat, Stands(w[n], text, q), q + Len(w[n]) <= Len(text),
                          text[q + Len(w[n])] = Quote
                   PROVE  r[q] = SubSeq(t, n, Len(t))
      BY <1>1
    <2>2. Len(w[n]) = 0
      BY <1>2
    <2>3. text[q] = Quote /\ q \in 1..(Len(text) + 2)
      BY <1>1, <2>1, <2>2 DEF Stands
    <2>4. r[q] = <<>>
      BY <1>4, <2>3 DEF Reads
    <2>5. SubSeq(t, n, Len(t)) = <<>>
      BY <1>1
    <2> QED  BY <2>4, <2>5
  <1>6. ASSUME NEW i \in Nat, i < n, i > 0, i + 1 \in S PROVE i \in S
    <2>1. i \in 1..Len(t) /\ i \in 1..n /\ i + 1 \in 1..n /\ t[i] \in Symbol
      BY <1>1, <1>6
    <2>2. Mark(t[i]) \in Seq(Symbol) /\ w[i + 1] \in Seq(Symbol) /\ w[i] = Mark(t[i]) \o w[i + 1]
      BY <1>2, <1>3, <2>1, MarkTyped
    <2>3. SUFFICES ASSUME NEW q \in Nat, Stands(w[i], text, q), q + Len(w[i]) <= Len(text),
                          text[q + Len(w[i])] = Quote
                   PROVE  r[q] = SubSeq(t, i, Len(t))
      BY <2>1
    <2>4. /\ Stands(Mark(t[i]), text, q) /\ Stands(w[i + 1], text, q + Len(Mark(t[i])))
          /\ Len(w[i]) = Len(Mark(t[i])) + Len(w[i + 1])
          /\ Len(Mark(t[i])) \in Nat /\ Len(w[i + 1]) \in Nat
      BY <2>2, <2>3, StandsApart
    <2> DEFINE a == Len(Mark(t[i]))
               b == Len(w[i + 1])
    <2>5. a \in Nat /\ b \in Nat /\ q + a \in Nat /\ q + Len(w[i]) = q + a + b
      <3>1. Len(w[i]) = a + b /\ a \in Nat /\ b \in Nat
        BY <2>4
      <3> HIDE DEF a, b
      <3> QED  BY <3>1
    <2>10. r[q + a] = SubSeq(t, i + 1, Len(t))
      <3>1. Back(i + 1)
        BY <1>6
      <3>2. Stands(w[i + 1], text, q + a) /\ q + a + b <= Len(text) /\ text[q + a + b] = Quote
        BY <2>3, <2>4, <2>5
      <3> HIDE DEF a
      <3> QED  BY <2>5, <3>1, <3>2
    <2>6. SubSeq(t, i, Len(t)) = <<t[i]>> \o SubSeq(t, i + 1, Len(t))
      BY <2>1, SubSeqRecursiveFirst
    <2>7. /\ q \in 1..(Len(text) + 2) /\ q + a <= Len(text)
          /\ \A j \in 1..a : text[q + j - 1] = Mark(t[i])[j]
      <3>1. q \in Nat \ {0} /\ \A j \in 1..a : text[q + j - 1] = Mark(t[i])[j]
        BY <2>4 DEF Stands
      <3>2. q + a + b <= Len(text)
        BY <2>3, <2>5
      <3>3. \A j \in 1..a : text[q + j - 1] = Mark(t[i])[j]
        BY <3>1
      <3> HIDE DEF a, b
      <3>4. q \in 1..(Len(text) + 2) /\ q + a <= Len(text)
        <4>1. q \in Nat \ {0} /\ a \in Nat /\ b \in Nat
          BY <2>5, <3>1, Zenon
        <4> QED  BY <1>1, <3>2, <4>1
      <3> QED  BY <3>3, <3>4, Zenon
    <2>8. CASE t[i] \in {Quote, Escape}
      <3>1. a = 2 /\ Mark(t[i])[1] = Escape /\ Mark(t[i])[2] = t[i]
        BY <2>8 DEF Mark
      <3> HIDE DEF a
      <3>2. q + 1 - 1 = q /\ q + 2 - 1 = q + 1 /\ 1 \in 1..a /\ 2 \in 1..a /\ q < Len(text)
        BY <1>1, <2>7, <3>1
      <3>3. text[q] = Escape /\ text[q + 1] = t[i]
        BY <2>7, <3>1, <3>2
      <3>4. r[q] = <<t[i]>> \o r[q + 2]
        <4>1. r[q] = Reads(text, r, q)
          BY <1>4, <2>7
        <4>2. Reads(text, r, q) = <<text[q + 1]>> \o r[q + 2]
          BY <1>1, <3>2, <3>3, ReadsMarked
        <4> QED  BY <3>3, <4>1, <4>2, Zenon
      <3> QED  BY <2>10, <2>6, <3>1, <3>4
    <2>9. CASE t[i] \notin {Quote, Escape}
      <3>1. a = 1 /\ Mark(t[i])[1] = t[i]
        BY <2>9 DEF Mark
      <3> HIDE DEF a
      <3>2. q + 1 - 1 = q /\ 1 \in 1..a /\ q <= Len(text)
        BY <1>1, <2>7, <3>1
      <3>3. text[q] = t[i]
        BY <2>7, <3>1, <3>2
      <3>4. r[q] = <<t[i]>> \o r[q + 1]
        <4>1. r[q] = Reads(text, r, q)
          BY <1>4, <2>7
        <4>2. Reads(text, r, q) = <<text[q]>> \o r[q + 1]
          BY <1>1, <2>9, <3>2, <3>3, ReadsPlain
        <4> QED  BY <3>3, <4>1, <4>2, Zenon
      <3> QED  BY <2>10, <2>6, <3>1, <3>4
    <2> QED  BY <2>8, <2>9
  <1> HIDE DEF S
  <1>7. 1 \in S
    BY <1>1, <1>5, <1>6, Down
  <1>8. Back(1) /\ p \in Nat
    BY <1>7 DEF S, Stands
  <1>9. r[p] = SubSeq(t, 1, Len(t))
    BY <1>8 DEF w
  <1>10. SubSeq(t, 1, Len(t)) = t
    BY SubSeqFull
  <1> QED  BY <1>9, <1>10 DEF r

\* A quote that is written in a string has an escape before it.
LEMMA QuotesEscaped ==
  ASSUME NEW text \in Seq(Symbol), NEW t \in Seq(Symbol), NEW p,
         Stands(Writing(t)[1], text, p)
  PROVE  \A q \in p..(p + Len(Writing(t)[1]) - 1) :
           text[q] = Quote => q > p /\ text[q - 1] = Escape
  <1> DEFINE w == Writing(t)
             n == Len(t) + 1
             Escaped(i) == \A k \in 1..Len(w[i]) :
                             w[i][k] = Quote => k > 1 /\ w[i][k - 1] = Escape
             S == {i \in 1..n : Escaped(i)}
  <1> HIDE DEF Symbol
  <1>1. Len(t) \in Nat /\ n \in Nat /\ n = Len(t) + 1
    OBVIOUS
  <1>2. w[n] = <<>> /\ \A i \in 1..Len(t) : w[i] = Mark(t[i]) \o w[i + 1]
    BY WritingStands
  <1>3. \A i \in 1..n : w[i] \in Seq(Symbol)
    BY WritingTyped
  <1> HIDE DEF w, n
  <1>4. n \in S
    <2>1. Len(w[n]) = 0
      BY <1>2
    <2> QED  BY <1>1, <2>1
  <1>5. ASSUME NEW i \in Nat, i < n, i > 0, i + 1 \in S PROVE i \in S
    <2>1. i \in 1..Len(t) /\ i \in 1..n /\ i + 1 \in 1..n /\ t[i] \in Symbol
      BY <1>1, <1>5
    <2> DEFINE m == Mark(t[i])
               v == w[i + 1]
    <2>2. m \in Seq(Symbol) /\ v \in Seq(Symbol)
      BY <1>3, <2>1, MarkTyped
    <2>3. w[i] = m \o v
      BY <1>2, <2>1
    <2>4. \A k \in 1..Len(v) : v[k] = Quote => k > 1 /\ v[k - 1] = Escape
      BY <1>5
    <2>5. /\ Len(m) \in {1, 2}
          /\ \A k \in 1..Len(m) : m[k] = Quote => k > 1 /\ m[k - 1] = Escape
      <3>1. Escape # Quote
        BY DEF Escape, Quote
      <3>2. CASE t[i] \in {Quote, Escape}
        <4>1. Len(m) = 2 /\ m[1] = Escape
          BY <3>2 DEF Mark
        <4> HIDE DEF m
        <4> QED  BY <3>1, <4>1
      <3>3. CASE t[i] \notin {Quote, Escape}
        <4>1. Len(m) = 1 /\ m[1] = t[i]
          BY <3>3 DEF Mark
        <4> HIDE DEF m
        <4> QED  BY <3>3, <4>1
      <3> QED  BY <3>2, <3>3
    <2> HIDE DEF m, v
    <2>6. ASSUME NEW k \in 1..Len(m \o v), (m \o v)[k] = Quote
          PROVE  k > 1 /\ (m \o v)[k - 1] = Escape
      <3>1. /\ Len(m \o v) = Len(m) + Len(v) /\ Len(v) \in Nat
            /\ \A j \in 1..(Len(m) + Len(v)) :
                 (m \o v)[j] = IF j <= Len(m) THEN m[j] ELSE v[j - Len(m)]
        BY <2>2, ConcatProperties
      <3>2. CASE k <= Len(m)
        <4>1. m[k] = Quote /\ k \in 1..Len(m)
          BY <2>5, <2>6, <3>1, <3>2
        <4>2. k > 1 /\ m[k - 1] = Escape /\ k - 1 \in 1..(Len(m) + Len(v)) /\ k - 1 <= Len(m)
          BY <2>5, <3>1, <4>1
        <4> QED  BY <3>1, <4>2
      <3>3. CASE k > Len(m)
        <4>1. v[k - Len(m)] = Quote /\ k - Len(m) \in 1..Len(v)
          BY <2>5, <2>6, <3>1, <3>3
        <4>2. k - Len(m) > 1 /\ v[(k - Len(m)) - 1] = Escape
          BY <2>4, <4>1
        <4>3. /\ k - 1 \in 1..(Len(m) + Len(v)) /\ ~(k - 1 <= Len(m))
              /\ (k - 1) - Len(m) = (k - Len(m)) - 1
          BY <2>5, <3>1, <4>2
        <4> QED  BY <3>1, <4>2, <4>3, <2>5
      <3> QED  BY <2>5, <3>1, <3>2, <3>3
    <2> QED  BY <2>1, <2>3, <2>6
  <1> HIDE DEF S
  <1>6. 1 \in S
    BY <1>1, <1>4, <1>5, Down
  <1>7. Escaped(1) /\ Len(w[1]) \in Nat
    BY <1>1, <1>3, <1>6 DEF S
  <1>8. /\ p \in Nat \ {0}
        /\ \A i \in 1..Len(w[1]) : text[p + i - 1] = w[1][i]
    BY DEF Stands, w
  <1>9. ASSUME NEW q \in p..(p + Len(w[1]) - 1), text[q] = Quote
        PROVE  q > p /\ text[q - 1] = Escape
    <2> DEFINE k == q - p + 1
    <2>1. k \in 1..Len(w[1]) /\ p + k - 1 = q
      BY <1>7, <1>8
    <2>2. k > 1 /\ w[1][k - 1] = Escape
      BY <1>7, <1>8, <1>9, <2>1
    <2>3. k - 1 \in 1..Len(w[1]) /\ p + (k - 1) - 1 = q - 1 /\ q > p
      BY <1>7, <1>8, <2>1, <2>2
    <2> HIDE DEF k
    <2> QED  BY <1>8, <2>2, <2>3
  <1> QED  BY <1>9 DEF w

-----------------------------------------------------------------------------
(* Where the scan of an object is. *)

Plain(d) == [depth |-> d, quoted |-> FALSE, escaped |-> FALSE]

Step(s, t) ==
  IF s.quoted
  THEN [s EXCEPT !.quoted = ~(t = Quote /\ ~s.escaped),
                 !.escaped = t = Escape /\ ~s.escaped]
  ELSE [s EXCEPT !.quoted = t = Quote,
                 !.depth = CASE t = Open -> @ + 1 [] t = Close -> @ - 1 [] OTHER -> @]

ScansTo(text, from, g, k) ==
  \A i \in from..Len(text) : i <= k =>
    g[i] = Step(IF i = from THEN Plain(0) ELSE g[i - 1], text[i])

LEMMA ScanUnrolls ==
  ASSUME NEW text \in Seq(Symbol), NEW from \in Nat, from <= Len(text)
  PROVE  \A i \in from..Len(text) :
           Scan(text, from)[i] =
             Step(IF i = from THEN Plain(0) ELSE Scan(text, from)[i - 1], text[i])
  <1> DEFINE n == Len(text)
             S == {k \in from..n : \E g : ScansTo(text, from, g, k)}
  <1> HIDE DEF Symbol
  <1>1. n \in Nat /\ n = Len(text)
    OBVIOUS
  <1>2. from \in S
    <2> DEFINE g == [i \in from..n |-> Step(Plain(0), text[i])]
    <2>1. \A i \in from..n : i <= from => i = from /\ g[i] = Step(Plain(0), text[i])
      BY <1>1
    <2> HIDE DEF g
    <2>2. ScansTo(text, from, g, from)
      BY <2>1 DEF ScansTo
    <2> QED  BY <1>1, <2>2
  <1>3. ASSUME NEW k \in Nat, from <= k, k < n, k \in S PROVE k + 1 \in S
    <2>1. PICK g : ScansTo(text, from, g, k)
      BY <1>3
    <2> DEFINE h == [i \in from..n |-> Step(IF i = from THEN Plain(0) ELSE g[i - 1], text[i])]
    <2>2. ASSUME NEW i \in from..n, i <= k + 1
          PROVE  h[i] = Step(IF i = from THEN Plain(0) ELSE h[i - 1], text[i])
      <3>1. CASE i = from
        BY <3>1
      <3>2. CASE i # from
        <4>1. i - 1 \in from..n /\ i - 1 <= k
          BY <1>1, <1>3, <2>2, <3>2
        <4>2. g[i - 1] = Step(IF i - 1 = from THEN Plain(0) ELSE g[i - 1 - 1], text[i - 1])
          BY <2>1, <4>1 DEF ScansTo
        <4>3. h[i - 1] = g[i - 1]
          BY <4>1, <4>2
        <4> QED  BY <3>2, <4>3
      <3> QED  BY <3>1, <3>2
    <2> HIDE DEF h
    <2>3. ScansTo(text, from, h, k + 1)
      BY <2>2 DEF ScansTo
    <2> QED  BY <1>1, <1>3, <2>3
  <1> HIDE DEF S
  <1>4. n \in S
    <2>1. \A i \in from..n : i \in S
      BY <1>1, <1>2, <1>3, On
    <2> QED  BY <1>1, <2>1
  <1>5. PICK g : ScansTo(text, from, g, n)
    BY <1>4 DEF S
  <1> DEFINE body(at) == [i \in From(text, from) |->
                Step(IF i = from THEN Plain(0) ELSE at[i - 1], text[i])]
             f == [i \in from..n |-> g[i]]
  <1>6. f = body(f)
    <2>1. ASSUME NEW i \in from..n PROVE f[i] = body(f)[i]
      <3>1. i = from \/ i - 1 \in from..n
        BY <1>1
      <3> QED  BY <1>1, <1>5, <3>1 DEF ScansTo, From
    <2> QED  BY <2>1 DEF From
  <1>7. Scan(text, from) = CHOOSE at : at = body(at)
    BY DEF Scan, Step, Plain
  <1>8. Scan(text, from) = body(Scan(text, from))
    <2> HIDE DEF f
    <2> QED  BY <1>6, <1>7, Zenon
  <1>9. ASSUME NEW w, w = body(w), NEW i \in from..n
        PROVE  w[i] = Step(IF i = from THEN Plain(0) ELSE w[i - 1], text[i])
    BY <1>9 DEF From
  <1> HIDE DEF body
  <1> QED  BY <1>8, <1>9

Inside(d) == [depth |-> d, quoted |-> TRUE, escaped |-> FALSE]
Escaping(d) == [depth |-> d, quoted |-> TRUE, escaped |-> TRUE]

LEMMA StepsOutside ==
  ASSUME NEW d \in Int, NEW t
  PROVE  /\ t = Quote => Step(Plain(d), t) = Inside(d)
         /\ t = Open => Step(Plain(d), t) = Plain(d + 1)
         /\ t = Close => Step(Plain(d), t) = Plain(d - 1)
         /\ t \notin {Quote, Open, Close} => Step(Plain(d), t) = Plain(d)
  <1> DEFINE s == Plain(d)
  <1>1. /\ s = [depth |-> d, quoted |-> FALSE, escaped |-> FALSE]
        /\ ~s.quoted /\ s.depth = d /\ s.escaped = FALSE
    BY DEF Plain
  <1>2. Step(s, t) = [depth |-> CASE t = Open -> d + 1 [] t = Close -> d - 1 [] OTHER -> d,
                      quoted |-> (t = Quote), escaped |-> FALSE]
    BY <1>1 DEF Step
  <1>3. Quote # Open /\ Quote # Close /\ Open # Close
    BY DEF Quote, Open, Close
  <1> HIDE DEF s
  <1>4. CASE t = Quote
    <2>1. (t = Quote) = TRUE
      BY <1>4
    <2>2. Step(s, t) = [depth |-> d, quoted |-> TRUE, escaped |-> FALSE]
      BY <1>2, <1>3, <1>4
    <2> QED  BY <1>3, <1>4, <2>2 DEF Inside, s
  <1>5. CASE t # Quote
    <2>1. (t = Quote) = FALSE
      BY <1>5
    <2>2. Step(s, t) = [depth |-> CASE t = Open -> d + 1 [] t = Close -> d - 1 [] OTHER -> d,
                        quoted |-> FALSE, escaped |-> FALSE]
      BY <1>2, <2>1
    <2>3. /\ t = Open => Step(s, t) = [depth |-> d + 1, quoted |-> FALSE, escaped |-> FALSE]
          /\ t = Close => Step(s, t) = [depth |-> d - 1, quoted |-> FALSE, escaped |-> FALSE]
          /\ t \notin {Open, Close} =>
               Step(s, t) = [depth |-> d, quoted |-> FALSE, escaped |-> FALSE]
      BY <1>3, <2>2
    <2> QED  BY <1>5, <2>3 DEF Plain, s
  <1> QED  BY <1>4, <1>5

LEMMA StepsInside ==
  ASSUME NEW d \in Int, NEW t
  PROVE  /\ t = Quote => Step(Inside(d), t) = Plain(d)
         /\ t = Escape => Step(Inside(d), t) = Escaping(d)
         /\ t \notin {Quote, Escape} => Step(Inside(d), t) = Inside(d)
         /\ Step(Escaping(d), t) = Inside(d)
  <1> DEFINE s == Inside(d)
             e == Escaping(d)
  <1>1. /\ s = [depth |-> d, quoted |-> TRUE, escaped |-> FALSE]
        /\ s.quoted /\ s.escaped = FALSE
        /\ e = [depth |-> d, quoted |-> TRUE, escaped |-> TRUE]
        /\ e.quoted /\ e.escaped = TRUE
    BY DEF Inside, Escaping
  <1>2. Quote # Escape
    BY DEF Quote, Escape
  <1>3. /\ Step(s, t) = [s EXCEPT !.quoted = ~(t = Quote), !.escaped = (t = Escape)]
        /\ Step(e, t) = [e EXCEPT !.quoted = TRUE, !.escaped = FALSE]
    <2>1. /\ (~(t = Quote /\ ~s.escaped)) = ~(t = Quote)
          /\ (t = Escape /\ ~s.escaped) = (t = Escape)
          /\ (~(t = Quote /\ ~e.escaped)) = TRUE
          /\ (t = Escape /\ ~e.escaped) = FALSE
      BY <1>1
    <2> QED  BY <1>1, <2>1, Zenon DEF Step
  <1>7. Step(e, t) = s
    <2>1. Step(e, t) = [e EXCEPT !.quoted = TRUE, !.escaped = FALSE]
      BY <1>3
    <2> HIDE DEF s, e
    <2> QED  BY <1>1, <2>1
  <1> HIDE DEF s, e
  <1>4. CASE t = Quote
    <2>1. (~(t = Quote)) = FALSE /\ (t = Escape) = FALSE
      BY <1>2, <1>4
    <2>2. Step(s, t) = [s EXCEPT !.quoted = FALSE, !.escaped = FALSE]
      BY <1>3, <2>1, Zenon
    <2>3. Step(s, t) = Plain(d)
      BY <1>1, <2>2 DEF Plain
    <2> QED  BY <1>2, <1>4, <1>7, <2>3 DEF s, e
  <1>5. CASE t = Escape
    <2>1. (~(t = Quote)) = TRUE /\ (t = Escape) = TRUE
      BY <1>2, <1>5
    <2>2. Step(s, t) = [s EXCEPT !.quoted = TRUE, !.escaped = TRUE]
      BY <1>3, <2>1, Zenon
    <2>3. Step(s, t) = Escaping(d)
      BY <1>1, <2>2 DEF Escaping
    <2> QED  BY <1>2, <1>5, <1>7, <2>3 DEF s, e
  <1>6. CASE t \notin {Quote, Escape}
    <2>1. (~(t = Quote)) = TRUE /\ (t = Escape) = FALSE
      BY <1>6
    <2>2. Step(s, t) = [s EXCEPT !.quoted = TRUE, !.escaped = FALSE]
      BY <1>3, <2>1, Zenon
    <2>3. Step(s, t) = s
      BY <1>1, <2>2
    <2> QED  BY <1>6, <1>7, <2>3 DEF s, e
  <1> QED  BY <1>4, <1>5, <1>6

LEMMA Depths ==
  ASSUME NEW d
  PROVE  Plain(d).depth = d /\ Inside(d).depth = d /\ Escaping(d).depth = d
  BY DEF Plain, Inside, Escaping

\* So many tokens from a place on are inside a string of one depth, to the last.
Within(text, from, p, n, d) ==
  /\ Scan(text, from)[p + n - 1] = Inside(d)
  /\ \A j \in p..(p + n - 1) : Scan(text, from)[j].depth = d

\* A string is passed over at one depth, whatever is written in it.
LEMMA StringPassed ==
  ASSUME NEW text \in Seq(Symbol), NEW t \in Seq(Symbol), NEW from \in Nat, NEW p,
         NEW d \in Int,
         from < p, Scan(text, from)[p - 1] = Inside(d), Stands(Writing(t)[1], text, p)
  PROVE  Within(text, from, p, Len(Writing(t)[1]), d)
  <1> DEFINE w == Writing(t)
             at == Scan(text, from)
             n == Len(t) + 1
             Passed(i) == \A q \in Nat : /\ from < q /\ at[q - 1] = Inside(d)
                                         /\ Stands(w[i], text, q)
                            => /\ at[q + Len(w[i]) - 1] = Inside(d)
                               /\ \A j \in q..(q + Len(w[i]) - 1) : at[j].depth = d
             S == {i \in 1..n : Passed(i)}
  <1> HIDE DEF Symbol
  <1>1. Len(t) \in Nat /\ Len(text) \in Nat /\ n \in Nat /\ n = Len(t) + 1
    OBVIOUS
  <1>2. w[n] = <<>> /\ \A i \in 1..Len(t) : w[i] = Mark(t[i]) \o w[i + 1]
    BY WritingStands
  <1>3. \A i \in 1..n : w[i] \in Seq(Symbol)
    BY WritingTyped
  <1>4. \A i \in Nat : from < i /\ i <= Len(text) => at[i] = Step(at[i - 1], text[i])
    <2> SUFFICES ASSUME NEW i \in Nat, from < i, i <= Len(text)
                 PROVE  at[i] = Step(at[i - 1], text[i])
      OBVIOUS
    <2>1. i \in from..Len(text) /\ i # from /\ from <= Len(text)
      BY <1>1
    <2> QED  BY <2>1, ScanUnrolls
  <1> HIDE DEF w, n, at
  <1>5. n \in S
    <2>1. Len(w[n]) = 0
      BY <1>2
    <2> QED  BY <1>1, <2>1
  <1>6. ASSUME NEW i \in Nat, i < n, i > 0, i + 1 \in S PROVE i \in S
    <2>1. i \in 1..Len(t) /\ i \in 1..n /\ i + 1 \in 1..n /\ t[i] \in Symbol
      BY <1>1, <1>6
    <2>2. Mark(t[i]) \in Seq(Symbol) /\ w[i + 1] \in Seq(Symbol) /\ w[i] = Mark(t[i]) \o w[i + 1]
      BY <1>2, <1>3, <2>1, MarkTyped
    <2>3. SUFFICES ASSUME NEW q \in Nat, from < q, at[q - 1] = Inside(d), Stands(w[i], text, q)
                   PROVE  /\ at[q + Len(w[i]) - 1] = Inside(d)
                          /\ \A j \in q..(q + Len(w[i]) - 1) : at[j].depth = d
      BY <2>1
    <2> DEFINE a == Len(Mark(t[i]))
               b == Len(w[i + 1])
    <2>4. /\ Stands(Mark(t[i]), text, q) /\ Stands(w[i + 1], text, q + a)
          /\ Len(w[i]) = a + b /\ a \in Nat /\ b \in Nat
      BY <2>2, <2>3, StandsApart
    <2>5. Passed(i + 1)
      BY <1>6
    <2> DEFINE r == q + a
    <2>6. at[r - 1] = Inside(d) =>
            /\ at[r + b - 1] = Inside(d)
            /\ \A j \in r..(r + b - 1) : at[j].depth = d
      <3>1. /\ from < r /\ at[r - 1] = Inside(d) /\ Stands(w[i + 1], text, r) /\ r \in Nat
            => /\ at[r + b - 1] = Inside(d)
               /\ \A j \in r..(r + b - 1) : at[j].depth = d
        <4> HIDE DEF r
        <4> QED  BY <2>5
      <3>2. r \in Nat /\ from < r
        <4> HIDE DEF a
        <4> QED  BY <2>3, <2>4
      <3>3. Stands(w[i + 1], text, r)
        BY <2>4
      <3> HIDE DEF r, b
      <3> QED  BY <3>1, <3>2, <3>3
    <2>7. \A j \in 1..a : /\ text[q + j - 1] = Mark(t[i])[j]
                          /\ q + j - 1 \in Nat /\ from < q + j - 1 /\ q + j - 1 <= Len(text)
      <3>1. q + a <= Len(text) + 1 /\ \A j \in 1..a : text[q + j - 1] = Mark(t[i])[j]
        BY <2>4 DEF Stands
      <3> HIDE DEF a
      <3> QED  BY <1>1, <2>3, <2>4, <3>1
    <2>8. at[q + a - 1] = Inside(d) /\ \A j \in q..(q + a - 1) : at[j].depth = d
      <3>1. CASE t[i] \in {Quote, Escape}
        <4>1. a = 2 /\ Mark(t[i])[1] = Escape
          BY <3>1 DEF Mark
        <4> HIDE DEF a
        <4>2. /\ 1 \in 1..a /\ 2 \in 1..a
              /\ q + 1 - 1 = q /\ q + 2 - 1 = q + 1 /\ (q + 1) - 1 = q
              /\ q + a - 1 = q + 1 /\ \A j \in q..(q + a - 1) : j = q \/ j = q + 1
          BY <4>1
        <4>3. at[q] = Step(Inside(d), Escape)
          BY <1>4, <2>3, <2>7, <4>1, <4>2
        <4>4. at[q] = Escaping(d)
          BY <4>3, StepsInside
        <4>5. at[q + 1] = Step(Escaping(d), text[q + 1])
          BY <1>4, <2>7, <4>2, <4>4
        <4>6. at[q + 1] = Inside(d)
          BY <4>5, StepsInside
        <4> QED  BY <4>2, <4>4, <4>6, Depths
      <3>2. CASE t[i] \notin {Quote, Escape}
        <4>1. a = 1 /\ Mark(t[i])[1] = t[i]
          BY <3>2 DEF Mark
        <4> HIDE DEF a
        <4>2. 1 \in 1..a /\ q + 1 - 1 = q /\ q + a - 1 = q /\ \A j \in q..(q + a - 1) : j = q
          BY <4>1
        <4>3. at[q] = Step(Inside(d), t[i])
          BY <1>4, <2>3, <2>7, <4>1, <4>2
        <4>4. at[q] = Inside(d)
          BY <3>2, <4>3, StepsInside
        <4> QED  BY <4>2, <4>4, Depths
      <3> QED  BY <3>1, <3>2
    <2> HIDE DEF a, b
    <2>9. q + Len(w[i]) - 1 = r + b - 1 /\ q + a - 1 = r - 1
      BY <2>4
    <2>10. \A j \in q..(r + b - 1) : j \in q..(r - 1) \/ j \in r..(r + b - 1)
      BY <2>4
    <2> HIDE DEF r
    <2> QED  BY <2>6, <2>8, <2>9, <2>10
  <1> HIDE DEF S
  <1>7. 1 \in S
    BY <1>1, <1>5, <1>6, Down
  <1>8. Passed(1) /\ p \in Nat
    BY <1>7 DEF S, Stands
  <1> QED  BY <1>8 DEF w, at, Within

-----------------------------------------------------------------------------
(* Where the value of a key is found. *)

LEMMA FirstIs ==
  ASSUME NEW S \in SUBSET Nat, NEW i \in S, \A j \in S : i <= j
  PROVE  First(S) = i
  <1>1. \A k \in S : (\A j \in S : k <= j) => k = i
    OBVIOUS
  <1>2. S # {} /\ \E k \in S : \A j \in S : k <= j
    OBVIOUS
  <1> DEFINE m == CHOOSE k \in S : \A j \in S : k <= j
  <1>3. m \in S /\ \A j \in S : m <= j
    BY <1>2
  <1>4. First(S) = m
    BY <1>2 DEF First
  <1> HIDE DEF m
  <1> QED  BY <1>1, <1>3, <1>4

\* A string that reads like the key.
Key(text, key, i) == text[i] = Quote /\ text[i + 1] = key /\ text[i + 2] = Quote

LEMMA KeyIs ==
  ASSUME NEW text \in Seq(Symbol), NEW key, NEW i \in 1..(Len(text) - 2)
  PROVE  SubSeq(text, i, i + 2) = <<Quote, key, Quote>> <=> Key(text, key, i)
  <1> HIDE DEF Symbol
  <1> DEFINE s == SubSeq(text, i, i + 2)
  <1>1. s = <<text[i], text[i + 1], text[i + 2]>>
    <2>1. /\ s \in Seq(Symbol) /\ Len(s) = 3
          /\ \A j \in 1..3 : s[j] = text[i + j - 1]
      BY SubSeqProperties
    <2> HIDE DEF s
    <2>2. s[1] = text[i] /\ s[2] = text[i + 1] /\ s[3] = text[i + 2]
      <3>1. i + 1 - 1 = i /\ i + 2 - 1 = i + 1 /\ i + 3 - 1 = i + 2
        OBVIOUS
      <3> QED  BY <2>1, <3>1
    <2>3. s = <<s[1], s[2], s[3]>>
      BY <2>1
    <2> QED  BY <2>2, <2>3
  <1> HIDE DEF s
  <1>2. <<text[i], text[i + 1], text[i + 2]>> = <<Quote, key, Quote>> <=> Key(text, key, i)
    BY DEF Key
  <1> QED  BY <1>1, <1>2 DEF s

LEMMA KeyFound ==
  ASSUME NEW text \in Seq(Symbol), NEW key,
         NEW n \in 1..(Len(text) - 2), Key(text, key, n),
         NEW c \in (n + 3)..(Len(text) - 1), text[c] = ":",
         \A i \in 1..n : Key(text, key, i) => \A j \in (i + 3)..(c - 1) : text[j] # ":"
  PROVE  FindKey(text, key) = c + 1
  <1> DEFINE S == {i \in 1..(Len(text) - 2) : SubSeq(text, i, i + 2) = <<Quote, key, Quote>>}
  <1> HIDE DEF Symbol
  <1>1. Len(text) \in Nat
    OBVIOUS
  <1>2. \A i \in 1..(Len(text) - 2) : i \in S <=> Key(text, key, i)
    BY KeyIs
  <1>3. S \in SUBSET Nat /\ n \in S
    BY <1>1, <1>2
  <1>4. PICK m \in S : \A i \in S : m <= i
    BY <1>3, Smallest
  <1>5. m \in 1..n /\ Key(text, key, m)
    BY <1>1, <1>2, <1>3, <1>4
  <1>6. First(S) = m
    BY <1>3, <1>4, FirstIs
  <1> DEFINE C == {i \in From(text, m + 3) : text[i] = ":"}
  <1>7. C \in SUBSET Nat /\ c \in C /\ \A j \in C : c <= j
    BY <1>1, <1>5 DEF From
  <1> HIDE DEF C
  <1>8. First(C) = c
    BY <1>7, FirstIs
  <1>9. m # 0 /\ c # 0 /\ c # Len(text)
    BY <1>1, <1>5
  <1> HIDE DEF S
  <1> QED  BY <1>6, <1>8, <1>9 DEF FindKey, S, C

LEMMA KeyMissing ==
  ASSUME NEW text \in Seq(Symbol), NEW key,
         \A i \in 1..(Len(text) - 2) :
           Key(text, key, i) => \A j \in (i + 3)..Len(text) : text[j] # ":"
  PROVE  FindKey(text, key) = 0
  <1> DEFINE S == {i \in 1..(Len(text) - 2) : SubSeq(text, i, i + 2) = <<Quote, key, Quote>>}
             m == First(S)
             C == {i \in From(text, m + 3) : text[i] = ":"}
  <1> HIDE DEF Symbol
  <1>1. Len(text) \in Nat
    OBVIOUS
  <1>2. \A i \in 1..(Len(text) - 2) : i \in S <=> Key(text, key, i)
    BY KeyIs
  <1>3. S \in SUBSET Nat
    BY <1>1
  <1>4. S # {} => C = {}
    <2>1. SUFFICES ASSUME S # {} PROVE C = {}
      OBVIOUS
    <2>2. PICK i \in S : \A j \in S : i <= j
      BY <1>3, <2>1, Smallest
    <2>3. m = i
      BY <1>3, <2>2, FirstIs
    <2>4. i \in 1..(Len(text) - 2) /\ Key(text, key, i)
      BY <1>2
    <2> HIDE DEF m
    <2> QED  BY <2>3, <2>4 DEF From
  <1>5. S = {} => m = 0
    BY DEF First
  <1>6. C = {} => First(C) = 0
    BY DEF First
  <1>7. FindKey(text, key) = IF m = 0 \/ First(C) = 0 \/ First(C) = Len(text) THEN 0
                             ELSE First(C) + 1
    BY DEF FindKey
  <1> HIDE DEF S, C, m
  <1> QED  BY <1>4, <1>5, <1>6, <1>7

LEMMA WrittenStands ==
  ASSUME NEW text \in Seq(Symbol), NEW t \in Seq(Symbol), NEW v, Stands(Written(t), text, v)
  PROVE  /\ v \in Nat \ {0} /\ text[v] = Quote
         /\ Stands(Writing(t)[1], text, v + 1)
         /\ text[v + 1 + Len(Writing(t)[1])] = Quote
         /\ v + 1 + Len(Writing(t)[1]) <= Len(text)
         /\ Len(Writing(t)[1]) \in Nat
  <1> DEFINE w == Writing(t)[1]
             q == <<Quote>>
  <1>1. q \in Seq(Symbol) /\ Len(q) = 1 /\ q[1] = Quote
    <2>1. Quote \in Symbol
      BY DEF Symbol
    <2> HIDE DEF Symbol
    <2> QED  BY <2>1
  <1> HIDE DEF Symbol
  <1>2. w \in Seq(Symbol) /\ Written(t) = q \o w \o q
    BY WrittenTyped, WrittenIs
  <1> HIDE DEF w, q
  <1>3. q \o w \in Seq(Symbol) /\ Len(q \o w) = 1 + Len(w) /\ Len(w) \in Nat
    <2>1. w \in Seq(Symbol)
      BY <1>2
    <2>2. Len(w) \in Nat
      BY <2>1, LenProperties
    <2>3. q \o w \in Seq(Symbol) /\ Len(q \o w) = Len(q) + Len(w)
      BY <1>1, <2>1, ConcatProperties, Zenon
    <2> QED  BY <1>1, <2>2, <2>3, Zenon
  <1>4. Stands(q \o w, text, v) /\ Stands(q, text, v + Len(q \o w))
    BY <1>1, <1>2, <1>3, StandsApart
  <1>5. Stands(q, text, v) /\ Stands(w, text, v + Len(q))
    BY <1>1, <1>2, <1>4, StandsApart
  <1>6. v \in Nat \ {0} /\ Len(text) \in Nat
    BY <1>5 DEF Stands
  <1>7. text[v] = Quote
    <2>1. text[v + 1 - 1] = Quote
      BY <1>1, <1>5 DEF Stands
    <2> QED  BY <1>6, <2>1
  <1> DEFINE u == v + 1 + Len(w)
  <1>8. u \in Nat /\ v + Len(q \o w) = u
    BY <1>3, <1>6
  <1> HIDE DEF u
  <1>9. text[u] = Quote /\ u <= Len(text)
    <2>1. text[u + 1 - 1] = Quote /\ u + 1 <= Len(text) + 1
      BY <1>1, <1>4, <1>8 DEF Stands
    <2> QED  BY <1>6, <1>8, <2>1
  <1> QED  BY <1>1, <1>3, <1>5, <1>6, <1>7, <1>9 DEF u, w

LEMMA StringRead ==
  ASSUME NEW text \in Seq(Symbol), NEW t \in Seq(Symbol), NEW key,
         Stands(Written(t), text, FindKey(text, key))
  PROVE  JsonString(text, key) = t
  <1> DEFINE v == FindKey(text, key)
             n == Len(Writing(t)[1])
  <1> HIDE DEF Symbol
  <1>1. /\ v \in Nat \ {0} /\ text[v] = Quote /\ Stands(Writing(t)[1], text, v + 1)
        /\ text[v + 1 + n] = Quote /\ v + 1 + n <= Len(text)
    BY WrittenStands
  <1>2. Reading(text)[v + 1] = t
    <2> HIDE DEF v
    <2> QED  BY <1>1, ReadsBack
  <1>3. JsonString(text, key) = Reading(text)[v + 1]
    BY <1>1 DEF JsonString, Reading
  <1> QED  BY <1>2, <1>3

\* What a bare value stops at.
Stops(t) == t \in {Comma, Close, "]", " "}

LEMMA BareRead ==
  ASSUME NEW text \in Seq(Symbol), NEW key, NEW v \in Nat, FindKey(text, key) = v,
         v > 0, v + 1 <= Len(text), text[v] # Quote, ~Stops(text[v]), Stops(text[v + 1])
  PROVE  JsonString(text, key) = <<text[v]>>
  <1> DEFINE S == {i \in From(text, v) : Stops(text[i])}
  <1> HIDE DEF Symbol
  <1>1. Len(text) \in Nat
    OBVIOUS
  <1>2. S \in SUBSET Nat /\ v + 1 \in S /\ \A j \in S : v + 1 <= j
    BY <1>1 DEF From
  <1>3. JsonString(text, key) =
          SubSeq(text, v, IF First(S) = 0 THEN Len(text) ELSE First(S) - 1)
    <2>1. v # 0
      OBVIOUS
    <2> QED  BY <2>1, Zenon DEF JsonString, Stops, Comma
  <1> HIDE DEF S
  <1>4. First(S) = v + 1
    BY <1>2, FirstIs
  <1>5. JsonString(text, key) = SubSeq(text, v, v)
    BY <1>3, <1>4
  <1>6. SubSeq(text, v, v) = <<text[v]>>
    <2> DEFINE s == SubSeq(text, v, v)
    <2>1. s \in Seq(Symbol) /\ Len(s) = 1 /\ \A j \in 1..1 : s[j] = text[v + j - 1]
      BY <1>1, SubSeqProperties
    <2> HIDE DEF s
    <2>2. s[1] = text[v]
      <3>1. v + 1 - 1 = v
        OBVIOUS
      <3> QED  BY <2>1, <3>1
    <2>3. s = <<s[1]>>
      BY <2>1
    <2> QED  BY <2>2, <2>3 DEF s
  <1> QED  BY <1>5, <1>6

LEMMA WhatStops ==
  /\ Stops(Comma) /\ Stops(Close)
  /\ ~Stops("0") /\ ~Stops("5") /\ ~Stops("-1")
  BY Zenon DEF Stops, Close, Comma

-----------------------------------------------------------------------------
(* The text of a call. *)

\* A text of so many tokens.
Sized(s, n) == s \in Seq(Symbol) /\ n \in Nat /\ Len(s) = n

LEMMA SizedTokens ==
  ASSUME NEW x \in Symbol, NEW y \in Symbol
  PROVE  Sized(<<x>>, 1) /\ Sized(<<x, y>>, 2)
  <1> HIDE DEF Symbol
  <1>1. <<x>> \in Seq(Symbol) /\ Len(<<x>>) = 1
    OBVIOUS
  <1>2. <<x, y>> \in Seq(Symbol) /\ Len(<<x, y>>) = 2
    OBVIOUS
  <1> QED  BY <1>1, <1>2 DEF Sized

LEMMA SizedBoth ==
  ASSUME NEW s, NEW n, NEW t, NEW m, Sized(s, n), Sized(t, m)
  PROVE  Sized(s \o t, n + m)
  <1> HIDE DEF Symbol
  <1> QED  BY ConcatProperties DEF Sized

LEMMA StandsBoth ==
  ASSUME NEW text \in Seq(Symbol), NEW s, NEW n, NEW t, NEW m, Sized(s, n), Sized(t, m),
         NEW p, Stands(s \o t, text, p)
  PROVE  Stands(s, text, p) /\ Stands(t, text, p + n)
  BY StandsApart DEF Sized

KeyWords == {"name", "arguments", "command", "timeout_seconds", "terminal.run"}

LEMMA WordWritten ==
  ASSUME NEW x \in KeyWords
  PROVE  /\ <<x>> \in Seq(Symbol) /\ Writing(<<x>>)[1] = <<x>>
         /\ Written(<<x>>) \in Seq(Symbol) /\ Len(Written(<<x>>)) = 3
  <1>1. x \in Symbol
    BY DEF Symbol, KeyWords
  <1>2. x \notin {Quote, Escape}
    BY DEF KeyWords, Quote, Escape
  <1> HIDE DEF Symbol
  <1> DEFINE t == <<x>>
             w == Writing(t)
  <1>3. t \in Seq(Symbol) /\ Len(t) = 1 /\ t[1] = x
    BY <1>1
  <1>4. Mark(x) = t
    BY <1>2 DEF Mark
  <1> HIDE DEF t
  <1>5. w[2] = <<>> /\ w[1] = t \o w[2]
    <2>1. w[Len(t) + 1] = <<>> /\ \A i \in 1..Len(t) : w[i] = Mark(t[i]) \o w[i + 1]
      BY <1>3, WritingStands
    <2> HIDE DEF w
    <2>2. Len(t) + 1 = 2 /\ 1 \in 1..Len(t) /\ 1 + 1 = 2
      BY <1>3
    <2> QED  BY <1>3, <1>4, <2>1, <2>2
  <1>6. w[1] = t
    <2> HIDE DEF w
    <2>1. t \o <<>> = t
      BY <1>3, ConcatEmptySeq
    <2> QED  BY <1>5, <2>1
  <1>7. Written(t) \in Seq(Symbol) /\ Len(Written(t)) = 3
    <2>1. Written(t) \in Seq(Symbol) /\ Len(Written(t)) = Len(w[1]) + 2
      BY <1>3, WrittenTyped
    <2> HIDE DEF w
    <2> QED  BY <1>3, <1>6, <2>1
  <1> QED  BY <1>3, <1>6, <1>7 DEF t

LEMMA TokenStands ==
  ASSUME NEW x, NEW text, NEW v, Stands(<<x>>, text, v)
  PROVE  text[v] = x
  <1>1. Len(<<x>>) = 1 /\ <<x>>[1] = x
    OBVIOUS
  <1>2. v \in Nat /\ \A i \in 1..1 : text[v + i - 1] = x
    BY <1>1 DEF Stands
  <1>3. v + 1 - 1 = v
    BY <1>2
  <1> QED  BY <1>2, <1>3

LEMMA WordStands ==
  ASSUME NEW x \in KeyWords, NEW text \in Seq(Symbol), NEW v, Stands(Written(<<x>>), text, v)
  PROVE  text[v] = Quote /\ text[v + 1] = x /\ text[v + 2] = Quote
  <1>1. <<x>> \in Seq(Symbol) /\ Writing(<<x>>)[1] = <<x>> /\ Len(<<x>>) = 1
    BY WordWritten
  <1>2. /\ v \in Nat /\ text[v] = Quote /\ Stands(<<x>>, text, v + 1)
        /\ text[v + 1 + 1] = Quote
    BY <1>1, WrittenStands
  <1>3. text[v + 1] = x
    BY <1>2, TokenStands
  <1>4. v + 1 + 1 = v + 2
    BY <1>2
  <1> QED  BY <1>2, <1>3, <1>4

LEMMA PairStands ==
  ASSUME NEW x, NEW y, NEW text, NEW v, Stands(<<x, y>>, text, v)
  PROVE  text[v] = x /\ text[v + 1] = y
  <1> DEFINE s == <<x, y>>
  <1>1. Len(s) = 2 /\ s[1] = x /\ s[2] = y
    OBVIOUS
  <1> HIDE DEF s
  <1>2. v \in Nat /\ \A i \in 1..2 : text[v + i - 1] = s[i]
    BY <1>1 DEF Stands, s
  <1>3. v + 1 - 1 = v /\ v + 2 - 1 = v + 1
    BY <1>2
  <1> QED  BY <1>1, <1>2, <1>3

Frame(n, a) ==
  <<Open>> \o Written(<<"name">>) \o <<":">> \o Written(n) \o <<Comma>>
  \o Written(<<"arguments">>) \o <<":", Open>> \o a \o <<Close, Close>>

\* What stands where in it, the name taking k places and the arguments l.
LaidOut(text, n, k, a, l) ==
  /\ text \in Seq(Symbol) /\ Len(text) = 13 + k + l
  /\ text[1] = Open
  /\ text[2] = Quote /\ text[3] = "name" /\ text[4] = Quote /\ text[5] = ":"
  /\ Stands(Written(n), text, 6)
  /\ text[6 + k] = Comma /\ text[7 + k] = Quote /\ text[8 + k] = "arguments"
  /\ text[9 + k] = Quote /\ text[10 + k] = ":" /\ text[11 + k] = Open
  /\ Stands(a, text, 12 + k)
  /\ text[12 + k + l] = Close /\ text[13 + k + l] = Close

LEMMA FrameStands ==
  ASSUME NEW n \in Seq(Symbol), NEW a, NEW l, Sized(a, l)
  PROVE  LaidOut(Frame(n, a), n, Len(Written(n)), a, l)
  <1> DEFINE text == Frame(n, a)
             k == Len(Written(n))
  <1> DEFINE o == <<Open>>
             name == Written(<<"name">>)
             colon == <<":">>
             m == Written(n)
             comma == <<Comma>>
             args == Written(<<"arguments">>)
             open == <<":", Open>>
             close == <<Close, Close>>
             s2 == o \o name
             s3 == s2 \o colon
             s4 == s3 \o m
             s5 == s4 \o comma
             s6 == s5 \o args
             s7 == s6 \o open
             s8 == s7 \o a
             s9 == s8 \o close
  <1>1. "name" \in KeyWords /\ "arguments" \in KeyWords
    BY DEF KeyWords
  <1>2. /\ Sized(o, 1) /\ Sized(colon, 1) /\ Sized(comma, 1)
        /\ Sized(open, 2) /\ Sized(close, 2)
    <2>1. Open \in Symbol /\ Close \in Symbol /\ ":" \in Symbol /\ Comma \in Symbol
      BY DEF Symbol
    <2> HIDE DEF Symbol
    <2> QED  BY <2>1, SizedTokens
  <1> HIDE DEF Symbol
  <1>3. Sized(name, 3) /\ Sized(args, 3)
    BY <1>1, WordWritten DEF Sized
  <1>4. Sized(m, k) /\ k \in Nat /\ l \in Nat /\ Sized(a, l)
    BY WrittenTyped DEF Sized
  <1>5. text = s9
    BY Zenon DEF Frame
  <1> HIDE DEF o, name, colon, m, comma, args, open, close, text, k
  <1>6. Sized(s2, 4)
    <2>1. Sized(s2, 1 + 3)
      BY <1>2, <1>3, SizedBoth, Zenon
    <2>2. 1 + 3 = 4
      BY <1>4
    <2> QED  BY <2>1, <2>2, Zenon
  <1> HIDE DEF s2
  <1>7. Sized(s3, 5)
    <2>1. Sized(s3, 4 + 1)
      BY <1>2, <1>6, SizedBoth, Zenon
    <2>2. 4 + 1 = 5
      BY <1>4
    <2> QED  BY <2>1, <2>2, Zenon
  <1> HIDE DEF s3
  <1>8. Sized(s4, 5 + k)
    <2>1. Sized(s4, 5 + k)
      BY <1>4, <1>7, SizedBoth, Zenon
    <2>2. 5 + k = 5 + k
      BY <1>4
    <2> QED  BY <2>1, <2>2, Zenon
  <1> HIDE DEF s4
  <1>9. Sized(s5, 6 + k)
    <2>1. Sized(s5, (5 + k) + 1)
      BY <1>2, <1>8, SizedBoth, Zenon
    <2>2. (5 + k) + 1 = 6 + k
      BY <1>4
    <2> QED  BY <2>1, <2>2, Zenon
  <1> HIDE DEF s5
  <1>10. Sized(s6, 9 + k)
    <2>1. Sized(s6, (6 + k) + 3)
      BY <1>3, <1>9, SizedBoth, Zenon
    <2>2. (6 + k) + 3 = 9 + k
      BY <1>4
    <2> QED  BY <2>1, <2>2, Zenon
  <1> HIDE DEF s6
  <1>11. Sized(s7, 11 + k)
    <2>1. Sized(s7, (9 + k) + 2)
      BY <1>2, <1>10, SizedBoth, Zenon
    <2>2. (9 + k) + 2 = 11 + k
      BY <1>4
    <2> QED  BY <2>1, <2>2, Zenon
  <1> HIDE DEF s7
  <1>12. Sized(s8, 11 + k + l)
    <2>1. Sized(s8, (11 + k) + l)
      BY <1>4, <1>11, SizedBoth, Zenon
    <2>2. (11 + k) + l = 11 + k + l
      BY <1>4
    <2> QED  BY <2>1, <2>2, Zenon
  <1> HIDE DEF s8
  <1>13. Sized(s9, 13 + k + l)
    <2>1. Sized(s9, (11 + k + l) + 2)
      BY <1>2, <1>12, SizedBoth, Zenon
    <2>2. (11 + k + l) + 2 = 13 + k + l
      BY <1>4
    <2> QED  BY <2>1, <2>2, Zenon
  <1> HIDE DEF s9
  <1>14. text \in Seq(Symbol) /\ Len(text) = 13 + k + l
    BY <1>5, <1>13 DEF Sized
  <1>15. Stands(s9, text, 1)
    BY <1>4, <1>5, <1>14 DEF Stands
  <1>16. Stands(s8, text, 1) /\ Stands(close, text, 12 + k + l)
    <2>1. Stands(s8, text, 1) /\ Stands(close, text, 1 + (11 + k + l))
      BY <1>2, <1>12, <1>14, <1>15, StandsBoth, Zenon DEF s9
    <2>2. 1 + (11 + k + l) = 12 + k + l
      BY <1>4
    <2> QED  BY <2>1, <2>2, Zenon
  <1>17. Stands(s7, text, 1) /\ Stands(a, text, 12 + k)
    <2>1. Stands(s7, text, 1) /\ Stands(a, text, 1 + (11 + k))
      BY <1>4, <1>11, <1>14, <1>16, StandsBoth, Zenon DEF s8
    <2>2. 1 + (11 + k) = 12 + k
      BY <1>4
    <2> QED  BY <2>1, <2>2, Zenon
  <1>18. Stands(s6, text, 1) /\ Stands(open, text, 10 + k)
    <2>1. Stands(s6, text, 1) /\ Stands(open, text, 1 + (9 + k))
      BY <1>2, <1>10, <1>14, <1>17, StandsBoth, Zenon DEF s7
    <2>2. 1 + (9 + k) = 10 + k
      BY <1>4
    <2> QED  BY <2>1, <2>2, Zenon
  <1>19. Stands(s5, text, 1) /\ Stands(args, text, 7 + k)
    <2>1. Stands(s5, text, 1) /\ Stands(args, text, 1 + (6 + k))
      BY <1>3, <1>9, <1>14, <1>18, StandsBoth, Zenon DEF s6
    <2>2. 1 + (6 + k) = 7 + k
      BY <1>4
    <2> QED  BY <2>1, <2>2, Zenon
  <1>20. Stands(s4, text, 1) /\ Stands(comma, text, 6 + k)
    <2>1. Stands(s4, text, 1) /\ Stands(comma, text, 1 + (5 + k))
      BY <1>2, <1>8, <1>14, <1>19, StandsBoth, Zenon DEF s5
    <2>2. 1 + (5 + k) = 6 + k
      BY <1>4
    <2> QED  BY <2>1, <2>2, Zenon
  <1>21. Stands(s3, text, 1) /\ Stands(m, text, 6)
    <2>1. Stands(s3, text, 1) /\ Stands(m, text, 1 + 5)
      BY <1>4, <1>7, <1>14, <1>20, StandsBoth, Zenon DEF s4
    <2>2. 1 + 5 = 6
      BY <1>4
    <2> QED  BY <2>1, <2>2, Zenon
  <1>22. Stands(s2, text, 1) /\ Stands(colon, text, 5)
    <2>1. Stands(s2, text, 1) /\ Stands(colon, text, 1 + 4)
      BY <1>2, <1>6, <1>14, <1>21, StandsBoth, Zenon DEF s3
    <2>2. 1 + 4 = 5
      BY <1>4
    <2> QED  BY <2>1, <2>2, Zenon
  <1>23. Stands(o, text, 1) /\ Stands(name, text, 2)
    <2>1. Stands(o, text, 1) /\ Stands(name, text, 1 + 1)
      BY <1>2, <1>3, <1>14, <1>22, StandsBoth, Zenon DEF s2
    <2>2. 1 + 1 = 2
      BY <1>4
    <2> QED  BY <2>1, <2>2, Zenon
  <1>24. text[1] = Open /\ text[5] = ":" /\ text[6 + k] = Comma
    BY <1>20, <1>22, <1>23, TokenStands DEF o, colon, comma
  <1>25. text[2] = Quote /\ text[3] = "name" /\ text[4] = Quote
    <2>1. text[2] = Quote /\ text[2 + 1] = "name" /\ text[2 + 2] = Quote
      BY <1>1, <1>14, <1>23, WordStands DEF name
    <2> QED  BY <2>1
  <1>26. text[7 + k] = Quote /\ text[8 + k] = "arguments" /\ text[9 + k] = Quote
    <2> DEFINE v == 7 + k
    <2>1. v + 1 = 8 + k /\ v + 2 = 9 + k
      BY <1>4
    <2>2. Stands(Written(<<"arguments">>), text, v)
      BY <1>19 DEF args
    <2> HIDE DEF v
    <2>3. text[v] = Quote /\ text[v + 1] = "arguments" /\ text[v + 2] = Quote
      BY <1>1, <1>14, <2>2, WordStands
    <2> QED  BY <2>1, <2>3 DEF v
  <1>27. text[10 + k] = ":" /\ text[11 + k] = Open
    <2> DEFINE v == 10 + k
    <2>1. v + 1 = 11 + k
      BY <1>4
    <2>2. Stands(<<":", Open>>, text, v)
      BY <1>18 DEF open
    <2> HIDE DEF v
    <2>3. text[v] = ":" /\ text[v + 1] = Open
      BY <2>2, PairStands
    <2> QED  BY <2>1, <2>3 DEF v
  <1>28. text[12 + k + l] = Close /\ text[13 + k + l] = Close
    <2> DEFINE v == 12 + k + l
    <2>1. v + 1 = 13 + k + l
      BY <1>4
    <2>2. Stands(<<Close, Close>>, text, v)
      BY <1>16 DEF close
    <2> HIDE DEF v
    <2>3. text[v] = Close /\ text[v + 1] = Close
      BY <2>2, PairStands
    <2> QED  BY <2>1, <2>3 DEF v
  <1> QED  BY <1>4, <1>14, <1>17, <1>21, <1>24, <1>25, <1>26, <1>27, <1>28
       DEF m, text, k, LaidOut

-----------------------------------------------------------------------------
(* The object of the arguments. *)

LEMMA ScanNext ==
  ASSUME NEW text \in Seq(Symbol), NEW from \in Nat, NEW i \in Nat, from < i, i <= Len(text)
  PROVE  Scan(text, from)[i] = Step(Scan(text, from)[i - 1], text[i])
  <1> HIDE DEF Symbol
  <1>1. i \in from..Len(text) /\ i # from /\ from <= Len(text)
    OBVIOUS
  <1> QED  BY <1>1, ScanUnrolls

\* What the scan passes over without leaving the object it is in.
Passed(text, from, p, l) ==
  /\ Scan(text, from)[p + l - 1] = Plain(1)
  /\ \A j \in p..(p + l - 1) : Scan(text, from)[j].depth = 1
Passes(s, n) ==
  /\ Sized(s, n)
  /\ \A text \in Seq(Symbol), from \in Nat, p \in Nat :
       from < p /\ Scan(text, from)[p - 1] = Plain(1) /\ Stands(s, text, p)
         => Passed(text, from, p, n)

LEMMA PassesBoth ==
  ASSUME NEW s, NEW n, NEW t, NEW m, Passes(s, n), Passes(t, m)
  PROVE  Passes(s \o t, n + m)
  <1>1. Sized(s, n) /\ Sized(t, m) /\ n \in Nat /\ m \in Nat
    BY DEF Passes, Sized
  <1>2. Sized(s \o t, n + m)
    BY <1>1, SizedBoth
  <1>3. ASSUME NEW text \in Seq(Symbol), NEW from \in Nat, NEW p \in Nat, from < p,
               Scan(text, from)[p - 1] = Plain(1), Stands(s \o t, text, p)
        PROVE  Passed(text, from, p, n + m)
    <2>1. Stands(s, text, p) /\ Stands(t, text, p + n)
      BY <1>1, <1>3, StandsBoth
    <2>2. Passed(text, from, p, n)
      BY <1>3, <2>1 DEF Passes
    <2> DEFINE r == p + n
    <2>3. r \in Nat /\ from < r /\ Scan(text, from)[r - 1] = Plain(1) /\ Stands(t, text, r)
      BY <1>1, <1>3, <2>1, <2>2 DEF Passed
    <2>4. Passed(text, from, r, m)
      <3> HIDE DEF r
      <3> QED  BY <2>3 DEF Passes
    <2>5. /\ r + m - 1 = p + (n + m) - 1
          /\ \A j \in p..(p + (n + m) - 1) : j \in p..(p + n - 1) \/ j \in r..(r + m - 1)
      BY <1>1
    <2> HIDE DEF r
    <2> QED  BY <2>2, <2>4, <2>5 DEF Passed
  <1> QED  BY <1>2, <1>3 DEF Passes

LEMMA PassesToken ==
  ASSUME NEW x \in Symbol, x \notin {Quote, Open, Close}
  PROVE  Passes(<<x>>, 1)
  <1>1. Sized(<<x>>, 1)
    BY SizedTokens
  <1>2. ASSUME NEW text \in Seq(Symbol), NEW from \in Nat, NEW p \in Nat, from < p,
               Scan(text, from)[p - 1] = Plain(1), Stands(<<x>>, text, p)
        PROVE  Passed(text, from, p, 1)
    <2>1. text[p] = x
      BY <1>2, TokenStands
    <2>2. p <= Len(text)
      <3>1. Len(<<x>>) = 1
        OBVIOUS
      <3>2. p + 1 <= Len(text) + 1 /\ Len(text) \in Nat
        BY <1>2, <3>1, LenProperties DEF Stands
      <3> QED  BY <3>2
    <2>3. Scan(text, from)[p] = Plain(1)
      BY <1>2, <2>1, <2>2, ScanNext, StepsOutside
    <2>4. p + 1 - 1 = p /\ \A j \in p..(p + 1 - 1) : j = p
      OBVIOUS
    <2> QED  BY <2>3, <2>4, Depths DEF Passed
  <1> QED  BY <1>1, <1>2 DEF Passes

LEMMA PassesString ==
  ASSUME NEW t \in Seq(Symbol)
  PROVE  Passes(Written(t), Len(Written(t)))
  <1> DEFINE w == Writing(t)[1]
             l == Len(w)
             n == Len(Written(t))
  <1>1. Written(t) \in Seq(Symbol) /\ l \in Nat /\ n = l + 2
    BY WrittenTyped
  <1>2. Sized(Written(t), n) /\ n \in Nat
    BY <1>1 DEF Sized
  <1>3. ASSUME NEW text \in Seq(Symbol), NEW from \in Nat, NEW p \in Nat, from < p,
               Scan(text, from)[p - 1] = Plain(1), Stands(Written(t), text, p)
        PROVE  Passed(text, from, p, n)
    <2> DEFINE at == Scan(text, from)
               u == p + 1 + l
    <2>1. /\ text[p] = Quote /\ Stands(w, text, p + 1)
          /\ text[u] = Quote /\ u <= Len(text) /\ Len(text) \in Nat
      BY <1>3, WrittenStands, LenProperties
    <2>2. /\ p <= Len(text) /\ from < p + 1 /\ (p + 1) - 1 = p /\ p + 1 \in Nat
          /\ u \in Nat /\ from < u /\ p + 1 + l - 1 = u - 1 /\ p + n - 1 = u
          /\ \A j \in p..u : j = p \/ j \in (p + 1)..(u - 1) \/ j = u
      <3> HIDE DEF l, n
      <3> QED  BY <1>1, <1>3, <2>1
    <2> HIDE DEF u
    <2>3. at[p] = Inside(1)
      BY <1>3, <2>1, <2>2, ScanNext, StepsOutside
    <2>4. at[p + 1 + l - 1] = Inside(1) /\ \A j \in (p + 1)..(p + 1 + l - 1) : at[j].depth = 1
      <3> DEFINE v == p + 1
      <3>1. v \in Nat /\ from < v /\ Scan(text, from)[v - 1] = Inside(1) /\ Stands(w, text, v)
        BY <2>1, <2>2, <2>3
      <3> HIDE DEF v
      <3>2. \A d \in Int : Scan(text, from)[v - 1] = Inside(d) =>
              Within(text, from, v, Len(Writing(t)[1]), d)
        BY <3>1, StringPassed
      <3>3. Within(text, from, v, l, 1)
        BY <3>1, <3>2
      <3>4. /\ at[v + l - 1] = Inside(1)
            /\ \A j \in v..(v + l - 1) : at[j].depth = 1
        BY <3>3 DEF Within
      <3> QED  BY <3>4 DEF v
    <2> HIDE DEF at, l, n
    <2>5. at[u - 1] = Inside(1) /\ \A j \in (p + 1)..(u - 1) : at[j].depth = 1
      BY <2>2, <2>4
    <2>6. at[u] = Plain(1)
      BY <2>1, <2>2, <2>5, ScanNext, StepsInside DEF at
    <2> QED  BY <2>2, <2>3, <2>5, <2>6, Depths DEF Passed, at
  <1> QED  BY <1>2, <1>3 DEF Passes

LEMMA PairIsBoth ==
  ASSUME NEW x \in Symbol, NEW y \in Symbol
  PROVE  <<x, y>> = <<x>> \o <<y>>
  <1> HIDE DEF Symbol
  <1> DEFINE a == <<x>>
             b == <<y>>
  <1>1. a \in Seq(Symbol) /\ b \in Seq(Symbol) /\ Len(a) = 1 /\ Len(b) = 1 /\ a[1] = x /\ b[1] = y
    OBVIOUS
  <1> HIDE DEF a, b
  <1> DEFINE ab == a \o b
  <1>2. /\ ab \in Seq(Symbol) /\ Len(ab) = 2
        /\ \A i \in 1..2 : ab[i] = IF i <= 1 THEN a[i] ELSE b[i - 1]
    <2>1. /\ ab \in Seq(Symbol) /\ Len(ab) = Len(a) + Len(b)
          /\ \A i \in 1..(Len(a) + Len(b)) : ab[i] = IF i <= Len(a) THEN a[i] ELSE b[i - Len(a)]
      BY <1>1, ConcatProperties
    <2> HIDE DEF ab
    <2> QED  BY <1>1, <2>1
  <1> HIDE DEF ab
  <1>3. ab[1] = x /\ ab[2] = y
    BY <1>1, <1>2
  <1>4. ab = <<ab[1], ab[2]>>
    BY <1>2
  <1> QED  BY <1>3, <1>4 DEF ab, a, b

\* A call as CommandAssumption has them, of texts of any length.
Call(c) ==
  /\ c.name \in Seq(Symbol) /\ c.command \in Seq(Symbol)
  /\ c.limit \in {"0", "5", "-1", "none"} /\ c.limitFirst \in BOOLEAN

CommandPart(c) == Written(<<"command">>) \o <<":">> \o Written(c.command)
LimitPart(c) == Written(<<"timeout_seconds">>) \o <<":", c.limit>>
Arguments(c) ==
  IF c.limit = "none" THEN CommandPart(c)
  ELSE IF c.limitFirst THEN LimitPart(c) \o <<Comma>> \o CommandPart(c)
  ELSE CommandPart(c) \o <<Comma>> \o LimitPart(c)

LEMMA CallTextIs ==
  ASSUME NEW c, Call(c)
  PROVE  CallText(c) = Frame(c.name, Arguments(c))
  <1>1. CASE c.limit = "none"
    BY <1>1, Zenon DEF CallText, Frame, Arguments, CommandPart, LimitPart, Comma
  <1>2. CASE c.limit # "none" /\ c.limitFirst
    BY <1>2, Zenon DEF CallText, Frame, Arguments, CommandPart, LimitPart, Comma
  <1>3. CASE c.limit # "none" /\ ~c.limitFirst
    BY <1>3, Zenon DEF CallText, Frame, Arguments, CommandPart, LimitPart, Comma
  <1> QED  BY <1>1, <1>2, <1>3

LEMMA PartsPass ==
  ASSUME NEW c, Call(c)
  PROVE  /\ Passes(CommandPart(c), 4 + Len(Written(c.command)))
         /\ c.limit # "none" => Passes(LimitPart(c), 5)
         /\ Passes(<<Comma>>, 1)
  <1>1. "command" \in KeyWords /\ "timeout_seconds" \in KeyWords
    BY DEF KeyWords
  <1>2. Passes(Written(<<"command">>), 3) /\ Passes(Written(<<"timeout_seconds">>), 3)
    BY <1>1, WordWritten, PassesString
  <1>3. Passes(<<":">>, 1) /\ Passes(<<Comma>>, 1)
    <2>1. ":" \in Symbol /\ Comma \in Symbol
      BY DEF Symbol
    <2>2. ":" \notin {Quote, Open, Close} /\ Comma \notin {Quote, Open, Close}
      BY Zenon DEF Quote, Open, Close, Comma
    <2> QED  BY <2>1, <2>2, PassesToken
  <1>4. c.limit # "none" => Passes(<<":", c.limit>>, 2)
    <2> SUFFICES ASSUME c.limit # "none" PROVE Passes(<<":", c.limit>>, 2)
      OBVIOUS
    <2>1. c.limit \in {"0", "5", "-1"}
      BY DEF Call
    <2>2. c.limit \in Symbol /\ ":" \in Symbol
      BY <2>1 DEF Symbol
    <2>3. c.limit \notin {Quote, Open, Close}
      BY <2>1, Zenon DEF Quote, Open, Close
    <2>4. Passes(<<c.limit>>, 1)
      BY <2>2, <2>3, PassesToken
    <2>5. Passes(<<":">> \o <<c.limit>>, 1 + 1)
      BY <1>3, <2>4, PassesBoth, Zenon
    <2>6. 1 + 1 = 2
      OBVIOUS
    <2> QED  BY <2>2, <2>5, <2>6, PairIsBoth, Zenon
  <1>5. Passes(CommandPart(c), 4 + Len(Written(c.command)))
    <2>1. Passes(Written(c.command), Len(Written(c.command)))
      BY PassesString DEF Call
    <2>2. Passes(Written(<<"command">>) \o <<":">>, 3 + 1)
      BY <1>2, <1>3, PassesBoth, Zenon
    <2>3. 3 + 1 = 4
      OBVIOUS
    <2> QED  BY <2>1, <2>2, <2>3, PassesBoth, Zenon DEF CommandPart
  <1>6. c.limit # "none" => Passes(LimitPart(c), 5)
    <2>1. 3 + 2 = 5
      OBVIOUS
    <2> QED  BY <1>2, <1>4, <2>1, PassesBoth, Zenon DEF LimitPart
  <1> QED  BY <1>3, <1>5, <1>6

LEMMA ArgumentsPass ==
  ASSUME NEW c, Call(c)
  PROVE  Passes(Arguments(c), Len(Arguments(c)))
  <1> DEFINE n == 4 + Len(Written(c.command))
  <1>1. /\ Passes(CommandPart(c), n) /\ Passes(<<Comma>>, 1)
        /\ c.limit # "none" => Passes(LimitPart(c), 5)
    BY PartsPass
  <1> HIDE DEF n
  <1>2. \E m : Passes(Arguments(c), m)
    <2>1. CASE c.limit = "none"
      BY <1>1, <2>1, Zenon DEF Arguments
    <2>2. CASE c.limit # "none" /\ c.limitFirst
      <3>1. Passes(LimitPart(c) \o <<Comma>> \o CommandPart(c), 5 + 1 + n)
        BY <1>1, <2>2, PassesBoth, Zenon
      <3> QED  BY <2>2, <3>1, Zenon DEF Arguments
    <2>3. CASE c.limit # "none" /\ ~c.limitFirst
      <3>1. Passes(CommandPart(c) \o <<Comma>> \o LimitPart(c), n + 1 + 5)
        BY <1>1, <2>3, PassesBoth, Zenon
      <3> QED  BY <2>3, <3>1, Zenon DEF Arguments
    <2> QED  BY <2>1, <2>2, <2>3, Zenon
  <1> QED  BY <1>2, Zenon DEF Passes, Sized

\* The text of a call of terminal.run, and what json_object finds in it.
LEMMA ArgumentsFound ==
  ASSUME NEW c, Call(c), c.name = <<"terminal.run">>, NEW obj,
         obj = JsonObject(CallText(c), "arguments")
  PROVE  /\ obj \in Seq(Symbol) /\ Len(obj) = Len(Arguments(c)) + 2
         /\ Arguments(c) \in Seq(Symbol) /\ Len(Arguments(c)) \in Nat
         /\ obj[1] = Open /\ Stands(Arguments(c), obj, 2) /\ obj[Len(Arguments(c)) + 2] = Close
  <1> DEFINE text == CallText(c)
             a == Arguments(c)
             l == Len(a)
             at == Scan(text, 14)
  <1>1. a \in Seq(Symbol) /\ l \in Nat /\ Passes(a, l)
    BY ArgumentsPass DEF Passes, Sized
  <1>2. c.name \in Seq(Symbol) /\ Len(Written(c.name)) = 3
    <2>1. "terminal.run" \in KeyWords
      BY DEF KeyWords
    <2> QED  BY <2>1, WordWritten DEF Call
  <1>3. /\ text \in Seq(Symbol) /\ Len(text) = 13 + 3 + l
        /\ text[1] = Open
        /\ text[2] = Quote /\ text[3] = "name" /\ text[4] = Quote /\ text[5] = ":"
        /\ Stands(Written(c.name), text, 6)
        /\ text[6 + 3] = Comma /\ text[7 + 3] = Quote /\ text[8 + 3] = "arguments"
        /\ text[9 + 3] = Quote /\ text[10 + 3] = ":" /\ text[11 + 3] = Open
        /\ Stands(a, text, 12 + 3)
        /\ text[12 + 3 + l] = Close /\ text[13 + 3 + l] = Close
    <2>1. text = Frame(c.name, a)
      BY CallTextIs
    <2>2. Sized(a, l)
      BY <1>1 DEF Passes
    <2> HIDE DEF text, a, l, at
    <2>3. LaidOut(text, c.name, Len(Written(c.name)), a, l)
      BY <1>2, <2>1, <2>2, FrameStands, Zenon
    <2>4. LaidOut(text, c.name, 3, a, l)
      BY <1>2, <2>3, Zenon
    <2> QED  BY <2>4 DEF LaidOut
  <1>4. text[6] = Quote /\ text[7] = "terminal.run" /\ text[8] = Quote
    <2>1. "terminal.run" \in KeyWords
      BY DEF KeyWords
    <2>2. Stands(Written(<<"terminal.run">>), text, 6)
      BY <1>3
    <2>3. text[6] = Quote /\ text[6 + 1] = "terminal.run" /\ text[6 + 2] = Quote
      BY <1>3, <2>1, <2>2, WordStands
    <2> QED  BY <2>3
  <1>5. /\ Len(text) = 16 + l /\ text[9] = Comma /\ text[10] = Quote /\ text[11] = "arguments"
        /\ text[12] = Quote /\ text[13] = ":" /\ text[14] = Open
        /\ Stands(a, text, 15) /\ text[15 + l] = Close /\ text[16 + l] = Close
    BY <1>1, <1>3
  <1> HIDE DEF text, a, l, at
  <1>6. FindKey(text, "arguments") = 14
    <2>1. 10 \in 1..(Len(text) - 2) /\ 13 \in (10 + 3)..(Len(text) - 1)
      BY <1>1, <1>5
    <2>2. Key(text, "arguments", 10)
      BY <1>5 DEF Key
    <2>3. ASSUME NEW i \in 1..10, Key(text, "arguments", i) PROVE i = 10
      <3>1. text[i + 1] = "arguments"
        BY <2>3 DEF Key
      <3>2. \A j \in 2..10 : text[j] # "arguments"
        <4>1. Comma # "arguments"
          BY Zenon DEF Comma
        <4>2. \A j \in 2..10 : \/ j = 2 \/ j = 3 \/ j = 4 \/ j = 5 \/ j = 6
                               \/ j = 7 \/ j = 8 \/ j = 9 \/ j = 10
          OBVIOUS
        <4> QED  BY <1>3, <1>4, <1>5, <4>1, <4>2 DEF Quote
      <3> QED  BY <3>1, <3>2
    <2>4. \A i \in 1..10 : Key(text, "arguments", i) =>
            \A j \in (i + 3)..(13 - 1) : text[j] # ":"
      BY <2>3
    <2>5. FindKey(text, "arguments") = 13 + 1
      BY <1>3, <1>5, <2>1, <2>2, <2>4, KeyFound
    <2> QED  BY <2>5
  <1>7. at[14] = Plain(1)
    <2>1. 14 \in 14..Len(text) /\ 14 <= Len(text)
      BY <1>1, <1>5
    <2>2. at[14] = Step(Plain(0), text[14])
      BY <1>3, <2>1, ScanUnrolls DEF at
    <2>3. at[14] = Plain(0 + 1)
      BY <1>5, <2>2, StepsOutside
    <2> QED  BY <2>3
  <1>8. at[14 + l] = Plain(1) /\ \A j \in 15..(14 + l) : at[j].depth = 1
    <2>1. Passed(text, 14, 15, l)
      <3>1. 14 < 15 /\ 15 - 1 = 14
        OBVIOUS
      <3> QED  BY <1>1, <1>3, <1>5, <1>7, <3>1 DEF Passes, at
    <2>2. 15 + l - 1 = 14 + l
      BY <1>1
    <2> QED  BY <2>1, <2>2 DEF Passed, at
  <1>9. at[15 + l] = Plain(0)
    <2>1. 15 + l \in Nat /\ 14 < 15 + l /\ 15 + l <= Len(text) /\ (15 + l) - 1 = 14 + l
      BY <1>1, <1>5
    <2>2. at[15 + l] = Step(at[14 + l], text[15 + l])
      BY <1>3, <2>1, ScanNext DEF at
    <2>3. at[15 + l] = Plain(1 - 1)
      BY <1>5, <1>8, <2>2, StepsOutside
    <2> QED  BY <2>3
  <1> DEFINE S == {i \in From(text, 14) : at[i].depth = 0}
  <1>10. First(S) = 15 + l
    <2>1. S \in SUBSET Nat
      BY <1>1, <1>5 DEF From
    <2>2. 15 + l \in S
      BY <1>1, <1>5, <1>9, Depths DEF From
    <2>3. ASSUME NEW j \in S PROVE 15 + l <= j
      <3>1. j \in Nat /\ j >= 14 /\ at[j].depth = 0
        BY <1>1, <1>5 DEF From
      <3>2. at[14].depth = 1
        BY <1>7, Depths
      <3>3. j # 14 /\ j \notin 15..(14 + l)
        BY <1>8, <3>1, <3>2
      <3> QED  BY <1>1, <3>1, <3>3
    <2> HIDE DEF S
    <2> QED  BY <2>1, <2>2, <2>3, FirstIs
  <1>11. obj = SubSeq(text, 14, 15 + l)
    <2>1. 14 # 0 /\ 15 + l # 0 /\ text[14] = Open
      BY <1>1, <1>5
    <2>2. obj = IF 14 = 0 \/ text[14] # Open \/ First(S) = 0 THEN <<>>
                ELSE SubSeq(text, 14, First(S))
      BY <1>6, Zenon DEF JsonObject, text, at
    <2> HIDE DEF S
    <2> QED  BY <1>10, <2>1, <2>2
  <1>12. /\ obj \in Seq(Symbol) /\ Len(obj) = l + 2
         /\ \A i \in 1..(l + 2) : obj[i] = text[14 + i - 1]
    <2>1. \A i \in 14..(15 + l) : text[i] \in Symbol
      <3>1. \A i \in 14..(15 + l) : i \in 1..Len(text)
        BY <1>1, <1>5
      <3> QED  BY <1>3, <3>1, ElementOfSeq
    <2>2. 15 + l \in Int /\ 14 <= 15 + l /\ (15 + l) - 14 + 1 = l + 2
      BY <1>1
    <2>3. /\ obj \in Seq(Symbol) /\ Len(obj) = (15 + l) - 14 + 1
          /\ \A i \in 1..((15 + l) - 14 + 1) : obj[i] = text[14 + i - 1]
      <3> DEFINE e == 15 + l
      <3> HIDE DEF e
      <3>1. e \in Int /\ 14 <= e /\ \A i \in 14..e : text[i] \in Symbol
        BY <2>1, <2>2 DEF e
      <3>2. /\ SubSeq(text, 14, e) \in Seq(Symbol)
            /\ Len(SubSeq(text, 14, e)) = IF 14 <= e THEN e - 14 + 1 ELSE 0
            /\ \A i \in 1..(e - 14 + 1) : SubSeq(text, 14, e)[i] = text[14 + i - 1]
        BY <3>1, SubSeqProperties
      <3> QED  BY <1>11, <3>1, <3>2 DEF e
    <2> QED  BY <2>2, <2>3
  <1>13. obj[1] = Open
    <2>1. 1 \in 1..(l + 2) /\ 14 + 1 - 1 = 14
      BY <1>1
    <2> QED  BY <1>5, <1>12, <2>1
  <1>14. obj[l + 2] = Close
    <2>1. l + 2 \in 1..(l + 2) /\ 14 + (l + 2) - 1 = 15 + l
      BY <1>1
    <2> QED  BY <1>5, <1>12, <2>1
  <1>15. Stands(a, obj, 2)
    <2>1. ASSUME NEW i \in 1..l PROVE obj[2 + i - 1] = a[i]
      <3>1. 2 + i - 1 \in 1..(l + 2) /\ 14 + (2 + i - 1) - 1 = 15 + i - 1
        BY <1>1
      <3>2. text[15 + i - 1] = a[i]
        BY <1>5 DEF Stands, l
      <3> QED  BY <1>12, <3>1, <3>2
    <2> QED  BY <1>1, <1>12, <2>1 DEF Stands, l
  <1> QED  BY <1>1, <1>12, <1>13, <1>14, <1>15 DEF a, l

-----------------------------------------------------------------------------
(* What is read in the text of a call. *)

LEMMA Differ ==
  /\ Comma # Quote /\ Comma # ":" /\ Comma # "timeout_seconds" /\ Comma # "command"
  /\ Close # Quote /\ Close # ":" /\ Close # "timeout_seconds"
  /\ Escape # "timeout_seconds" /\ Quote # "timeout_seconds" /\ Quote # "command"
  /\ Quote # ":" /\ "command" # "timeout_seconds"
  /\ ":" # "timeout_seconds" /\ ":" # "command"
  BY Zenon DEF Comma, Close, Quote, Escape

LEMMA NameRead ==
  ASSUME NEW c, Call(c)
  PROVE  JsonString(CallText(c), "name") = c.name
  <1> DEFINE text == CallText(c)
             a == Arguments(c)
  <1>1. Sized(a, Len(a)) /\ c.name \in Seq(Symbol)
    BY ArgumentsPass DEF Passes, Call
  <1>2. LaidOut(text, c.name, Len(Written(c.name)), a, Len(a))
    BY <1>1, CallTextIs, FrameStands, Zenon
  <1>3. /\ text \in Seq(Symbol) /\ text[2] = Quote /\ text[3] = "name" /\ text[4] = Quote
        /\ text[5] = ":" /\ Stands(Written(c.name), text, 6)
        /\ Len(text) = 13 + Len(Written(c.name)) + Len(a)
        /\ Len(Written(c.name)) \in Nat /\ Len(a) \in Nat
    BY <1>1, <1>2, WrittenTyped, LenProperties DEF LaidOut, Sized
  <1> HIDE DEF text, a
  <1>4. FindKey(text, "name") = 6
    <2>1. 2 \in 1..(Len(text) - 2) /\ 5 \in (2 + 3)..(Len(text) - 1)
      BY <1>3
    <2>2. Key(text, "name", 2)
      BY <1>3 DEF Key
    <2>3. \A i \in 1..2 : \A j \in (i + 3)..(5 - 1) : text[j] # ":"
      BY <1>3, Differ
    <2>4. FindKey(text, "name") = 5 + 1
      BY <1>3, <2>1, <2>2, <2>3, KeyFound
    <2> QED  BY <2>4
  <1>5. JsonString(text, "name") = c.name
    BY <1>1, <1>3, <1>4, StringRead
  <1> QED  BY <1>5 DEF text

\* The pieces of the arguments, where they stand.
LEMMA CommandStands ==
  ASSUME NEW c, Call(c), NEW text \in Seq(Symbol), NEW p \in Nat, Stands(CommandPart(c), text, p)
  PROVE  /\ text[p] = Quote /\ text[p + 1] = "command" /\ text[p + 2] = Quote
         /\ text[p + 3] = ":" /\ Stands(Written(c.command), text, p + 4)
  <1> DEFINE w == Written(<<"command">>)
             m == Written(c.command)
             n == Len(m)
  <1>1. "command" \in KeyWords /\ ":" \in Symbol
    BY DEF KeyWords, Symbol
  <1>2. Sized(w, 3) /\ Sized(<<":">>, 1) /\ Sized(m, n)
    <2>1. Sized(w, 3)
      BY <1>1, WordWritten DEF Sized
    <2>2. Sized(<<":">>, 1)
      BY <1>1, SizedTokens
    <2>3. c.command \in Seq(Symbol)
      BY DEF Call
    <2>4. m \in Seq(Symbol) /\ n \in Nat
      BY <2>3, WrittenTyped, LenProperties
    <2> QED  BY <2>1, <2>2, <2>4 DEF Sized
  <1>3. Sized(w \o <<":">>, 3 + 1)
    BY <1>2, SizedBoth, Zenon
  <1>4. CommandPart(c) = (w \o <<":">>) \o m
    BY Zenon DEF CommandPart
  <1> HIDE DEF w, m, n
  <1>5. Stands(w \o <<":">>, text, p) /\ Stands(m, text, p + (3 + 1))
    BY <1>2, <1>3, <1>4, StandsBoth, Zenon
  <1>6. Stands(w, text, p) /\ Stands(<<":">>, text, p + 3)
    BY <1>2, <1>5, StandsBoth, Zenon
  <1>7. text[p] = Quote /\ text[p + 1] = "command" /\ text[p + 2] = Quote
    BY <1>1, <1>6, WordStands DEF w
  <1>8. text[p + 3] = ":"
    BY <1>6, TokenStands
  <1>9. p + (3 + 1) = p + 4
    OBVIOUS
  <1> QED  BY <1>5, <1>7, <1>8, <1>9 DEF m

LEMMA LimitStands ==
  ASSUME NEW c, Call(c), c.limit # "none", NEW text \in Seq(Symbol), NEW p \in Nat,
         Stands(LimitPart(c), text, p)
  PROVE  /\ text[p] = Quote /\ text[p + 1] = "timeout_seconds" /\ text[p + 2] = Quote
         /\ text[p + 3] = ":" /\ text[p + 4] = c.limit
  <1> DEFINE w == Written(<<"timeout_seconds">>)
             l == <<":", c.limit>>
  <1>1. "timeout_seconds" \in KeyWords /\ ":" \in Symbol /\ c.limit \in Symbol
    BY DEF KeyWords, Symbol, Call
  <1>2. Sized(w, 3) /\ Sized(l, 2)
    BY <1>1, WordWritten, SizedTokens DEF Sized
  <1>3. LimitPart(c) = w \o l
    BY Zenon DEF LimitPart
  <1> HIDE DEF w, l
  <1>4. Stands(w, text, p) /\ Stands(l, text, p + 3)
    BY <1>2, <1>3, StandsBoth, Zenon
  <1>5. text[p] = Quote /\ text[p + 1] = "timeout_seconds" /\ text[p + 2] = Quote
    BY <1>1, <1>4, WordStands DEF w
  <1>6. text[p + 3] = ":" /\ text[p + 3 + 1] = c.limit
    BY <1>4, PairStands DEF l
  <1>7. p + 3 + 1 = p + 4
    OBVIOUS
  <1> QED  BY <1>5, <1>6, <1>7

\* The arguments in the order they were written in.
CommandOnly(c, obj, n) ==
  Stands(CommandPart(c), obj, 2) /\ Len(obj) = 6 + n /\ obj[6 + n] = Close
LimitFirst(c, obj, n) ==
  /\ Stands(LimitPart(c), obj, 2) /\ obj[7] = Comma
  /\ Stands(CommandPart(c), obj, 8) /\ Len(obj) = 12 + n
CommandFirst(c, obj, n) ==
  /\ Stands(CommandPart(c), obj, 2) /\ obj[6 + n] = Comma
  /\ Stands(LimitPart(c), obj, 7 + n) /\ Len(obj) = 12 + n /\ obj[12 + n] = Close

LEMMA ArgumentsOrdered ==
  ASSUME NEW c, Call(c), c.name = <<"terminal.run">>, NEW obj,
         obj = JsonObject(CallText(c), "arguments"), NEW n, n = Len(Written(c.command))
  PROVE  /\ obj \in Seq(Symbol) /\ n \in Nat
         /\ c.limit = "none" => CommandOnly(c, obj, n)
         /\ c.limit # "none" /\ c.limitFirst => LimitFirst(c, obj, n)
         /\ c.limit # "none" /\ ~c.limitFirst => CommandFirst(c, obj, n)
  <1> DEFINE a == Arguments(c)
             command == CommandPart(c)
             limit == LimitPart(c)
             comma == <<Comma>>
  <1>1. /\ obj \in Seq(Symbol) /\ Len(obj) = Len(a) + 2 /\ Len(a) \in Nat
        /\ Stands(a, obj, 2) /\ obj[Len(a) + 2] = Close
    BY ArgumentsFound
  <1>2. n \in Nat
    BY WrittenTyped, LenProperties DEF Call
  <1>3. Sized(command, 4 + n) /\ Sized(comma, 1) /\ (c.limit # "none" => Sized(limit, 5))
    BY PartsPass DEF Passes
  <1>4. /\ c.limit = "none" => a = command
        /\ c.limit # "none" /\ c.limitFirst => a = (limit \o comma) \o command
        /\ c.limit # "none" /\ ~c.limitFirst => a = (command \o comma) \o limit
    BY Zenon DEF Arguments
  <1> HIDE DEF a, command, limit, comma
  <1>5. CASE c.limit = "none"
    <2>1. Len(a) = 4 + n
      BY <1>3, <1>4, <1>5 DEF Sized
    <2>2. Len(a) + 2 = 6 + n
      BY <1>2, <2>1
    <2>3. CommandOnly(c, obj, n)
      BY <1>1, <1>4, <1>5, <2>2 DEF CommandOnly, command
    <2> QED  BY <1>1, <1>2, <1>5, <2>3
  <1>6. CASE c.limit # "none" /\ c.limitFirst
    <2>1. Sized(limit \o comma, 5 + 1) /\ Sized(a, (5 + 1) + (4 + n))
      BY <1>3, <1>4, <1>6, SizedBoth, Zenon
    <2>2. Len(obj) = 12 + n
      BY <1>1, <1>2, <2>1 DEF Sized
    <2>3. Stands(limit \o comma, obj, 2) /\ Stands(command, obj, 2 + (5 + 1))
      <3>1. Stands((limit \o comma) \o command, obj, 2)
        BY <1>1, <1>4, <1>6, Zenon
      <3> QED  BY <1>1, <1>3, <2>1, <3>1, StandsBoth, Zenon
    <2>4. Stands(limit, obj, 2) /\ Stands(comma, obj, 2 + 5)
      BY <1>1, <1>3, <1>6, <2>3, StandsBoth, Zenon
    <2>5. 2 + (5 + 1) = 8 /\ 2 + 5 = 7
      OBVIOUS
    <2>6. obj[7] = Comma
      BY <2>4, <2>5, TokenStands DEF comma
    <2>7. LimitFirst(c, obj, n)
      BY <2>2, <2>3, <2>4, <2>5, <2>6 DEF LimitFirst, command, limit
    <2> QED  BY <1>1, <1>2, <1>6, <2>7
  <1>7. CASE c.limit # "none" /\ ~c.limitFirst
    <2>1. Sized(command \o comma, (4 + n) + 1) /\ Sized(a, ((4 + n) + 1) + 5)
      BY <1>3, <1>4, <1>7, SizedBoth, Zenon
    <2>2. Len(a) + 2 = 12 + n
      BY <1>1, <1>2, <2>1 DEF Sized
    <2>3. Stands(command \o comma, obj, 2) /\ Stands(limit, obj, 2 + ((4 + n) + 1))
      <3>1. Stands((command \o comma) \o limit, obj, 2) /\ Sized(limit, 5)
        BY <1>1, <1>3, <1>4, <1>7, Zenon
      <3> QED  BY <1>1, <2>1, <3>1, StandsBoth, Zenon
    <2>4. Stands(command, obj, 2) /\ Stands(comma, obj, 2 + (4 + n))
      BY <1>1, <1>3, <2>3, StandsBoth, Zenon
    <2>5. 2 + ((4 + n) + 1) = 7 + n /\ 2 + (4 + n) = 6 + n
      BY <1>2
    <2>6. obj[6 + n] = Comma
      BY <2>4, <2>5, TokenStands DEF comma
    <2>7. CommandFirst(c, obj, n)
      BY <1>1, <2>2, <2>3, <2>4, <2>5, <2>6 DEF CommandFirst, command, limit
    <2> QED  BY <1>1, <1>2, <1>7, <2>7
  <1>8. c.limitFirst \in BOOLEAN
    BY DEF Call
  <1> QED  BY <1>5, <1>6, <1>7, <1>8

\* The command that is read is the one that was written.
LEMMA CommandRead ==
  ASSUME NEW c, Call(c), c.name = <<"terminal.run">>
  PROVE  JsonString(JsonObject(CallText(c), "arguments"), "command") = c.command
  <1> DEFINE obj == JsonObject(CallText(c), "arguments")
             n == Len(Written(c.command))
  <1>1. /\ obj \in Seq(Symbol) /\ n \in Nat
        /\ c.limit = "none" => CommandOnly(c, obj, n)
        /\ c.limit # "none" /\ c.limitFirst => LimitFirst(c, obj, n)
        /\ c.limit # "none" /\ ~c.limitFirst => CommandFirst(c, obj, n)
    BY ArgumentsOrdered
  <1>2. c.command \in Seq(Symbol) /\ c.limitFirst \in BOOLEAN
    BY DEF Call
  <1> HIDE DEF obj, n
  <1>3. CASE Stands(CommandPart(c), obj, 2) /\ Len(obj) >= 6 + n
    <2>1. /\ obj[2] = Quote /\ obj[2 + 1] = "command" /\ obj[2 + 2] = Quote
          /\ obj[2 + 3] = ":" /\ Stands(Written(c.command), obj, 2 + 4)
      BY <1>1, <1>3, CommandStands
    <2>2. /\ obj[2] = Quote /\ obj[3] = "command" /\ obj[4] = Quote
          /\ obj[5] = ":" /\ Stands(Written(c.command), obj, 6) /\ Len(obj) \in Nat
      BY <1>1, <2>1, LenProperties
    <2>3. 2 \in 1..(Len(obj) - 2) /\ 5 \in (2 + 3)..(Len(obj) - 1)
      BY <1>1, <1>3, <2>2
    <2>4. Key(obj, "command", 2)
      BY <2>2 DEF Key
    <2>5. \A i \in 1..2 : \A j \in (i + 3)..(5 - 1) : obj[j] # ":"
      BY <2>2, Differ
    <2>6. FindKey(obj, "command") = 5 + 1
      BY <1>1, <2>2, <2>3, <2>4, <2>5, KeyFound
    <2> QED  BY <1>1, <1>2, <2>2, <2>6, StringRead DEF obj
  <1>4. CASE c.limit # "none" /\ c.limitFirst
    <2>1. /\ Stands(LimitPart(c), obj, 2) /\ obj[7] = Comma
          /\ Stands(CommandPart(c), obj, 8) /\ Len(obj) = 12 + n
      BY <1>1, <1>4 DEF LimitFirst
    <2>2. /\ obj[2] = Quote /\ obj[2 + 1] = "timeout_seconds" /\ obj[2 + 2] = Quote
          /\ obj[2 + 3] = ":" /\ obj[2 + 4] = c.limit
      BY <1>1, <1>4, <2>1, LimitStands
    <2>3. /\ obj[8] = Quote /\ obj[8 + 1] = "command" /\ obj[8 + 2] = Quote
          /\ obj[8 + 3] = ":" /\ Stands(Written(c.command), obj, 8 + 4)
      BY <1>1, <2>1, CommandStands
    <2>4. /\ obj[2] = Quote /\ obj[3] = "timeout_seconds" /\ obj[4] = Quote
          /\ obj[5] = ":" /\ obj[6] = c.limit
          /\ obj[8] = Quote /\ obj[9] = "command" /\ obj[10] = Quote
          /\ obj[11] = ":" /\ Stands(Written(c.command), obj, 12)
      BY <2>2, <2>3
    <2>5. 8 \in 1..(Len(obj) - 2) /\ 11 \in (8 + 3)..(Len(obj) - 1)
      BY <1>1, <2>1
    <2>6. Key(obj, "command", 8)
      BY <2>4 DEF Key
    <2>7. ASSUME NEW i \in 1..8, Key(obj, "command", i) PROVE i = 8
      <3>1. obj[i + 1] = "command" /\ obj[i] = Quote /\ obj[i + 2] = Quote
        BY <2>7 DEF Key
      <3>2. i + 1 \in 2..9
        OBVIOUS
      <3>3. i + 1 # 6
        <4>1. c.limit # "command"
          BY DEF Call
        <4> QED  BY <2>4, <3>1, <4>1
      <3>4. \A j \in {2, 3, 4, 5, 7, 8} : obj[j] # "command"
        BY <2>1, <2>4, Differ
      <3>5. \A j \in 2..9 : j \in {2, 3, 4, 5, 7, 8} \/ j = 6 \/ j = 9
        OBVIOUS
      <3> QED  BY <3>1, <3>2, <3>3, <3>4, <3>5
    <2>8. \A i \in 1..8 : Key(obj, "command", i) =>
            \A j \in (i + 3)..(11 - 1) : obj[j] # ":"
      BY <2>7
    <2>9. FindKey(obj, "command") = 11 + 1
      BY <1>1, <2>4, <2>5, <2>6, <2>8, KeyFound
    <2> QED  BY <1>1, <1>2, <2>4, <2>9, StringRead DEF obj
  <1>5. CASE c.limit = "none"
    BY <1>1, <1>3, <1>5 DEF CommandOnly
  <1>6. CASE c.limit # "none" /\ ~c.limitFirst
    BY <1>1, <1>3, <1>6 DEF CommandFirst
  <1> QED  BY <1>2, <1>4, <1>5, <1>6

\* A string that reads like the other key, after the command's, is the end of
\* the command or comes after it.
LEMMA KeyAfterCommand ==
  ASSUME NEW c, Call(c), NEW obj \in Seq(Symbol), Stands(CommandPart(c), obj, 2),
         NEW n, n = Len(Written(c.command)),
         NEW i \in Nat \ {0}, Key(obj, "timeout_seconds", i)
  PROVE  i >= 3 + n
  <1> DEFINE w == Writing(c.command)[1]
             l == Len(w)
  <1>1. c.command \in Seq(Symbol)
    BY DEF Call
  <1>2. w \in Seq(Symbol) /\ l \in Nat /\ n = l + 2
    BY <1>1, WrittenTyped, LenProperties
  <1>3. /\ obj[2] = Quote /\ obj[2 + 1] = "command" /\ obj[2 + 2] = Quote
        /\ obj[2 + 3] = ":" /\ Stands(Written(c.command), obj, 2 + 4)
    BY CommandStands
  <1>4. /\ obj[2] = Quote /\ obj[3] = "command" /\ obj[4] = Quote /\ obj[5] = ":"
        /\ Stands(Written(c.command), obj, 6)
    BY <1>3
  <1>5. obj[6] = Quote /\ Stands(w, obj, 6 + 1)
    BY <1>1, <1>4, WrittenStands
  <1>6. \A q \in 7..(7 + l - 1) : obj[q] = Quote => q > 7 /\ obj[q - 1] = Escape
    <2>1. Stands(w, obj, 7)
      BY <1>5
    <2> QED  BY <1>1, <2>1, QuotesEscaped
  <1> HIDE DEF w, l
  <1>7. obj[i + 1] = "timeout_seconds" /\ obj[i + 2] = Quote
    BY DEF Key
  <1>8. i + 1 \notin 2..6
    <2>1. \A j \in 2..6 : j = 2 \/ j = 3 \/ j = 4 \/ j = 5 \/ j = 6
      OBVIOUS
    <2> QED  BY <1>4, <1>5, <1>7, <2>1, Differ
  <1>9. i + 2 \notin 8..(7 + l - 1)
    <2>1. SUFFICES ASSUME i + 2 \in 8..(7 + l - 1) PROVE FALSE
      OBVIOUS
    <2>2. i + 2 \in 7..(7 + l - 1) /\ (i + 2) - 1 = i + 1
      BY <1>2, <2>1
    <2>3. obj[(i + 2) - 1] = Escape
      BY <1>6, <1>7, <2>2
    <2> QED  BY <1>7, <2>2, <2>3, Differ
  <1> QED  BY <1>2, <1>8, <1>9

LEMMA NumberRead ==
  ASSUME NEW obj, NEW x \in {"0", "5", "-1"}, JsonString(obj, "timeout_seconds") = <<x>>
  PROVE  JsonInt(obj, "timeout_seconds", 120) = Numbers[x]
  <1>1. x \in DOMAIN Numbers
    BY DEF Numbers
  <1>2. <<x>> # <<>> /\ <<x>>[1] = x
    OBVIOUS
  <1> QED  BY <1>1, <1>2 DEF JsonInt

LEMMA LimitPlain ==
  ASSUME NEW c, Call(c), c.limit # "none"
  PROVE  c.limit \in {"0", "5", "-1"} /\ c.limit # Quote /\ ~Stops(c.limit)
  <1>1. c.limit \in {"0", "5", "-1"}
    BY DEF Call
  <1>2. "0" # Quote /\ "5" # Quote /\ "-1" # Quote
    BY DEF Quote
  <1> QED  BY <1>1, <1>2, WhatStops

\* The limit that is read is the one that was written, or the default.
LEMMA LimitRead ==
  ASSUME NEW c, Call(c), c.name = <<"terminal.run">>
  PROVE  JsonInt(JsonObject(CallText(c), "arguments"), "timeout_seconds", 120) =
           IF c.limit = "none" THEN 120 ELSE Numbers[c.limit]
  <1> DEFINE obj == JsonObject(CallText(c), "arguments")
             n == Len(Written(c.command))
             key == "timeout_seconds"
  <1>1. /\ obj \in Seq(Symbol) /\ n \in Nat
        /\ c.limit = "none" => CommandOnly(c, obj, n)
        /\ c.limit # "none" /\ c.limitFirst => LimitFirst(c, obj, n)
        /\ c.limit # "none" /\ ~c.limitFirst => CommandFirst(c, obj, n)
    BY ArgumentsOrdered
  <1>2. c.limitFirst \in BOOLEAN
    BY DEF Call
  <1>3. Stands(CommandPart(c), obj, 2) =>
          \A i \in Nat \ {0} : Key(obj, key, i) => i >= 3 + n
    BY <1>1, KeyAfterCommand
  <1> HIDE DEF obj, n
  <1>4. ASSUME c.limit # "none", JsonString(obj, key) = <<c.limit>>
        PROVE  JsonInt(obj, key, 120) = Numbers[c.limit]
    BY <1>4, LimitPlain, NumberRead
  <1>5. CASE c.limit = "none"
    <2>1. Stands(CommandPart(c), obj, 2) /\ Len(obj) = 6 + n /\ obj[6 + n] = Close
      BY <1>1, <1>5 DEF CommandOnly
    <2>2. ASSUME NEW i \in 1..(Len(obj) - 2), Key(obj, key, i),
                 NEW j \in (i + 3)..Len(obj)
          PROVE  obj[j] # ":"
      <3>1. i >= 3 + n /\ obj[i + 2] = Quote
        BY <1>1, <1>3, <2>1, <2>2 DEF Key
      <3>2. i + 2 # 6 + n
        BY <2>1, <3>1, Differ
      <3>3. j = 6 + n
        BY <1>1, <2>1, <3>1, <3>2
      <3> QED  BY <2>1, <3>3, Differ
    <2>3. FindKey(obj, key) = 0
      BY <1>1, <2>2, KeyMissing
    <2>4. JsonString(obj, key) = <<>>
      BY <2>3, Zenon DEF JsonString
    <2>5. JsonInt(obj, key, 120) = 120
      BY <2>4, Zenon DEF JsonInt
    <2> QED  BY <1>5, <2>5 DEF obj
  <1>6. CASE c.limit # "none" /\ c.limitFirst
    <2>1. Stands(LimitPart(c), obj, 2) /\ obj[7] = Comma /\ Len(obj) = 12 + n
      BY <1>1, <1>6 DEF LimitFirst
    <2>2. /\ obj[2] = Quote /\ obj[2 + 1] = key /\ obj[2 + 2] = Quote
          /\ obj[2 + 3] = ":" /\ obj[2 + 4] = c.limit
      BY <1>1, <1>6, <2>1, LimitStands
    <2>3. /\ obj[2] = Quote /\ obj[3] = key /\ obj[4] = Quote
          /\ obj[5] = ":" /\ obj[6] = c.limit
      BY <2>2
    <2>4. 2 \in 1..(Len(obj) - 2) /\ 5 \in (2 + 3)..(Len(obj) - 1)
      BY <1>1, <2>1
    <2>5. Key(obj, key, 2)
      BY <2>3 DEF Key
    <2>6. \A i \in 1..2 : \A j \in (i + 3)..(5 - 1) : obj[j] # ":"
      BY <2>3, Differ
    <2>7. FindKey(obj, key) = 5 + 1
      BY <1>1, <2>3, <2>4, <2>5, <2>6, KeyFound
    <2>8. JsonString(obj, key) = <<obj[6]>>
      <3>1. FindKey(obj, key) = 6 /\ 6 > 0 /\ 6 + 1 <= Len(obj)
        BY <1>1, <2>1, <2>7
      <3>2. obj[6] # Quote /\ ~Stops(obj[6]) /\ Stops(obj[6 + 1])
        BY <1>6, <2>1, <2>3, LimitPlain, WhatStops
      <3> QED  BY <1>1, <3>1, <3>2, BareRead
    <2> QED  BY <1>4, <1>6, <2>3, <2>8 DEF obj
  <1>7. CASE c.limit # "none" /\ ~c.limitFirst
    <2>1. /\ Stands(CommandPart(c), obj, 2) /\ obj[6 + n] = Comma
          /\ Stands(LimitPart(c), obj, 7 + n) /\ Len(obj) = 12 + n /\ obj[12 + n] = Close
      BY <1>1, <1>7 DEF CommandFirst
    <2> DEFINE p == 7 + n
    <2>2. p \in Nat /\ p + 1 = 8 + n /\ p + 2 = 9 + n /\ p + 3 = 10 + n /\ p + 4 = 11 + n
      BY <1>1
    <2>3. /\ obj[p] = Quote /\ obj[p + 1] = key /\ obj[p + 2] = Quote
          /\ obj[p + 3] = ":" /\ obj[p + 4] = c.limit
      <3>1. Stands(LimitPart(c), obj, p)
        BY <2>1
      <3> HIDE DEF p
      <3> QED  BY <1>1, <1>7, <2>2, <3>1, LimitStands
    <2>4. p \in 1..(Len(obj) - 2) /\ p + 3 \in (p + 3)..(Len(obj) - 1)
      <3>1. p = 7 + n /\ Len(obj) = 12 + n /\ n \in Nat
        BY <1>1, <2>1
      <3> HIDE DEF p
      <3> QED  BY <3>1
    <2>5. Key(obj, key, p)
      BY <2>3 DEF Key
    <2>6. ASSUME NEW i \in 1..p, Key(obj, key, i), NEW j \in (i + 3)..((p + 3) - 1)
          PROVE  obj[j] # ":"
      <3>1. i \in Nat \ {0} /\ i >= 3 + n /\ j <= 9 + n /\ j >= 6 + n
        <4>1. i \in Nat \ {0}
          BY <2>2
        <4>2. i >= 3 + n
          BY <1>3, <2>1, <2>6, <4>1
        <4> QED  BY <1>1, <4>1, <4>2
      <3>2. j = 6 + n \/ j = p \/ j = p + 1 \/ j = p + 2
        BY <1>1, <3>1
      <3> QED  BY <2>1, <2>3, <3>2, Differ
    <2> DEFINE k == p + 3
    <2>7. k \in (p + 3)..(Len(obj) - 1) /\ obj[k] = ":"
      BY <2>3, <2>4
    <2>8. \A i \in 1..p : Key(obj, key, i) => \A j \in (i + 3)..(k - 1) : obj[j] # ":"
      BY <2>6
    <2> HIDE DEF k, p
    <2>9. FindKey(obj, key) = k + 1
      BY <1>1, <2>4, <2>5, <2>7, <2>8, KeyFound
    <2> DEFINE v == 11 + n
    <2>10. v \in Nat /\ k + 1 = v /\ v > 0 /\ v + 1 = 12 + n /\ p + 4 = v
      BY <1>1 DEF k, p
    <2> HIDE DEF v
    <2>11. JsonString(obj, key) = <<obj[v]>>
      <3>1. FindKey(obj, key) = v /\ v + 1 <= Len(obj)
        BY <1>1, <2>1, <2>9, <2>10
      <3>2. obj[v] # Quote /\ ~Stops(obj[v]) /\ Stops(obj[v + 1])
        BY <1>7, <2>1, <2>3, <2>10, LimitPlain, WhatStops
      <3> QED  BY <1>1, <2>10, <3>1, <3>2, BareRead
    <2> QED  BY <1>4, <1>7, <2>3, <2>10, <2>11 DEF obj
  <1> QED  BY <1>2, <1>5, <1>6, <1>7

-----------------------------------------------------------------------------
(* A call is honoured. *)

HonouredInv ==
  /\ call \in Calls
  /\ pc = "elsewhere" => call.name # <<"terminal.run">>
  /\ pc \notin Unrun =>
       /\ call.name = <<"terminal.run">> /\ asked.command = call.command
       /\ asked.limit = IF call.limit = "none" THEN 120 ELSE Numbers[call.limit]

LEMMA CallsAre ==
  ASSUME NEW c \in Calls
  PROVE  Call(c)
  <1>1. c \in [name : Seq(STRING), command : Seq(STRING),
               limit : DOMAIN Numbers \cup {"none"}, limitFirst : BOOLEAN]
    BY CommandAssumption DEF CommandAssumption
  <1>2. DOMAIN Numbers = {"0", "5", "-1"}
    BY DEF Numbers
  <1>3. STRING \subseteq Symbol
    BY DEF Symbol
  <1> HIDE DEF Symbol
  <1>4. c.name \in Seq(STRING) /\ c.command \in Seq(STRING)
    BY <1>1
  <1>5. c.name \in Seq(Symbol) /\ c.command \in Seq(Symbol)
    BY <1>3, <1>4, SeqMonotonic
  <1>6. c.limit \in {"0", "5", "-1", "none"} /\ c.limitFirst \in BOOLEAN
    BY <1>1, <1>2
  <1> QED  BY <1>5, <1>6 DEF Call

LEMMA HonouredNext == HonouredInv /\ [Next]_vars => HonouredInv'
  <1> SUFFICES ASSUME HonouredInv, [Next]_vars PROVE HonouredInv'
    OBVIOUS
  <1>1. CASE Execute
    <2>1. call \in Calls /\ call' = call /\ Call(call)
      BY <1>1, CallsAre DEF Execute, HonouredInv
    <2>2. CASE pc' = "refused"
      BY <2>1, <2>2 DEF HonouredInv, Unrun
    <2>4. CASE pc' = "elsewhere"
      <3>1. JsonString(CallText(call), "name") # <<"terminal.run">>
        BY <1>1, <2>4, Zenon DEF Execute
      <3>2. call.name # <<"terminal.run">>
        BY <2>1, <3>1, NameRead
      <3> QED  BY <2>1, <2>4, <3>2 DEF HonouredInv, Unrun
    <2>3. CASE pc' \notin {"refused", "elsewhere"}
      <3> DEFINE text == CallText(call)
                 arguments == JsonObject(text, "arguments")
      <3>1. /\ JsonString(text, "name") = <<"terminal.run">>
            /\ asked' = [command |-> JsonString(arguments, "command"),
                         limit |-> JsonInt(arguments, "timeout_seconds", 120)]
        BY <1>1, <2>3, Zenon DEF Execute
      <3>4. pc' = "wait"
        BY <1>1, <2>3, Zenon DEF Execute
      <3>2. call.name = <<"terminal.run">>
        BY <2>1, <3>1, NameRead
      <3>3. /\ JsonString(arguments, "command") = call.command
            /\ JsonInt(arguments, "timeout_seconds", 120) =
                 IF call.limit = "none" THEN 120 ELSE Numbers[call.limit]
        BY <2>1, <3>2, CommandRead, LimitRead
      <3> HIDE DEF arguments
      <3> QED  BY <2>1, <3>1, <3>2, <3>3, <3>4 DEF HonouredInv, Unrun
    <2> QED  BY <2>2, <2>3, <2>4
  <1>2. CASE Parent \/ Failure \/ Command \/ DeadlinePasses
    <2>1. call' = call /\ asked' = asked
      BY <1>2 DEF Parent, Wait, Poll, Read, Deadline, Drain, Failure, WaitFails, ReadFails,
                  Command, Write, Silence, Start, Exit, DeadlinePasses, request
    <2>2. (pc' \notin Unrun => pc \notin Unrun) /\ (pc' = "elsewhere" => pc = "elsewhere")
      BY <1>2 DEF Parent, Wait, Poll, Read, Deadline, Drain, Failure, WaitFails, ReadFails,
                  Command, Write, Silence, Start, Exit, DeadlinePasses, Unrun
    <2> QED  BY <2>1, <2>2 DEF HonouredInv
  <1>3. CASE UNCHANGED vars
    BY <1>3 DEF vars, request, HonouredInv
  <1> QED  BY <1>1, <1>2, <1>3 DEF Next

\* What the voice meant is what is run, whatever is in its command: of any call,
\* with a command and a name of any length and any words, in any order of the
\* arguments, json_string, json_object and json_int find the command and the
\* limit that were written, and a call of the terminal is never refused for want
\* of a command it has (tool_engine.cpp:300-316, 328-422).
THEOREM EveryCallHonoured == Spec => []CallHonoured
  <1>1. Init => HonouredInv
    BY DEF Init, HonouredInv, Unrun
  <1>2. HonouredInv => CallHonoured
    <2>1. ASSUME HonouredInv, call.name = <<"terminal.run">>, call.command # <<>>
          PROVE  JsonString(JsonObject(CallText(call), "arguments"), "command") # <<>>
      BY <2>1, CallsAre, CommandRead DEF HonouredInv
    <2> QED  BY <2>1 DEF HonouredInv, CallHonoured, Unrun
  <1> QED  BY <1>1, <1>2, HonouredNext, PTL DEF Spec
-----------------------------------------------------------------------------
(* The parser's searches. *)

\* What find gives: the first place of a marker, if it is there.
LEMMA FindIs ==
  ASSUME NEW X, NEW text \in Seq(X), NEW mark, NEW from \in Nat \ {0}
  PROVE  LET f == Find(text, mark, from)
         IN  /\ f \in Nat
             /\ f = 0 => \A i \in from..Len(text) : text[i].mark # mark
             /\ f # 0 => /\ f \in from..Len(text) /\ text[f].mark = mark
                         /\ \A i \in from..(f - 1) : text[i].mark # mark
  <1> DEFINE found == {i \in from..Len(text) : text[i].mark = mark}
             f == Find(text, mark, from)
  <1>1. found \in SUBSET Nat /\ Len(text) \in Nat
    OBVIOUS
  <1>2. f = IF found = {} THEN 0 ELSE CHOOSE i \in found : \A j \in found : i <= j
    BY DEF Find
  <1>3. CASE found = {}
    <2>1. f = 0
      BY <1>2, <1>3, Zenon
    <2>2. \A i \in from..Len(text) : text[i].mark # mark
      BY <1>3
    <2> QED  BY <2>1, <2>2
  <1>4. CASE found # {}
    <2>1. \E i \in found : \A j \in found : i <= j
      BY <1>1, <1>4, Smallest
    <2>2. f \in found /\ \A j \in found : f <= j
      <3> HIDE DEF found, f
      <3> QED  BY <1>2, <1>4, <2>1, Zenon
    <2> HIDE DEF f
    <2>3. f \in from..Len(text) /\ text[f].mark = mark /\ f # 0 /\ f \in Nat
      BY <1>1, <2>2
    <2>4. ASSUME NEW i \in from..(f - 1) PROVE text[i].mark # mark
      <3>1. i \in from..Len(text) /\ ~(f <= i)
        BY <1>1, <2>3
      <3> QED  BY <2>2, <3>1
    <2> QED  BY <2>3, <2>4 DEF f
  <1> QED  BY <1>3, <1>4

LEMMA FindAt ==
  ASSUME NEW X, NEW text \in Seq(X), NEW mark, NEW from \in Nat \ {0},
         NEW p \in from..Len(text), text[p].mark = mark,
         \A i \in from..(p - 1) : text[i].mark # mark
  PROVE  Find(text, mark, from) = p
  <1> DEFINE f == Find(text, mark, from)
  <1>1. /\ f \in Nat
        /\ f = 0 => \A i \in from..Len(text) : text[i].mark # mark
        /\ f # 0 => /\ f \in from..Len(text) /\ text[f].mark = mark
                    /\ \A i \in from..(f - 1) : text[i].mark # mark
    BY FindIs
  <1> HIDE DEF f
  <1>2. f \in from..Len(text) /\ text[f].mark = mark
    BY <1>1
  <1>3. ~(f < p) /\ ~(p < f)
    BY <1>1, <1>2
  <1> QED  BY <1>2, <1>3 DEF f

\* The first block of two markers, from o to c.
Block(text, open, close, o, c) ==
  /\ o \in 1..Len(text) /\ text[o].mark = open
  /\ \A i \in 1..(o - 1) : text[i].mark # open
  /\ c \in (o + 1)..Len(text) /\ text[c].mark = close
  /\ \A i \in (o + 1)..(c - 1) : text[i].mark # close

LEMMA BlockIs ==
  ASSUME NEW X, NEW text \in Seq(X), NEW open, NEW close
  PROVE  LET o == Opening(text, open)
             c == Closing(text, open, close)
         IN  /\ c # 0 => Block(text, open, close, o, c)
             /\ c = 0 => \A i \in 1..Len(text) : \A j \in (i + 1)..Len(text) :
                           ~(text[i].mark = open /\ text[j].mark = close)
  <1> DEFINE o == Opening(text, open)
             c == Closing(text, open, close)
  <1>0. Len(text) \in Nat
    OBVIOUS
  <1>1. /\ o \in Nat
        /\ o = 0 => \A i \in 1..Len(text) : text[i].mark # open
        /\ o # 0 => /\ o \in 1..Len(text) /\ text[o].mark = open
                    /\ \A i \in 1..(o - 1) : text[i].mark # open
    BY FindIs DEF Opening
  <1>2. o # 0 => /\ c \in Nat
                 /\ c = 0 => \A i \in (o + 1)..Len(text) : text[i].mark # close
                 /\ c # 0 => /\ c \in (o + 1)..Len(text) /\ text[c].mark = close
                             /\ \A i \in (o + 1)..(c - 1) : text[i].mark # close
    <2>1. SUFFICES ASSUME o # 0
                   PROVE  /\ c \in Nat
                          /\ c = 0 => \A i \in (o + 1)..Len(text) : text[i].mark # close
                          /\ c # 0 => /\ c \in (o + 1)..Len(text) /\ text[c].mark = close
                                      /\ \A i \in (o + 1)..(c - 1) : text[i].mark # close
      OBVIOUS
    <2>2. c = Find(text, close, o + 1)
      BY <2>1 DEF Closing
    <2>3. o + 1 \in Nat \ {0}
      BY <1>1
    <2> HIDE DEF o, c
    <2> QED  BY <2>2, <2>3, FindIs
  <1>3. o = 0 => c = 0
    BY DEF Closing
  <1> HIDE DEF o, c
  <1>4. ASSUME c = 0, NEW i \in 1..Len(text), NEW j \in (i + 1)..Len(text),
               text[i].mark = open, text[j].mark = close
        PROVE  FALSE
    <2>1. o # 0 /\ o <= i
      BY <1>0, <1>1, <1>4
    <2>2. j \in (o + 1)..Len(text)
      BY <1>0, <1>1, <2>1
    <2> QED  BY <1>2, <1>4, <2>1, <2>2
  <1>5. c # 0 => Block(text, open, close, o, c)
    BY <1>1, <1>2, <1>3 DEF Block
  <1> QED  BY <1>4, <1>5 DEF o, c

LEMMA BlockAt ==
  ASSUME NEW X, NEW text \in Seq(X), NEW open, NEW close, NEW o, NEW c,
         Block(text, open, close, o, c)
  PROVE  Opening(text, open) = o /\ Closing(text, open, close) = c /\ c # 0
  <1>1. /\ o \in 1..Len(text) /\ text[o].mark = open
        /\ \A i \in 1..(o - 1) : text[i].mark # open
        /\ c \in (o + 1)..Len(text) /\ text[c].mark = close
        /\ \A i \in (o + 1)..(c - 1) : text[i].mark # close
    BY DEF Block
  <1>2. Opening(text, open) = o
    BY <1>1, FindAt DEF Opening
  <1>3. o # 0 /\ o + 1 \in Nat \ {0} /\ c # 0
    BY <1>1
  <1>4. Find(text, close, o + 1) = c
    BY <1>1, <1>3, FindAt
  <1> QED  BY <1>2, <1>3, <1>4 DEF Closing

-----------------------------------------------------------------------------
(* What the parser takes out. *)

LEMMA ErasedIs ==
  ASSUME NEW X, NEW text \in Seq(X), NEW i \in 1..Len(text), NEW j \in (i + 1)..Len(text)
  PROVE  LET e == Erase(text, i, j)
         IN  /\ e \in Seq(X) /\ Len(e) = Len(text) - (j - i + 1)
             /\ \A k \in 1..(i - 1) : e[k] = text[k]
             /\ \A k \in i..Len(e) : e[k] = text[k + (j - i + 1)]
  <1> DEFINE a == SubSeq(text, 1, i - 1)
             b == SubSeq(text, j + 1, Len(text))
             e == Erase(text, i, j)
  <1>1. Len(text) \in Nat /\ i \in Nat /\ j \in Nat /\ 1 <= i /\ i < j /\ j <= Len(text)
    OBVIOUS
  <1>2. a \in Seq(X) /\ Len(a) = i - 1 /\ \A k \in 1..(i - 1) : a[k] = text[k]
    <2>1. \A k \in 1..(i - 1) : text[k] \in X
      BY <1>1
    <2>2. a = [k \in 1..(i - 1) |-> text[k]]
      BY <1>1
    <2>3. i - 1 \in Nat
      BY <1>1
    <2> HIDE DEF a
    <2> QED  BY <2>1, <2>2, <2>3
  <1>3. /\ b \in Seq(X) /\ Len(b) = Len(text) - j
        /\ \A k \in 1..(Len(text) - j) : b[k] = text[k + j]
    <2>1. \A k \in 1..(Len(text) - j) : k + j \in 1..Len(text) /\ text[k + j] \in X
      BY <1>1
    <2>2. b = [k \in 1..(Len(text) - j) |-> text[k + j]]
      BY <1>1
    <2>3. Len(text) - j \in Nat
      BY <1>1
    <2> HIDE DEF b
    <2> QED  BY <2>1, <2>2, <2>3
  <1>4. e = a \o b
    BY DEF Erase
  <1> HIDE DEF a, b, e
  <1>5. /\ e \in Seq(X) /\ Len(e) = Len(a) + Len(b)
        /\ \A k \in 1..Len(a) : e[k] = a[k]
        /\ \A k \in (Len(a) + 1)..(Len(a) + Len(b)) : e[k] = b[k - Len(a)]
    <2>1. a \in Seq(X) /\ b \in Seq(X)
      BY <1>2, <1>3
    <2>2. /\ a \o b \in Seq(X) /\ Len(a \o b) = Len(a) + Len(b)
          /\ \A k \in 1..Len(a) : (a \o b)[k] = a[k]
          /\ \A k \in (Len(a) + 1)..(Len(a) + Len(b)) : (a \o b)[k] = b[k - Len(a)]
      BY <2>1
    <2> QED  BY <1>4, <2>2
  <1>6. Len(e) = Len(text) - (j - i + 1)
    BY <1>1, <1>2, <1>3, <1>5
  <1>7. ASSUME NEW k \in 1..(i - 1) PROVE e[k] = text[k]
    BY <1>2, <1>5
  <1>8. ASSUME NEW k \in i..Len(e) PROVE e[k] = text[k + (j - i + 1)]
    <2>1. /\ k \in (Len(a) + 1)..(Len(a) + Len(b)) /\ k - Len(a) \in 1..(Len(text) - j)
          /\ (k - Len(a)) + j = k + (j - i + 1)
      BY <1>1, <1>2, <1>3, <1>6
    <2>2. e[k] = b[k - Len(a)] /\ b[k - Len(a)] = text[(k - Len(a)) + j]
      BY <1>3, <1>5, <2>1
    <2> QED  BY <2>1, <2>2
  <1> QED  BY <1>5, <1>6, <1>7, <1>8 DEF e

LEMMA BetweenIs ==
  ASSUME NEW X, NEW text \in Seq(X), NEW i \in 1..Len(text), NEW j \in (i + 1)..Len(text)
  PROVE  LET b == Between(text, i, j)
         IN  /\ b \in Seq(X) /\ Len(b) = j - i - 1
             /\ \A k \in 1..Len(b) : b[k] = text[i + k]
  <1> DEFINE b == Between(text, i, j)
  <1>1. Len(text) \in Nat /\ i \in Nat /\ j \in Nat /\ 1 <= i /\ i < j /\ j <= Len(text)
    OBVIOUS
  <1>2. b = SubSeq(text, i + 1, j - 1)
    BY DEF Between
  <1>3. \A k \in 1..(j - i - 1) : i + k \in 1..Len(text) /\ text[i + k] \in X
    BY <1>1
  <1>4. b = [k \in 1..(j - i - 1) |-> text[i + k]]
    BY <1>1, <1>2
  <1>5. j - i - 1 \in Nat
    BY <1>1
  <1> HIDE DEF b
  <1>6. b \in Seq(X) /\ Len(b) = j - i - 1 /\ \A k \in 1..Len(b) : b[k] = text[i + k]
    BY <1>3, <1>4, <1>5
  <1> QED  BY <1>6 DEF b

\* No thought is complete.
Settled(text) ==
  \A i \in 1..Len(text) : \A j \in (i + 1)..Len(text) :
    ~(text[i].mark = "[thought]" /\ text[j].mark = "[/thought]")

Thought(text, o, c) == Block(text, "[thought]", "[/thought]", o, c)
Sorted(X) == [rest : Seq(X), found : Seq(Seq(X))]

LEMMA ThoughtSettles ==
  ASSUME NEW X, NEW text \in Seq(X)
  PROVE  Settled(text) <=> ~\E o, c : Thought(text, o, c)
  <1>0. Len(text) \in Nat
    OBVIOUS
  <1>1. ASSUME Settled(text), NEW o, NEW c, Thought(text, o, c) PROVE FALSE
    BY <1>1 DEF Settled, Thought, Block
  <1>2. ASSUME ~Settled(text) PROVE \E o, c : Thought(text, o, c)
    <2>1. Closing(text, "[thought]", "[/thought]") # 0
      BY <1>2, BlockIs DEF Settled
    <2> QED  BY <2>1, BlockIs DEF Thought
  <1> QED  BY <1>1, <1>2

LEMMA PullStill ==
  ASSUME NEW X, NEW s \in Sorted(X), Settled(s.rest)
  PROVE  Pull(s) = s
  <1>1. s.rest \in Seq(X)
    BY DEF Sorted
  <1>2. Closing(s.rest, "[thought]", "[/thought]") = 0
    BY <1>1, BlockIs, ThoughtSettles DEF Thought
  <1> QED  BY <1>2 DEF Pull

LEMMA PullTakes ==
  ASSUME NEW X, NEW s \in Sorted(X), NEW o, NEW c, Thought(s.rest, o, c)
  PROVE  /\ Pull(s) = [rest |-> Erase(s.rest, o, c),
                              found |-> Append(s.found, Between(s.rest, o, c))]
         /\ Pull(s) \in Sorted(X)
         /\ Len(Pull(s).rest) < Len(s.rest)
  <1>1. s.rest \in Seq(X) /\ s.found \in Seq(Seq(X))
    BY DEF Sorted
  <1>2. /\ Opening(s.rest, "[thought]") = o
        /\ Closing(s.rest, "[thought]", "[/thought]") = c /\ c # 0
    BY <1>1, BlockAt DEF Thought
  <1>3. Pull(s) = [rest |-> Erase(s.rest, o, c),
                          found |-> Append(s.found, Between(s.rest, o, c))]
    BY <1>2 DEF Pull
  <1>4. o \in 1..Len(s.rest) /\ c \in (o + 1)..Len(s.rest) /\ Len(s.rest) \in Nat
    BY <1>1 DEF Thought, Block
  <1> DEFINE text == s.rest
  <1> HIDE DEF text
  <1>5. /\ Erase(text, o, c) \in Seq(X)
        /\ Len(Erase(text, o, c)) = Len(text) - (c - o + 1)
    <2>1. text \in Seq(X) /\ o \in 1..Len(text) /\ c \in (o + 1)..Len(text)
      BY <1>1, <1>4 DEF text
    <2> QED  BY <2>1, ErasedIs
  <1>6. Between(s.rest, o, c) \in Seq(X)
    BY <1>1, <1>4, BetweenIs
  <1>7. Append(s.found, Between(s.rest, o, c)) \in Seq(Seq(X))
    BY <1>1, <1>6
  <1>8. Pull(s) \in Sorted(X)
    BY <1>3, <1>5, <1>7 DEF Sorted, text
  <1>9. Len(Pull(s).rest) < Len(s.rest)
    BY <1>3, <1>4, <1>5 DEF text
  <1> QED  BY <1>3, <1>8, <1>9

\* A token more at the end of what is left.
More(s, t) == [rest |-> Append(s.rest, t), found |-> s.found]

LEMMA PullMore ==
  ASSUME NEW X, NEW s \in Sorted(X), NEW t \in X, ~Settled(s.rest)
  PROVE  Pull(More(s, t)) = More(Pull(s), t)
  <1> DEFINE text == s.rest
             longer == Append(s.rest, t)
  <1>1. text \in Seq(X) /\ Len(text) \in Nat /\ s.found \in Seq(Seq(X))
    BY DEF Sorted
  <1>2. PICK o, c : Thought(text, o, c)
    BY <1>1, ThoughtSettles
  <1>3. /\ longer \in Seq(X) /\ Len(longer) = Len(text) + 1 /\ longer[Len(text) + 1] = t
        /\ \A k \in 1..Len(text) : longer[k] = text[k]
    BY <1>1
  <1>4. /\ o \in 1..Len(text) /\ c \in (o + 1)..Len(text)
        /\ o \in 1..Len(longer) /\ c \in (o + 1)..Len(longer)
    BY <1>1, <1>2, <1>3 DEF Thought, Block
  <1>5. Thought(longer, o, c)
    <2>1. /\ text[o].mark = "[thought]" /\ text[c].mark = "[/thought]"
          /\ \A i \in 1..(o - 1) : text[i].mark # "[thought]"
          /\ \A i \in (o + 1)..(c - 1) : text[i].mark # "[/thought]"
      BY <1>2 DEF Thought, Block
    <2> HIDE DEF longer, text
    <2>2. longer[o] = text[o] /\ longer[c] = text[c]
      <3>1. c \in 1..Len(text)
        BY <1>1, <1>4
      <3> QED  BY <1>3, <1>4, <3>1
    <2>3. ASSUME NEW i \in 1..(o - 1) PROVE longer[i].mark # "[thought]"
      <3>1. i \in 1..Len(text)
        BY <1>1, <1>4
      <3> QED  BY <1>3, <2>1, <3>1
    <2>4. ASSUME NEW i \in (o + 1)..(c - 1) PROVE longer[i].mark # "[/thought]"
      <3>1. i \in 1..Len(text)
        BY <1>1, <1>4
      <3> QED  BY <1>3, <2>1, <3>1
    <2> QED  BY <1>4, <2>1, <2>2, <2>3, <2>4 DEF Thought, Block
  <1>6. More(s, t) \in Sorted(X) /\ More(s, t).rest = longer /\ More(s, t).found = s.found
    BY <1>1, <1>3 DEF More, Sorted
  <1>7. Pull(More(s, t)) = [rest |-> Erase(longer, o, c),
                                   found |-> Append(s.found, Between(longer, o, c))]
    <2> DEFINE m == More(s, t)
    <2> HIDE DEF longer, text, m
    <2>0. m \in Sorted(X)
      BY <1>6 DEF m
    <2>1. m.rest = longer /\ m.found = s.found
      BY <1>6 DEF m
    <2>2. Thought(m.rest, o, c)
      BY <1>5, <2>1
    <2>3. Pull(m) = [rest |-> Erase(m.rest, o, c),
                            found |-> Append(m.found, Between(m.rest, o, c))]
      BY <2>0, <2>2, PullTakes, Zenon
    <2>4. Pull(m) = [rest |-> Erase(longer, o, c),
                            found |-> Append(s.found, Between(longer, o, c))]
      BY <2>1, <2>3
    <2> QED  BY <2>4 DEF m
  <1>8. Pull(s) = [rest |-> Erase(text, o, c),
                          found |-> Append(s.found, Between(text, o, c))]
    BY <1>2, PullTakes
  <1> HIDE DEF longer, text
  <1>9. Erase(longer, o, c) = Append(Erase(text, o, c), t)
    <2> DEFINE e == Erase(text, o, c)
               f == Erase(longer, o, c)
               w == c - o + 1
    <2>1. /\ e \in Seq(X) /\ Len(e) = Len(text) - w
          /\ \A k \in 1..(o - 1) : e[k] = text[k]
          /\ \A k \in o..Len(e) : e[k] = text[k + w]
      BY <1>1, <1>4, ErasedIs
    <2>2. /\ f \in Seq(X) /\ Len(f) = Len(longer) - w
          /\ \A k \in 1..(o - 1) : f[k] = longer[k]
          /\ \A k \in o..Len(f) : f[k] = longer[k + w]
      BY <1>3, <1>4, ErasedIs
    <2>3. w \in Nat /\ w <= Len(text) /\ o <= Len(text) - w + 1
      BY <1>1, <1>4
    <2> HIDE DEF e, f, w
    <2>4. /\ Append(e, t) \in Seq(X) /\ Len(Append(e, t)) = Len(e) + 1
          /\ \A k \in 1..Len(e) : Append(e, t)[k] = e[k]
          /\ Append(e, t)[Len(e) + 1] = t
      BY <2>1
    <2>5. Len(f) = Len(Append(e, t)) /\ Len(f) = Len(e) + 1 /\ Len(e) \in Nat
      BY <1>1, <1>3, <2>1, <2>2, <2>3, <2>4
    <2>6. ASSUME NEW k \in 1..Len(f) PROVE f[k] = Append(e, t)[k]
      <3>1. CASE k < o
        <4>1. k \in 1..(o - 1) /\ k \in 1..Len(text) /\ k \in 1..Len(e)
          BY <1>1, <1>4, <2>1, <2>3, <2>5, <3>1
        <4> QED  BY <1>3, <2>1, <2>2, <2>4, <4>1
      <3>2. CASE k >= o /\ k <= Len(e)
        <4>1. /\ k \in o..Len(f) /\ k \in o..Len(e) /\ k \in 1..Len(e)
              /\ k + w \in 1..Len(text)
          BY <1>1, <1>4, <2>1, <2>3, <2>5, <3>2
        <4> QED  BY <1>3, <2>1, <2>2, <2>4, <4>1
      <3>3. CASE k = Len(e) + 1
        <4>1. k \in o..Len(f) /\ k + w = Len(text) + 1
          BY <1>1, <1>4, <2>1, <2>3, <2>5, <3>3
        <4> QED  BY <1>3, <2>2, <2>4, <3>3, <4>1
      <3> QED  BY <1>4, <2>5, <3>1, <3>2, <3>3
    <2>7. f = Append(e, t)
      BY <2>2, <2>4, <2>5, <2>6, SeqEqual
    <2> QED  BY <2>7 DEF e, f
  <1>10. Between(longer, o, c) = Between(text, o, c)
    <2> DEFINE e == Between(text, o, c)
               f == Between(longer, o, c)
    <2>1. e \in Seq(X) /\ Len(e) = c - o - 1 /\ \A k \in 1..Len(e) : e[k] = text[o + k]
      BY <1>1, <1>4, BetweenIs
    <2>2. f \in Seq(X) /\ Len(f) = c - o - 1 /\ \A k \in 1..Len(f) : f[k] = longer[o + k]
      BY <1>3, <1>4, BetweenIs
    <2> HIDE DEF e, f
    <2>3. \A k \in 1..Len(e) : o + k \in 1..Len(text)
      BY <1>1, <1>4, <2>1
    <2>4. \A k \in 1..Len(e) : e[k] = f[k]
      BY <1>3, <2>1, <2>2, <2>3
    <2>5. e = f
      BY <2>1, <2>2, <2>4, SeqEqual
    <2> QED  BY <2>5 DEF e, f
  <1> QED  BY <1>7, <1>8, <1>9, <1>10 DEF More

-----------------------------------------------------------------------------
(* The sweep. *)

Whole(text) == [rest |-> text, found |-> <<>>]
Rounds(text, g, k) ==
  \A n \in 0..Len(text) :
    n <= k => g[n] = IF n = 0 THEN Whole(text) ELSE Pull(g[n - 1])

LEMMA PulledUnrolls ==
  ASSUME NEW X, NEW text \in Seq(X)
  PROVE  /\ Pulled(text)[0] = Whole(text)
         /\ \A n \in 1..Len(text) :
              Pulled(text)[n] = Pull(Pulled(text)[n - 1])
  <1> DEFINE N == Len(text)
             S == {k \in 0..N : \E g : Rounds(text, g, k)}
  <1>1. N \in Nat /\ N = Len(text)
    OBVIOUS
  <1>2. 0 \in S
    <2> DEFINE g == [n \in 0..N |-> Whole(text)]
    <2>1. \A n \in 0..N : n <= 0 => n = 0 /\ g[n] = Whole(text)
      BY <1>1
    <2> HIDE DEF g
    <2>2. Rounds(text, g, 0)
      BY <2>1 DEF Rounds
    <2> QED  BY <1>1, <2>2
  <1>3. ASSUME NEW k \in Nat, 0 <= k, k < N, k \in S PROVE k + 1 \in S
    <2>1. PICK g : Rounds(text, g, k)
      BY <1>3
    <2> DEFINE h == [n \in 0..N |-> IF n = 0 THEN Whole(text) ELSE Pull(g[n - 1])]
    <2>2. ASSUME NEW n \in 0..N, n <= k + 1
          PROVE  h[n] = IF n = 0 THEN Whole(text) ELSE Pull(h[n - 1])
      <3>1. CASE n = 0
        BY <3>1
      <3>2. CASE n # 0
        <4>1. n - 1 \in 0..N /\ n - 1 <= k
          BY <1>1, <1>3, <2>2, <3>2
        <4>2. g[n - 1] = IF n - 1 = 0 THEN Whole(text) ELSE Pull(g[n - 1 - 1])
          BY <2>1, <4>1 DEF Rounds
        <4>3. h[n - 1] = g[n - 1]
          BY <4>1, <4>2
        <4>4. h[n] = Pull(g[n - 1])
          BY <3>2
        <4> HIDE DEF h
        <4> QED  BY <3>2, <4>3, <4>4
      <3> QED  BY <3>1, <3>2
    <2> HIDE DEF h
    <2>3. Rounds(text, h, k + 1)
      BY <2>2 DEF Rounds
    <2> QED  BY <1>1, <1>3, <2>3
  <1> HIDE DEF S
  <1>4. N \in S
    <2>1. \A n \in 0..N : n \in S
      BY <1>1, <1>2, <1>3, On
    <2> QED  BY <1>1, <2>1
  <1>5. PICK g : Rounds(text, g, N)
    BY <1>4 DEF S
  <1> DEFINE body(after) == [n \in 0..Len(text) |->
                               IF n = 0 THEN [rest |-> text, found |-> <<>>]
                               ELSE Pull(after[n - 1])]
             f == [n \in 0..N |-> g[n]]
  <1>6. f = body(f)
    <2>1. ASSUME NEW n \in 0..N PROVE f[n] = body(f)[n]
      <3>1. g[n] = IF n = 0 THEN Whole(text) ELSE Pull(g[n - 1])
        BY <1>1, <1>5 DEF Rounds
      <3>2. n # 0 => n - 1 \in 0..N
        BY <1>1
      <3> QED  BY <3>1, <3>2 DEF Whole
    <2> QED  BY <2>1
  <1>7. Pulled(text) = CHOOSE after : after = body(after)
    BY DEF Pulled
  <1>8. Pulled(text) = body(Pulled(text))
    <2> HIDE DEF f, body
    <2> QED  BY <1>6, <1>7, Zenon
  <1>9. ASSUME NEW w, w = body(w)
        PROVE  w[0] = Whole(text) /\ \A n \in 1..N : w[n] = Pull(w[n - 1])
    BY <1>1, <1>9 DEF Whole
  <1> HIDE DEF body
  <1> QED  BY <1>8, <1>9

LEMMA PulledTyped ==
  ASSUME NEW X, NEW text \in Seq(X)
  PROVE  \A n \in 0..Len(text) : Pulled(text)[n] \in Sorted(X)
  <1> DEFINE P == Pulled(text)
             S == {n \in 0..Len(text) : P[n] \in Sorted(X)}
  <1>1. Len(text) \in Nat
    OBVIOUS
  <1>2. P[0] = Whole(text) /\ \A n \in 1..Len(text) : P[n] = Pull(P[n - 1])
    BY PulledUnrolls
  <1> HIDE DEF P
  <1>3. 0 \in S
    <2>1. <<>> \in Seq(Seq(X))
      OBVIOUS
    <2>2. Whole(text) \in Sorted(X)
      BY <2>1 DEF Whole, Sorted
    <2>3. 0 \in 0..Len(text) /\ P[0] \in Sorted(X)
      BY <1>1, <1>2, <2>2
    <2> QED  BY <2>3
  <1>4. ASSUME NEW n \in Nat, 0 <= n, n < Len(text), n \in S PROVE n + 1 \in S
    <2>1. n + 1 \in 1..Len(text) /\ n + 1 - 1 = n /\ P[n] \in Sorted(X)
      BY <1>1, <1>4
    <2>2. P[n + 1] = Pull(P[n])
      BY <1>2, <2>1
    <2>3. P[n].rest \in Seq(X)
      BY <2>1 DEF Sorted
    <2>4. Pull(P[n]) \in Sorted(X)
      BY <2>1, <2>3, PullStill, PullTakes, ThoughtSettles
    <2> QED  BY <1>1, <2>1, <2>2, <2>4
  <1> HIDE DEF S
  <1>5. \A n \in 0..Len(text) : n \in S
    BY <1>1, <1>3, <1>4, On
  <1> QED  BY <1>5 DEF S, P

\* Once there is nothing more to take out, nothing changes.
LEMMA SweepIs ==
  ASSUME NEW X, NEW text \in Seq(X), NEW k \in 0..Len(text),
         Settled(Pulled(text)[k].rest)
  PROVE  Sweep(text) = Pulled(text)[k]
  <1> DEFINE P == Pulled(text)
             N == Len(text)
             S == {n \in k..N : P[n] = P[k]}
  <1>1. N \in Nat /\ k \in Nat /\ k <= N
    OBVIOUS
  <1>2. /\ \A n \in 1..N : P[n] = Pull(P[n - 1])
        /\ P[k] \in Sorted(X)
    BY PulledUnrolls, PulledTyped
  <1>3. Sweep(text) = P[N]
    BY DEF Sweep
  <1>4. Pull(P[k]) = P[k]
    BY <1>2, PullStill
  <1> HIDE DEF P, N
  <1>5. k \in S
    BY <1>1
  <1>6. ASSUME NEW n \in Nat, k <= n, n < N, n \in S PROVE n + 1 \in S
    <2>1. n + 1 \in 1..N /\ n + 1 \in k..N /\ n + 1 - 1 = n
      BY <1>1, <1>6
    <2>2. P[n + 1] = Pull(P[n]) /\ P[n] = P[k]
      BY <1>2, <1>6, <2>1
    <2> QED  BY <1>4, <2>1, <2>2
  <1> HIDE DEF S
  <1>7. N \in S
    <2>1. \A n \in k..N : n \in S
      BY <1>1, <1>5, <1>6, On
    <2> QED  BY <1>1, <2>1
  <1> QED  BY <1>3, <1>7 DEF S, P

\* The sweep comes to its end before the tokens do.
LEMMA SweepEnds ==
  ASSUME NEW X, NEW text \in Seq(X)
  PROVE  \E k \in 0..Len(text) :
           /\ Settled(Pulled(text)[k].rest)
           /\ \A i \in 0..(k - 1) : ~Settled(Pulled(text)[i].rest)
  <1> DEFINE P == Pulled(text)
             N == Len(text)
             T == {n \in 0..N : Settled(P[n].rest)}
             S == {n \in 0..N : Len(P[n].rest) + n <= N}
  <1>1. N \in Nat
    OBVIOUS
  <1>2. /\ \A n \in 1..N : P[n] = Pull(P[n - 1])
        /\ \A n \in 0..N : P[n] \in Sorted(X)
        /\ P[0] = Whole(text)
    BY PulledUnrolls, PulledTyped
  <1>3. Len(P[0].rest) = N
    BY <1>2 DEF Whole
  <1> HIDE DEF P, N
  <1>4. ASSUME T = {} PROVE FALSE
    <2>1. 0 \in S
      BY <1>1, <1>3
    <2>2. ASSUME NEW n \in Nat, 0 <= n, n < N, n \in S PROVE n + 1 \in S
      <3>1. n \in 0..N /\ n + 1 \in 1..N /\ n + 1 - 1 = n /\ n + 1 \in 0..N
        BY <1>1, <2>2
      <3>2. P[n + 1] = Pull(P[n]) /\ P[n] \in Sorted(X) /\ P[n + 1] \in Sorted(X)
        BY <1>2, <3>1
      <3>3. ~Settled(P[n].rest)
        BY <1>4, <3>1
      <3>4. P[n].rest \in Seq(X) /\ P[n + 1].rest \in Seq(X)
        BY <3>2 DEF Sorted
      <3>5. Len(P[n + 1].rest) < Len(P[n].rest)
        BY <3>2, <3>3, <3>4, PullTakes, ThoughtSettles
      <3>6. Len(P[n + 1].rest) \in Nat /\ Len(P[n].rest) \in Nat /\ Len(P[n].rest) + n <= N
        BY <2>2, <3>4
      <3> QED  BY <1>1, <3>1, <3>5, <3>6
    <2> HIDE DEF S
    <2>3. N \in S
      <3>1. \A n \in 0..N : n \in S
        BY <1>1, <2>1, <2>2, On
      <3> QED  BY <1>1, <3>1
    <2>4. P[N].rest \in Seq(X)
      BY <1>1, <1>2 DEF Sorted
    <2>5. Len(P[N].rest) = 0
      BY <1>1, <2>3, <2>4 DEF S
    <2>6. Settled(P[N].rest)
      BY <2>5 DEF Settled
    <2> QED  BY <1>1, <1>4, <2>6
  <1>5. PICK k \in T : \A n \in T : k <= n
    <2>1. T \in SUBSET Nat
      BY <1>1
    <2> QED  BY <1>4, <2>1, Smallest
  <1>6. ASSUME NEW i \in 0..(k - 1) PROVE ~Settled(P[i].rest)
    <2>1. i \in 0..N /\ ~(k <= i)
      BY <1>1
    <2> QED  BY <1>5, <2>1
  <1> QED  BY <1>5, <1>6 DEF P, N

LEMMA SweepSettles ==
  ASSUME NEW X, NEW text \in Seq(X)
  PROVE  /\ Sweep(text) \in Sorted(X) /\ Settled(Sweep(text).rest)
         /\ Settled(text) => Sweep(text) = Whole(text)
  <1>1. PICK k \in 0..Len(text) : Settled(Pulled(text)[k].rest)
    BY SweepEnds
  <1>2. Sweep(text) = Pulled(text)[k] /\ Pulled(text)[k] \in Sorted(X)
    BY <1>1, SweepIs, PulledTyped
  <1>3. ASSUME Settled(text) PROVE Sweep(text) = Whole(text)
    <2>1. Pulled(text)[0] = Whole(text) /\ Whole(text).rest = text
      BY PulledUnrolls DEF Whole
    <2>2. 0 \in 0..Len(text)
      OBVIOUS
    <2> QED  BY <1>3, <2>1, <2>2, SweepIs
  <1> QED  BY <1>1, <1>2, <1>3

\* A token after what is settled completes one thought at most, and then nothing
\* of it is left, nor of what follows.
LEMMA LastCloses ==
  ASSUME NEW X, NEW text \in Seq(X), Settled(text), NEW t \in X, NEW o, NEW c,
         Thought(Append(text, t), o, c)
  PROVE  /\ c = Len(text) + 1 /\ t.mark = "[/thought]" /\ o \in 1..Len(text)
         /\ text[o].mark = "[thought]" /\ \A i \in 1..(o - 1) : text[i].mark # "[thought]"
         /\ LET e == Erase(Append(text, t), o, c)
            IN  /\ e \in Seq(X) /\ Len(e) = o - 1 /\ \A k \in 1..Len(e) : e[k] = text[k]
                /\ Settled(e)
  <1> DEFINE longer == Append(text, t)
             e == Erase(longer, o, c)
  <1>1. Len(text) \in Nat
    OBVIOUS
  <1>2. /\ longer \in Seq(X) /\ Len(longer) = Len(text) + 1 /\ longer[Len(text) + 1] = t
        /\ \A k \in 1..Len(text) : longer[k] = text[k]
    BY <1>1
  <1>3. /\ o \in 1..Len(longer) /\ longer[o].mark = "[thought]"
        /\ \A i \in 1..(o - 1) : longer[i].mark # "[thought]"
        /\ c \in (o + 1)..Len(longer) /\ longer[c].mark = "[/thought]"
    BY DEF Thought, Block
  <1> HIDE DEF longer
  <1>4. c = Len(text) + 1
    <2>1. CASE c <= Len(text)
      <3>1. o \in 1..Len(text) /\ c \in (o + 1)..Len(text) /\ c \in 1..Len(text)
        BY <1>1, <1>2, <1>3, <2>1
      <3>2. text[o].mark = "[thought]" /\ text[c].mark = "[/thought]"
        BY <1>2, <1>3, <3>1
      <3> QED  BY <3>1, <3>2 DEF Settled
    <2>2. CASE ~(c <= Len(text))
      BY <1>1, <1>2, <1>3, <2>2
    <2> QED  BY <2>1, <2>2
  <1>5. o \in 1..Len(text) /\ t.mark = "[/thought]"
    BY <1>1, <1>2, <1>3, <1>4
  <1>6. text[o].mark = "[thought]"
    BY <1>2, <1>3, <1>5
  <1>7. ASSUME NEW i \in 1..(o - 1) PROVE text[i].mark # "[thought]"
    <2>1. i \in 1..Len(text)
      BY <1>1, <1>5
    <2> QED  BY <1>2, <1>3, <2>1
  <1>8. /\ e \in Seq(X) /\ Len(e) = Len(longer) - (c - o + 1)
        /\ \A k \in 1..(o - 1) : e[k] = longer[k]
    BY <1>2, <1>3, ErasedIs
  <1> HIDE DEF e
  <1>9. Len(e) = o - 1
    BY <1>1, <1>2, <1>4, <1>5, <1>8
  <1>10. ASSUME NEW k \in 1..Len(e) PROVE e[k] = text[k]
    <2>1. k \in 1..(o - 1) /\ k \in 1..Len(text)
      BY <1>1, <1>5, <1>9
    <2> QED  BY <1>2, <1>8, <2>1
  <1>11. Settled(e)
    <2>1. ASSUME NEW i \in 1..Len(e) PROVE e[i].mark # "[thought]"
      <3>1. i \in 1..(o - 1)
        BY <1>9
      <3> QED  BY <1>7, <1>10, <3>1
    <2> QED  BY <2>1 DEF Settled
  <1> QED  BY <1>4, <1>5, <1>6, <1>7, <1>8, <1>9, <1>10, <1>11 DEF e, longer

\* What one token more does to a settled text.
LEMMA SweepOnce ==
  ASSUME NEW X, NEW text \in Seq(X), Settled(text), NEW t \in X
  PROVE  LET longer == Append(text, t)
         IN  /\ Settled(longer) => Sweep(longer) = Whole(longer)
             /\ ~Settled(longer) => Sweep(longer) = Pull(Whole(longer))
  <1> DEFINE longer == Append(text, t)
  <1>1. longer \in Seq(X) /\ Len(longer) \in Nat /\ 1 \in 1..Len(longer) /\ 1 \in 0..Len(longer)
    OBVIOUS
  <1>2. Settled(longer) => Sweep(longer) = Whole(longer)
    <2> HIDE DEF longer
    <2> QED  BY <1>1, SweepSettles
  <1>3. ASSUME ~Settled(longer) PROVE Sweep(longer) = Pull(Whole(longer))
    <2>1. PICK o, c : Thought(longer, o, c)
      <3> HIDE DEF longer
      <3> QED  BY <1>1, <1>3, ThoughtSettles
    <2>2. Settled(Erase(longer, o, c))
      BY <2>1, LastCloses
    <2> HIDE DEF longer
    <2>3. Whole(longer) \in Sorted(X) /\ Whole(longer).rest = longer
      <3>1. <<>> \in Seq(Seq(X))
        OBVIOUS
      <3> QED  BY <1>1, <3>1 DEF Whole, Sorted
    <2>4. Pull(Whole(longer)).rest = Erase(longer, o, c)
      <3> DEFINE s == Whole(longer)
      <3>0. s \in Sorted(X)
        BY <2>3
      <3>1. s.rest = longer
        BY <2>3
      <3> HIDE DEF s
      <3>2. Thought(s.rest, o, c)
        BY <2>1, <3>1
      <3>3. Pull(s) = [rest |-> Erase(s.rest, o, c),
                              found |-> Append(s.found, Between(s.rest, o, c))]
        BY <3>0, <3>2, PullTakes, Zenon
      <3>4. Pull(s).rest = Erase(longer, o, c)
        BY <3>1, <3>3
      <3> QED  BY <3>4 DEF s
    <2>5. Pulled(longer)[1] = Pull(Whole(longer))
      <3>1. /\ Pulled(longer)[0] = Whole(longer)
            /\ Pulled(longer)[1] = Pull(Pulled(longer)[1 - 1])
        BY <1>1, PulledUnrolls
      <3> QED  BY <3>1
    <2>6. Settled(Pulled(longer)[1].rest)
      BY <2>2, <2>4, <2>5
    <2>7. Sweep(longer) = Pulled(longer)[1]
      BY <1>1, <2>6, SweepIs
    <2> QED  BY <2>5, <2>7
  <1> QED  BY <1>2, <1>3

\* Sorting goes on where it was left: with one token more, the whole is sorted
\* as what was left of it is, with that token.
LEMMA SweepMore ==
  ASSUME NEW X, NEW text \in Seq(X), NEW t \in X
  PROVE  LET s == Sweep(text)
             u == Sweep(Append(s.rest, t))
         IN  Sweep(Append(text, t)) = [rest |-> u.rest, found |-> s.found \o u.found]
  <1> DEFINE A == Pulled(text)
             B == Pulled(Append(text, t))
             N == Len(text)
             longer == Append(text, t)
             s == Sweep(text)
             left == Append(s.rest, t)
             u == Sweep(left)
  <1>1. N \in Nat /\ longer \in Seq(X) /\ Len(longer) = N + 1
    OBVIOUS
  <1>2. PICK k \in 0..N : Settled(A[k].rest) /\ \A i \in 0..(k - 1) : ~Settled(A[i].rest)
    BY SweepEnds
  <1>3. s = A[k] /\ s \in Sorted(X) /\ Settled(s.rest)
    BY <1>2, SweepIs, PulledTyped
  <1>4. s.rest \in Seq(X) /\ s.found \in Seq(Seq(X))
    BY <1>3 DEF Sorted
  <1>5. /\ \A n \in 1..N : A[n] = Pull(A[n - 1])
        /\ \A n \in 0..N : A[n] \in Sorted(X)
        /\ A[0] = Whole(text)
    BY PulledUnrolls, PulledTyped
  <1>6. /\ \A n \in 1..(N + 1) : B[n] = Pull(B[n - 1])
        /\ B[0] = Whole(longer)
    BY <1>1, PulledUnrolls
  <1> HIDE DEF A, B, N, longer, s
  <1>7. B[k] = More(s, t)
    <2> DEFINE S == {n \in 0..k : B[n] = More(A[n], t)}
    <2>1. 0 \in S
      <3>1. B[0] = More(A[0], t)
        BY <1>5, <1>6 DEF Whole, More, longer
      <3> QED  BY <1>1, <3>1
    <2>2. ASSUME NEW n \in Nat, 0 <= n, n < k, n \in S PROVE n + 1 \in S
      <3>1. /\ n + 1 \in 1..N /\ n + 1 \in 1..(N + 1) /\ n + 1 - 1 = n /\ n \in 0..N
            /\ n \in 0..(k - 1) /\ n + 1 \in 0..k
        BY <1>1, <2>2
      <3>2. A[n + 1] = Pull(A[n]) /\ B[n + 1] = Pull(B[n]) /\ A[n] \in Sorted(X)
        BY <1>5, <1>6, <3>1
      <3>3. B[n] = More(A[n], t) /\ ~Settled(A[n].rest)
        BY <1>2, <2>2, <3>1
      <3>4. Pull(More(A[n], t)) = More(Pull(A[n]), t)
        BY <3>2, <3>3, PullMore
      <3> QED  BY <3>1, <3>2, <3>3, <3>4
    <2> HIDE DEF S
    <2>3. k \in S
      <3>1. \A n \in 0..k : n \in S
        BY <2>1, <2>2, On
      <3> QED  BY <3>1
    <2> QED  BY <1>3, <2>3 DEF S
  <1>8. left \in Seq(X) /\ k \in 0..(N + 1) /\ k + 1 \in 1..(N + 1) /\ k + 1 \in 0..(N + 1)
    BY <1>1, <1>4
  <1>9. More(s, t).rest = left /\ More(s, t).found = s.found /\ More(s, t) \in Sorted(X)
    BY <1>4, <1>8 DEF More, Sorted
  <1> HIDE DEF left
  <1>10. CASE Settled(left)
    <2>1. Sweep(longer) = More(s, t)
      <3>1. Settled(B[k].rest)
        BY <1>7, <1>9, <1>10
      <3>2. Sweep(longer) = B[k]
        BY <1>1, <1>8, <3>1, SweepIs DEF B, longer
      <3> QED  BY <1>7, <3>2
    <2>2. u = Whole(left)
      BY <1>8, <1>10, SweepSettles
    <2> HIDE DEF u
    <2>3. u.rest = left /\ u.found = <<>> /\ s.found \o <<>> = s.found
      BY <1>4, <2>2 DEF Whole
    <2>4. More(s, t) = [rest |-> u.rest, found |-> s.found \o u.found]
      BY <1>9, <2>3 DEF More
    <2> QED  BY <2>1, <2>4 DEF longer, left, u, s
  <1>11. CASE ~Settled(left)
    <2>1. PICK o, c : Thought(left, o, c)
      BY <1>8, <1>11, ThoughtSettles
    <2>2. Settled(Erase(left, o, c))
      BY <1>3, <1>4, <2>1, LastCloses DEF left
    <2> DEFINE m == More(s, t)
               b == Between(left, o, c)
    <2>3. m \in Sorted(X) /\ m.rest = left /\ m.found = s.found
      BY <1>9
    <2>4. Whole(left) \in Sorted(X) /\ Whole(left).rest = left /\ Whole(left).found = <<>>
      <3>1. <<>> \in Seq(Seq(X))
        OBVIOUS
      <3> QED  BY <1>8, <3>1 DEF Whole, Sorted
    <2> HIDE DEF m
    <2>5. Pull(m) = [rest |-> Erase(left, o, c), found |-> Append(s.found, b)]
      <3>0. m \in Sorted(X)
        BY <2>3
      <3>1. Thought(m.rest, o, c)
        BY <2>1, <2>3
      <3>2. Pull(m) = [rest |-> Erase(m.rest, o, c),
                              found |-> Append(m.found, Between(m.rest, o, c))]
        BY <3>0, <3>1, PullTakes, Zenon
      <3> QED  BY <2>3, <3>2
    <2>6. Pull(Whole(left))
            = [rest |-> Erase(left, o, c), found |-> Append(<<>>, b)]
      <3> DEFINE w == Whole(left)
      <3>0. w \in Sorted(X)
        BY <2>4
      <3>1. w.rest = left /\ w.found = <<>>
        BY <2>4
      <3> HIDE DEF w
      <3>2. Thought(w.rest, o, c)
        BY <2>1, <3>1
      <3>3. Pull(w) = [rest |-> Erase(w.rest, o, c),
                              found |-> Append(w.found, Between(w.rest, o, c))]
        BY <3>0, <3>2, PullTakes, Zenon
      <3>4. Pull(w) = [rest |-> Erase(left, o, c), found |-> Append(<<>>, b)]
        BY <3>1, <3>3
      <3> QED  BY <3>4 DEF w
    <2>7. u = Pull(Whole(left))
      BY <1>3, <1>4, <1>11, SweepOnce DEF left
    <2>8. B[k + 1] = Pull(m)
      <3>1. B[k + 1] = Pull(B[k + 1 - 1]) /\ k + 1 - 1 = k
        BY <1>6, <1>8
      <3> QED  BY <1>7, <3>1 DEF m
    <2>9. Sweep(longer) = Pull(m)
      <3>1. Settled(B[k + 1].rest)
        BY <2>2, <2>5, <2>8
      <3>2. Sweep(longer) = B[k + 1]
        BY <1>1, <1>8, <3>1, SweepIs DEF B, longer
      <3> QED  BY <2>8, <3>2
    <2>10. Append(s.found, b) = s.found \o Append(<<>>, b)
      <3>1. o \in 1..Len(left) /\ c \in (o + 1)..Len(left)
        BY <2>1 DEF Thought, Block
      <3>2. b \in Seq(X)
        BY <1>8, <3>1, BetweenIs
      <3> HIDE DEF b
      <3>3. Append(s.found, b) = s.found \o <<b>>
        BY <1>4, <3>2, AppendIsConcat
      <3>4. Append(<<>>, b) = <<b>>
        BY <3>2
      <3> QED  BY <3>3, <3>4, Zenon
    <2> HIDE DEF b, u
    <2>11. Sweep(longer) = [rest |-> u.rest, found |-> s.found \o u.found]
      BY <2>5, <2>6, <2>7, <2>9, <2>10
    <2> QED  BY <2>11 DEF longer, left, u, s
  <1> QED  BY <1>10, <1>11

\* What one token more does to what is kept in the buffer: it is kept too, or it
\* closes the thought that was opened first.
Fed(X, text, t, s) ==
  /\ s \in Sorted(X) /\ Settled(s.rest)
  /\ \/ /\ s.rest = Append(text, t) /\ s.found = <<>>
        /\ t.mark = "[/thought]" => \A i \in 1..Len(text) : text[i].mark # "[thought]"
     \/ \E o \in 1..Len(text) :
          /\ t.mark = "[/thought]"
          /\ \A i \in 1..(o - 1) : text[i].mark # "[thought]"
          /\ Len(s.rest) = o - 1 /\ \A k \in 1..(o - 1) : s.rest[k] = text[k]
          /\ \E b \in Seq(X) : /\ s.found = <<b>> /\ Len(b) = Len(text) - o
                               /\ \A k \in 1..Len(b) : b[k] = text[o + k]

LEMMA FedOnce ==
  ASSUME NEW X, NEW text \in Seq(X), Settled(text), NEW t \in X
  PROVE  Fed(X, text, t, Sweep(Append(text, t)))
  <1> DEFINE longer == Append(text, t)
             s == Sweep(longer)
  <1>1. /\ longer \in Seq(X) /\ Len(text) \in Nat
        /\ Len(longer) = Len(text) + 1 /\ longer[Len(text) + 1] = t
        /\ \A k \in 1..Len(text) : longer[k] = text[k]
    OBVIOUS
  <1>2. s \in Sorted(X) /\ Settled(s.rest)
    <2> HIDE DEF longer
    <2> QED  BY <1>1, SweepSettles
  <1>3. CASE Settled(longer)
    <2>1. s = Whole(longer)
      <3> HIDE DEF longer
      <3> QED  BY <1>1, <1>3, SweepSettles
    <2>2. s.rest = longer /\ s.found = <<>>
      <3> HIDE DEF s
      <3> QED  BY <2>1 DEF Whole
    <2>3. ASSUME t.mark = "[/thought]", NEW i \in 1..Len(text), text[i].mark = "[thought]"
          PROVE  FALSE
      <3> HIDE DEF longer
      <3>1. /\ i \in 1..Len(longer) /\ Len(text) + 1 \in (i + 1)..Len(longer)
            /\ longer[i].mark = "[thought]" /\ longer[Len(text) + 1].mark = "[/thought]"
        BY <1>1, <2>3
      <3> QED  BY <1>3, <3>1 DEF Settled
    <2> HIDE DEF s
    <2>4. Fed(X, text, t, s)
      BY <1>2, <2>2, <2>3 DEF Fed
    <2> QED  BY <2>4 DEF s, longer
  <1>4. CASE ~Settled(longer)
    <2>1. PICK o, c : Thought(longer, o, c)
      <3> HIDE DEF longer
      <3> QED  BY <1>1, <1>4, ThoughtSettles
    <2> DEFINE e == Erase(longer, o, c)
               b == Between(longer, o, c)
    <2>2. /\ c = Len(text) + 1 /\ t.mark = "[/thought]" /\ o \in 1..Len(text)
          /\ \A i \in 1..(o - 1) : text[i].mark # "[thought]"
          /\ Len(e) = o - 1 /\ \A k \in 1..Len(e) : e[k] = text[k]
      BY <2>1, LastCloses
    <2>3. s = Pull(Whole(longer))
      BY <1>4, SweepOnce
    <2> HIDE DEF longer, s
    <2>4. s = [rest |-> e, found |-> Append(<<>>, b)]
      <3> DEFINE w == Whole(longer)
      <3>1. w.rest = longer /\ w.found = <<>>
        BY DEF Whole
      <3>2. w \in Sorted(X)
        <4>1. <<>> \in Seq(Seq(X))
          OBVIOUS
        <4> QED  BY <1>1, <4>1 DEF Whole, Sorted
      <3> HIDE DEF w
      <3>3. Thought(w.rest, o, c)
        BY <2>1, <3>1
      <3>4. Pull(w) = [rest |-> Erase(w.rest, o, c),
                              found |-> Append(w.found, Between(w.rest, o, c))]
        BY <3>2, <3>3, PullTakes, Zenon
      <3>5. Pull(w) = [rest |-> e, found |-> Append(<<>>, b)]
        BY <3>1, <3>4
      <3> QED  BY <2>3, <3>5 DEF w
    <2>5. b \in Seq(X) /\ Len(b) = c - o - 1 /\ \A k \in 1..Len(b) : b[k] = longer[o + k]
      <3>1. o \in 1..Len(longer) /\ c \in (o + 1)..Len(longer)
        BY <2>1 DEF Thought, Block
      <3> QED  BY <1>1, <3>1, BetweenIs
    <2> HIDE DEF b, e
    <2>6. Append(<<>>, b) = <<b>>
      BY <2>5
    <2>7. Len(b) = Len(text) - o
      BY <1>1, <2>2, <2>5
    <2>8. ASSUME NEW k \in 1..Len(b) PROVE b[k] = text[o + k]
      <3>1. o + k \in 1..Len(text)
        BY <1>1, <2>2, <2>7
      <3> QED  BY <1>1, <2>5, <3>1
    <2>9. s.rest = e /\ s.found = <<b>>
      BY <2>4, <2>6
    <2>10. \A k \in 1..(o - 1) : s.rest[k] = text[k]
      BY <2>2, <2>9
    <2>11. Len(s.rest) = o - 1
      BY <2>2, <2>9
    <2>12. \E x \in Seq(X) : /\ s.found = <<x>> /\ Len(x) = Len(text) - o
                             /\ \A k \in 1..Len(x) : x[k] = text[o + k]
      BY <2>5, <2>7, <2>8, <2>9
    <2>13. \E p \in 1..Len(text) :
             /\ t.mark = "[/thought]"
             /\ \A i \in 1..(p - 1) : text[i].mark # "[thought]"
             /\ Len(s.rest) = p - 1 /\ \A k \in 1..(p - 1) : s.rest[k] = text[k]
             /\ \E x \in Seq(X) : /\ s.found = <<x>> /\ Len(x) = Len(text) - p
                                  /\ \A k \in 1..Len(x) : x[k] = text[p + k]
      BY <2>2, <2>10, <2>11, <2>12
    <2>14. Fed(X, text, t, s)
      BY <1>2, <2>13 DEF Fed
    <2> QED  BY <2>14 DEF s, longer
  <1> QED  BY <1>3, <1>4

\* A token of the text that is not one of the call's.
Beside(text, t, taken) ==
  \E j \in 1..Len(text) :
    /\ t = text[j]
    /\ \A k \in 1..Len(taken) : \E m \in 1..Len(text) \ {j} : taken[k] = text[m]

\* The response is what is left of the text beside the call.
LEMMA ResponseIs ==
  ASSUME NEW X, NEW text \in Seq(X), Settled(text)
  PROVE  LET r == Result(text)
         IN  /\ r.response \in Seq(X) /\ r.call \in Seq(X)
             /\ \A i \in 1..Len(r.response) : Beside(text, r.response[i], r.call)
  <1> DEFINE o == Opening(text, "<tool_call>")
             c == Closing(text, "<tool_call>", "</tool_call>")
             r == Result(text)
             e == Erase(text, o, c)
             b == Between(text, o, c)
  <1>0. Len(text) \in Nat /\ <<>> \in Seq(X) /\ Len(<<>>) = 0
    OBVIOUS
  <1>1. r = [called |-> c # 0, call |-> IF c = 0 THEN <<>> ELSE b,
             response |-> Sweep(IF c = 0 THEN text ELSE e).rest]
    BY DEF Result
  <1>2. CASE c = 0
    <2>1. Sweep(text) = Whole(text)
      BY SweepSettles
    <2> HIDE DEF c, e, b, r
    <2>2. r.call = <<>> /\ r.response = Sweep(text).rest
      BY <1>1, <1>2
    <2>3. r.response = text
      BY <2>1, <2>2 DEF Whole
    <2>4. \A i \in 1..Len(r.response) : r.response[i] = text[i] /\ i \in 1..Len(text)
      BY <2>3
    <2>5. 1..Len(r.call) = {}
      BY <1>0, <2>2
    <2>6. \A i \in 1..Len(r.response) : Beside(text, r.response[i], r.call)
      BY <2>4, <2>5 DEF Beside
    <2> QED  BY <1>0, <2>2, <2>3, <2>6 DEF r
  <1>3. CASE c # 0
    <2>1. Block(text, "<tool_call>", "</tool_call>", o, c)
      BY <1>3, BlockIs
    <2>2. o \in 1..Len(text) /\ c \in (o + 1)..Len(text)
      BY <2>1 DEF Block
    <2>3. /\ e \in Seq(X) /\ Len(e) = Len(text) - (c - o + 1)
          /\ \A k \in 1..(o - 1) : e[k] = text[k]
          /\ \A k \in o..Len(e) : e[k] = text[k + (c - o + 1)]
      BY <2>2, ErasedIs
    <2>4. b \in Seq(X) /\ Len(b) = c - o - 1 /\ \A k \in 1..Len(b) : b[k] = text[o + k]
      BY <2>2, BetweenIs
    <2> DEFINE w == c - o + 1
               at(k) == IF k < o THEN k ELSE k + w
    <2> HIDE DEF o, c, e, b, r
    <2>5. w \in Nat /\ o \in Nat /\ w = c - o + 1
      BY <1>0, <2>2
    <2>6. \A k \in 1..Len(e) : at(k) \in 1..Len(text) /\ e[k] = text[at(k)]
      <3>1. SUFFICES ASSUME NEW k \in 1..Len(e)
                     PROVE  at(k) \in 1..Len(text) /\ e[k] = text[at(k)]
        OBVIOUS
      <3>2. CASE k < o
        <4>1. k \in 1..(o - 1) /\ k \in 1..Len(text)
          BY <1>0, <2>2, <3>2
        <4> QED  BY <2>3, <3>2, <4>1
      <3>3. CASE ~(k < o)
        <4>1. k \in o..Len(e) /\ k + w \in 1..Len(text)
          BY <1>0, <2>2, <2>3, <2>5, <3>3
        <4> QED  BY <2>3, <3>3, <4>1
      <3> QED  BY <3>2, <3>3
    <2>7. \A k \in 1..Len(e) : at(k) < o \/ at(k) > c
      BY <1>0, <2>2, <2>3, <2>5
    <2>8. \A k, l \in 1..Len(e) : k < l => at(k) < at(l)
      BY <2>5, <2>3, <1>0
    <2> HIDE DEF at, w
    <2>9. Settled(e)
      <3>1. ASSUME NEW i \in 1..Len(e), NEW j \in (i + 1)..Len(e),
                   e[i].mark = "[thought]", e[j].mark = "[/thought]"
            PROVE  FALSE
        <4>1. j \in 1..Len(e) /\ i < j
          BY <2>3
        <4>2. /\ at(i) \in 1..Len(text) /\ at(j) \in 1..Len(text) /\ at(i) < at(j)
              /\ text[at(i)].mark = "[thought]" /\ text[at(j)].mark = "[/thought]"
          BY <2>6, <2>8, <3>1, <4>1
        <4>3. at(j) \in (at(i) + 1)..Len(text)
          BY <1>0, <4>2
        <4> QED  BY <4>2, <4>3 DEF Settled
      <3> QED  BY <3>1 DEF Settled
    <2>10. Sweep(e) = Whole(e)
      BY <2>3, <2>9, SweepSettles
    <2>11. r.call = b /\ r.response = e
      BY <1>1, <1>3, <2>10 DEF Whole
    <2>12. ASSUME NEW i \in 1..Len(e)
           PROVE  Beside(text, e[i], b)
      <3>1. at(i) \in 1..Len(text) /\ e[i] = text[at(i)] /\ (at(i) < o \/ at(i) > c)
        BY <2>6, <2>7
      <3>2. ASSUME NEW k \in 1..Len(b) PROVE \E m \in 1..Len(text) \ {at(i)} : b[k] = text[m]
        <4>1. o + k \in 1..Len(text) /\ o + k > o /\ o + k < c
          BY <1>0, <2>2, <2>4
        <4>2. o + k # at(i)
          BY <2>2, <3>1, <4>1
        <4> QED  BY <2>4, <4>1, <4>2
      <3> QED  BY <3>1, <3>2 DEF Beside
    <2>13. r.response \in Seq(X) /\ r.call \in Seq(X)
      BY <2>3, <2>4, <2>11
    <2>14. \A i \in 1..Len(r.response) : Beside(text, r.response[i], r.call)
      BY <2>11, <2>12
    <2> QED  BY <2>13, <2>14 DEF r
  <1> QED  BY <1>2, <1>3

-----------------------------------------------------------------------------
(* The channels of a turn. *)

Pieces == [mark : Markers \cup {"word"}, at : Nat \ {0}, inner : BOOLEAN]
Inward(t) == t.inner /\ t.mark = "word"

WindowKinds ==
  /\ stream \in Seq(Pieces) /\ buffer \in Seq(Pieces)
  /\ swept \in Seq(Seq(Pieces)) /\ delivered \in Seq(Pieces)

\* What is delivered, is delivered at the end of a turn.
SaidLast ==
  /\ turn # "none" => delivered = <<>>
  /\ place \in {"loop", "pass", "sort"} => turn # "none"

\* A token is kept once, or shown once.
KeptOnce ==
  /\ \A i \in 1..Len(buffer) : buffer[i].at <= Len(stream)
  /\ \A i \in 1..Len(buffer) : \A j \in 1..Len(buffer) :
       i < j => buffer[i].at < buffer[j].at
  /\ \A k \in 1..Len(swept) : \A i \in 1..Len(swept[k]) :
       /\ swept[k][i].at <= Len(stream)
       /\ \A j \in 1..Len(buffer) : swept[k][i].at # buffer[j].at

\* What was written in a thought is kept behind the marker that opened it, and
\* nothing has closed a thought since.
InwardKept ==
  \A j \in 1..Len(buffer) : Inward(buffer[j]) =>
    /\ \E i \in 1..(j - 1) : buffer[i].mark = "[thought]"
    /\ \A i \in buffer[j].at..Len(stream) : stream[i].mark # "[/thought]"

\* A thought that is open for the voice is open in the buffer.
OpenKept == Inner => \E i \in 1..Len(buffer) : buffer[i].mark = "[thought]"

WindowInv ==
  /\ WindowKinds /\ SaidLast
  /\ Settled(buffer) /\ LiveAsWhole
  /\ KeptOnce /\ InwardKept /\ OpenKept
  /\ ChannelsApart

LEMMA NothingYet ==
  /\ <<>> \in Seq(Pieces) /\ <<>> \in Seq(Seq(Pieces)) /\ Len(<<>>) = 0
  /\ Settled(<<>>) /\ Sweep(<<>>) = [rest |-> <<>>, found |-> <<>>]
  <1>1. /\ <<>> \in Seq(Pieces) /\ <<>> \in Seq(Seq(Pieces)) /\ Len(<<>>) = 0
    OBVIOUS
  <1>2. Settled(<<>>)
    BY <1>1 DEF Settled
  <1> QED  BY <1>1, <1>2, SweepSettles DEF Whole

\* A pass begins with nothing written, kept or shown.
LEMMA PassBegins ==
  ASSUME WindowInv, NoPass, delivered' = <<>>, SaidLast'
  PROVE  WindowInv'
  <1>1. /\ stream' = <<>> /\ buffer' = <<>> /\ swept' = <<>> /\ delivered' = <<>>
        /\ Len(stream') = 0 /\ Len(buffer') = 0 /\ Len(swept') = 0 /\ Len(delivered') = 0
    BY NothingYet DEF NoPass
  <1>2. WindowKinds'
    BY <1>1, NothingYet DEF WindowKinds
  <1>3. Settled(buffer')
    BY <1>1, NothingYet
  <1>4. LiveAsWhole'
    BY <1>1, NothingYet DEF LiveAsWhole
  <1>5. KeptOnce' /\ InwardKept'
    BY <1>1 DEF KeptOnce, InwardKept
  <1>6. OpenKept'
    BY <1>1 DEF OpenKept, Inner
  <1>7. ChannelsApart'
    BY <1>1 DEF ChannelsApart
  <1> QED  BY <1>2, <1>3, <1>4, <1>5, <1>6, <1>7 DEF WindowInv

LEMMA WindowStarts == WindowInit => WindowInv
  <1> SUFFICES ASSUME WindowInit PROVE WindowInv
    OBVIOUS
  <1>1. /\ stream = <<>> /\ buffer = <<>> /\ swept = <<>> /\ delivered = <<>>
        /\ Len(stream) = 0 /\ Len(buffer) = 0 /\ Len(swept) = 0 /\ Len(delivered) = 0
        /\ turn = "none" /\ place = "idle"
    BY NothingYet DEF WindowInit
  <1>2. WindowKinds /\ SaidLast
    BY <1>1, NothingYet DEF WindowKinds, SaidLast
  <1>3. Settled(buffer)
    BY <1>1, NothingYet
  <1>4. LiveAsWhole
    BY <1>1, NothingYet DEF LiveAsWhole
  <1>5. KeptOnce /\ InwardKept
    BY <1>1 DEF KeptOnce, InwardKept
  <1>6. OpenKept
    BY <1>1 DEF OpenKept, Inner
  <1>7. ChannelsApart
    BY <1>1 DEF ChannelsApart
  <1> QED  BY <1>2, <1>3, <1>4, <1>5, <1>6, <1>7 DEF WindowInv

\* A step that leaves the stream and its channels alone.
LEMMA ChannelsLeft ==
  ASSUME WindowInv, UNCHANGED <<stream, buffer, swept, delivered>>, SaidLast'
  PROVE  WindowInv'
  <1>1. WindowKinds' /\ Settled(buffer') /\ KeptOnce' /\ InwardKept'
    BY DEF WindowInv, WindowKinds, KeptOnce, InwardKept
  <1>2. LiveAsWhole'
    BY DEF WindowInv, LiveAsWhole
  <1>3. OpenKept'
    BY DEF WindowInv, OpenKept, Inner
  <1>4. ChannelsApart'
    BY DEF WindowInv, ChannelsApart
  <1> QED  BY <1>1, <1>2, <1>3, <1>4 DEF WindowInv

\* The token is kept, with all that was.
LEMMA TokenKept ==
  ASSUME WindowInv, NEW t \in Pieces, t.at = Len(stream) + 1, t.inner <=> Inner,
         stream' = Append(stream, t), buffer' = Append(buffer, t), swept' = swept,
         t.mark = "[/thought]" => \A i \in 1..Len(buffer) : buffer[i].mark # "[thought]"
  PROVE  KeptOnce' /\ InwardKept' /\ OpenKept'
  <1> DEFINE n == Len(buffer)
             m == Len(stream)
  <1>1. WindowKinds /\ KeptOnce /\ InwardKept /\ OpenKept
    BY DEF WindowInv
  <1>2. /\ n \in Nat /\ m \in Nat
        /\ \A i \in 1..n : buffer[i] \in Pieces /\ buffer[i].at \in Nat \ {0}
        /\ \A k \in 1..Len(swept) : \A i \in 1..Len(swept[k]) : swept[k][i].at \in Nat \ {0}
    <2>1. buffer \in Seq(Pieces) /\ stream \in Seq(Pieces) /\ swept \in Seq(Seq(Pieces))
      BY <1>1 DEF WindowKinds
    <2>2. \A p \in Pieces : p.at \in Nat \ {0}
      BY DEF Pieces
    <2> HIDE DEF Pieces
    <2>3. \A k \in 1..Len(swept) : \A i \in 1..Len(swept[k]) : swept[k][i] \in Pieces
      BY <2>1
    <2> QED  BY <2>1, <2>2, <2>3
  <1>3. /\ Len(buffer') = n + 1 /\ buffer'[n + 1] = t /\ \A i \in 1..n : buffer'[i] = buffer[i]
        /\ Len(stream') = m + 1 /\ stream'[m + 1] = t /\ \A i \in 1..m : stream'[i] = stream[i]
        /\ DOMAIN stream = 1..m /\ DOMAIN stream' = 1..(m + 1)
    BY <1>1 DEF WindowKinds
  <1>4. /\ \A i \in 1..n : buffer[i].at <= m
        /\ \A i, j \in 1..n : i < j => buffer[i].at < buffer[j].at
        /\ \A k \in 1..Len(swept) : \A i \in 1..Len(swept[k]) :
             swept[k][i].at <= m /\ \A j \in 1..n : swept[k][i].at # buffer[j].at
    BY <1>1 DEF KeptOnce
  <1>5. t.at = m + 1
    OBVIOUS
  <1> HIDE DEF n, m
  <1>6. \A i \in 1..(n + 1) : i \in 1..n \/ i = n + 1
    BY <1>2
  <1>7. KeptOnce'
    <2>1. ASSUME NEW i \in 1..(n + 1) PROVE buffer'[i].at <= m + 1
      BY <1>2, <1>3, <1>4, <1>5, <1>6
    <2>2. ASSUME NEW i \in 1..(n + 1), NEW j \in 1..(n + 1), i < j
          PROVE  buffer'[i].at < buffer'[j].at
      <3>1. CASE j \in 1..n
        <4>1. i \in 1..n
          BY <1>2, <2>2, <3>1
        <4> QED  BY <1>3, <1>4, <2>2, <3>1, <4>1
      <3>2. CASE j = n + 1
        <4>1. i \in 1..n
          BY <1>2, <2>2, <3>2
        <4>2. buffer'[i].at <= m /\ buffer'[i].at \in Nat /\ buffer'[j].at = m + 1
          BY <1>2, <1>3, <1>4, <1>5, <3>2, <4>1
        <4> DEFINE x == buffer'[i].at
                   y == buffer'[j].at
        <4>3. x <= m /\ x \in Nat /\ y = m + 1
          BY <4>2
        <4> HIDE DEF x, y
        <4>4. x < y
          BY <1>2, <4>3
        <4> QED  BY <4>4 DEF x, y
      <3> QED  BY <1>6, <3>1, <3>2
    <2>3. ASSUME NEW k \in 1..Len(swept), NEW i \in 1..Len(swept[k])
          PROVE  swept[k][i].at <= m + 1 /\ \A j \in 1..(n + 1) : swept[k][i].at # buffer'[j].at
      <3>1. swept[k][i].at <= m /\ swept[k][i].at \in Nat
        BY <1>2, <1>4
      <3>2. ASSUME NEW j \in 1..(n + 1) PROVE swept[k][i].at # buffer'[j].at
        <4>1. CASE j \in 1..n
          BY <1>3, <1>4, <4>1
        <4>2. CASE j = n + 1
          BY <1>2, <1>3, <1>5, <3>1, <4>2
        <4> QED  BY <1>6, <4>1, <4>2
      <3>3. swept[k][i].at <= m + 1
        <4> DEFINE x == swept[k][i].at
        <4>1. x <= m /\ x \in Nat
          BY <3>1
        <4> HIDE DEF x
        <4>2. x <= m + 1
          BY <1>2, <4>1
        <4> QED  BY <4>2 DEF x
      <3> QED  BY <3>2, <3>3
    <2> QED  BY <1>3, <2>1, <2>2, <2>3 DEF KeptOnce
  <1>8. InwardKept'
    <2>1. ASSUME NEW j \in 1..(n + 1), Inward(buffer'[j])
          PROVE  /\ \E i \in 1..(j - 1) : buffer'[i].mark = "[thought]"
                 /\ \A i \in buffer'[j].at..(m + 1) : stream'[i].mark # "[/thought]"
      <3>1. CASE j \in 1..n
        <4>1. buffer'[j] = buffer[j] /\ Inward(buffer[j])
          BY <1>3, <2>1, <3>1
        <4>2. PICK i \in 1..(j - 1) : buffer[i].mark = "[thought]"
          BY <1>1, <3>1, <4>1 DEF InwardKept, n
        <4>3. \A k \in buffer[j].at..m : stream[k].mark # "[/thought]"
          BY <1>1, <3>1, <4>1 DEF InwardKept, n, m
        <4>4. i \in 1..n
          BY <1>2, <3>1
        <4>5. t.mark # "[/thought]"
          BY <4>2, <4>4 DEF n
        <4>6. ASSUME NEW k \in buffer[j].at..(m + 1) PROVE stream'[k].mark # "[/thought]"
          <5>1. CASE k = m + 1
            BY <1>3, <4>5, <5>1
          <5>2. CASE k # m + 1
            <6>1. k \in buffer[j].at..m /\ k \in 1..m
              BY <1>2, <3>1, <5>2
            <6> QED  BY <1>3, <4>3, <6>1
          <5> QED  BY <5>1, <5>2
        <4> QED  BY <1>3, <4>1, <4>2, <4>4, <4>6
      <3>2. CASE j = n + 1
        <4>1. buffer'[j] = t /\ t.inner /\ t.mark = "word"
          BY <1>3, <2>1, <3>2 DEF Inward
        <4>2. PICK i \in 1..n : buffer[i].mark = "[thought]"
          BY <1>1, <4>1 DEF OpenKept, n
        <4>3. i \in 1..(j - 1) /\ buffer'[i].mark = "[thought]"
          BY <1>2, <1>3, <3>2, <4>2
        <4>4. ASSUME NEW k \in buffer'[j].at..(m + 1) PROVE stream'[k].mark # "[/thought]"
          <5>1. k = m + 1
            BY <1>2, <1>5, <4>1
          <5> QED  BY <1>3, <4>1, <5>1
        <4> QED  BY <4>3, <4>4
      <3> QED  BY <1>6, <3>1, <3>2
    <2>2. Len(buffer') = n + 1 /\ Len(stream') = m + 1
      BY <1>3
    <2> QED  BY <2>1, <2>2 DEF InwardKept
  <1>9. OpenKept'
    <2>1. SUFFICES ASSUME Inner'
                   PROVE  \E i \in 1..(n + 1) : buffer'[i].mark = "[thought]"
      BY <1>3 DEF OpenKept
    <2>2. PICK i \in 1..(m + 1) : /\ stream'[i].mark = "[thought]"
                                  /\ \A j \in (i + 1)..(m + 1) : stream'[j].mark # "[/thought]"
      BY <1>3, <2>1 DEF Inner
    <2>3. CASE i = m + 1
      BY <1>2, <1>3, <2>2, <2>3
    <2>4. CASE i # m + 1
      <3>1. i \in 1..m /\ stream[i].mark = "[thought]"
        BY <1>2, <1>3, <2>2, <2>4
      <3>2. ASSUME NEW j \in (i + 1)..m PROVE stream[j].mark # "[/thought]"
        <4>1. j \in 1..m /\ j \in (i + 1)..(m + 1)
          BY <1>2, <3>1
        <4> QED  BY <1>3, <2>2, <4>1
      <3>3. Inner
        BY <1>3, <3>1, <3>2 DEF Inner, m
      <3>4. PICK k \in 1..n : buffer[k].mark = "[thought]"
        BY <1>1, <3>3 DEF OpenKept, n
      <3>5. k \in 1..(n + 1) /\ buffer'[k].mark = "[thought]"
        BY <1>2, <1>3, <3>4
      <3> QED  BY <3>5
    <2> QED  BY <2>3, <2>4
  <1> QED  BY <1>7, <1>8, <1>9

\* The token closes a thought: what is kept ends before its opening marker, and
\* the rest is shown.
LEMMA ThoughtShown ==
  ASSUME WindowInv, NEW t \in Pieces, t.mark = "[/thought]", stream' = Append(stream, t),
         NEW o \in 1..Len(buffer), \A i \in 1..(o - 1) : buffer[i].mark # "[thought]",
         buffer' \in Seq(Pieces),
         Len(buffer') = o - 1, \A k \in 1..(o - 1) : buffer'[k] = buffer[k],
         NEW b \in Seq(Pieces), swept' = Append(swept, b),
         Len(b) = Len(buffer) - o, \A k \in 1..Len(b) : b[k] = buffer[o + k]
  PROVE  KeptOnce' /\ InwardKept' /\ OpenKept'
  <1> DEFINE n == Len(buffer)
             m == Len(stream)
  <1>1. WindowKinds /\ KeptOnce /\ InwardKept
    BY DEF WindowInv
  <1>2. /\ n \in Nat /\ m \in Nat /\ o \in 1..n
        /\ \A i \in 1..n : buffer[i].at \in Nat
    <2>1. buffer \in Seq(Pieces) /\ stream \in Seq(Pieces)
      BY <1>1 DEF WindowKinds
    <2>2. \A p \in Pieces : p.at \in Nat
      BY DEF Pieces
    <2> HIDE DEF Pieces
    <2> QED  BY <2>1, <2>2
  <1>3. /\ Len(stream') = m + 1 /\ stream'[m + 1] = t /\ \A i \in 1..m : stream'[i] = stream[i]
        /\ DOMAIN stream' = 1..(m + 1)
    BY <1>1 DEF WindowKinds
  <1>4. /\ swept \in Seq(Seq(Pieces)) /\ Len(swept') = Len(swept) + 1 /\ Len(swept) \in Nat
        /\ swept'[Len(swept) + 1] = b /\ \A k \in 1..Len(swept) : swept'[k] = swept[k]
    <2>1. swept \in Seq(Seq(Pieces))
      BY <1>1 DEF WindowKinds
    <2> HIDE DEF Pieces
    <2> QED  BY <2>1
  <1>5. /\ \A i \in 1..n : buffer[i].at <= m
        /\ \A i, j \in 1..n : i < j => buffer[i].at < buffer[j].at
        /\ \A k \in 1..Len(swept) : \A i \in 1..Len(swept[k]) :
             swept[k][i].at <= m /\ \A j \in 1..n : swept[k][i].at # buffer[j].at
    BY <1>1 DEF KeptOnce
  <1>6. Len(buffer') = o - 1 /\ \A k \in 1..(o - 1) : buffer'[k] = buffer[k]
    OBVIOUS
  <1>7. Len(b) = n - o /\ \A k \in 1..Len(b) : b[k] = buffer[o + k]
    OBVIOUS
  <1>8. \A i \in 1..(o - 1) : buffer[i].mark # "[thought]" /\ i \in 1..n
    BY <1>2
  <1> HIDE DEF n, m
  <1>9. KeptOnce'
    <2>1. ASSUME NEW i \in 1..n PROVE buffer[i].at <= m + 1
      <3> DEFINE x == buffer[i].at
      <3>1. x <= m /\ x \in Nat
        BY <1>2, <1>5
      <3> HIDE DEF x
      <3>2. x <= m + 1
        BY <1>2, <3>1
      <3> QED  BY <3>2 DEF x
    <2>2. ASSUME NEW i \in 1..(o - 1) PROVE buffer'[i].at <= m + 1
      BY <1>6, <1>8, <2>1
    <2>3. ASSUME NEW i \in 1..(o - 1), NEW j \in 1..(o - 1), i < j
          PROVE  buffer'[i].at < buffer'[j].at
      BY <1>5, <1>6, <1>8, <2>3
    <2>4. ASSUME NEW k \in 1..Len(swept), NEW i \in 1..Len(swept[k])
          PROVE  /\ swept[k][i].at <= m
                 /\ \A j \in 1..(o - 1) : swept[k][i].at # buffer'[j].at
      BY <1>5, <1>6, <1>8
    <2>5. ASSUME NEW i \in 1..Len(b)
          PROVE  /\ b[i].at <= m + 1
                 /\ \A j \in 1..(o - 1) : b[i].at # buffer'[j].at
      <3>1. o + i \in 1..n /\ b[i] = buffer[o + i]
        BY <1>2, <1>7
      <3>2. ASSUME NEW j \in 1..(o - 1) PROVE b[i].at # buffer'[j].at
        <4>1. j \in 1..n /\ j < o + i /\ buffer'[j] = buffer[j]
          BY <1>2, <1>6, <1>8
        <4> DEFINE x == buffer[j].at
                   y == buffer[o + i].at
        <4>2. x < y /\ x \in Nat /\ y \in Nat
          BY <1>2, <1>5, <3>1, <4>1
        <4> HIDE DEF x, y
        <4>3. x # y
          BY <4>2
        <4> QED  BY <3>1, <4>1, <4>3 DEF x, y
      <3> QED  BY <2>1, <3>1, <3>2
    <2>6. ASSUME NEW k \in 1..Len(swept'), NEW i \in 1..Len(swept'[k])
          PROVE  /\ swept'[k][i].at <= m + 1
                 /\ \A j \in 1..(o - 1) : swept'[k][i].at # buffer'[j].at
      <3>1. CASE k \in 1..Len(swept)
        <4>1. swept'[k] = swept[k] /\ i \in 1..Len(swept[k])
          BY <1>4, <2>6, <3>1
        <4>2. swept[k][i].at \in Nat
          <5>1. \A p \in Pieces : p.at \in Nat
            BY DEF Pieces
          <5> HIDE DEF Pieces
          <5>2. swept[k][i] \in Pieces
            BY <1>4, <3>1, <4>1
          <5> QED  BY <5>1, <5>2
        <4> DEFINE x == swept[k][i].at
        <4>3. x <= m /\ x \in Nat
          BY <2>4, <3>1, <4>1, <4>2
        <4> HIDE DEF x
        <4>4. x <= m + 1
          BY <1>2, <4>3
        <4> QED  BY <2>4, <3>1, <4>1, <4>4 DEF x
      <3>2. CASE k = Len(swept) + 1
        <4>1. swept'[k] = b
          BY <1>4, <3>2
        <4> QED  BY <2>5, <4>1
      <3>3. k \in 1..Len(swept) \/ k = Len(swept) + 1
        BY <1>4
      <3> QED  BY <3>1, <3>2, <3>3
    <2> QED  BY <1>3, <1>6, <2>2, <2>3, <2>6 DEF KeptOnce
  <1>10. InwardKept'
    <2>1. ASSUME NEW j \in 1..(o - 1) PROVE ~Inward(buffer'[j])
      <3>1. j \in 1..n /\ buffer'[j] = buffer[j] /\ \A i \in 1..(j - 1) : i \in 1..(o - 1)
        BY <1>2, <1>6, <1>8
      <3> QED  BY <1>1, <1>8, <3>1 DEF InwardKept, n
    <2> QED  BY <1>6, <2>1 DEF InwardKept
  <1>11. OpenKept'
    <2>1. SUFFICES ASSUME Inner' PROVE FALSE
      BY DEF OpenKept
    <2>2. PICK i \in 1..(m + 1) : /\ stream'[i].mark = "[thought]"
                                  /\ \A j \in (i + 1)..(m + 1) : stream'[j].mark # "[/thought]"
      BY <1>3, <2>1 DEF Inner
    <2>3. i # m + 1
      BY <1>3, <2>2
    <2>4. m + 1 \in (i + 1)..(m + 1)
      BY <1>2, <2>3
    <2> QED  BY <1>3, <2>2, <2>4
  <1> QED  BY <1>9, <1>10, <1>11

LEMMA TokenSorted ==
  ASSUME WindowInv, place = "pass", place' \in {"pass", "sort"}, turn' = turn,
         delivered' = delivered, NEW t \in Pieces, t.at = Len(stream) + 1, t.inner <=> Inner,
         stream' = Append(stream, t), Feed(t)
  PROVE  WindowInv'
  <1> DEFINE u == Sweep(Append(buffer, t))
  <1>1. /\ WindowKinds /\ Settled(buffer) /\ buffer \in Seq(Pieces)
        /\ stream \in Seq(Pieces) /\ swept \in Seq(Seq(Pieces))
    BY DEF WindowInv, WindowKinds
  <1>2. buffer' = u.rest /\ swept' = swept \o u.found
    BY DEF Feed
  <1>3. /\ u \in Sorted(Pieces) /\ Settled(u.rest)
        /\ \/ /\ u.rest = Append(buffer, t) /\ u.found = <<>>
              /\ t.mark = "[/thought]" => \A i \in 1..Len(buffer) : buffer[i].mark # "[thought]"
           \/ \E o \in 1..Len(buffer) :
                /\ t.mark = "[/thought]"
                /\ \A i \in 1..(o - 1) : buffer[i].mark # "[thought]"
                /\ Len(u.rest) = o - 1 /\ \A k \in 1..(o - 1) : u.rest[k] = buffer[k]
                /\ \E b \in Seq(Pieces) : /\ u.found = <<b>> /\ Len(b) = Len(buffer) - o
                                          /\ \A k \in 1..Len(b) : b[k] = buffer[o + k]
    <2>1. Fed(Pieces, buffer, t, u)
      <3> HIDE DEF Pieces
      <3> QED  BY <1>1, FedOnce
    <2> HIDE DEF u, Pieces
    <2> QED  BY <2>1 DEF Fed
  <1>4. turn # "none" /\ delivered = <<>> /\ delivered' = <<>>
    BY DEF WindowInv, SaidLast
  <1>5. SaidLast'
    BY <1>4 DEF WindowInv, SaidLast
  <1>6. LiveAsWhole'
    <2>1. Sweep(stream) = [rest |-> buffer, found |-> swept]
      BY DEF WindowInv, LiveAsWhole
    <2> HIDE DEF u
    <2>2. /\ Sweep(stream).rest = buffer /\ Sweep(stream).found = swept
      BY <2>1
    <2>3. Sweep(Append(stream, t)) =
            [rest |-> Sweep(Append(Sweep(stream).rest, t)).rest,
             found |-> Sweep(stream).found
                         \o Sweep(Append(Sweep(stream).rest, t)).found]
      <3> HIDE DEF Pieces
      <3> QED  BY <1>1, SweepMore
    <2>4. Sweep(Append(stream, t)) = [rest |-> u.rest, found |-> swept \o u.found]
      BY <2>2, <2>3, Zenon DEF u
    <2>5. Sweep(stream') = [rest |-> buffer', found |-> swept']
      BY <1>2, <2>4
    <2> QED  BY <2>5 DEF LiveAsWhole
  <1> HIDE DEF u
  <1>7. WindowKinds'
    <2>1. u.rest \in Seq(Pieces) /\ u.found \in Seq(Seq(Pieces))
      BY <1>3 DEF Sorted
    <2>2. swept' \in Seq(Seq(Pieces)) /\ stream' \in Seq(Pieces)
      <3> HIDE DEF Pieces
      <3> QED  BY <1>1, <1>2, <2>1
    <2> QED  BY <1>2, <1>4, <2>1, <2>2, NothingYet DEF WindowKinds
  <1>8. ChannelsApart'
    BY <1>4, NothingYet DEF ChannelsApart
  <1>9. KeptOnce' /\ InwardKept' /\ OpenKept'
    <2>1. CASE /\ u.rest = Append(buffer, t) /\ u.found = <<>>
               /\ t.mark = "[/thought]" =>
                    \A i \in 1..Len(buffer) : buffer[i].mark # "[thought]"
      <3>1. swept' = swept
        BY <1>1, <1>2, <2>1
      <3>2. buffer' = Append(buffer, t)
        BY <1>2, <2>1
      <3> HIDE DEF Pieces
      <3> QED  BY <2>1, <3>1, <3>2, TokenKept
    <2>2. ASSUME NEW o \in 1..Len(buffer), t.mark = "[/thought]",
                 \A i \in 1..(o - 1) : buffer[i].mark # "[thought]",
                 Len(u.rest) = o - 1, \A k \in 1..(o - 1) : u.rest[k] = buffer[k],
                 NEW b \in Seq(Pieces), u.found = <<b>>, Len(b) = Len(buffer) - o,
                 \A k \in 1..Len(b) : b[k] = buffer[o + k]
          PROVE  KeptOnce' /\ InwardKept' /\ OpenKept'
      <3>1. swept' = Append(swept, b)
        <4> HIDE DEF Pieces
        <4> QED  BY <1>1, <1>2, <2>2, AppendIsConcat
      <3>2. /\ buffer' \in Seq(Pieces) /\ Len(buffer') = o - 1
            /\ \A k \in 1..(o - 1) : buffer'[k] = buffer[k]
        BY <1>2, <1>7, <2>2 DEF WindowKinds
      <3> HIDE DEF Pieces
      <3> QED  BY <2>2, <3>1, <3>2, ThoughtShown
    <2> QED  BY <1>3, <2>1, <2>2
  <1> QED  BY <1>2, <1>3, <1>5, <1>6, <1>7, <1>8, <1>9 DEF WindowInv

LEMMA TurnDelivers ==
  ASSUME WindowInv, UNCHANGED <<stream, buffer, swept>>, turn' = "none", place' = "idle",
         delivered' \in {<<>>, Result(buffer).response}
  PROVE  WindowInv'
  <1> DEFINE r == Result(buffer)
  <1>1. WindowKinds /\ Settled(buffer) /\ KeptOnce /\ InwardKept /\ buffer \in Seq(Pieces)
    BY DEF WindowInv, WindowKinds
  <1>2. /\ r.response \in Seq(Pieces) /\ r.call \in Seq(Pieces)
        /\ \A i \in 1..Len(r.response) : Beside(buffer, r.response[i], r.call)
    <2> HIDE DEF Pieces
    <2> QED  BY <1>1, ResponseIs
  <1> HIDE DEF r
  <1>3. WindowKinds'
    BY <1>1, <1>2, NothingYet DEF WindowKinds, r
  <1>4. SaidLast'
    BY DEF SaidLast
  <1>5. Settled(buffer') /\ KeptOnce' /\ InwardKept'
    BY <1>1 DEF KeptOnce, InwardKept
  <1>6. LiveAsWhole'
    BY DEF WindowInv, LiveAsWhole
  <1>7. OpenKept'
    BY DEF WindowInv, OpenKept, Inner
  <1>8. ChannelsApart'
    <2>1. CASE delivered' = <<>>
      BY <2>1, NothingYet DEF ChannelsApart
    <2>2. CASE delivered' = r.response
      <3>1. ASSUME NEW i \in 1..Len(r.response)
            PROVE  LET t == r.response[i] IN
              /\ t.inner /\ t.mark = "word" =>
                   ~\E j \in t.at..Len(stream) : stream[j].mark = "[/thought]"
              /\ t.mark = "word" => ~\E j \in DOMAIN swept : t.at \in Words(swept[j])
              /\ t.mark = "word" => t.at \notin Words(r.call)
        <4> DEFINE t == r.response[i]
        <4>1. PICK j \in 1..Len(buffer) :
                /\ t = buffer[j]
                /\ \A k \in 1..Len(r.call) :
                     \E m \in 1..Len(buffer) \ {j} : r.call[k] = buffer[m]
          BY <1>2 DEF Beside
        <4> HIDE DEF t
        <4>2. ASSUME t.inner, t.mark = "word"
              PROVE  ~\E k \in t.at..Len(stream) : stream[k].mark = "[/thought]"
          BY <1>1, <4>1, <4>2 DEF InwardKept, Inward
        <4>3. ASSUME NEW k \in DOMAIN swept, t.at \in Words(swept[k]) PROVE FALSE
          <5>1. swept \in Seq(Seq(Pieces))
            BY <1>1 DEF WindowKinds
          <5>2. k \in 1..Len(swept) /\ swept[k] \in Seq(Pieces)
            <6> HIDE DEF Pieces
            <6> QED  BY <4>3, <5>1
          <5>3. PICK l \in DOMAIN swept[k] : t.at = swept[k][l].at
            BY <4>3 DEF Words
          <5>4. l \in 1..Len(swept[k])
            <6> HIDE DEF Pieces
            <6> QED  BY <5>2, <5>3
          <5> QED  BY <1>1, <4>1, <5>2, <5>3, <5>4 DEF KeptOnce
        <4>4. ASSUME t.at \in Words(r.call) PROVE FALSE
          <5>1. PICK k \in DOMAIN r.call : t.at = r.call[k].at
            BY <4>4 DEF Words
          <5>2. k \in 1..Len(r.call)
            <6> HIDE DEF Pieces
            <6> QED  BY <1>2, <5>1
          <5>3. PICK m \in 1..Len(buffer) \ {j} : r.call[k] = buffer[m]
            BY <4>1, <5>2
          <5>4. buffer[m].at = buffer[j].at /\ m # j
            BY <4>1, <5>1, <5>3
          <5>5. buffer[j].at \in Nat /\ buffer[m].at \in Nat
            <6>1. \A p \in Pieces : p.at \in Nat
              BY DEF Pieces
            <6> HIDE DEF Pieces
            <6> QED  BY <1>1, <6>1
          <5>6. m < j \/ j < m
            BY <5>4
          <5>7. buffer[m].at < buffer[j].at \/ buffer[j].at < buffer[m].at
            BY <1>1, <5>6 DEF KeptOnce
          <5> DEFINE x == buffer[m].at
                     y == buffer[j].at
          <5>8. x = y /\ (x < y \/ y < x) /\ x \in Nat
            BY <5>4, <5>5, <5>7
          <5> HIDE DEF x, y
          <5> QED  BY <5>8
        <4> QED  BY <4>2, <4>3, <4>4 DEF t
      <3>2. DOMAIN r.response = 1..Len(r.response)
        <4> HIDE DEF Pieces
        <4> QED  BY <1>2
      <3> QED  BY <2>2, <3>1, <3>2 DEF ChannelsApart, r
    <2> QED  BY <2>1, <2>2 DEF r
  <1> QED  BY <1>3, <1>4, <1>5, <1>6, <1>7, <1>8 DEF WindowInv

LEMMA WindowStays == WindowInv /\ [WindowNext]_windowVars => WindowInv'
  <1> SUFFICES ASSUME WindowInv, [WindowNext]_windowVars PROVE WindowInv'
    OBVIOUS
  <1>0. SaidLast
    BY DEF WindowInv
  <1>1. CASE BeginTurn \/ RunVoluntaryTurn
    <2>1. /\ NoPass /\ delivered' = <<>> /\ turn' \in {"user", "own"}
      BY <1>1 DEF BeginTurn, RunVoluntaryTurn, Begin
    <2>2. SaidLast'
      BY <2>1 DEF SaidLast
    <2> QED  BY <2>1, <2>2, PassBegins
  <1>2. CASE StopTurn
    <2>1. UNCHANGED <<stream, buffer, swept, delivered>> /\ turn' = turn /\ place' = place
      BY <1>2 DEF StopTurn
    <2>2. SaidLast'
      BY <1>0, <2>1 DEF SaidLast
    <2> QED  BY <2>1, <2>2, ChannelsLeft
  <1>3. CASE Loop
    <2>1. /\ NoPass /\ delivered' = delivered /\ place = "loop"
          /\ \/ place' = "idle" /\ turn' = "none"
             \/ place' = "pass" /\ turn' = turn
      BY <1>3 DEF Loop
    <2>2. delivered' = <<>> /\ SaidLast'
      BY <1>0, <2>1 DEF SaidLast
    <2> QED  BY <2>1, <2>2, PassBegins
  <1>4. CASE Generate
    <2>1. PICK mark \in Markers \cup {"word"} :
            LET t == Token(mark, Len(stream) + 1, Inner)
            IN  stream' = Append(stream, t) /\ Feed(t)
      BY <1>4 DEF Generate
    <2> DEFINE t == Token(mark, Len(stream) + 1, Inner)
    <2>2. /\ place = "pass" /\ place' \in {"pass", "sort"}
          /\ turn' = turn /\ delivered' = delivered
      BY <1>4 DEF Generate, GoesOn
    <2>3. t.at = Len(stream) + 1 /\ (t.inner <=> Inner) /\ t.mark = mark
      BY DEF Token
    <2>4. t \in Pieces
      <3>1. Len(stream) + 1 \in Nat \ {0}
        <4>1. stream \in Seq(Pieces)
          BY DEF WindowInv, WindowKinds
        <4> HIDE DEF Pieces
        <4> QED  BY <4>1
      <3>2. Inner \in BOOLEAN
        BY DEF Inner
      <3> QED  BY <3>1, <3>2 DEF Pieces, Token
    <2>5. stream' = Append(stream, t) /\ Feed(t)
      BY <2>1
    <2> HIDE DEF t, Pieces
    <2> QED  BY <2>2, <2>3, <2>4, <2>5, TokenSorted
  <1>5. CASE EndPass
    <2>1. /\ UNCHANGED <<stream, buffer, swept, delivered>> /\ turn' = turn
          /\ place = "pass"
      BY <1>5 DEF EndPass
    <2>2. SaidLast'
      BY <1>0, <2>1 DEF SaidLast
    <2> QED  BY <2>1, <2>2, ChannelsLeft
  <1>6. CASE Sort
    <2>1. UNCHANGED <<stream, buffer, swept>> /\ place = "sort"
      BY <1>6 DEF Sort
    <2>2. CASE HandOver(Result(buffer))
      <3>1. delivered' = delivered /\ turn' = turn
        BY <2>2 DEF HandOver
      <3>2. SaidLast'
        BY <1>0, <2>1, <3>1 DEF SaidLast
      <3> QED  BY <2>1, <3>1, <3>2, ChannelsLeft
    <2>3. CASE Deliver(Result(buffer))
      <3>1. /\ delivered' \in {<<>>, Result(buffer).response}
            /\ turn' = "none" /\ place' = "idle"
        BY <2>3 DEF Deliver
      <3> QED  BY <2>1, <3>1, TurnDelivers
    <2> QED  BY <1>6, <2>2, <2>3 DEF Sort
  <1>7. CASE UNCHANGED windowVars
    <2>1. /\ UNCHANGED <<stream, buffer, swept, delivered>>
          /\ turn' = turn /\ place' = place
      BY <1>7 DEF windowVars
    <2>2. SaidLast'
      BY <1>0, <2>1 DEF SaidLast
    <2> QED  BY <2>1, <2>2, ChannelsLeft
  <1> QED  BY <1>1, <1>2, <1>3, <1>4, <1>5, <1>6, <1>7 DEF WindowNext, Turn

LEMMA WindowInvariant == WindowSpec => []WindowInv
  BY WindowStarts, WindowStays, PTL DEF WindowSpec

\* However the voice's stream is cut into pieces, what the parser has shown and
\* what it keeps are what it would find in the whole of it, for streams of any
\* length (stream_parser.cpp:28-46).
THEOREM PiecesSortedAsWhole == WindowSpec => []LiveAsWhole
  <1>1. WindowInv => LiveAsWhole
    BY DEF WindowInv
  <1> QED  BY <1>1, WindowInvariant, PTL

\* Thoughts, calls and speech stay apart, for streams of any length and any
\* markers in any order: no word of a thought that was closed, that was shown or
\* that is in the call is delivered (stream_parser.cpp:28-88,
\* llama_adapter.cpp:254-285, lina_core.cpp:509-615).
THEOREM ChannelsStayApart == WindowSpec => []ChannelsApart
  <1>1. WindowInv => ChannelsApart
    BY DEF WindowInv
  <1> QED  BY <1>1, WindowInvariant, PTL
=============================================================================
