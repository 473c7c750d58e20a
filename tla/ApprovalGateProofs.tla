-------------------------- MODULE ApprovalGateProofs --------------------------
(* Theorems about ApprovalGate, for any set of requesters and any number of *)
(* actions.                                                                *)
EXTENDS ApprovalGate, TLAPS

\* Every reachable state is well typed: the control never names an action, a
\* promise or a future that is not there.
THEOREM GateTypeCorrect == Spec => []TypeOK
<1>1. Init => TypeOK
  <2> SUFFICES ASSUME Init PROVE TypeOK
    OBVIOUS
  <2> USE ActionsAssumption DEF Init
  <2>1. ScreenTypes
    <3>1. posted \in Seq(Event) /\ cards \subseteq Actions /\ told \subseteq Bubble
      OBVIOUS
    <3>2. QED
      BY <3>1 DEF ScreenTypes
  <2>2. SlotTypes
    BY DEF SlotTypes, Answer
  <2>3. ThreadTypes
    BY DEF ThreadTypes, RequesterPC
  <2>4. OutcomeTypes
    BY DEF OutcomeTypes
  <2>5. QED
    BY <2>1, <2>2, <2>3, <2>4 DEF TypeOK
<1>2. TypeOK /\ [Next \/ Quiet]_vars => TypeOK'
  <2> SUFFICES ASSUME TypeOK, [Next \/ Quiet]_vars PROVE TypeOK'
    OBVIOUS
  <2> USE DEF TypeOK, Answer, RequesterPC, HandlerPC, Goto, Decide, Event,
              Bubble, Abandoned, slot, screen, threads, outcome
  <2>1. ASSUME NEW r \in Requesters, Ask(r) PROVE TypeOK'
    <3>1. ScreenTypes'
      BY ActionsAssumption, <2>1 DEF Ask, ScreenTypes, ThreadTypes
    <3>2. SlotTypes'
      BY ActionsAssumption, <2>1 DEF Ask, SlotTypes, ThreadTypes
    <3>3. ThreadTypes'
      BY ActionsAssumption, <2>1 DEF Ask, SlotTypes, ThreadTypes, Actions
    <3>4. OutcomeTypes'
      BY ActionsAssumption, <2>1 DEF Ask, OutcomeTypes, ThreadTypes
    <3>5. QED
      BY <3>1, <3>2, <3>3, <3>4
  <2>2. ASSUME NEW r \in Requesters, AutoApprove(r) PROVE TypeOK'
    <3>1. ScreenTypes'
      BY <2>2 DEF AutoApprove, ScreenTypes, ThreadTypes
    <3>2. SlotTypes'
      BY <2>2 DEF AutoApprove, SlotTypes, ThreadTypes
    <3>3. ThreadTypes'
      BY <2>2 DEF AutoApprove, SlotTypes, ThreadTypes
    <3>4. OutcomeTypes'
      BY <2>2 DEF AutoApprove, OutcomeTypes, ThreadTypes
    <3>5. QED
      BY <3>1, <3>2, <3>3, <3>4
  <2>3. ASSUME NEW r \in Requesters, Arm(r) PROVE TypeOK'
    <3>1. ScreenTypes'
      BY <2>3 DEF Arm, ScreenTypes, ThreadTypes
    <3>2. SlotTypes'
      BY <2>3 DEF Arm, SlotTypes, ThreadTypes
    <3>3. ThreadTypes'
      BY <2>3 DEF Arm, SlotTypes, ThreadTypes
    <3>4. OutcomeTypes'
      BY <2>3 DEF Arm, OutcomeTypes, ThreadTypes
    <3>5. QED
      BY <3>1, <3>2, <3>3, <3>4
  <2>4. ASSUME NEW r \in Requesters, GetFuture(r) PROVE TypeOK'
    <3>1. ScreenTypes'
      BY <2>4 DEF GetFuture, ScreenTypes, ThreadTypes
    <3>2. SlotTypes'
      BY <2>4 DEF GetFuture, SlotTypes, ThreadTypes
    <3>3. ThreadTypes'
      BY <2>4 DEF GetFuture, SlotTypes, ThreadTypes
    <3>4. OutcomeTypes'
      BY <2>4 DEF GetFuture, OutcomeTypes, ThreadTypes
    <3>5. QED
      BY <3>1, <3>2, <3>3, <3>4
  <2>5. ASSUME NEW r \in Requesters, PostCard(r) PROVE TypeOK'
    <3>1. ScreenTypes'
      BY <2>5 DEF PostCard, ScreenTypes, ThreadTypes
    <3>2. SlotTypes'
      BY <2>5 DEF PostCard, SlotTypes, ThreadTypes
    <3>3. ThreadTypes'
      BY <2>5 DEF PostCard, SlotTypes, ThreadTypes
    <3>4. OutcomeTypes'
      BY <2>5 DEF PostCard, OutcomeTypes, ThreadTypes
    <3>5. QED
      BY <3>1, <3>2, <3>3, <3>4
  <2>6. ASSUME NEW r \in Requesters, TakeAnswer(r) PROVE TypeOK'
    <3>1. ScreenTypes'
      BY <2>6 DEF TakeAnswer, ScreenTypes, ThreadTypes
    <3>2. SlotTypes'
      BY <2>6 DEF TakeAnswer, SlotTypes, ThreadTypes
    <3>3. ThreadTypes'
      BY <2>6 DEF TakeAnswer, SlotTypes, ThreadTypes
    <3>4. OutcomeTypes'
      BY <2>6 DEF TakeAnswer, OutcomeTypes, ThreadTypes
    <3>5. QED
      BY <3>1, <3>2, <3>3, <3>4
  <2>7. ASSUME NEW r \in Requesters, Deadline(r) PROVE TypeOK'
    <3>1. ScreenTypes'
      BY <2>7 DEF Deadline, ScreenTypes, ThreadTypes
    <3>2. SlotTypes'
      BY <2>7 DEF Deadline, SlotTypes, ThreadTypes
    <3>3. ThreadTypes'
      BY <2>7 DEF Deadline, SlotTypes, ThreadTypes
    <3>4. OutcomeTypes'
      BY <2>7 DEF Deadline, OutcomeTypes, ThreadTypes
    <3>5. QED
      BY <3>1, <3>2, <3>3, <3>4
  <2>8. ASSUME NEW r \in Requesters, ClearPending(r) PROVE TypeOK'
    <3>1. ScreenTypes'
      BY <2>8 DEF ClearPending, ScreenTypes, ThreadTypes
    <3>2. SlotTypes'
      BY <2>8 DEF ClearPending, SlotTypes, ThreadTypes
    <3>3. ThreadTypes'
      BY <2>8 DEF ClearPending, SlotTypes, ThreadTypes
    <3>4. OutcomeTypes'
      BY <2>8 DEF ClearPending, OutcomeTypes, ThreadTypes
    <3>5. QED
      BY <3>1, <3>2, <3>3, <3>4
  <2>9. ASSUME NEW r \in Requesters, PostTimeout(r) PROVE TypeOK'
    <3>1. ScreenTypes'
      BY <2>9 DEF PostTimeout, ScreenTypes, ThreadTypes
    <3>2. SlotTypes'
      BY <2>9 DEF PostTimeout, SlotTypes, ThreadTypes
    <3>3. ThreadTypes'
      BY <2>9 DEF PostTimeout, SlotTypes, ThreadTypes
    <3>4. OutcomeTypes'
      BY <2>9 DEF PostTimeout, OutcomeTypes, ThreadTypes
    <3>5. QED
      BY <3>1, <3>2, <3>3, <3>4
  <2>10. ASSUME NEW r \in Requesters, Gate(r) PROVE TypeOK'
    <3>1. ScreenTypes'
      BY <2>10 DEF Gate, ScreenTypes, ThreadTypes
    <3>2. SlotTypes'
      BY <2>10 DEF Gate, SlotTypes, ThreadTypes
    <3>3. ThreadTypes'
      BY <2>10 DEF Gate, SlotTypes, ThreadTypes
    <3>4. OutcomeTypes'
      BY <2>10 DEF Gate, OutcomeTypes, ThreadTypes
    <3>5. QED
      BY <3>1, <3>2, <3>3, <3>4
  <2>11. ASSUME NEW r \in Requesters, RunTool(r) PROVE TypeOK'
    <3>1. ScreenTypes'
      BY <2>11 DEF RunTool, ScreenTypes, ThreadTypes
    <3>2. SlotTypes'
      BY <2>11 DEF RunTool, SlotTypes, ThreadTypes
    <3>3. ThreadTypes'
      BY <2>11 DEF RunTool, SlotTypes, ThreadTypes
    <3>4. OutcomeTypes'
      BY <2>11 DEF RunTool, OutcomeTypes, ThreadTypes
    <3>5. QED
      BY <3>1, <3>2, <3>3, <3>4
  <2>12. ASSUME NEW r \in Requesters, Record(r) PROVE TypeOK'
    <3>1. ScreenTypes'
      BY <2>12 DEF Record, ScreenTypes, ThreadTypes
    <3>2. SlotTypes'
      BY <2>12 DEF Record, SlotTypes, ThreadTypes
    <3>3. ThreadTypes'
      BY <2>12 DEF Record, SlotTypes, ThreadTypes
    <3>4. OutcomeTypes'
      BY <2>12 DEF Record, OutcomeTypes, ThreadTypes
    <3>5. QED
      BY <3>1, <3>2, <3>3, <3>4
  <2>13. ASSUME NEW r \in Requesters, UseDeadWindow(r) PROVE TypeOK'
    <3>1. ScreenTypes'
      BY <2>13 DEF UseDeadWindow, ScreenTypes, ThreadTypes
    <3>2. SlotTypes'
      BY <2>13 DEF UseDeadWindow, SlotTypes, ThreadTypes
    <3>3. ThreadTypes'
      BY <2>13 DEF UseDeadWindow, SlotTypes, ThreadTypes
    <3>4. OutcomeTypes'
      BY <2>13 DEF UseDeadWindow, OutcomeTypes, ThreadTypes
    <3>5. QED
      BY <3>1, <3>2, <3>3, <3>4
  <2>14. CASE HandlePosted
    <3>1. ScreenTypes'
      <4> HIDE DEF Event
      <4>1. Head(posted) \in Event /\ Tail(posted) \in Seq(Event)
        BY <2>14 DEF HandlePosted, ScreenTypes
      <4>2. Head(posted).action \in Actions
        BY <4>1 DEF Event
      <4>3. cards' \subseteq Actions /\ told' \subseteq Bubble
        BY <2>14, <4>2 DEF HandlePosted, ScreenTypes
      <4>4. QED
        BY <2>14, <4>1, <4>3 DEF HandlePosted, ScreenTypes
    <3>2. SlotTypes'
      BY <2>14 DEF HandlePosted, SlotTypes, ThreadTypes
    <3>3. ThreadTypes'
      BY <2>14 DEF HandlePosted, SlotTypes, ThreadTypes
    <3>4. OutcomeTypes'
      BY <2>14 DEF HandlePosted, OutcomeTypes, ThreadTypes
    <3>5. QED
      BY <3>1, <3>2, <3>3, <3>4
  <2>15. ASSUME NEW c \in cards, NEW v \in {"approved", "denied"}, Click(c, v)
        PROVE  TypeOK'
    <3>1. ScreenTypes'
      <4>1. promise \in Actions /\ c \in Actions
        BY <2>15 DEF Click, ScreenTypes, SlotTypes
      <4>2. [verdict |-> v, action |-> promise, card |-> c] \in Bubble
        BY <4>1
      <4>3. QED
        BY <2>15, <4>2 DEF Click, ScreenTypes
    <3>2. SlotTypes'
      BY <2>15 DEF Click, SlotTypes, ThreadTypes
    <3>3. ThreadTypes'
      BY <2>15 DEF Click, SlotTypes, ThreadTypes
    <3>4. OutcomeTypes'
      BY <2>15 DEF Click, OutcomeTypes, ThreadTypes
    <3>5. QED
      BY <3>1, <3>2, <3>3, <3>4
  <2>16. CASE ToggleAutoApprove
    <3>1. ScreenTypes'
      BY <2>16 DEF ToggleAutoApprove, ScreenTypes, ThreadTypes
    <3>2. SlotTypes'
      BY <2>16 DEF ToggleAutoApprove, SlotTypes, ThreadTypes
    <3>3. ThreadTypes'
      BY <2>16 DEF ToggleAutoApprove, SlotTypes, ThreadTypes
    <3>4. OutcomeTypes'
      BY <2>16 DEF ToggleAutoApprove, OutcomeTypes, ThreadTypes
    <3>5. QED
      BY <3>1, <3>2, <3>3, <3>4
  <2>17. CASE CloseWindow
    <3>1. ScreenTypes'
      BY <2>17 DEF CloseWindow, ScreenTypes, ThreadTypes
    <3>2. SlotTypes'
      BY <2>17 DEF CloseWindow, SlotTypes, ThreadTypes
    <3>3. ThreadTypes'
      BY <2>17 DEF CloseWindow, SlotTypes, ThreadTypes
    <3>4. OutcomeTypes'
      BY <2>17 DEF CloseWindow, OutcomeTypes, ThreadTypes
    <3>5. QED
      BY <3>1, <3>2, <3>3, <3>4
  <2>18. CASE DestroyWindow
    <3>1. ScreenTypes'
      BY <2>18 DEF DestroyWindow, ScreenTypes, ThreadTypes
    <3>2. SlotTypes'
      BY <2>18 DEF DestroyWindow, SlotTypes, ThreadTypes
    <3>3. ThreadTypes'
      BY <2>18 DEF DestroyWindow, SlotTypes, ThreadTypes
    <3>4. OutcomeTypes'
      BY <2>18 DEF DestroyWindow, OutcomeTypes, ThreadTypes
    <3>5. QED
      BY <3>1, <3>2, <3>3, <3>4
  <2>19. CASE UNCHANGED vars
    BY <2>19 DEF vars, ScreenTypes, SlotTypes, ThreadTypes, OutcomeTypes
  <2>20. QED
    BY <2>1, <2>2, <2>3, <2>4, <2>5, <2>6, <2>7, <2>8, <2>9, <2>10,
       <2>11, <2>12, <2>13, <2>14, <2>15, <2>16, <2>17, <2>18, <2>19
       DEF Next, Quiet, InHandler, Finish, Human
<1>3. QED
  BY <1>1, <1>2, PTL DEF Spec

-------------------------------------------------------------------------------
\* An action in flight belongs to one requester.
OneOwner ==
  /\ \A r \in Requesters : pc[r] # "idle" => action[r] \in 1..started
  /\ \A r, q \in Requesters :
       (pc[r] # "idle" /\ pc[q] # "idle" /\ action[r] = action[q]) => r = q

\* It is decided once, in the handler, and its tool starts on an approval.
DecidedOnce ==
  /\ \A r \in Requesters : pc[r] \in HandlerPC => decision[action[r]] = "none"
  /\ \A r \in Requesters : pc[r] = "act" => decision[action[r]] = "approved"
  /\ \A n \in Actions : n > started => decision[n] = "none"
  /\ \A n \in ran : decision[n] = "approved"

\* A promise's future is taken once, so no two actions wait on one promise.
OwnFuture ==
  /\ \A n \in Actions : future[n] # 0 => future[n] \in retrieved
  /\ \A m, n \in Actions : (future[n] # 0 /\ future[m] = future[n]) => m = n

\* An approval rests on the setting or on the answer behind the own future.
Backed ==
  \A n \in Actions :
    decision[n] = "approved"
      => n \in autoed \/ (future[n] # 0 /\ answer[future[n]] = "approved")

GateInv == OneOwner /\ DecidedOnce /\ OwnFuture /\ Backed

\* Requesters, timeouts, clicks and the window's end keep the bookkeeping of
\* actions, promises and decisions.
LEMMA GateKept == Spec => []GateInv
<1>1. Init => GateInv
  BY ActionsAssumption
     DEF Init, GateInv, OneOwner, DecidedOnce, OwnFuture, Backed, Actions, HandlerPC
<1>2. TypeOK /\ GateInv /\ [Next \/ Quiet]_vars => GateInv'
  <2> SUFFICES ASSUME TypeOK, GateInv, [Next \/ Quiet]_vars PROVE GateInv'
    OBVIOUS
  <2> USE DEF GateInv, TypeOK, SlotTypes, ThreadTypes, OutcomeTypes, HandlerPC, Goto,
              Decide, Abandoned, slot, screen, threads, outcome
  <2>1. ASSUME NEW r \in Requesters, Ask(r) PROVE GateInv'
    <3>1. OneOwner'
      BY ActionsAssumption, <2>1 DEF Ask, OneOwner, Actions
    <3>2. DecidedOnce'
      BY ActionsAssumption, <2>1 DEF Ask, DecidedOnce, OneOwner, Actions
    <3>3. OwnFuture'
      BY ActionsAssumption, <2>1 DEF Ask, OwnFuture, Actions
    <3>4. Backed'
      BY ActionsAssumption, <2>1 DEF Ask, Backed, DecidedOnce, Actions
    <3>5. QED
      BY <3>1, <3>2, <3>3, <3>4
  <2>2. ASSUME NEW r \in Requesters, AutoApprove(r) PROVE GateInv'
    <3>1. OneOwner'
      BY <2>2 DEF AutoApprove, OneOwner
    <3>2. DecidedOnce'
      BY <2>2 DEF AutoApprove, DecidedOnce, OneOwner
    <3>3. OwnFuture'
      BY <2>2 DEF AutoApprove, OwnFuture
    <3>4. Backed'
      BY <2>2 DEF AutoApprove, Backed, DecidedOnce
    <3>5. QED
      BY <3>1, <3>2, <3>3, <3>4
  <2>3. ASSUME NEW r \in Requesters, Arm(r) PROVE GateInv'
    <3>1. OneOwner'
      BY <2>3 DEF Arm, OneOwner
    <3>2. DecidedOnce'
      BY <2>3 DEF Arm, DecidedOnce, OneOwner
    <3>3. OwnFuture'
      BY <2>3 DEF Arm, OwnFuture
    <3>4. Backed'
      BY <2>3 DEF Arm, Backed, DecidedOnce
    <3>5. QED
      BY <3>1, <3>2, <3>3, <3>4
  <2>4. ASSUME NEW r \in Requesters, GetFuture(r) PROVE GateInv'
    <3>1. OneOwner'
      BY <2>4 DEF GetFuture, OneOwner
    <3>2. DecidedOnce'
      BY <2>4 DEF GetFuture, DecidedOnce, OneOwner
    <3>3. OwnFuture'
      BY <2>4 DEF GetFuture, OwnFuture
    <3>4. Backed'
      BY <2>4 DEF GetFuture, Backed, DecidedOnce
    <3>5. QED
      BY <3>1, <3>2, <3>3, <3>4
  <2>5. ASSUME NEW r \in Requesters, PostCard(r) PROVE GateInv'
    <3>1. OneOwner'
      BY <2>5 DEF PostCard, OneOwner
    <3>2. DecidedOnce'
      BY <2>5 DEF PostCard, DecidedOnce, OneOwner
    <3>3. OwnFuture'
      BY <2>5 DEF PostCard, OwnFuture
    <3>4. Backed'
      BY <2>5 DEF PostCard, Backed
    <3>5. QED
      BY <3>1, <3>2, <3>3, <3>4
  <2>6. ASSUME NEW r \in Requesters, TakeAnswer(r) PROVE GateInv'
    <3>1. OneOwner'
      BY <2>6 DEF TakeAnswer, OneOwner
    <3>2. DecidedOnce'
      BY <2>6 DEF TakeAnswer, DecidedOnce, OneOwner
    <3>3. OwnFuture'
      BY <2>6 DEF TakeAnswer, OwnFuture
    <3>4. Backed'
      BY <2>6 DEF TakeAnswer, Backed, DecidedOnce
    <3>5. QED
      BY <3>1, <3>2, <3>3, <3>4
  <2>7. ASSUME NEW r \in Requesters, Deadline(r) PROVE GateInv'
    <3>1. OneOwner'
      BY <2>7 DEF Deadline, OneOwner
    <3>2. DecidedOnce'
      BY <2>7 DEF Deadline, DecidedOnce, OneOwner
    <3>3. OwnFuture'
      BY <2>7 DEF Deadline, OwnFuture
    <3>4. Backed'
      BY <2>7 DEF Deadline, Backed
    <3>5. QED
      BY <3>1, <3>2, <3>3, <3>4
  <2>8. ASSUME NEW r \in Requesters, ClearPending(r) PROVE GateInv'
    <3>1. OneOwner'
      BY <2>8 DEF ClearPending, OneOwner
    <3>2. DecidedOnce'
      BY <2>8 DEF ClearPending, DecidedOnce, OneOwner
    <3>3. OwnFuture'
      BY <2>8 DEF ClearPending, OwnFuture
    <3>4. Backed'
      BY <2>8 DEF ClearPending, Backed
    <3>5. QED
      BY <3>1, <3>2, <3>3, <3>4
  <2>9. ASSUME NEW r \in Requesters, PostTimeout(r) PROVE GateInv'
    <3>1. OneOwner'
      BY <2>9 DEF PostTimeout, OneOwner
    <3>2. DecidedOnce'
      BY <2>9 DEF PostTimeout, DecidedOnce, OneOwner
    <3>3. OwnFuture'
      BY <2>9 DEF PostTimeout, OwnFuture
    <3>4. Backed'
      BY <2>9 DEF PostTimeout, Backed
    <3>5. QED
      BY <3>1, <3>2, <3>3, <3>4
  <2>10. ASSUME NEW r \in Requesters, Gate(r) PROVE GateInv'
    <3>1. OneOwner'
      BY <2>10 DEF Gate, OneOwner
    <3>2. DecidedOnce'
      BY <2>10 DEF Gate, DecidedOnce, OneOwner
    <3>3. OwnFuture'
      BY <2>10 DEF Gate, OwnFuture
    <3>4. Backed'
      BY <2>10 DEF Gate, Backed
    <3>5. QED
      BY <3>1, <3>2, <3>3, <3>4
  <2>11. ASSUME NEW r \in Requesters, RunTool(r) PROVE GateInv'
    <3>1. OneOwner'
      BY <2>11 DEF RunTool, OneOwner
    <3>2. DecidedOnce'
      BY <2>11 DEF RunTool, DecidedOnce, OneOwner
    <3>3. OwnFuture'
      BY <2>11 DEF RunTool, OwnFuture
    <3>4. Backed'
      BY <2>11 DEF RunTool, Backed
    <3>5. QED
      BY <3>1, <3>2, <3>3, <3>4
  <2>12. ASSUME NEW r \in Requesters, Record(r) PROVE GateInv'
    <3>1. OneOwner'
      BY <2>12 DEF Record, OneOwner
    <3>2. DecidedOnce'
      BY <2>12 DEF Record, DecidedOnce, OneOwner
    <3>3. OwnFuture'
      BY <2>12 DEF Record, OwnFuture
    <3>4. Backed'
      BY <2>12 DEF Record, Backed
    <3>5. QED
      BY <3>1, <3>2, <3>3, <3>4
  <2>13. ASSUME NEW r \in Requesters, UseDeadWindow(r) PROVE GateInv'
    <3>1. OneOwner'
      BY <2>13 DEF UseDeadWindow, OneOwner
    <3>2. DecidedOnce'
      BY <2>13 DEF UseDeadWindow, DecidedOnce, OneOwner
    <3>3. OwnFuture'
      BY <2>13 DEF UseDeadWindow, OwnFuture
    <3>4. Backed'
      BY <2>13 DEF UseDeadWindow, Backed
    <3>5. QED
      BY <3>1, <3>2, <3>3, <3>4
  <2>14. CASE HandlePosted
    <3>1. OneOwner'
      BY <2>14 DEF HandlePosted, OneOwner
    <3>2. DecidedOnce'
      BY <2>14 DEF HandlePosted, DecidedOnce, OneOwner
    <3>3. OwnFuture'
      BY <2>14 DEF HandlePosted, OwnFuture
    <3>4. Backed'
      BY <2>14 DEF HandlePosted, Backed
    <3>5. QED
      BY <3>1, <3>2, <3>3, <3>4
  <2>15. ASSUME NEW c \in cards, NEW v \in {"approved", "denied"}, Click(c, v)
        PROVE  GateInv'
    <3>1. OneOwner'
      BY <2>15 DEF Click, OneOwner
    <3>2. DecidedOnce'
      BY <2>15 DEF Click, DecidedOnce, OneOwner
    <3>3. OwnFuture'
      BY <2>15 DEF Click, OwnFuture
    <3>4. Backed'
      BY <2>15 DEF Click, Backed
    <3>5. QED
      BY <3>1, <3>2, <3>3, <3>4
  <2>16. CASE ToggleAutoApprove
    <3>1. OneOwner'
      BY <2>16 DEF ToggleAutoApprove, OneOwner
    <3>2. DecidedOnce'
      BY <2>16 DEF ToggleAutoApprove, DecidedOnce, OneOwner
    <3>3. OwnFuture'
      BY <2>16 DEF ToggleAutoApprove, OwnFuture
    <3>4. Backed'
      BY <2>16 DEF ToggleAutoApprove, Backed
    <3>5. QED
      BY <3>1, <3>2, <3>3, <3>4
  <2>17. CASE CloseWindow
    <3>1. OneOwner'
      BY <2>17 DEF CloseWindow, OneOwner
    <3>2. DecidedOnce'
      BY <2>17 DEF CloseWindow, DecidedOnce, OneOwner
    <3>3. OwnFuture'
      BY <2>17 DEF CloseWindow, OwnFuture
    <3>4. Backed'
      BY <2>17 DEF CloseWindow, Backed
    <3>5. QED
      BY <3>1, <3>2, <3>3, <3>4
  <2>18. CASE DestroyWindow
    <3>1. OneOwner'
      BY <2>18 DEF DestroyWindow, OneOwner
    <3>2. DecidedOnce'
      BY <2>18 DEF DestroyWindow, DecidedOnce, OneOwner
    <3>3. OwnFuture'
      BY <2>18 DEF DestroyWindow, OwnFuture
    <3>4. Backed'
      BY <2>18 DEF DestroyWindow, Backed
    <3>5. QED
      BY <3>1, <3>2, <3>3, <3>4
  <2>19. CASE UNCHANGED vars
    BY <2>19 DEF vars, OneOwner, DecidedOnce, OwnFuture, Backed
  <2>20. QED
    BY <2>1, <2>2, <2>3, <2>4, <2>5, <2>6, <2>7, <2>8, <2>9, <2>10,
       <2>11, <2>12, <2>13, <2>14, <2>15, <2>16, <2>17, <2>18, <2>19
       DEF Next, Quiet, InHandler, Finish, Human
<1>3. QED
  BY <1>1, <1>2, GateTypeCorrect, PTL DEF Spec

\* Every run of a tool has an approval of its own: no sequence of timeouts, late
\* clicks, stale cards or second requesters makes one answer cover two actions.
THEOREM ApprovedActionsOnly == Spec => []OneApprovalOneAction
<1>1. TypeOK /\ GateInv => OneApprovalOneAction
  BY DEF TypeOK, OutcomeTypes, GateInv, DecidedOnce, OwnFuture, Backed,
         OneApprovalOneAction
<1>2. QED
  BY <1>1, GateKept, GateTypeCorrect, PTL

-------------------------------------------------------------------------------
(* The screen: cards, the events queued for it, and clicks.                 *)

\* Where the queue holds the card of action n, and where it holds a removal.
ShowsOf(n) ==
  {i \in DOMAIN posted : posted[i].event = "show" /\ posted[i].action = n}

Removals == {i \in DOMAIN posted : posted[i].event = "remove"}

\* An event posted to the GUI thread lands behind those already queued.
LEMMA Posting ==
  ASSUME posted \in Seq(Event), NEW e \in Event, posted' = Append(posted, e)
  PROVE  /\ Len(posted) \in Nat /\ posted' # <<>>
         /\ Removals \subseteq 1..Len(posted)
         /\ \A n : ShowsOf(n) \subseteq 1..Len(posted)
         /\ Removals' = Removals
              \cup (IF e.event = "remove" THEN {Len(posted) + 1} ELSE {})
         /\ \A n : ShowsOf(n)' = ShowsOf(n)
              \cup (IF e.event = "show" /\ e.action = n
                    THEN {Len(posted) + 1} ELSE {})
<1>1. /\ Len(posted) \in Nat /\ DOMAIN posted = 1..Len(posted)
      /\ DOMAIN posted' = 1..(Len(posted) + 1)
      /\ \A i \in 1..Len(posted) : posted'[i] = posted[i]
      /\ posted'[Len(posted) + 1] = e /\ posted' # <<>>
  OBVIOUS
<1> HIDE DEF Event
<1> DEFINE last == Len(posted) + 1
<1>2. DOMAIN posted' = DOMAIN posted \cup {last} /\ posted'[last] = e
  BY <1>1
<1>3. \A n : ShowsOf(n)' = ShowsOf(n)
        \cup (IF e.event = "show" /\ e.action = n THEN {last} ELSE {})
  BY <1>1, <1>2 DEF ShowsOf
<1>4. Removals' = Removals \cup (IF e.event = "remove" THEN {last} ELSE {})
  BY <1>1, <1>2 DEF Removals
<1>5. QED
  BY <1>1, <1>3, <1>4 DEF ShowsOf, Removals

\* The GUI thread takes the oldest event and the rest move up.
LEMMA Unposting ==
  ASSUME posted \in Seq(Event), posted # <<>>, posted' = Tail(posted)
  PROVE  /\ Removals \subseteq Nat \ {0} /\ Removals' \subseteq Nat \ {0}
         /\ \A n : ShowsOf(n) \subseteq Nat \ {0} /\ ShowsOf(n)' \subseteq Nat \ {0}
         /\ \A i \in Nat \ {0} : i \in Removals' <=> i + 1 \in Removals
         /\ \A n : \A i \in Nat \ {0} : i \in ShowsOf(n)' <=> i + 1 \in ShowsOf(n)
         /\ 1 \in Removals <=> Head(posted).event = "remove"
         /\ \A n : 1 \in ShowsOf(n)
              <=> (Head(posted).event = "show" /\ Head(posted).action = n)
<1>1. /\ Len(posted) \in Nat \ {0} /\ DOMAIN posted = 1..Len(posted)
      /\ DOMAIN posted' = 1..(Len(posted) - 1)
      /\ \A i \in 1..(Len(posted) - 1) : posted'[i] = posted[i + 1]
      /\ posted[1] = Head(posted)
  OBVIOUS
<1>2. \A i \in Nat \ {0} : i \in DOMAIN posted' <=> i + 1 \in DOMAIN posted
  BY <1>1
<1>3. DOMAIN posted \subseteq Nat \ {0} /\ DOMAIN posted' \subseteq Nat \ {0}
      /\ 1 \in DOMAIN posted
  BY <1>1
<1>4. \A i \in DOMAIN posted' : posted'[i] = posted[i + 1]
  BY <1>1
<1>5. Removals \subseteq Nat \ {0} /\ Removals' \subseteq Nat \ {0}
      /\ (1 \in Removals <=> Head(posted).event = "remove")
  BY <1>1, <1>3 DEF Removals
<1>6. \A n : /\ ShowsOf(n) \subseteq Nat \ {0} /\ ShowsOf(n)' \subseteq Nat \ {0}
             /\ 1 \in ShowsOf(n)
                  <=> (Head(posted).event = "show" /\ Head(posted).action = n)
  BY <1>1, <1>3 DEF ShowsOf
<1>7. \A i \in Nat \ {0} : i \in Removals' <=> i + 1 \in Removals
  BY <1>2, <1>4 DEF Removals
<1>8. \A n : \A i \in Nat \ {0} : i \in ShowsOf(n)' <=> i + 1 \in ShowsOf(n)
  BY <1>2, <1>4 DEF ShowsOf
<1>9. QED
  BY <1>5, <1>6, <1>7, <1>8

\* A request's card is posted once, after its future was taken.
ShownOnce ==
  /\ \A n \in Actions :
       (n \in cards \/ ShowsOf(n) # {}) => n <= started /\ future[n] # 0
  /\ \A n \in cards : ShowsOf(n) = {}
  /\ \A n \in Actions : \A i, j \in ShowsOf(n) : i = j
  /\ \A r \in Requesters, n \in Actions :
       (pc[r] \in {"enter", "armed", "got"} /\ action[r] = n)
         => n \notin cards /\ ShowsOf(n) = {}

\* The pending promise is the one its own action waits on, once that action
\* waits on any: a promise is made once per action and never comes back.
PromiseOfCard ==
  /\ \A r \in Requesters : pc[r] \in {"enter", "armed"} => future[action[r]] = 0
  /\ \A n \in Actions : n > started => future[n] = 0
  /\ \A n \in Actions : (future[n] # 0 /\ promise = n) => future[n] = n

\* While no stale card was clicked, an answered request has lost its card.
AnswerFromCard ==
  ~StaleClick =>
    /\ \A n \in Actions : answer[n] \in {"approved", "denied"} => n \in retrieved
    /\ \A r \in Requesters :
         pc[r] = "got" => answer[future[action[r]]] \notin {"approved", "denied"}
    /\ \A r \in Requesters, n \in Actions :
         (/\ pc[r] = "waiting" /\ action[r] = n
          /\ answer[future[n]] \in {"approved", "denied"})
            => n \notin cards /\ ShowsOf(n) = {}

\* Its requester still owes the card an end.
Attended(n) ==
  \E r \in Requesters : pc[r] \in {"waiting", "late", "cleared"} /\ action[r] = n

\* Each card on screen or queued has its requester, or a removal behind it.
Cleared ==
  ~StaleClick =>
    /\ \A n \in cards : Attended(n) \/ Removals # {}
    /\ \A n \in Actions : \A i \in ShowsOf(n) :
         Attended(n) \/ \E j \in Removals : j > i

CardInv == ShownOnce /\ PromiseOfCard /\ AnswerFromCard /\ Cleared

\* A step that leaves the cards, the queue and the actions alone, and nobody
\* leaves the handler in, leaves every card its requester.
LEMMA ClearedKept ==
  ASSUME Cleared, UNCHANGED <<posted, cards, told, action>>,
         \A q \in Requesters : pc[q] \in {"waiting", "late", "cleared"} => pc'[q] = pc[q]
  PROVE  Cleared'
<1>1. Removals' = Removals /\ \A n : ShowsOf(n)' = ShowsOf(n)
  BY DEF Removals, ShowsOf
<1>2. StaleClick' = StaleClick
  BY DEF StaleClick
<1>3. \A n : Attended(n) => Attended(n)'
  BY DEF Attended
<1>4. QED
  BY <1>1, <1>2, <1>3 DEF Cleared

\* The screen starts empty.
LEMMA CardsInitially == Init => CardInv
<1>1. Init => /\ cards = {} /\ \A n : ShowsOf(n) = {}
              /\ Removals = {} /\ ~StaleClick
  BY DEF Init, ShowsOf, Removals, StaleClick
<1>2. QED
  BY <1>1 DEF Init, CardInv, ShownOnce, PromiseOfCard, AnswerFromCard, Cleared

\* Every step of the requesters, the GUI thread and the human accounts for each
\* card.
LEMMA CardStep == TypeOK /\ GateInv /\ CardInv /\ [Next \/ Quiet]_vars => CardInv'
<1> SUFFICES ASSUME TypeOK, GateInv, CardInv, [Next \/ Quiet]_vars PROVE CardInv'
  OBVIOUS
<1>0. /\ posted \in Seq(Event) /\ cards \subseteq Actions /\ told \subseteq Bubble
      /\ posted' = posted
           => Removals' = Removals /\ \A n : ShowsOf(n)' = ShowsOf(n)
      /\ told' = told => (StaleClick' <=> StaleClick)
      /\ told \subseteq told' => (StaleClick => StaleClick')
      /\ Actions \subseteq Nat /\ 0 \notin Actions
      /\ \A n \in Actions : n <= MaxActions
  BY ActionsAssumption DEF TypeOK, ScreenTypes, Removals, ShowsOf, StaleClick, Actions
<1> USE DEF CardInv, TypeOK, SlotTypes, ThreadTypes, GateInv, OneOwner,
            OwnFuture, HandlerPC, Goto, Decide, Abandoned, slot, screen, threads,
            outcome
<1>1. ASSUME NEW r \in Requesters, Ask(r) PROVE CardInv'
  <2>1. /\ UNCHANGED <<posted, cards, told, promise, answer, retrieved, future>>
        /\ started' = started + 1 /\ started + 1 \in Actions /\ started \in Nat
        /\ action' = [action EXCEPT ![r] = started + 1]
        /\ pc[r] = "idle" /\ \E l \in {"decided", "enter"} : Goto(r, l)
    BY <1>1, ActionsAssumption DEF Ask, Actions
  <2>2. /\ \A n \in Actions : n <= started => n # started + 1 /\ n <= started'
        /\ \A n \in Actions : n > started' => n > started
        /\ started + 1 > started
    BY <2>1, <1>0
  <2>3. started + 1 \notin cards /\ ShowsOf(started + 1) = {}
    BY <2>1, <2>2 DEF ShownOnce
  <2>4. ShownOnce'
    BY <2>1, <2>2, <2>3, <1>0 DEF ShownOnce
  <2>5. PromiseOfCard'
    BY <2>1, <2>2 DEF PromiseOfCard
  <2>6. AnswerFromCard'
    BY <2>1, <1>0 DEF AnswerFromCard
  <2>7. Cleared'
    BY <2>1, <1>0 DEF Cleared, Attended
  <2>8. QED
    BY <2>4, <2>5, <2>6, <2>7
<1>2. ASSUME NEW r \in Requesters, AutoApprove(r) PROVE CardInv'
  <2>1. ShownOnce'
    BY <1>2, <1>0 DEF AutoApprove, ShownOnce
  <2>2. PromiseOfCard'
    BY <1>2, <1>0 DEF AutoApprove, PromiseOfCard
  <2>3. AnswerFromCard'
    BY <1>2, <1>0 DEF AutoApprove, AnswerFromCard
  <2>4. Cleared'
    <3>1. /\ UNCHANGED <<posted, cards, told, action>>
          /\ \A q \in Requesters : pc[q] \in {"waiting", "late", "cleared"} => pc'[q] = pc[q]
      BY <1>2 DEF AutoApprove
    <3>2. QED
      BY <3>1, ClearedKept
  <2>5. QED
    BY <2>1, <2>2, <2>3, <2>4 DEF CardInv
<1>3. ASSUME NEW r \in Requesters, Arm(r) PROVE CardInv'
  <2>1. ShownOnce'
    BY <1>3, <1>0 DEF Arm, ShownOnce
  <2>2. PromiseOfCard'
    BY <1>3, <1>0 DEF Arm, PromiseOfCard
  <2>3. AnswerFromCard'
    <3>1. /\ UNCHANGED <<posted, cards, told, retrieved, action, future>>
          /\ \E l \in {"armed", "decided"} : Goto(r, l)
      BY <1>3 DEF Arm
    <3>2. answer' = answer \/ answer' = Abandoned
      BY <1>3 DEF Arm
    <3>3. \A n \in Actions :
            answer'[n] \in {"approved", "denied"} => answer'[n] = answer[n]
      BY <3>2
    <3>4. \A q \in Requesters : pc[q] \in {"got", "waiting"}
            => pc'[q] = pc[q] /\ future[action[q]] \in Actions
      BY <1>3, <3>1 DEF Arm
    <3>5. \A q \in Requesters : pc'[q] \in {"got", "waiting"} => pc'[q] = pc[q]
      BY <3>1
    <3>6. SUFFICES ASSUME ~StaleClick', ~StaleClick PROVE AnswerFromCard'
      BY <3>1, <1>0 DEF AnswerFromCard
    <3>7. \A q \in Requesters : pc'[q] = "got"
            => answer'[future'[action'[q]]] \notin {"approved", "denied"}
      BY <3>1, <3>3, <3>4, <3>5, <3>6 DEF AnswerFromCard
    <3>8. \A q \in Requesters, n \in Actions :
            (/\ pc'[q] = "waiting" /\ action'[q] = n
             /\ answer'[future'[n]] \in {"approved", "denied"})
               => n \notin cards' /\ ShowsOf(n)' = {}
      <4> SUFFICES ASSUME NEW q \in Requesters, NEW n \in Actions,
                          pc'[q] = "waiting", action'[q] = n,
                          answer'[future'[n]] \in {"approved", "denied"}
                   PROVE  n \notin cards' /\ ShowsOf(n)' = {}
        OBVIOUS
      <4>1. /\ pc[q] = "waiting" /\ action[q] = n /\ future[n] \in Actions
            /\ answer[future[n]] \in {"approved", "denied"}
        BY <3>1, <3>3, <3>4, <3>5
      <4>2. n \notin cards /\ ShowsOf(n) = {}
        BY <3>6, <4>1 DEF AnswerFromCard
      <4>3. QED
        BY <3>1, <4>2, <1>0
    <3>9. \A n \in Actions : answer'[n] \in {"approved", "denied"} => n \in retrieved'
      BY <3>1, <3>3, <3>6 DEF AnswerFromCard
    <3>10. QED
      BY <3>7, <3>8, <3>9 DEF AnswerFromCard
  <2>4. Cleared'
    <3>1. /\ UNCHANGED <<posted, cards, told, action>>
          /\ \A q \in Requesters : pc[q] \in {"waiting", "late", "cleared"} => pc'[q] = pc[q]
      BY <1>3 DEF Arm
    <3>2. QED
      BY <3>1, ClearedKept
  <2>5. QED
    BY <2>1, <2>2, <2>3, <2>4
<1>4. ASSUME NEW r \in Requesters, GetFuture(r) PROVE CardInv'
  <2>1. ShownOnce'
    BY <1>4, <1>0 DEF GetFuture, ShownOnce
  <2>2. PromiseOfCard'
    BY <1>4, <1>0 DEF GetFuture, PromiseOfCard
  <2>3. AnswerFromCard'
    BY <1>4, <1>0 DEF GetFuture, AnswerFromCard
  <2>4. Cleared'
    <3>1. /\ UNCHANGED <<posted, cards, told, action>>
          /\ \A q \in Requesters : pc[q] \in {"waiting", "late", "cleared"} => pc'[q] = pc[q]
      BY <1>4 DEF GetFuture
    <3>2. QED
      BY <3>1, ClearedKept
  <2>5. QED
    BY <2>1, <2>2, <2>3, <2>4 DEF CardInv
<1>5. ASSUME NEW r \in Requesters, PostCard(r) PROVE CardInv'
  <2> DEFINE e == [event |-> "show", action |-> action[r]]
  <2>1. e \in Event /\ e.event = "show" /\ e.action = action[r]
    BY <1>5 DEF PostCard, Event
  <2> HIDE DEF e
  <2>2. /\ UNCHANGED <<cards, told, started, promise, answer, retrieved, action, future>>
        /\ posted' = Append(posted, e)
    BY <1>5 DEF PostCard, e
  <2> DEFINE last == Len(posted) + 1
  <2>3. /\ \A n : ShowsOf(n) \subseteq 1..Len(posted) /\ Removals \subseteq 1..Len(posted)
        /\ Len(posted) \in Nat
    BY <2>1, <2>2, <1>0, Posting
  <2>4. /\ Removals' = Removals
        /\ \A n : ShowsOf(n)' = ShowsOf(n) \cup (IF action[r] = n THEN {last} ELSE {})
    <3>1. /\ Removals' = Removals \cup (IF e.event = "remove" THEN {last} ELSE {})
          /\ \A n : ShowsOf(n)' = ShowsOf(n)
               \cup (IF e.event = "show" /\ e.action = n THEN {last} ELSE {})
      BY <2>1, <2>2, <1>0, Posting
    <3>2. QED
      BY <2>1, <3>1
  <2>5. /\ pc[r] = "got" /\ pc' = [pc EXCEPT ![r] = "waiting"]
        /\ action[r] \in Actions /\ action[r] \in 1..started
        /\ action[r] \notin cards /\ ShowsOf(action[r]) = {}
        /\ future[action[r]] # 0
    BY <1>5 DEF PostCard, ShownOnce
  <2>6. ShownOnce'
    <3>1. \A n \in Actions : ShowsOf(n)' = IF n = action[r] THEN {last} ELSE ShowsOf(n)
      BY <2>4, <2>5
    <3> HIDE DEF last
    <3>2. \A q \in Requesters : pc'[q] \in {"enter", "armed", "got"} => action[q] # action[r]
      BY <2>5
    <3>3. action[r] <= started /\ future[action[r]] # 0 /\ cards' = cards
      BY <2>2, <2>5, ActionsAssumption
    <3>4. \A n \in Actions :
            (n \in cards' \/ ShowsOf(n)' # {}) => n <= started' /\ future'[n] # 0
      BY <2>2, <3>1, <3>3 DEF ShownOnce
    <3>5. \A n \in cards' : ShowsOf(n)' = {}
      BY <2>5, <3>1, <3>3, <1>0 DEF ShownOnce
    <3>6. \A n \in Actions : \A i, j \in ShowsOf(n)' : i = j
      BY <3>1 DEF ShownOnce
    <3>7. ASSUME NEW q \in Requesters, NEW n \in Actions,
                 pc'[q] \in {"enter", "armed", "got"}, action'[q] = n
          PROVE  n \notin cards' /\ ShowsOf(n)' = {}
      <4>1. pc[q] \in {"enter", "armed", "got"} /\ action[q] = n
        BY <2>2, <2>5, <3>7
      <4>2. n # action[r]
        BY <2>2, <3>2, <3>7
      <4>3. QED
        BY <3>1, <3>3, <4>1, <4>2 DEF ShownOnce
    <3>8. QED
      BY <3>4, <3>5, <3>6, <3>7 DEF ShownOnce
  <2>7. PromiseOfCard'
    BY <2>2, <2>5 DEF PromiseOfCard
  <2>8. AnswerFromCard'
    <3>1. \A q \in Requesters \ {r} : pc[q] = "waiting" => action[q] # action[r]
      BY <2>5
    <3>2. \A n : n # action[r] => ShowsOf(n)' = ShowsOf(n)
      BY <2>4
    <3>3. QED
      BY <2>2, <2>5, <3>1, <3>2, <1>0 DEF AnswerFromCard
  <2>9. Cleared'
    <3>1. \A n : Attended(n) => Attended(n)'
      BY <2>2, <2>5 DEF Attended
    <3>2. Attended(action[r])'
      BY <2>2, <2>5 DEF Attended
    <3>3. \A n : n # action[r] => ShowsOf(n)' = ShowsOf(n)
      BY <2>4
    <3>4. QED
      BY <2>2, <2>4, <3>1, <3>2, <3>3, <1>0 DEF Cleared
  <2>10. QED
    BY <2>6, <2>7, <2>8, <2>9
<1>6. ASSUME NEW r \in Requesters, TakeAnswer(r) PROVE CardInv'
  <2>1. ShownOnce'
    BY <1>6, <1>0 DEF TakeAnswer, ShownOnce
  <2>2. PromiseOfCard'
    BY <1>6, <1>0 DEF TakeAnswer, PromiseOfCard
  <2>3. AnswerFromCard'
    BY <1>6, <1>0 DEF TakeAnswer, AnswerFromCard
  <2>4. Cleared'
    <3>1. UNCHANGED <<posted, cards, told, action>> /\ pc[r] = "waiting"
      BY <1>6 DEF TakeAnswer
    <3>2. CASE pc' = pc
      BY <3>1, <3>2, <1>0 DEF Cleared, Attended
    <3>3. CASE /\ answer[future[action[r]]] \in {"approved", "denied"}
               /\ pc' = [pc EXCEPT ![r] = "decided"]
      <4>1. \A n : (Attended(n) /\ n # action[r]) => Attended(n)'
        BY <3>1, <3>3 DEF Attended
      <4>2. ~StaleClick => action[r] \notin cards /\ ShowsOf(action[r]) = {}
        BY <3>1, <3>3 DEF AnswerFromCard
      <4>3. QED
        BY <3>1, <4>1, <4>2, <1>0 DEF Cleared
    <3>4. QED
      BY <1>6, <3>2, <3>3 DEF TakeAnswer
  <2>5. QED
    BY <2>1, <2>2, <2>3, <2>4
<1>7. ASSUME NEW r \in Requesters, Deadline(r) PROVE CardInv'
  <2>1. ShownOnce'
    BY <1>7, <1>0 DEF Deadline, ShownOnce
  <2>2. PromiseOfCard'
    BY <1>7, <1>0 DEF Deadline, PromiseOfCard
  <2>3. AnswerFromCard'
    BY <1>7, <1>0 DEF Deadline, AnswerFromCard
  <2>4. Cleared'
    BY <1>7, <1>0 DEF Deadline, Cleared, Attended
  <2>5. QED
    BY <2>1, <2>2, <2>3, <2>4 DEF CardInv
<1>8. ASSUME NEW r \in Requesters, ClearPending(r) PROVE CardInv'
  <2>1. ShownOnce'
    BY <1>8, <1>0 DEF ClearPending, ShownOnce
  <2>2. PromiseOfCard'
    BY <1>8, <1>0 DEF ClearPending, PromiseOfCard
  <2>3. AnswerFromCard'
    BY <1>8, <1>0 DEF ClearPending, AnswerFromCard
  <2>4. Cleared'
    BY <1>8, <1>0 DEF ClearPending, Cleared, Attended
  <2>5. QED
    BY <2>1, <2>2, <2>3, <2>4 DEF CardInv
<1>9. ASSUME NEW r \in Requesters, PostTimeout(r) PROVE CardInv'
  <2> DEFINE e == [event |-> "remove", action |-> action[r]]
  <2>1. e \in Event /\ e.event = "remove" /\ e.action = action[r]
    BY <1>9 DEF PostTimeout, Event
  <2> HIDE DEF e
  <2>2. /\ UNCHANGED <<cards, told, started, promise, answer, retrieved, action, future>>
        /\ posted' = Append(posted, e)
    BY <1>9 DEF PostTimeout, e
  <2> DEFINE last == Len(posted) + 1
  <2>3. /\ \A n : ShowsOf(n) \subseteq 1..Len(posted) /\ Removals \subseteq 1..Len(posted)
        /\ Len(posted) \in Nat
    BY <2>1, <2>2, <1>0, Posting
  <2>4. /\ Removals' = Removals \cup {last}
        /\ \A n : ShowsOf(n)' = ShowsOf(n)
    <3>1. /\ Removals' = Removals \cup (IF e.event = "remove" THEN {last} ELSE {})
          /\ \A n : ShowsOf(n)' = ShowsOf(n)
               \cup (IF e.event = "show" /\ e.action = n THEN {last} ELSE {})
      BY <2>1, <2>2, <1>0, Posting
    <3>2. QED
      BY <2>1, <3>1
  <2>5. pc' = [pc EXCEPT ![r] = "decided"]
    BY <1>9 DEF PostTimeout
  <2>6. ShownOnce'
    BY <2>2, <2>4, <2>5 DEF ShownOnce
  <2>7. PromiseOfCard'
    BY <2>2, <2>5 DEF PromiseOfCard
  <2>8. AnswerFromCard'
    BY <2>2, <2>4, <2>5, <1>0 DEF AnswerFromCard
  <2>9. Cleared'
    <3>1. \A n : \A i \in ShowsOf(n)' : last > i
      BY <2>3, <2>4
    <3>2. last \in Removals'
      BY <2>4
    <3> HIDE DEF last
    <3>3. QED
      BY <3>1, <3>2 DEF Cleared
  <2>10. QED
    BY <2>6, <2>7, <2>8, <2>9
<1>10. ASSUME NEW r \in Requesters, Gate(r) PROVE CardInv'
  <2>1. ShownOnce'
    BY <1>10, <1>0 DEF Gate, ShownOnce
  <2>2. PromiseOfCard'
    BY <1>10, <1>0 DEF Gate, PromiseOfCard
  <2>3. AnswerFromCard'
    BY <1>10, <1>0 DEF Gate, AnswerFromCard
  <2>4. Cleared'
    BY <1>10, <1>0 DEF Gate, Cleared, Attended
  <2>5. QED
    BY <2>1, <2>2, <2>3, <2>4 DEF CardInv
<1>11. ASSUME NEW r \in Requesters, RunTool(r) PROVE CardInv'
  <2>1. ShownOnce'
    BY <1>11, <1>0 DEF RunTool, ShownOnce
  <2>2. PromiseOfCard'
    BY <1>11, <1>0 DEF RunTool, PromiseOfCard
  <2>3. AnswerFromCard'
    BY <1>11, <1>0 DEF RunTool, AnswerFromCard
  <2>4. Cleared'
    BY <1>11, <1>0 DEF RunTool, Cleared, Attended
  <2>5. QED
    BY <2>1, <2>2, <2>3, <2>4 DEF CardInv
<1>12. ASSUME NEW r \in Requesters, Record(r) PROVE CardInv'
  <2>1. ShownOnce'
    BY <1>12, <1>0 DEF Record, ShownOnce
  <2>2. PromiseOfCard'
    BY <1>12, <1>0 DEF Record, PromiseOfCard
  <2>3. AnswerFromCard'
    BY <1>12, <1>0 DEF Record, AnswerFromCard
  <2>4. Cleared'
    BY <1>12, <1>0 DEF Record, Cleared, Attended
  <2>5. QED
    BY <2>1, <2>2, <2>3, <2>4 DEF CardInv
<1>13. ASSUME NEW r \in Requesters, UseDeadWindow(r) PROVE CardInv'
  <2>1. ShownOnce'
    BY <1>13, <1>0 DEF UseDeadWindow, ShownOnce
  <2>2. PromiseOfCard'
    BY <1>13, <1>0 DEF UseDeadWindow, PromiseOfCard
  <2>3. AnswerFromCard'
    BY <1>13, <1>0 DEF UseDeadWindow, AnswerFromCard
  <2>4. Cleared'
    BY <1>13, <1>0 DEF UseDeadWindow, Cleared, Attended
  <2>5. QED
    BY <2>1, <2>2, <2>3, <2>4 DEF CardInv
<1>14. CASE HandlePosted
  <2> DEFINE e == Head(posted)
  <2>1. posted # <<>> /\ posted' = Tail(posted) /\ e \in Event
    BY <1>14, <1>0 DEF HandlePosted
  <2>2. /\ UNCHANGED <<started, promise, answer, retrieved, action, future, pc>>
        /\ \/ e.event = "show" /\ cards' = cards \cup {e.action} /\ told' = told
           \/ e.event = "remove" /\ cards' = {} /\ (~StaleClick => ~StaleClick')
    BY <1>14 DEF HandlePosted, StaleClick
  <2>3. told \subseteq told' /\ e.action \in Actions
    BY <1>14, <2>1 DEF HandlePosted, Event
  <2>4. /\ Removals \subseteq Nat \ {0} /\ Removals' \subseteq Nat \ {0}
        /\ \A n : ShowsOf(n) \subseteq Nat \ {0} /\ ShowsOf(n)' \subseteq Nat \ {0}
        /\ \A i \in Nat \ {0} : i \in Removals' <=> i + 1 \in Removals
        /\ \A n : \A i \in Nat \ {0} : i \in ShowsOf(n)' <=> i + 1 \in ShowsOf(n)
        /\ 1 \in Removals <=> e.event = "remove"
        /\ \A n : 1 \in ShowsOf(n) <=> (e.event = "show" /\ e.action = n)
    BY <2>1, <1>0, Unposting
  <2> HIDE DEF e
  <2>5. cards' \subseteq Actions
    <3>1. cards' = {} \/ cards' = cards \cup {e.action}
      BY <2>2
    <3>2. e.action \in Actions /\ cards \subseteq Actions
      BY <2>3, <1>0
    <3>3. QED
      BY <3>1, <3>2
  <2>6. \A n : ShowsOf(n) = {} => ShowsOf(n)' = {}
    BY <2>4
  <2>7. ShownOnce'
    <3>1. \A n \in cards' : n \in cards \/ 1 \in ShowsOf(n)
      BY <2>2, <2>4
    <3>2. \A n \in cards' : ShowsOf(n)' = {}
      <4> SUFFICES ASSUME NEW n \in cards', NEW i \in ShowsOf(n)' PROVE FALSE
        OBVIOUS
      <4>1. n \in Actions
        BY <2>5
      <4>2. i \in Nat \ {0} /\ i + 1 \in ShowsOf(n)
        BY <2>4
      <4>3. 1 \in ShowsOf(n) => i + 1 = 1
        BY <4>1, <4>2 DEF ShownOnce
      <4>4. QED
        BY <3>1, <4>2, <4>3 DEF ShownOnce
    <3>3. \A n \in Actions : \A i, j \in ShowsOf(n)' : i = j
      <4> SUFFICES ASSUME NEW n \in Actions, NEW i \in ShowsOf(n)',
                          NEW j \in ShowsOf(n)'
                   PROVE  i = j
        OBVIOUS
      <4>1. i \in Nat \ {0} /\ j \in Nat \ {0}
            /\ i + 1 \in ShowsOf(n) /\ j + 1 \in ShowsOf(n)
        BY <2>4
      <4>2. i + 1 = j + 1
        BY <4>1 DEF ShownOnce
      <4>3. QED
        BY <4>1, <4>2
    <3>4. \A n \in Actions :
            (n \in cards' \/ ShowsOf(n)' # {}) => (n \in cards \/ ShowsOf(n) # {})
      BY <3>1, <2>6
    <3>5. QED
      BY <2>2, <2>6, <3>1, <3>2, <3>3, <3>4 DEF ShownOnce
  <2>8. PromiseOfCard'
    BY <2>2 DEF PromiseOfCard
  <2>9. AnswerFromCard'
    <3>1. \A n : (n \notin cards /\ ShowsOf(n) = {})
                   => (n \notin cards' /\ ShowsOf(n)' = {})
      BY <2>2, <2>4, <2>6
    <3>2. QED
      BY <2>2, <2>3, <3>1, <1>0 DEF AnswerFromCard
  <2>10. Cleared'
    <3> SUFFICES ASSUME ~StaleClick'
                 PROVE  /\ \A n \in cards' : Attended(n)' \/ Removals' # {}
                        /\ \A n \in Actions : \A i \in ShowsOf(n)' :
                             Attended(n)' \/ \E j \in Removals' : j > i
      BY DEF Cleared
    <3>1. ~StaleClick /\ \A n : Attended(n)' <=> Attended(n)
      BY <2>2, <2>3, <1>0 DEF Attended
    <3>2. \A j \in Removals : j > 1 => j - 1 \in Removals'
      <4> SUFFICES ASSUME NEW j \in Removals, j > 1 PROVE j - 1 \in Removals'
        OBVIOUS
      <4>1. j - 1 \in Nat \ {0} /\ (j - 1) + 1 = j
        BY <2>4
      <4>2. QED
        BY <2>4, <4>1
    <3>3. ASSUME NEW n \in cards' PROVE Attended(n)' \/ Removals' # {}
      <4>1. e.event = "show" /\ 1 \notin Removals
        BY <2>2, <2>4, <3>3
      <4>2. \A j \in Removals : j > 1
        BY <2>4, <4>1
      <4>3. CASE n \in cards
        BY <3>1, <3>2, <4>2, <4>3 DEF Cleared
      <4>4. CASE n = e.action
        <5>1. 1 \in ShowsOf(n) /\ n \in Actions
          BY <2>3, <2>4, <4>1, <4>4
        <5>2. QED
          BY <3>1, <3>2, <5>1 DEF Cleared
      <4>5. QED
        BY <2>2, <4>1, <4>3, <4>4
    <3>4. ASSUME NEW n \in Actions, NEW i \in ShowsOf(n)'
          PROVE  Attended(n)' \/ \E j \in Removals' : j > i
      <4>1. i \in Nat \ {0} /\ i + 1 \in ShowsOf(n)
        BY <2>4
      <4>2. CASE \E j \in Removals : j > i + 1
        <5>1. PICK j \in Removals : j > i + 1
          BY <4>2
        <5>2. j \in Nat /\ j > 1 /\ j - 1 > i
          BY <2>4, <4>1, <5>1
        <5>3. QED
          BY <3>2, <5>2
      <4>3. QED
        BY <3>1, <4>1, <4>2 DEF Cleared
    <3>5. QED
      BY <3>3, <3>4
  <2>11. QED
    BY <2>7, <2>8, <2>9, <2>10
<1>15. ASSUME NEW c \in cards, NEW v \in {"approved", "denied"}, Click(c, v)
      PROVE  CardInv'
  <2>1. /\ UNCHANGED <<posted, promise, retrieved, action, started, future, pc>>
        /\ cards' = {} /\ promise \in Actions /\ told \subseteq told'
        /\ \A n \in Actions : n # promise => answer'[n] = answer[n]
        /\ told' = told \cup {[verdict |-> v, action |-> promise, card |-> c]}
    BY <1>15 DEF Click
  <2>2. ~StaleClick' => c = promise
    <3> DEFINE t == [verdict |-> v, action |-> promise, card |-> c]
    <3>1. t \in told' /\ t.card = c /\ t.action = promise
      BY <2>1
    <3>2. QED
      BY <3>1 DEF StaleClick
  <2>3. ShownOnce'
    BY <2>1, <1>0 DEF ShownOnce
  <2>4. PromiseOfCard'
    BY <2>1 DEF PromiseOfCard
  <2>5. AnswerFromCard'
    <3> SUFFICES ASSUME ~StaleClick', AnswerFromCard PROVE AnswerFromCard'
      BY DEF AnswerFromCard
    <3>1. ~StaleClick /\ promise \in cards
      BY <2>2, <2>1, <1>0
    <3>2. future[promise] = promise /\ ShowsOf(promise) = {}
      BY <2>1, <3>1, <1>0 DEF ShownOnce, PromiseOfCard
    <3>3. promise \in retrieved
      BY <2>1, <3>2, <1>0
    <3>4. \A r \in Requesters :
            (pc[r] \in {"got", "waiting"} /\ future[action[r]] = promise)
              => action[r] = promise
      BY <2>1, <3>2, <1>0
    <3>5. \A r \in Requesters : pc[r] = "got" => future[action[r]] # promise
      BY <3>1, <3>4 DEF ShownOnce
    <3>6. \A r \in Requesters :
            pc[r] \in {"got", "waiting"} => future[action[r]] \in Actions
      OBVIOUS
    <3>7. ASSUME NEW n \in Actions, answer'[n] \in {"approved", "denied"}
          PROVE  n \in retrieved'
      BY <2>1, <3>1, <3>3, <3>7 DEF AnswerFromCard
    <3>8. ASSUME NEW r \in Requesters, pc'[r] = "got"
          PROVE  answer'[future'[action'[r]]] \notin {"approved", "denied"}
      BY <2>1, <3>1, <3>5, <3>6, <3>8 DEF AnswerFromCard
    <3>9. ASSUME NEW r \in Requesters, NEW n \in Actions,
                 pc'[r] = "waiting", action'[r] = n,
                 answer'[future'[n]] \in {"approved", "denied"}
          PROVE  n \notin cards' /\ ShowsOf(n)' = {}
      <4>1. pc[r] = "waiting" /\ action[r] = n /\ future[n] \in Actions
        BY <2>1, <3>6, <3>9
      <4>2. CASE future[n] = promise
        BY <2>1, <3>2, <3>4, <4>1, <4>2, <1>0
      <4>3. CASE future[n] # promise
        <5>1. n \notin cards /\ ShowsOf(n) = {}
          BY <2>1, <3>1, <3>9, <4>1, <4>3 DEF AnswerFromCard
        <5>2. QED
          BY <2>1, <5>1, <1>0
      <4>4. QED
        BY <4>2, <4>3
    <3>10. QED
      BY <3>7, <3>8, <3>9 DEF AnswerFromCard
  <2>6. Cleared'
    BY <2>1, <1>0 DEF Cleared, Attended
  <2>7. QED
    BY <2>3, <2>4, <2>5, <2>6
<1>16. CASE ToggleAutoApprove
  <2>1. ShownOnce'
    BY <1>16, <1>0 DEF ToggleAutoApprove, ShownOnce
  <2>2. PromiseOfCard'
    BY <1>16, <1>0 DEF ToggleAutoApprove, PromiseOfCard
  <2>3. AnswerFromCard'
    BY <1>16, <1>0 DEF ToggleAutoApprove, AnswerFromCard
  <2>4. Cleared'
    BY <1>16, <1>0 DEF ToggleAutoApprove, Cleared, Attended
  <2>5. QED
    BY <2>1, <2>2, <2>3, <2>4 DEF CardInv
<1>17. CASE CloseWindow
  <2>1. ShownOnce'
    BY <1>17, <1>0 DEF CloseWindow, ShownOnce
  <2>2. PromiseOfCard'
    BY <1>17, <1>0 DEF CloseWindow, PromiseOfCard
  <2>3. AnswerFromCard'
    BY <1>17, <1>0 DEF CloseWindow, AnswerFromCard
  <2>4. Cleared'
    BY <1>17, <1>0 DEF CloseWindow, Cleared, Attended
  <2>5. QED
    BY <2>1, <2>2, <2>3, <2>4 DEF CardInv
<1>18. CASE DestroyWindow
  <2>1. /\ UNCHANGED <<promise, told, retrieved, action, started, future, pc>>
        /\ cards' = {} /\ posted' = <<>>
        /\ \A n \in Actions \cup {0} :
             answer'[n] \in {"approved", "denied"} => answer'[n] = answer[n]
    BY <1>18 DEF DestroyWindow
  <2>2. Removals' = {} /\ \A n : ShowsOf(n)' = {}
    BY <2>1 DEF Removals, ShowsOf
  <2>3. ShownOnce'
    BY <2>1, <2>2 DEF ShownOnce
  <2>4. PromiseOfCard'
    BY <2>1 DEF PromiseOfCard
  <2>5. AnswerFromCard'
    BY <2>1, <2>2, <1>0 DEF AnswerFromCard
  <2>6. Cleared'
    BY <2>1, <2>2 DEF Cleared
  <2>7. QED
    BY <2>3, <2>4, <2>5, <2>6
<1>19. CASE UNCHANGED vars
  BY <1>19, <1>0 DEF vars, CardInv, ShownOnce, PromiseOfCard, AnswerFromCard,
     Cleared, Attended, StaleClick
<1>20. QED
  BY <1>1, <1>2, <1>3, <1>4, <1>5, <1>6, <1>7, <1>8, <1>9, <1>10,
     <1>11, <1>12, <1>13, <1>14, <1>15, <1>16, <1>17, <1>18, <1>19
     DEF Next, Quiet, InHandler, Finish, Human

\* The approval cards of the chat window end with their request: when the queue
\* is drained and nobody is in the handler the screen is clear, for any number
\* of requesters, unless a stale card was clicked.
THEOREM CardsEnd == Spec => []NoOrphanCard
<1>1. TypeOK /\ CardInv => NoOrphanCard
  <2> SUFFICES ASSUME TypeOK, CardInv, posted = <<>>, ~StaleClick,
                      \A r \in Requesters : pc[r] \notin HandlerPC
               PROVE  cards = {}
    BY DEF NoOrphanCard
  <2>1. Removals = {}
    BY DEF Removals
  <2>2. \A n : ~Attended(n)
    BY DEF Attended, HandlerPC
  <2>3. QED
    BY <2>1, <2>2 DEF CardInv, Cleared
<1>2. QED
  BY <1>1, CardsInitially, CardStep, GateKept, GateTypeCorrect, PTL DEF Spec

-------------------------------------------------------------------------------
\* One thread asks, as in the program: the turn loop is execute_tool's only
\* caller.  With two, ClearPending of one request can disarm the other's.
OneThread == \A r, q \in Requesters : r = q

\* The promise armed last is the requester's own, still pending until answered,
\* and its card is the youngest event or, with the queue drained, on screen.
Answerable ==
  \A r \in Requesters :
    /\ pc[r] \in {"armed", "got", "waiting"} =>
         /\ promise = action[r]
         /\ answer[promise] = "none" => pending
    /\ pc[r] \in {"got", "waiting"} => future[action[r]] = action[r]
    /\ (pc[r] = "waiting" /\ answer[promise] = "none" /\ window # "gone") =>
         IF posted = <<>>
         THEN action[r] \in cards
         ELSE posted[Len(posted)] = [event |-> "show", action |-> action[r]]

\* Every step keeps the one request answerable: a removal posted for an earlier
\* request is handled before the card posted for this one.
LEMMA AnswerableStep ==
  OneThread /\ TypeOK /\ Answerable /\ [Next \/ Quiet]_vars => Answerable'
<1> SUFFICES ASSUME OneThread, TypeOK, Answerable, [Next \/ Quiet]_vars
             PROVE  Answerable'
  OBVIOUS
<1>0. posted \in Seq(Event) /\ Actions \subseteq Nat /\ 0 \notin Actions
  BY ActionsAssumption DEF TypeOK, ScreenTypes, Actions
<1> USE DEF TypeOK, SlotTypes, ThreadTypes, Goto, Decide, Abandoned, slot, screen,
            threads, outcome
<1>1. ASSUME NEW r \in Requesters, Ask(r) PROVE Answerable'
  BY <1>1, <1>0 DEF Ask, Answerable, OneThread
<1>2. ASSUME NEW r \in Requesters, AutoApprove(r) PROVE Answerable'
  BY <1>2, <1>0 DEF AutoApprove, Answerable, OneThread
<1>3. ASSUME NEW r \in Requesters, Arm(r) PROVE Answerable'
  BY <1>3, <1>0 DEF Arm, Answerable, OneThread
<1>4. ASSUME NEW r \in Requesters, GetFuture(r) PROVE Answerable'
  BY <1>4, <1>0 DEF GetFuture, Answerable, OneThread
<1>5. ASSUME NEW r \in Requesters, PostCard(r) PROVE Answerable'
  <2> DEFINE e == [event |-> "show", action |-> action[r]]
  <2>1. /\ pc[r] = "got" /\ posted' = Append(posted, e) /\ e \in Event
        /\ UNCHANGED <<promise, answer, pending, action, future, cards, window>>
        /\ Goto(r, "waiting")
    BY <1>5 DEF PostCard, Event
  <2> HIDE DEF e
  <2>2. posted' # <<>> /\ posted'[Len(posted')] = e
    BY <2>1, <1>0
  <2>3. \A q \in Requesters : q = r
    BY DEF OneThread
  <2>4. Answerable'
    BY <2>1, <2>2, <2>3 DEF Answerable, e
  <2>5. QED
    BY <2>4
<1>6. ASSUME NEW r \in Requesters, TakeAnswer(r) PROVE Answerable'
  BY <1>6, <1>0 DEF TakeAnswer, Answerable, OneThread
<1>7. ASSUME NEW r \in Requesters, Deadline(r) PROVE Answerable'
  BY <1>7, <1>0 DEF Deadline, Answerable, OneThread
<1>8. ASSUME NEW r \in Requesters, ClearPending(r) PROVE Answerable'
  BY <1>8, <1>0 DEF ClearPending, Answerable, OneThread
<1>9. ASSUME NEW r \in Requesters, PostTimeout(r) PROVE Answerable'
  BY <1>9, <1>0 DEF PostTimeout, Answerable, OneThread
<1>10. ASSUME NEW r \in Requesters, Gate(r) PROVE Answerable'
  BY <1>10, <1>0 DEF Gate, Answerable, OneThread
<1>11. ASSUME NEW r \in Requesters, RunTool(r) PROVE Answerable'
  BY <1>11, <1>0 DEF RunTool, Answerable, OneThread
<1>12. ASSUME NEW r \in Requesters, Record(r) PROVE Answerable'
  BY <1>12, <1>0 DEF Record, Answerable, OneThread
<1>13. ASSUME NEW r \in Requesters, UseDeadWindow(r) PROVE Answerable'
  BY <1>13, <1>0 DEF UseDeadWindow, Answerable, OneThread
<1>14. CASE HandlePosted
  <2>1. /\ UNCHANGED <<promise, answer, pending, action, future, pc, window>>
        /\ posted # <<>> /\ posted' = Tail(posted)
    BY <1>14 DEF HandlePosted
  <2>2. /\ posted' # <<>> => posted'[Len(posted')] = posted[Len(posted)]
        /\ posted' = <<>> => posted[Len(posted)] = Head(posted)
    <3>1. /\ Len(posted) \in Nat \ {0} /\ Len(posted') = Len(posted) - 1
          /\ \A i \in 1..(Len(posted) - 1) : posted'[i] = posted[i + 1]
          /\ Head(posted) = posted[1] /\ posted' \in Seq(Event)
      BY <2>1, <1>0
    <3>2. (posted' = <<>>) <=> (Len(posted) = 1)
      BY <3>1
    <3>3. QED
      BY <3>1, <3>2
  <2>3. \A n : Head(posted) = [event |-> "show", action |-> n] => n \in cards'
    BY <1>14 DEF HandlePosted
  <2>4. QED
    BY <2>1, <2>2, <2>3 DEF Answerable
<1>15. ASSUME NEW c \in cards, NEW v \in {"approved", "denied"}, Click(c, v)
      PROVE  Answerable'
  BY <1>15, <1>0 DEF Click, Answerable, OneThread
<1>16. CASE ToggleAutoApprove
  BY <1>16, <1>0 DEF ToggleAutoApprove, Answerable, OneThread
<1>17. CASE CloseWindow
  BY <1>17, <1>0 DEF CloseWindow, Answerable, OneThread
<1>18. CASE DestroyWindow
  BY <1>18, <1>0 DEF DestroyWindow, Answerable, OneThread
<1>19. CASE UNCHANGED vars
  BY <1>19 DEF vars, Answerable
<1>20. QED
  BY <1>1, <1>2, <1>3, <1>4, <1>5, <1>6, <1>7, <1>8, <1>9, <1>10,
     <1>11, <1>12, <1>13, <1>14, <1>15, <1>16, <1>17, <1>18, <1>19
     DEF Next, Quiet, InHandler, Finish, Human

\* While a request waits unanswered in the window's handler the human can answer
\* it: a card of its own is on screen or queued behind no removal, and a click
\* on it decides this request.
THEOREM HumanCanAnswer == OneThread /\ Spec => []WaitingIsAnswerable
<1>1. Init => Answerable
  BY DEF Init, Answerable
<1>2. TypeOK /\ Answerable => WaitingIsAnswerable
  <2> SUFFICES ASSUME TypeOK, Answerable, NEW r \in Requesters, window # "gone",
                      pc[r] = "waiting", answer[future[action[r]]] = "none"
               PROVE  /\ pending /\ promise = future[action[r]]
                      /\ \/ action[r] \in cards
                         \/ \E i \in DOMAIN posted :
                              posted[i] = [event |-> "show", action |-> action[r]]
    BY DEF WaitingIsAnswerable
  <2>1. promise = action[r] /\ future[action[r]] = action[r] /\ pending
    BY DEF Answerable
  <2>2. posted # <<>> => Len(posted) \in DOMAIN posted
    BY DEF TypeOK, ScreenTypes
  <2>3. QED
    BY <2>1, <2>2 DEF Answerable
<1>3. OneThread => OneThread'
  BY DEF OneThread
<1>4. QED
  BY <1>1, <1>2, <1>3, AnswerableStep, GateTypeCorrect, PTL DEF Spec
===============================================================================
