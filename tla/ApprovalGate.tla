----------------------------- MODULE ApprovalGate -----------------------------
(***************************************************************************)
(* The human-in-the-loop gate on actions: LinaCore::execute_tool and       *)
(* request_approval (src/src/lina_core.cpp), ToolEngine::execute           *)
(* (src/src/tool_engine.cpp) and the chat window's approval cards          *)
(* (src/src/lina_ui.cpp).                                                  *)
(*                                                                         *)
(* A requester is a thread inside execute_tool: the turn thread in the     *)
(* program; request_approval is public and guards against a second one.    *)
(* The GUI thread shows and removes cards from a queue of posted events,   *)
(* and the human clicks on the cards on screen.  A step is one locked      *)
(* region, one atomic access or one call on the promise.                   *)
(*                                                                         *)
(* Actions are numbered in the order they are requested.  What a tool does *)
(* is abstracted to whether it succeeds.                                   *)
(***************************************************************************)
EXTENDS Naturals, Sequences

CONSTANTS
  Requesters,
  MaxActions   \* bound: actions requested

ASSUME ActionsAssumption == MaxActions \in Nat

Actions == 1..MaxActions

VARIABLES
  handler,       \* approval_handler_ is set
  window,        \* "open", "closing": its destructor's body runs, "gone"
  auto_approve,  \* settings_.auto_approve
  pending,       \* approval_pending_
  promise,       \* the action approval_promise_ was last made for, 0 = none
  answer,        \* what each action's promise was given
  retrieved,     \* promises whose future was taken
  posted,        \* events queued for the GUI thread
  cards,         \* actions whose card is on screen
  told,          \* bubbles the human was shown
  pc,            \* where each requester stands
  action,        \* the action each requester is executing
  started,       \* number of the last requested action
  future,        \* the promise whose future each action's thread took
  decision,      \* request_approval's result for each action
  ran,           \* actions whose tool ran
  succeeded,     \* those whose tool reported ok
  ledger,        \* state column of lina_actions, per action
  autoed,        \* auxiliary: actions approved by the auto-approve setting
  alive          \* FALSE once the process ended

screen  == <<posted, cards, told>>
slot    == <<pending, promise, answer, retrieved>>
outcome == <<ran, succeeded, ledger>>
threads == <<pc, action, started, future, decision, autoed>>
vars == <<handler, window, auto_approve, slot, screen, threads, outcome, alive>>

Answer == {"none", "approved", "denied", "broken"}

\* Inside the handler the window registered, which captured the window.
HandlerPC == {"enter", "armed", "got", "waiting", "late", "cleared"}

RequesterPC == HandlerPC \cup {"idle", "decided", "act", "record"}

Goto(r, label) == pc' = [pc EXCEPT ![r] = label]

Decide(r, d) ==
  /\ decision' = [decision EXCEPT ![action[r]] = d]
  /\ Goto(r, "decided")

\* A promise destroyed or assigned over before it was answered is broken.
Abandoned == IF promise \in Actions /\ answer[promise] = "none"
             THEN [answer EXCEPT ![promise] = "broken"]
             ELSE answer

Init ==
  /\ handler = TRUE
  /\ window = "open"
  /\ auto_approve = FALSE
  /\ pending = FALSE
  /\ promise = 0
  /\ answer = [n \in Actions |-> "none"]
  /\ retrieved = {}
  /\ posted = <<>>
  /\ cards = {}
  /\ told = {}
  /\ pc = [r \in Requesters |-> "idle"]
  /\ action = [r \in Requesters |-> 0]
  /\ started = 0
  /\ future = [n \in Actions |-> 0]
  /\ decision = [n \in Actions |-> "none"]
  /\ ran = {}
  /\ succeeded = {}
  /\ ledger = [n \in Actions |-> "none"]
  /\ autoed = {}
  /\ alive = TRUE

-------------------------------------------------------------------------------
(* A requester: execute_tool, ToolEngine::execute, request_approval.       *)

\* An unknown tool and a missing handler are declined without asking; otherwise
\* the handler is copied and called outside approval_mutex_.
Ask(r) ==
  /\ pc[r] = "idle" /\ started < MaxActions
  /\ started' = started + 1
  /\ action' = [action EXCEPT ![r] = started + 1]
  /\ \/ /\ decision' = [decision EXCEPT ![started + 1] = "denied"]
        /\ Goto(r, "decided")
     \/ handler /\ Goto(r, "enter") /\ UNCHANGED decision
  /\ UNCHANGED <<handler, window, auto_approve, slot, screen, future, autoed,
                 outcome, alive>>

AutoApprove(r) ==
  /\ pc[r] = "enter" /\ auto_approve
  /\ autoed' = autoed \cup {action[r]}
  /\ Decide(r, "approved")
  /\ UNCHANGED <<handler, window, auto_approve, slot, screen, action, started,
                 future, outcome, alive>>

\* Under the window's approval_mutex_: one pending request at a time.
Arm(r) ==
  /\ pc[r] = "enter" /\ ~auto_approve
  /\ \/ pending /\ Decide(r, "denied") /\ UNCHANGED slot
     \/ /\ ~pending
        /\ pending' = TRUE
        /\ answer' = Abandoned
        /\ promise' = action[r]
        /\ Goto(r, "armed")
        /\ UNCHANGED <<retrieved, decision>>
  /\ UNCHANGED <<handler, window, auto_approve, screen, action, started, future,
                 autoed, outcome, alive>>

\* get_future, after the unlock: a second get_future on one promise throws.
GetFuture(r) ==
  /\ pc[r] = "armed"
  /\ IF promise \in retrieved
     THEN /\ alive' = FALSE
          /\ UNCHANGED <<future, retrieved, pc>>
     ELSE /\ future' = [future EXCEPT ![action[r]] = promise]
          /\ retrieved' = retrieved \cup {promise}
          /\ Goto(r, "got")
          /\ UNCHANGED alive
  /\ UNCHANGED <<handler, window, auto_approve, pending, promise, answer, screen,
                 action, started, decision, autoed, outcome>>

\* Mutant: the card is not asked for.
PostCardLost(r) ==
  /\ pc[r] = "got"
  /\ Goto(r, "waiting")
  /\ UNCHANGED <<handler, window, auto_approve, slot, screen, action,
                 started, future, decision, autoed, outcome, alive>>

PostCard(r) ==
  /\ pc[r] = "got"
  /\ posted' = Append(posted, [event |-> "show", action |-> action[r]])
  /\ Goto(r, "waiting")
  /\ UNCHANGED <<handler, window, auto_approve, slot, cards, told, action,
                 started, future, decision, autoed, outcome, alive>>

\* wait_for found the future ready; get throws on a broken promise.
TakeAnswer(r) ==
  /\ pc[r] = "waiting"
  /\ LET a == answer[future[action[r]]]
     IN  \/ a \in {"approved", "denied"} /\ Decide(r, a) /\ UNCHANGED alive
         \/ a = "broken" /\ alive' = FALSE /\ UNCHANGED <<pc, decision>>
  /\ UNCHANGED <<handler, window, auto_approve, slot, screen, action, started,
                 future, autoed, outcome>>

\* Mutant: timeout_ms is not honoured.
DeadlineNever(r) == FALSE

\* timeout_ms passed with no answer.
Deadline(r) ==
  /\ pc[r] = "waiting"
  /\ answer[future[action[r]]] = "none"
  /\ Goto(r, "late")
  /\ UNCHANGED <<handler, window, auto_approve, slot, screen, action, started,
                 future, decision, autoed, outcome, alive>>

\* The store approval_pending_ = false, without the mutex.
ClearPending(r) ==
  /\ pc[r] = "late"
  /\ pending' = FALSE
  /\ Goto(r, "cleared")
  /\ UNCHANGED <<handler, window, auto_approve, promise, answer, retrieved,
                 screen, action, started, future, decision, autoed, outcome, alive>>

\* Mutant: the timed-out request does not ask for its card's removal.
PostTimeoutSilent(r) ==
  /\ pc[r] = "cleared"
  /\ Decide(r, "timedout")
  /\ UNCHANGED <<handler, window, auto_approve, slot, screen, action,
                 started, future, autoed, outcome, alive>>

PostTimeout(r) ==
  /\ pc[r] = "cleared"
  /\ posted' = Append(posted, [event |-> "remove", action |-> action[r]])
  /\ Decide(r, "timedout")
  /\ UNCHANGED <<handler, window, auto_approve, slot, cards, told, action,
                 started, future, autoed, outcome, alive>>

\* Mutant: only an explicit denial stops the tool.
GateDeniedOnly(r) ==
  /\ pc[r] = "decided"
  /\ Goto(r, IF decision[action[r]] # "denied" THEN "act" ELSE "record")
  /\ UNCHANGED <<handler, window, auto_approve, slot, screen, action, started,
                 future, decision, autoed, outcome, alive>>

\* ToolEngine::execute: only Approved runs the tool.
Gate(r) ==
  /\ pc[r] = "decided"
  /\ Goto(r, IF decision[action[r]] = "approved" THEN "act" ELSE "record")
  /\ UNCHANGED <<handler, window, auto_approve, slot, screen, action, started,
                 future, decision, autoed, outcome, alive>>

RunTool(r) ==
  /\ pc[r] = "act"
  /\ ran' = ran \cup {action[r]}
  /\ succeeded' \in {succeeded, succeeded \cup {action[r]}}
  /\ Goto(r, "record")
  /\ UNCHANGED <<handler, window, auto_approve, slot, screen, action, started,
                 future, decision, autoed, ledger, alive>>

\* store_action, after the fact: "executed" when the result was ok, "denied"
\* otherwise.  A storage exception has no handler on the turn thread.
Record(r) ==
  /\ pc[r] = "record"
  /\ \/ /\ ledger' = [ledger EXCEPT ![action[r]] =
                        IF action[r] \in succeeded THEN "executed" ELSE "denied"]
        /\ Goto(r, "idle")
        /\ UNCHANGED alive
     \/ alive' = FALSE /\ UNCHANGED <<ledger, pc>>
  /\ UNCHANGED <<handler, window, auto_approve, slot, screen, action, started,
                 future, decision, autoed, ran, succeeded>>

\* The handler's next access to a destroyed window: the waiting future is
\* broken and get throws, any other access is undefined and taken to end the
\* process.
UseDeadWindow(r) ==
  /\ window = "gone" /\ pc[r] \in HandlerPC
  /\ alive' = FALSE
  /\ UNCHANGED <<handler, window, auto_approve, slot, screen, threads, outcome>>

-------------------------------------------------------------------------------
(* The GUI thread and the human at it.                                     *)

\* The event loop runs the oldest posted event.
HandlePosted ==
  /\ window = "open" /\ posted # <<>>
  /\ posted' = Tail(posted)
  /\ LET e == Head(posted)
     IN  \/ /\ e.event = "show"
            /\ cards' = cards \cup {e.action}
            /\ UNCHANGED told
         \/ /\ e.event = "remove"
            /\ cards' = {}
            /\ told' = told \cup {[verdict |-> "timedout", action |-> e.action,
                                   card |-> e.action]}
  /\ UNCHANGED <<handler, window, auto_approve, slot, threads, outcome, alive>>

\* resolvePendingApproval from a card's button, under approval_mutex_: it
\* answers whatever request is pending and clears the screen.  Answering a
\* promise twice is swallowed.
Click(card, verdict) ==
  /\ window = "open" /\ card \in cards
  /\ pending
  /\ pending' = FALSE
  /\ cards' = {}
  /\ told' = told \cup {[verdict |-> verdict, action |-> promise, card |-> card]}
  /\ answer' = [answer EXCEPT ![promise] = IF @ = "none" THEN verdict ELSE @]
  /\ UNCHANGED <<handler, window, auto_approve, promise, retrieved, posted,
                 threads, outcome, alive>>

ToggleAutoApprove ==
  /\ window = "open"
  /\ auto_approve' = ~auto_approve
  /\ UNCHANGED <<handler, window, slot, screen, threads, outcome, alive>>

\* ~ChatWindowImpl: the handler is taken back, then end_session runs.
CloseWindow ==
  /\ window = "open"
  /\ window' = "closing"
  /\ handler' = FALSE
  /\ UNCHANGED <<auto_approve, slot, screen, threads, outcome, alive>>

\* The members go: the promise with them, and Qt drops the posted events.
DestroyWindow ==
  /\ window = "closing"
  /\ window' = "gone"
  /\ posted' = <<>>
  /\ cards' = {}
  /\ answer' = Abandoned
  /\ UNCHANGED <<handler, auto_approve, pending, promise, retrieved, told, threads,
                 outcome, alive>>

-------------------------------------------------------------------------------
InHandler(r) ==
  /\ window # "gone"
  /\ \/ AutoApprove(r) \/ Arm(r) \/ GetFuture(r) \/ PostCard(r)
     \/ TakeAnswer(r) \/ Deadline(r) \/ ClearPending(r) \/ PostTimeout(r)

Finish(r) == Gate(r) \/ RunTool(r) \/ Record(r)

Human ==
  \/ \E c \in cards, v \in {"approved", "denied"} : Click(c, v)
  \/ ToggleAutoApprove
  \/ CloseWindow

Next ==
  /\ alive
  /\ \/ \E r \in Requesters : Ask(r) \/ InHandler(r) \/ Finish(r) \/ UseDeadWindow(r)
     \/ HandlePosted
     \/ Human
     \/ DestroyWindow

Ended ==
  \/ ~alive
  \/ window = "gone" /\ started = MaxActions /\ \A r \in Requesters : pc[r] = "idle"

Quiet == Ended /\ UNCHANGED vars

Spec == Init /\ [][Next \/ Quiet]_vars

\* wait_for's deadline passes, scheduled threads run, the event loop turns; the
\* human need not do anything.
FairSpec ==
  /\ Spec
  /\ \A r \in Requesters :
       WF_vars(alive /\ (InHandler(r) \/ Finish(r) \/ UseDeadWindow(r)))
  /\ WF_vars(alive /\ HandlePosted)
  /\ WF_vars(alive /\ DestroyWindow)

-------------------------------------------------------------------------------
(* Properties.                                                             *)

Event == [event : {"show", "remove"}, action : Actions]

Bubble == [verdict : {"approved", "denied", "timedout"}, action : Actions,
           card : Actions]

ScreenTypes ==
  /\ handler \in BOOLEAN /\ auto_approve \in BOOLEAN
  /\ window \in {"open", "closing", "gone"}
  /\ posted \in Seq(Event)
  /\ cards \subseteq Actions /\ told \subseteq Bubble

SlotTypes ==
  /\ pending \in BOOLEAN
  /\ promise \in Actions \cup {0}
  /\ pending => promise # 0
  /\ answer \in [Actions -> Answer]
  /\ retrieved \subseteq Actions
  /\ future \in [Actions -> Actions \cup {0}]

ThreadTypes ==
  /\ alive \in BOOLEAN
  /\ started \in 0..MaxActions
  /\ pc \in [Requesters -> RequesterPC]
  /\ action \in [Requesters -> Actions \cup {0}]
  /\ \A r \in Requesters :
       /\ pc[r] # "idle" => action[r] # 0
       /\ pc[r] = "armed" => promise # 0
       /\ pc[r] \in {"got", "waiting"} => future[action[r]] # 0

OutcomeTypes ==
  /\ decision \in [Actions -> {"none", "approved", "denied", "timedout"}]
  /\ ran \subseteq Actions /\ succeeded \subseteq Actions
  /\ autoed \subseteq Actions
  /\ ledger \in [Actions -> {"none", "executed", "denied"}]

\* Types, and the names each part of the control carries: an action per busy
\* requester, a future from "got" on, a promise whenever one is pending.
TypeOK == ScreenTypes /\ SlotTypes /\ ThreadTypes /\ OutcomeTypes

\* A tool that ran had its own approval: the auto-approve setting, or a promise
\* the human approved and that no other action's run rests on ("The approval
\* engine is the ONLY gate on LiNa's actions").
OneApprovalOneAction ==
  \A n \in ran \ autoed :
    /\ future[n] # 0
    /\ answer[future[n]] = "approved"
    /\ \A m \in ran \ autoed : future[m] = future[n] => m = n

\* While a request waits unanswered its card is on screen or on its way there,
\* and a click on it is taken as its answer: the human can always decide.
WaitingIsAnswerable ==
  \A r \in Requesters :
    (window # "gone" /\ pc[r] = "waiting" /\ answer[future[action[r]]] = "none")
      => /\ pending /\ promise = future[action[r]]
         /\ \/ action[r] \in cards
            \/ \E i \in DOMAIN posted :
                 posted[i] = [event |-> "show", action |-> action[r]]

\* A click taken from the card of another request than the pending one.
StaleClick == \E t \in told : t.card # t.action

\* No card outlives its request: with no event queued and nobody in the handler
\* the screen is clear, unless a stale card was clicked (its request's own card
\* is then shown after the answer).
NoOrphanCard ==
  (/\ posted = <<>> /\ ~StaleClick
   /\ \A r \in Requesters : pc[r] \notin HandlerPC)
    => cards = {}

\* Every request ends, the human answering or not, unless the process ended.
EveryRequestEnds ==
  \A r \in Requesters : pc[r] = "enter" ~> (pc[r] = "idle" \/ ~alive)

\* "Approved — the action may proceed.": an action the human was told is
\* approved is not declined.
ToldIsTrue ==
  \A t \in told :
    t.verdict = "approved" => decision[t.action] \in {"none", "approved"}

\* "no callbacks fire into dead state while we wind down": no request is inside
\* the window's handler when the window is destroyed.
NoHandlerInDeadWindow ==
  window = "gone" => \A r \in Requesters : pc[r] \notin HandlerPC
===============================================================================
