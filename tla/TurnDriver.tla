------------------------------ MODULE TurnDriver ------------------------------
(***************************************************************************)
(* The open-window turn driver of LinaCore (src/src/lina_core.cpp).        *)
(*                                                                         *)
(* Three threads share one door:                                           *)
(*   - the caller (the Qt thread): begin_turn, stop_turn, attach_model and *)
(*     the destructor.  It makes one call at a time;                       *)
(*   - "user", the turn thread that begin_turn spawns (run_turn_loop);     *)
(*   - "floor", the window thread (window_loop, run_voluntary_turn).       *)
(* A step is one locked region or one access to an atomic, so the gap      *)
(* between reading turn_active_ and storing it is visible.                 *)
(*                                                                         *)
(* Text is abstracted to what the door tells apart: no text, text inside   *)
(* her polytope, text outside it.  apply_gate is one step here (its loop   *)
(* is ReflectionGate's subject).  A storage exception on the turn or the   *)
(* window thread is uncaught in the code, so it ends the process.          *)
(***************************************************************************)
EXTENDS Naturals, Sequences

CONSTANTS
  MaxTurns,      \* bound: accepted begin_turn calls
  MaxFloors,     \* bound: voluntary turns the window thread claims
  MaxToolCalls,  \* kMaxToolCallsPerTurn, 8 in the code
  HistoryCap     \* the 20 entries conversation_history_ is trimmed past

ASSUME BoundsAssumption ==
  /\ MaxTurns \in Nat
  /\ MaxFloors \in Nat
  /\ MaxToolCalls \in Nat
  /\ HistoryCap \in Nat \ {0}

VARIABLES
  connected,       \* model_adapter_ attached and connected
  turn_active,     \* turn_active_
  turn_stop,       \* turn_stop_
  turn_callbacks,  \* turn_callbacks_: the turn that installed them, 0 = none
  history,         \* conversation_history_
  window_due,      \* now >= next_window_at_
  window_stop,     \* window_stop_
  cpc,             \* where the caller stands in begin_turn or the destructor
  pc,              \* where each speaker's thread stands
  turnNo,          \* number of the last accepted begin_turn
  running,         \* the turn the turn thread runs
  floorNo,         \* number of the last voluntary turn that took the floor
  tool_calls,      \* run_turn_loop's local counter
  draft,           \* text each speaker's last generation left
  verdict,         \* what the gate returned to each speaker
  target,          \* callbacks each speaker copied before calling them
  said,            \* deliveries, in order
  remembered,      \* utterances stored on the cognitive bus
  alive,           \* FALSE once an uncaught exception ended the process
  stolen,          \* auxiliary: begin_turn stored its claim over a standing one
  asked,           \* auxiliary: stop requested while this speaker held the door
  toolsAfterStop,  \* auxiliary: tools the turn ran after that request
  paired           \* auxiliary: user turns whose reply entered the history

control == <<cpc, pc, turnNo, running, floorNo>>
shared  == <<connected, turn_active, turn_stop, turn_callbacks, history>>
window  == <<window_due, window_stop>>
speech  == <<tool_calls, draft, verdict, target, said, remembered>>
aux     == <<stolen, asked, toolsAfterStop, paired>>
vars    == <<control, shared, window, speech, alive, aux>>

Speaker == {"user", "floor"}

\* "none": no token decoded yet, or a failed prompt.  "cut": the stop flag
\* allowed no token.  "empty": tokens, but no response text among them.
Text == {"none", "cut", "empty", "good", "bad"}

NoText == {"none", "cut", "empty"}

CallerPC ==
  {"idle", "checked", "installed", "windowed", "claimed",
   "dropped", "stopping", "joined", "raised", "closing", "closed"}

\* Between taking the door (spawned, or compare-exchange won) and releasing it.
DoorPC ==
  {"start", "loop", "prompt", "stream", "classify", "tool", "gate",
   "emit", "invoke", "store", "append", "release"}

\* "none": not spawned.  "finished": past its last store, joinable.
\* "check", "tested", "wait", "claim", "exit": the window thread outside a
\* voluntary turn.  At "tested" it holds window_mutex_, which its wait releases.
ThreadPC ==
  DoorPC \cup {"none", "finished", "check", "tested", "wait", "claim", "exit"}

Holding(s) == pc[s] \in DoorPC

Utterance(s) == [speaker |-> s, nr |-> IF s = "user" THEN running ELSE floorNo]

Goto(s, label) == pc' = [pc EXCEPT ![s] = label]

Init ==
  /\ connected = FALSE
  /\ turn_active = FALSE
  /\ turn_stop = FALSE
  /\ turn_callbacks = 0
  /\ history = <<>>
  /\ window_due = FALSE
  /\ window_stop = FALSE
  /\ cpc = "idle"
  /\ pc = [s \in Speaker |-> IF s = "user" THEN "none" ELSE "check"]
  /\ turnNo = 0
  /\ running = 0
  /\ floorNo = 0
  /\ tool_calls = 0
  /\ draft = [s \in Speaker |-> "none"]
  /\ verdict = [s \in Speaker |-> "none"]
  /\ target = [s \in Speaker |-> 0]
  /\ said = <<>>
  /\ remembered = {}
  /\ alive = TRUE
  /\ stolen = FALSE
  /\ asked = [s \in Speaker |-> FALSE]
  /\ toolsAfterStop = 0
  /\ paired = 0

-------------------------------------------------------------------------------
(* The caller.                                                             *)

\* attach_model: the driver arrives after the window thread is running.  The
\* program attaches one, once (main.cpp:79), and never takes it away.
AttachModel ==
  /\ cpc = "idle" /\ ~connected
  /\ connected' = TRUE
  /\ UNCHANGED <<control, turn_active, turn_stop, turn_callbacks, history,
                 window, speech, alive, aux>>

\* Mutant: begin_turn no longer refuses while a turn is active.
BeginTurnUnrefused ==
  /\ cpc = "idle" /\ turnNo < MaxTurns /\ connected
  /\ cpc' = "checked"
  /\ UNCHANGED <<pc, turnNo, running, floorNo, shared, window, speech, alive, aux>>

\* begin_turn's early returns call the new callbacks' on_error and change no
\* state of the core, so a refused call is no step.  This is the accepted one:
\* turn_active_ was read FALSE and the driver is connected.
BeginTurn ==
  /\ cpc = "idle" /\ turnNo < MaxTurns
  /\ ~turn_active
  /\ connected
  /\ cpc' = "checked"
  /\ UNCHANGED <<pc, turnNo, running, floorNo, shared, window, speech, alive, aux>>

\* Mutant: the stop flag of the previous turn is not cleared.
InstallTurnKeepsStop ==
  /\ cpc = "checked"
  /\ turnNo' = turnNo + 1
  /\ turn_callbacks' = turnNo + 1
  /\ history' = Append(history, [role |-> "user", by |-> "user", nr |-> turnNo + 1])
  /\ cpc' = "installed"
  /\ UNCHANGED <<pc, running, floorNo, connected, turn_active, turn_stop, window,
                 speech, alive, aux>>

\* Under turn_mutex_: callbacks, stop flag and the user's entry.
InstallTurn ==
  /\ cpc = "checked"
  /\ turnNo' = turnNo + 1
  /\ turn_callbacks' = turnNo + 1
  /\ turn_stop' = FALSE
  /\ history' = Append(history, [role |-> "user", by |-> "user", nr |-> turnNo + 1])
  /\ cpc' = "installed"
  /\ UNCHANGED <<pc, running, floorNo, connected, turn_active, window, speech,
                 alive, aux>>

\* Under window_mutex_: crossing the boundary opens a fresh window.
CrossWindow ==
  /\ cpc = "installed" /\ pc["floor"] # "tested"
  /\ window_due' = FALSE
  /\ cpc' = "windowed"
  /\ UNCHANGED <<pc, turnNo, running, floorNo, shared, window_stop, speech,
                 alive, aux>>

\* The plain store turn_active_ = true.
StoreClaim ==
  /\ cpc = "windowed"
  /\ turn_active' = TRUE
  /\ stolen' = (stolen \/ turn_active)
  /\ cpc' = "claimed"
  /\ UNCHANGED <<pc, turnNo, running, floorNo, connected, turn_stop,
                 turn_callbacks, history, window, speech, alive, asked,
                 toolsAfterStop, paired>>

\* Joining the previous turn thread and starting the new one.
SpawnTurn ==
  /\ cpc = "claimed"
  /\ pc["user"] \in {"none", "finished"}
  /\ cpc' = "idle"
  /\ Goto("user", "start")
  /\ running' = turnNo
  /\ UNCHANGED <<turnNo, floorNo, shared, window, speech, alive, aux>>

StopTurn ==
  /\ cpc = "idle"
  /\ turn_stop' = TRUE
  /\ asked' = [s \in Speaker |-> asked[s] \/ Holding(s)]
  /\ UNCHANGED <<control, connected, turn_active, turn_callbacks, history,
                 window, speech, alive, stolen, toolsAfterStop, paired>>

\* ~LinaCore: drop the observers, stop the turn, join the turn thread, stop the
\* window thread, join it.
DropObservers ==
  /\ cpc = "idle"
  /\ turn_callbacks' = 0
  /\ cpc' = "dropped"
  /\ UNCHANGED <<pc, turnNo, running, floorNo, connected, turn_active, turn_stop,
                 history, window, speech, alive, aux>>

StopForClose ==
  /\ cpc = "dropped"
  /\ turn_stop' = TRUE
  /\ asked' = [s \in Speaker |-> asked[s] \/ Holding(s)]
  /\ cpc' = "stopping"
  /\ UNCHANGED <<pc, turnNo, running, floorNo, connected, turn_active,
                 turn_callbacks, history, window, speech, alive, stolen,
                 toolsAfterStop, paired>>

JoinTurn ==
  /\ cpc = "stopping"
  /\ pc["user"] \in {"none", "finished"}
  /\ cpc' = "joined"
  /\ UNCHANGED <<pc, turnNo, running, floorNo, shared, window, speech, alive, aux>>

\* Mutant: the flag is raised without window_mutex_.
StopWindowUnlocked ==
  /\ cpc = "joined"
  /\ window_stop' = TRUE
  /\ cpc' = "raised"
  /\ UNCHANGED <<pc, turnNo, running, floorNo, shared, window_due, speech,
                 alive, aux>>

\* Under window_mutex_: the flag alone.
StopWindow ==
  /\ cpc = "joined" /\ pc["floor"] # "tested"
  /\ window_stop' = TRUE
  /\ cpc' = "raised"
  /\ UNCHANGED <<pc, turnNo, running, floorNo, shared, window_due, speech,
                 alive, aux>>

\* notify_all: it wakes the window thread if that waits, and is lost otherwise.
\* A wait whose deadline has come still ends by it (Rotate).
NotifyWindow ==
  /\ cpc = "raised"
  /\ cpc' = "closing"
  /\ IF pc["floor"] = "wait" /\ ~window_due THEN Goto("floor", "check") ELSE UNCHANGED pc
  /\ UNCHANGED <<turnNo, running, floorNo, shared, window, speech, alive, aux>>

JoinWindow ==
  /\ cpc = "closing"
  /\ pc["floor"] = "exit"
  /\ cpc' = "closed"
  /\ UNCHANGED <<pc, turnNo, running, floorNo, shared, window, speech, alive, aux>>

BeginSteps == InstallTurn \/ CrossWindow \/ StoreClaim \/ SpawnTurn

CloseSteps == StopForClose \/ JoinTurn \/ StopWindow \/ NotifyWindow \/ JoinWindow

-------------------------------------------------------------------------------
(* The turn thread: run_turn_loop.                                         *)

\* The history is copied and the frame built; only then is the flag first read.
StartLoop ==
  /\ pc["user"] = "start"
  /\ Goto("user", "loop")
  /\ UNCHANGED <<cpc, turnNo, running, floorNo, shared, window, speech, alive, aux>>

\* while (!turn_stop_): a stop seen here leaves without finalizing.
LoopTest ==
  /\ pc["user"] = "loop"
  /\ Goto("user", IF turn_stop THEN "release" ELSE "prompt")
  /\ UNCHANGED <<cpc, turnNo, running, floorNo, shared, window, speech, alive, aux>>

\* The adapter's mutex is held from the prompt pass to the last token.
VoiceFree == \A s \in Speaker : pc[s] # "stream"

\* The prompt pass, then should_stop before the first token.  A prompt that
\* fails to decode returns no text.
Prompt(s) ==
  /\ pc[s] = "prompt" /\ VoiceFree
  /\ \/ turn_stop /\ draft' = [draft EXCEPT ![s] = "cut"] /\ Goto(s, "classify")
     \/ draft' = [draft EXCEPT ![s] = "none"] /\ Goto(s, "classify")
     \/ ~turn_stop /\ UNCHANGED draft /\ Goto(s, "stream")
  /\ UNCHANGED <<cpc, turnNo, running, floorNo, shared, window, tool_calls,
                 verdict, target, said, remembered, alive, aux>>

\* The token loop ends (end of text, budget, stop, or a closed tool call) with
\* some response text.
Stream(s) ==
  /\ pc[s] = "stream"
  /\ \E text \in {"empty", "good", "bad"} : draft' = [draft EXCEPT ![s] = text]
  /\ Goto(s, "classify")
  /\ UNCHANGED <<cpc, turnNo, running, floorNo, shared, window, tool_calls,
                 verdict, target, said, remembered, alive, aux>>

\* Mutant: the tool call is not counted against the cap.
ClassifyTurnUncounted ==
  /\ pc["user"] = "classify"
  /\ \/ /\ ~turn_stop
        /\ tool_calls < MaxToolCalls
        /\ draft["user"] \notin {"none", "cut"}
        /\ Goto("user", "tool")
     \/ Goto("user", "gate")
  /\ UNCHANGED <<cpc, turnNo, running, floorNo, shared, window, speech, alive, aux>>

\* A stop seen after the pass finalizes what she had.  Otherwise a tool call
\* under the cap keeps the door open and anything else finalizes; whether the
\* text holds a tool call is the model's choice.  A generation without tokens
\* holds none.
ClassifyTurn ==
  /\ pc["user"] = "classify"
  /\ \/ /\ ~turn_stop
        /\ tool_calls < MaxToolCalls
        /\ draft["user"] \notin {"none", "cut"}
        /\ tool_calls' = tool_calls + 1
        /\ Goto("user", "tool")
     \/ /\ Goto("user", "gate")
        /\ UNCHANGED tool_calls
  /\ UNCHANGED <<cpc, turnNo, running, floorNo, shared, window, draft, verdict,
                 target, said, remembered, alive, aux>>

\* Mutant: the stop flag is cleared before the next pass.
RunToolClearsStop ==
  /\ pc["user"] = "tool"
  /\ toolsAfterStop' = toolsAfterStop + (IF asked["user"] THEN 1 ELSE 0)
  /\ turn_stop' = FALSE
  /\ Goto("user", "loop")
  /\ UNCHANGED <<cpc, turnNo, running, floorNo, connected, turn_active,
                 turn_callbacks, history, window, speech, alive, stolen, asked,
                 paired>>

\* execute_tool: approval and the tool itself, or a refusal (no approval, no
\* name).  The ledger write may throw.
RunTool ==
  /\ pc["user"] = "tool"
  /\ \/ /\ toolsAfterStop' = toolsAfterStop + (IF asked["user"] THEN 1 ELSE 0)
        /\ Goto("user", "loop")
     \/ /\ UNCHANGED toolsAfterStop
        /\ Goto("user", "loop")
  /\ UNCHANGED <<cpc, turnNo, running, floorNo, shared, window, speech, alive,
                 stolen, asked, paired>>

-------------------------------------------------------------------------------
(* The window thread: window_loop and run_voluntary_turn.                  *)

\* The clock reaches next_window_at_.
WindowElapses ==
  /\ ~window_due /\ floorNo < MaxFloors
  /\ window_due' = TRUE
  /\ UNCHANGED <<control, shared, window_stop, speech, alive, aux>>

\* The mutex is taken, or taken back, and the flag read under it.
WindowTest ==
  /\ pc["floor"] = "check"
  /\ Goto("floor", IF window_stop THEN "exit" ELSE "tested")
  /\ UNCHANGED <<cpc, turnNo, running, floorNo, shared, window, speech, alive, aux>>

\* wait_until: the mutex is released and the thread waits, in one.
WindowWaits ==
  /\ pc["floor"] = "tested"
  /\ Goto("floor", "wait")
  /\ UNCHANGED <<cpc, turnNo, running, floorNo, shared, window, speech, alive, aux>>

\* wait_until returned timeout: rotate under window_mutex_, then unlock.
Rotate ==
  /\ pc["floor"] = "wait" /\ window_due
  /\ window_due' = FALSE
  /\ Goto("floor", "claim")
  /\ UNCHANGED <<cpc, turnNo, running, floorNo, shared, window_stop, speech,
                 alive, aux>>

\* wait_until returns though nobody notified: by itself, or at a boundary that
\* begin_turn has moved meanwhile.
WindowWakes ==
  /\ pc["floor"] = "wait" /\ ~window_due
  /\ Goto("floor", "check")
  /\ UNCHANGED <<cpc, turnNo, running, floorNo, shared, window, speech, alive, aux>>

\* Mutant: the flag is stored, not compared (the check-then-act before D-049).
ClaimFloorUnchecked ==
  /\ pc["floor"] = "claim"
  /\ turn_active' = TRUE
  /\ floorNo' = floorNo + 1
  /\ Goto("floor", IF connected THEN "prompt" ELSE "release")
  /\ UNCHANGED <<cpc, turnNo, running, connected, turn_stop, turn_callbacks,
                 history, window, speech, alive, aux>>

\* compare_exchange_strong(false, true), then the driver test and the history.
ClaimFloor ==
  /\ pc["floor"] = "claim"
  /\ \/ /\ turn_active
        /\ Goto("floor", "check")
        /\ UNCHANGED <<turn_active, floorNo>>
     \/ /\ ~turn_active
        /\ turn_active' = TRUE
        /\ floorNo' = floorNo + 1
        /\ Goto("floor", IF connected THEN "prompt" ELSE "release")
  /\ UNCHANGED <<cpc, turnNo, running, connected, turn_stop, turn_callbacks,
                 history, window, speech, alive, aux>>

\* No text, or a greeting only, is silence; anything else is finalized.
ClassifyFloor ==
  /\ pc["floor"] = "classify"
  /\ \/ draft["floor"] \notin NoText /\ Goto("floor", "gate")
     \/ Goto("floor", "release")
  /\ UNCHANGED <<cpc, turnNo, running, floorNo, shared, window, speech, alive, aux>>

-------------------------------------------------------------------------------
(* finalize_turn, on either thread.                                        *)

\* apply_gate.  Text outside the polytope is reflected on, with the adapter's
\* generate_raw: a revision inside it is delivered, or the fixed refusal stands
\* in for it.
Gate(s) ==
  /\ pc[s] = "gate"
  /\ \/ /\ draft[s] \in NoText
        /\ Goto(s, "release")
        /\ UNCHANGED verdict
     \/ /\ draft[s] \notin NoText
        /\ draft[s] = "bad" => VoiceFree
        /\ \E v \in {"inside", "withheld"} :
             /\ draft[s] = "good" => v = "inside"
             /\ verdict' = [verdict EXCEPT ![s] = v]
        /\ Goto(s, "emit")
  /\ UNCHANGED <<cpc, turnNo, running, floorNo, shared, window, tool_calls, draft,
                 target, said, remembered, alive, aux>>

\* emit_turn_event copies the callbacks under turn_mutex_ and calls them after.
CopyCallbacks(s) ==
  /\ pc[s] = "emit"
  /\ target' = [target EXCEPT ![s] = turn_callbacks]
  /\ Goto(s, "invoke")
  /\ UNCHANGED <<cpc, turnNo, running, floorNo, shared, window, tool_calls, draft,
                 verdict, said, remembered, alive, aux>>

\* Mutant: the withheld branch does not return.
DeliverKeepsWithheld(s) ==
  /\ pc[s] = "invoke"
  /\ said' = Append(said, [utterance |-> Utterance(s), verdict |-> verdict[s],
                           to |-> target[s]])
  /\ Goto(s, "store")
  /\ UNCHANGED <<cpc, turnNo, running, floorNo, shared, window, tool_calls, draft,
                 verdict, target, remembered, alive, aux>>

\* Mutant: a delivered turn returns before the imprint.
DeliverForgets(s) ==
  /\ pc[s] = "invoke"
  /\ said' = Append(said, [utterance |-> Utterance(s), verdict |-> verdict[s],
                           to |-> target[s]])
  /\ Goto(s, "release")
  /\ UNCHANGED <<cpc, turnNo, running, floorNo, shared, window, tool_calls, draft,
                 verdict, target, remembered, alive, aux>>

\* on_complete.  Withheld text ends the turn here: no memory, no history.
Deliver(s) ==
  /\ pc[s] = "invoke"
  /\ said' = Append(said, [utterance |-> Utterance(s), verdict |-> verdict[s],
                           to |-> target[s]])
  /\ Goto(s, IF verdict[s] = "withheld" THEN "release" ELSE "store")
  /\ UNCHANGED <<cpc, turnNo, running, floorNo, shared, window, tool_calls, draft,
                 verdict, target, remembered, alive, aux>>

StoreMemory(s) ==
  /\ pc[s] = "store"
  /\ remembered' = remembered \cup {Utterance(s)}
  /\ Goto(s, "append")
  /\ UNCHANGED <<cpc, turnNo, running, floorNo, shared, window, tool_calls, draft,
                 verdict, target, said, alive, aux>>

Trimmed(h) == IF Len(h) > HistoryCap THEN SubSeq(h, 3, Len(h)) ELSE h

\* Mutant: run_turn_loop goes round again after finalize_turn.
AppendHistoryAgain(s) ==
  /\ pc[s] = "append"
  /\ history' = Trimmed(Append(history, [role |-> "assistant", by |-> s,
                                         nr |-> Utterance(s).nr]))
  /\ paired' = paired
  /\ Goto(s, IF s = "user" THEN "loop" ELSE "release")
  /\ UNCHANGED <<cpc, turnNo, running, floorNo, connected, turn_active, turn_stop,
                 turn_callbacks, window, speech, alive, stolen, asked,
                 toolsAfterStop>>

AppendHistory(s) ==
  /\ pc[s] = "append"
  /\ history' = Trimmed(Append(history, [role |-> "assistant", by |-> s,
                                         nr |-> Utterance(s).nr]))
  /\ paired' = paired + (IF s = "user" THEN 1 ELSE 0)
  /\ Goto(s, "release")
  /\ UNCHANGED <<cpc, turnNo, running, floorNo, connected, turn_active, turn_stop,
                 turn_callbacks, window, speech, alive, stolen, asked,
                 toolsAfterStop>>

\* turn_active_ = false, by whoever reaches the end of its turn; the locals of
\* the turn function go with it.
Release(s) ==
  /\ pc[s] = "release"
  /\ turn_active' = FALSE
  /\ Goto(s, IF s = "user" THEN "finished" ELSE "check")
  /\ draft' = [draft EXCEPT ![s] = "none"]
  /\ verdict' = [verdict EXCEPT ![s] = "none"]
  /\ target' = [target EXCEPT ![s] = 0]
  /\ tool_calls' = IF s = "user" THEN 0 ELSE tool_calls
  /\ asked' = [asked EXCEPT ![s] = FALSE]
  /\ toolsAfterStop' = IF s = "user" THEN 0 ELSE toolsAfterStop
  /\ UNCHANGED <<cpc, turnNo, running, floorNo, connected, turn_stop,
                 turn_callbacks, history, window, said, remembered, alive,
                 stolen, paired>>

\* A storage exception where the thread has no handler: std::terminate.  The
\* frame's recall, the evaluation row, the memory row, the action row.
StorageThrows(s) ==
  /\ \/ pc[s] \in {"start", "store", "tool"}
     \/ pc[s] = "gate" /\ draft[s] \notin NoText
     \/ s = "floor" /\ pc[s] = "prompt"
  /\ alive' = FALSE
  /\ UNCHANGED <<control, shared, window, speech, aux>>

-------------------------------------------------------------------------------
Finalize(s) ==
  \/ Gate(s) \/ CopyCallbacks(s) \/ Deliver(s) \/ StoreMemory(s)
  \/ AppendHistory(s) \/ Release(s)

TurnSteps ==
  \/ StartLoop \/ LoopTest \/ Prompt("user") \/ Stream("user")
  \/ ClassifyTurn \/ RunTool \/ Finalize("user")

FloorSteps ==
  \/ WindowTest \/ WindowWaits \/ Rotate \/ ClaimFloor
  \/ Prompt("floor") \/ Stream("floor") \/ ClassifyFloor \/ Finalize("floor")

Next ==
  /\ alive
  /\ \/ AttachModel \/ BeginTurn \/ BeginSteps \/ StopTurn
     \/ DropObservers \/ CloseSteps
     \/ WindowElapses \/ WindowWakes
     \/ TurnSteps
     \/ FloorSteps
     \/ \E s \in Speaker : StorageThrows(s)

\* The destructor returned, or the process ended.
Ended == ~alive \/ cpc = "closed"

Quiet == Ended /\ UNCHANGED vars

Spec == Init /\ [][Next \/ Quiet]_vars

\* Threads the operating system schedules, and a generation that max_tokens
\* bounds.  When the caller calls, when a window elapses and whether a wait wakes
\* by itself is not assumed; a thread that asks for window_mutex_ gets it, though
\* the window thread wakes and waits again for ever.
Fairness ==
  /\ SF_vars(alive /\ CrossWindow)
  /\ SF_vars(alive /\ StopWindow)
  /\ WF_vars(alive /\ BeginSteps)
  /\ WF_vars(alive /\ CloseSteps)
  /\ WF_vars(alive /\ TurnSteps)
  /\ WF_vars(alive /\ FloorSteps)

FairSpec == Spec /\ Fairness

-------------------------------------------------------------------------------
(* Properties.                                                             *)

Contract ==
  INSTANCE SpeechContract
    WITH Utterances <- [speaker : Speaker, nr : Nat], Callbacks <- Nat

Entry == [role : {"user", "assistant"}, by : Speaker, nr : Nat]

Delivery ==
  [utterance : [speaker : Speaker, nr : Nat],
   verdict : {"inside", "withheld"}, to : Nat]

ControlTypes ==
  /\ cpc \in CallerPC
  /\ pc \in [Speaker -> ThreadPC]
  /\ pc["user"] \notin {"check", "tested", "wait", "claim", "exit"}
  /\ pc["floor"] \notin {"none", "finished", "start", "loop", "tool"}
  /\ turnNo \in Nat /\ running \in Nat /\ floorNo \in Nat
  /\ alive \in BOOLEAN

SharedTypes ==
  /\ connected \in BOOLEAN /\ turn_active \in BOOLEAN /\ turn_stop \in BOOLEAN
  /\ window_due \in BOOLEAN /\ window_stop \in BOOLEAN
  /\ turn_callbacks \in Nat
  /\ history \in Seq(Entry)

SpeechTypes ==
  /\ tool_calls \in Nat
  /\ draft \in [Speaker -> Text]
  /\ verdict \in [Speaker -> {"none", "inside", "withheld"}]
  /\ \A s \in Speaker : pc[s] \in {"emit", "invoke"} => verdict[s] # "none"
  /\ target \in [Speaker -> Nat]
  /\ said \in Seq(Delivery)
  /\ remembered \subseteq [speaker : Speaker, nr : Nat]

AuxTypes ==
  /\ stolen \in BOOLEAN
  /\ asked \in [Speaker -> BOOLEAN]
  /\ toolsAfterStop \in Nat /\ paired \in Nat

\* Types; each thread in its own part of the control; a verdict wherever one is
\* delivered.
TypeOK == ControlTypes /\ SharedTypes /\ SpeechTypes /\ AuxTypes

\* No two speakers: "One speaker at a time" (D-049, the comment over
\* run_voluntary_turn's claim).
OneSpeaker == ~(Holding("user") /\ Holding("floor"))

\* The only way to two speakers is begin_turn's plain store landing on a claim
\* the window thread won after begin_turn had read the flag: while no claim was
\* stolen, the user turn and the voluntary turn exclude each other.
OneSpeakerUnlessStolen == ~stolen => OneSpeaker

\* turn_active_ is never left up by a turn that is over: while it is up,
\* somebody stands between claim and release and will lower it.  A lost release
\* would refuse every later begin_turn with "a turn is already active".
ClaimHasHolder ==
  turn_active => \/ cpc = "claimed"
                 \/ \E s \in Speaker : Holding(s)

\* The door as a whole: whoever holds it will let go of it, and nobody holds it
\* beside another, unless a claim was stolen.
DoorKept == OneSpeakerUnlessStolen /\ ClaimHasHolder

\* A user turn's reply goes to the callbacks of the message it answers, or to
\* nobody once the destructor dropped them, unless a claim was stolen.
RepliesToItsOwnTurn ==
  \A i \in DOMAIN said :
    (said[i].utterance.speaker = "user" /\ ~stolen)
      => said[i].to \in {0, said[i].utterance.nr}

\* Stop during a user turn lets at most the tool call already classified run.
StopBoundsTools == ~stolen => toolsAfterStop <= 1

\* The stop flag over a running user turn was raised for that turn: a stop left
\* over from an earlier one does not reach it, even after a stolen claim.
StopReachesItsOwnTurn ==
  (Holding("user") /\ turn_stop) => asked["user"]

\* The transcript outgrows HistoryCap only by the user entries whose turn has
\* put no reply in it (withheld, silent, stopped or still running): trimming
\* happens only where a reply is appended.
HistoryBound == Len(history) + paired <= HistoryCap + turnNo

\* Text the gate withheld, and text never delivered, reaches neither the
\* cognitive bus nor the transcript.
OnlyDeliveredIsKept ==
  /\ remembered \subseteq Contract!Spoken
  /\ \A i \in DOMAIN history :
       history[i].role = "assistant"
         => [speaker |-> history[i].by, nr |-> history[i].nr] \in remembered

\* The transcript as a whole: her side of it is what was delivered and stored,
\* and its length is accounted for.
TranscriptKept == OnlyDeliveredIsKept /\ HistoryBound

\* A new turn thread replaces one that has finished, never a running one (the
\* join before the assignment, needed since a release comes before the thread's
\* end and, once a claim was stolen, may come from the other speaker).
SpawnAfterJoin ==
  [][running' # running => pc["user"] \in {"none", "finished"}]_vars

\* The driver keeps the speech contract, stolen claims included.
KeepsContract == Contract!Spec

\* Every accepted begin_turn is over in the end: the tool loop is capped, the
\* stop flag only shortens it.
EveryTurnEnds ==
  \A n \in 1..MaxTurns :
    turnNo >= n ~> (~alive \/ (running >= n /\ pc["user"] = "finished"))

\* What was delivered inside the polytope is remembered, unless the process
\* ended first (D-041: every finalized turn imprints to memory).
DeliveredIsRemembered ==
  \A s \in Speaker, n \in 1..(MaxTurns + MaxFloors) :
    LET u == [speaker |-> s, nr |-> n]
    IN  u \in Contract!Spoken ~> (u \in remembered \/ ~alive)

\* The destructor's joins return: neither the turn thread nor the window thread
\* keeps it waiting.
CloseCompletes == cpc = "dropped" ~> Ended

\* A turn that is over answered its caller (the chat window stays busy until
\* on_complete or on_error).
EndedTurnAnswered ==
  (alive /\ pc["user"] = "finished" /\ turn_callbacks = running)
    => \E i \in DOMAIN said : said[i].to = running

\* "stop_turn cancels the current generation": a generation of the floor that
\* the flag silenced was current when the stop was asked.
StopCancelsCurrent ==
  (pc["floor"] = "classify" /\ draft["floor"] = "cut") => asked["floor"]

\* "What she had at the stop is delivered — gated, not dropped": a stopped turn
\* that had produced response text delivers something.
StopDeliversWhatSheHad ==
  (pc["user"] = "release" /\ asked["user"] /\ draft["user"] \notin NoText)
    => \E i \in DOMAIN said : said[i].utterance = Utterance("user")
===============================================================================
