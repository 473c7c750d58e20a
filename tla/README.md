# LiNa Core: a TLA+ verification project

This directory models the program LiNa (C++20, under `src/`): TLA+ modules
translated from the code, TLC configurations that check them on small instances,
and TLAPS proofs of the properties that matter most, for every value of the
constants. `PROJECT.json` lists the parts, the runs, the hazards and, under
`map`, the lines each definition stands for; below, `core` is
`src/src/lina_core.cpp`, `ui` is `src/src/lina_ui.cpp`, another `.cpp` file is one of
`src/src/`, and `docs/`, `tests/` and `include/` are those of `src/`.

## 1. The system

LiNa is one process: a Qt chat window over `LinaCore`, which owns a language
model, a value engine (the "polytope" that every reply must lie in), a tiered
memory in PostgreSQL, a set of tools gated by a human, and a shared-memory pool
(the DragonCache) to which other processes attach.

| Component | State it keeps | Operations | What makes it correct | Module |
|---|---|---|---|---|
| Turn driver (`core` 190-250, 358-777) | `turn_active_`, `turn_stop_`, callbacks, history, window clock, two threads | `begin_turn`, `stop_turn`, turn loop, voluntary turn, `finalize_turn`, destructor | one speaker at a time; a reply goes to its own caller; nothing withheld is kept; every turn ends | `TurnDriver`, `SpeechContract` |
| Approval gate and tools (`core` 337-356, 863-888, `ui` 1125-1142, 1884-1939) | pending flag, promise, cards, action ledger | `execute_tool`, `handleApproval`, a click, the deadline, closing | no tool without its own approval; the human can always answer; the ledger says what happened | `ApprovalGate` |
| Reflection gate and `chat` (`core` 890-1112) | evaluation rows, drift, corrections, transcript | `apply_gate`, `chat`, `record_evaluation`, `update_outcome_drift` | what is spoken was weighed; every reply is accounted for; learning leaves the baseline | `ReplyGate` |
| Value engine (`value_engine.cpp`) | seasonal bounds, facets, biases, home regions | `contains`, `project`, `classify_zone`, `encode`, `discover`, `can_advance` | the projection ends inside and is the nearest place; homes hold every memory | `Lattice`, `Projection`, `Encoder`, `HomeRegions`, `SeasonGrowth` |
| Sessions and seasons (`core` 1114-1173, 1280-1354) | session rows, identity row, ledger, landmarks | boot, begin, end, check and advance | the rows agree after any stop; nothing is taken back; a season is crossed when earned | `SeasonGrowth` |
| Memory (`memory_module.cpp`) | one row per memory: tier, status, score | form, sweep, maintain, legacy review | no memory is lost but for three reasons; one step a sweep; landmarks stay | `MemoryLifecycle` |
| Storage (`postgres_backend.cpp`, schema) | the rows | store, scan, update, delete | what was stored comes back | the rows of the two above |
| Command execution (`tool_engine.cpp`) | child, pipe, deadline; the text of a call | `execute`, `run_command` | what is run is what was meant; output whole; the result is true; it ends | `ToolCall`, `RunCommand` |
| Stream parser and generation loop (`stream_parser.cpp`, `llama_adapter.cpp` 219-300) | buffer, the channels of a turn | feed, result | thought, tool call and text told apart at any split | `OpenWindow`, `StreamPieces` |
| Telemetry bus (`core` 278-335) | bounded queue, writer thread, sink | emit, persist, write a batch, stop | order kept, loss only at the cap, drained at shutdown | `TelemetryBus` |
| DragonCache (`dragon_ring.h`, `dragoncache.cpp`) | two SPSC byte rings, a header of atomics, mutex-guarded hub | push, pop, attach, detach | whole frames in order, never overwritten before read | `DragonRing`, `FrameQueue` |
| Browser driver, window widgets, entry point, scripts | handles | drive a page, draw, start | mostly I/O and library calls | none |

How they interact. The GUI thread calls `begin_turn` and `stop_turn`; the turn
thread it spawns generates (`OpenWindow`), gates (`ReplyGate`), delivers and
imprints (`MemoryLifecycle`), and calls tools (`ToolCall`, `RunCommand`), whose
approval blocks it on a promise that a click on the GUI thread fulfils
(`ApprovalGate`); the window thread takes the floor by itself every three
minutes (`TurnDriver`); the owner's thread opens and closes sessions, sweeps the
memories and advances the seasons (`SeasonGrowth`, `MemoryLifecycle`); all of
them emit telemetry, written by a fourth thread (`TelemetryBus`). Callbacks and
events are posted to the GUI thread's queue.

What is hard: a check-then-act on an atomic flag between three threads; locals
copied under a lock and used after it; one stop flag for two speakers; a human
answer racing a deadline; events that run after the state they were posted for;
a storage exception at any of a dozen calls; several rows written one after the
other with a stop between; a row written whole from a record read earlier;
reflections that a driver can repeat for ever; a clustering that can re-seed for
ever; a reader of a pipe that several processes hold open. `PROJECT.json` lists
each under `hazards` with its line and the properties that would catch it.

## 2. The plan

Order: the behaviour a user meets first and a test reaches least comes first.
All of the modules below are written; what each theorem file proves is in
section 6.

1. `TurnDriver`, its abstract specification `SpeechContract`, `TurnDriverProofs`.
2. `ApprovalGate`, `ApprovalGateProofs`.
3. `DragonRing`, its abstract specification `FrameQueue`, `DragonRingProofs`.
4. `TelemetryBus`, `TelemetryBusProofs`.
5. `MemoryLifecycle`, `MemoryLifecycleProofs`.
6. `SeasonGrowth`, `SeasonGrowthProofs`.
7. `ToolCall` (operators) under `RunCommand`, `VoiceProofs`.
8. `Lattice` (operators), `Projection` and `Encoder` over it, and on `Lattice` and
   `Encoder` `ReplyGate` and `HomeRegions`; `LatticeProofs` proves about the geometry and
   about the three.
9. `OpenWindow`: parser, generation loop and the channels of a turn; `VoiceProofs`
   proves about it as well, and holds what becomes of all the voice writes.
   `StreamPieces`: the parser and the loop again, on pieces that cut the markers.

`VoiceProofs` extends `RunCommand` and `OpenWindow`, `LatticeProofs` extends
`Projection`, `ReplyGate` and `HomeRegions`, so that the modules of each group share no
name: that is why the specifications of `OpenWindow`, `Projection` and `HomeRegions` are
called `WindowSpec`, `ProjectionSpec` and `HomeSpec`, and why the season is `within`,
`season` and `lattice`.

What a next step would add: the proof of the other half of `StandingKept`,
`SubconsciousOneWay`, which needs to know the scores of everything below the line; how far
from the nearest place the rounding of a projection may leave it (`EndsAtNearest`), for
every point; a composition of the turn driver's callbacks with the life of the
window that owns them.

Runs stay under five minutes each; constants are as small as the hazard needs
(two turns to confuse one with the next, two memories for a sweep to mistake one
for the other). Modules that are proved about reach no RECURSIVE operator, their
constants carry named assumptions, and their invariants are conjunctions of
named parts.

## 3. What is modelled

### TurnDriver

One step is one locked region or one access to an atomic; so `begin_turn` is
five steps (`BeginTurn` reads the flag, `InstallTurn`, `CrossWindow`,
`StoreClaim`, `SpawnTurn`) and the destructor six. `pc` holds where the turn
thread ("user") and the window thread ("floor") stand, `cpc` the one caller.

| Code | Definition |
|---|---|
| `begin_turn` 362-410 | `BeginTurn`, `InstallTurn`, `CrossWindow`, `StoreClaim`, `SpawnTurn` |
| `stop_turn`, `~LinaCore` | `StopTurn`, `DropObservers`, `StopForClose`, `JoinTurn`, `StopWindow`, `NotifyWindow`, `JoinWindow` |
| `run_turn_loop` 509-615 | `StartLoop`, `LoopTest`, `Prompt`, `Stream`, `ClassifyTurn`, `RunTool`, `Release` |
| `window_loop`, `run_voluntary_turn` | `WindowElapses`, `WindowTest`, `WindowWaits`, `WindowWakes`, `Rotate`, `ClaimFloor`, `ClassifyFloor` |
| `finalize_turn`, `emit_turn_event` | `Gate`, `CopyCallbacks`, `Deliver`, `StoreMemory`, `AppendHistory` |

Text is abstracted to what the door tells apart: none, inside the polytope,
outside it. The gate's reflection loop is one step; its voice use waits for the
adapter's mutex (`VoiceFree`). The window thread holds `window_mutex_` from its test of the
flag to its wait ("tested"). A storage exception on a thread of the core has
no handler, so `StorageThrows` ends the process.

`SpeechContract` is the abstract specification: an utterance is delivered at
most once and remembered at most once, after its delivery and only when it was
inside. `TurnDriver` refines it with its own `said` and `remembered`.

### ApprovalGate

A requester is a thread in `execute_tool`; the GUI thread runs posted events and
clicks. Steps: `Ask`, `AutoApprove`, `Arm`, `GetFuture`, `PostCard`,
`TakeAnswer`/`Deadline`, `ClearPending`, `PostTimeout`, `Gate`, `RunTool`,
`Record`; `HandlePosted`, `Click`, `ToggleAutoApprove`, `CloseWindow`,
`DestroyWindow`. The promise is a slot holding the number of the action it was
made for; assigning over it, or destroying it, unanswered breaks it, as
`std::promise` does. After the window is gone a thread still in its handler
meets a broken promise or freed memory: `UseDeadWindow` takes that to end the
process (one of the outcomes of undefined behaviour; the others are not safer).
What a tool does is success or failure.

### DragonRing

One ring of the pool, the Hub at its producing end and a spoke at the other: two
processes over bytes that outlive both. A step is one access to shared memory.

| Code | Definition |
|---|---|
| `Hub::push_frame`, `ring_push` (`dragon_ring.h` 111-130) | `StartPush` (mutex, loads, size tests), `WriteByte`, `Publish` (store of `head`, unlock) |
| `ring_pop` 139-166 | `StartPop` (loads), `ReadPrefix`, `CheckPrefix` (the sanity tests), `ReadBody`, `FinishPop` (store of `tail`; a short buffer passes the payload over) |
| `Hub::attach`, `detach` | `Attach`, `Detach` |
| a process that ends at any step | `CoreEnds`, `SpokeEnds` |

A byte is the push that wrote it and its place in the frame, so a reader that
mixes two frames or an old byte with a new one is seen. The counters are naturals:
the 64-bit ones would wrap after 2^64 bytes. The release and acquire orders make
the interleaving of these steps complete; the code's "not fully committed yet"
test is in `CheckPrefix`, and `NeverRejected` shows it never fires.
`FrameQueue` says what a ring promises: a frame accepted comes out once, whole,
in order. `IsFrameQueue` maps `accepted` to the published frames and `returned` to
what the popped bytes say. (The frame format's comment, `dragon_ring.h` 37, gives
the length as "excluding prefix"; the code's total, 115, includes it on both ends,
and the model follows the code.)

### TelemetryBus

| Code | Definition |
|---|---|
| `persist_telemetry` 326-335 | `Persist` (with `DropOldest`), `Notify` |
| `emit_telemetry` 278-288 | the same, then `CallSink`, `SinkReturns` under `sink_mutex_` |
| `telemetry_writer_loop` 302-324 | `WriterLocks` (lock and predicate), `WriterWaits`, `SpuriousWake`, `WriterReturns`, `WriterSwaps`, `Store`, `BatchDone` |
| `start_telemetry_writer`, `set_telemetry_sink` | `StartWriter`, `SetSink` |
| `~LinaCore` 210-250, a failed boot 188-207 | `BeginClose`, `JoinWorkers`, `RaiseStop`, `NotifyStop`, `JoinWriter` |

An entry is its place in the order of queueing. The predicate and the wait are two
steps with the lock held between them, so a flag raised or an entry queued without
the lock would be missed. `Store` may fail on any entry, as the storage may throw.

### MemoryLifecycle

A memory is one row with a tier and a status; a move of tier is an upsert and a
delete, one step each (`Call`), and any of them may throw (`CallThrows`) or be
the last before the process stops (`Crash`). The owner walks the loops of
`end_session` (`RunSweep`, then `Reevaluate` and `Decay`); the snapshots each
loop walks are in `todo`, and turn threads form memories between any two calls.

| Code | Definition |
|---|---|
| `form_items`, `ingest_trigger` 422-498 | `Formation` with its routes (t1, the bypass to long term, the landmark of a crossing) |
| `run_sweep` 504-602 | `RunSweep`, `Visit`, `Promote`, `FallOut`, `LeaveFallout` |
| `run_maintenance` 604-650 | `Reevaluate`, `Judge`, `Decay` |
| `run_legacy_review` 652-681 | `RunLegacyReview`, `Review` |
| `execute_query`, `scan_tier`, `store_tier`, the schema | `After`, `StandingIn`, `WithStatus`, `NoRow` |

Scores are hundredths, as the column `DECIMAL(5,2)` keeps them; times are days;
decay is taken in whole half-lives. Which columns come back is modelled: the
upsert has none for `entered_fallout_at` and `failed_gate`, so what the sweep
reads is not what it set. The form in which the store hands a time back (`form`)
decides whether it parses.

### SeasonGrowth

One storage call is one step, and a stop may come between any two, after which
only the rows are left and the next boot reads them. `identity` is the row that
three operations write whole, each from a record read earlier (`copy`,
`metrics`). The season table and the order of `can_advance`'s tests are
`Requirements`, `Reasons`; the last hundred evaluations are a window over
batches. `engine`, `feedback` and `poles` hold the season each part of the value
engine is in: a boot sets all three, a crossing the first two.

| Code | Definition |
|---|---|
| `begin_session` 1114-1142 | `BeginSession`, `CreateSession`, `CountSession` |
| `end_session` 1144-1173, `finalize_session` | `EndSession`, `Finished` |
| `season_metrics`, `check_season_progress` 1280-1327 | `Gather`, `Refresh`, `Reasons` |
| `apply_season_advance` 1329-1354 | `Cross`, `Adopt`, `RediscoverHomes`, `Imprint` |
| a turn's evaluation, a host that stores a memory | `Converse`, `HostStores` |

### Lattice, Encoder

`Lattice` is the polytope as operators: bounds of the four seasons, the four
box facets and the coupling facets of each plumb line (`Facets`), membership
(`Inside`), distances and walls, `ClassifyZone`, `NearWalls`, and what a projection
is to return (`Nearest`: the point itself, the foot of a facet or a corner), which
`ReplyGate` and `HomeRegions` take for its result and `Projection` checks the iterations
against. The code's rationals (`mpq_class`) become
whole numbers: a point is in units of 1/200, in which the bounds and the corners
where two facets meet are whole. No facet relates
two plumb lines, so a run takes one of the seven (`Lines`); the proofs take any set
of them. `Encoder` is `DecisionEncoder::encode` over a sample of its
lexicon: the negation window, the weight of the message, the clamps; a place is rounded down
to a whole unit.

### Projection

`EthicalPolytope::project` facet by facet. Dykstra's sweeps put the correction of a facet
back and project again (`SweepFacet`); a sweep in which nothing moved, or the cap, ends
them (`EndSweep`); what the exact test (`Accept`) finds outside is nudged over the facet
it is past (`NudgeFacet`), and the center is what is left when no nudge helps
(`FallBack`). A double is a whole number of grains; where a quotient is no whole number
of them either neighbour may come of it, so that the rounding of the doubles is one of
the roundings of the model. No facet relates two lines, so the lines take their steps
side by side and share the tests that end the sweeps, as in the code. The caps come with
the call (`caps`), so that one run has calls with time enough (`Ample`) and calls that are
cut off (`Scant`). The corrections
are multiples of the facets' normals, and are kept as multipliers.

Two things the translation showed. The test that ends the sweeps compares the length of
each step, and a step is as long as the correction that was put back: a point outside
never meets the test, and all the sweeps the cap allows are made
(the cap is what ends the call). And the order of the facets is that of `facets_`,
so that the walls of a line are met before its couplings.

| Code (`value_engine.cpp`) | Definition |
|---|---|
| the sweeps 774-844 | `SweepFacet`, `Corrected`, `EndSweep` |
| the verification and the nudges 846-883 | `Accept`, `BeginNudges`, `NudgeFacet`, `EndNudges` |
| the call 774-790 | `Call` |
| the last resort 884-894 | `FallBack` |

### ReplyGate

`chat()` as steps: a message, generation with or without a driver, `apply_gate`
with its three reflection passes (an answer refused for violation, for repeating a
refused draft or landing near one, or for being off topic), withholding, the ledger row, the memory,
the transcript; between messages the host flags and confirms corrections, the
season grows, a session begins. `Drift` is `update_outcome_drift`: the difference of
the means of good and bad outcomes in the last `DriftWindow` rows, over the
baseline, into `biases`, which the next evaluation adds; `Side` is one of the two
means, as a fraction. The drafts are real
texts put where the encoder puts them, chosen so that each branch is met.

### HomeRegions

`RegionPoleEngine::discover` a round a step: seeds, `Round` (assignment, means,
re-seeding of an empty cluster, the cap), `Settle` (projection, members);
`home_for`; `current_geometric_state`. Memories come and go between discoveries.
`lattice` is the season of the constraints she is judged by, `home` that of the lattice
the region engine was made with, which a crossing leaves behind and a boot brings up to
it. `poles` is a function on the clusters that hold points; the seeds and the moves of a
round, each of which looks at those before it, are recursive functions of their number.

### ToolCall, RunCommand

`ToolCall` reads a call token by token as `json_string`, `json_int` and
`json_object` do: by the first string that looks like the key, and by counting
braces outside quotes. `RunCommand` is `execute`, `TerminalRunTool::run` and
`run_command`: `waitpid`, `poll`, the inner read loop, the kill at the deadline,
the final drain and the result, against a shell and a job that write, close
their output, end by themselves or by a signal of their own, or stay. There may be no pipe
or no process to be had, `waitpid` may fail and leave the loop with a status nobody
wrote, and a read may fail and end the loop it is in (`failed`). A call may name a tool
other than `terminal.run`. A read blocks while a writer has the pipe open and it
is empty, as it does in the code.

### OpenWindow

The tokens a driver may write, in every order, through `Generator::run`'s tests, `feed`,
`take_completed_thoughts` and `result`, into the channels of a turn: thoughts
shown live, a call handed to the executor, what is delivered. A user's turn may
call tools; a voluntary one does not. `feed`'s sweep is a recursive function of the
number of its rounds (`Pulled`), each of which takes out one completed thought (`Pull`).
Tokens are whole markers or words; the mark that closes a call ends the pass or not
(`GoesOn`), as its piece ends there or not.

### StreamPieces

The same parser and the same loop on pieces: a marker is two or three fragments, a piece is
any run of them, and `FoundAt` looks for a marker wherever it may stand. What taking out a
thought or the call brings together is there to be found, as in the characters.

## 4. The runs

| Run | Instance | Property | What it says |
|---|---|---|---|
| `turn_safety` | 2 messages, 1 voluntary turn, 2 tool calls, history cap 2 | `DoorKept` | two speakers only by the claim `begin_turn` stole, and a raised flag always has somebody to lower it |
| | | `RepliesToItsOwnTurn` | a reply reaches the callbacks of its own message |
| | | `StopReachesItsOwnTurn` | a stop never silences a message sent after it, stolen claims included |
| | | `TranscriptKept` | only what was delivered inside is kept and shown, within the cap |
| | | `StopBoundsTools` | after a stop at most the tool being run |
| | | `KeepsContract` | the driver implements `SpeechContract` |
| `turn_live` | 1 message, 1 voluntary turn | `EveryTurnEnds`, `DeliveredIsRemembered`, `CloseCompletes` | turns end, delivered text is remembered, the destructor returns |
| `approval_one` | 1 requester, 3 actions | `WaitingIsAnswerable`, `NoOrphanCard` | whoever waits can be answered, and no card outlives its request |
| | | `OneApprovalOneAction` | one approval runs one action |
| | | `EveryRequestEnds` | a request ends by its deadline, the human answering or not |
| `ring` | 2 threads, 4 pushes of 3 to 5 bytes, ring of 7, prefix 2, 1 process end | `IsFrameQueue`, `PublishedIsPopped` | the bytes are a queue of whole frames, and a published frame is popped |
| `telemetry` | turn, window and owner threads, queue of 2, 4 entries | `NothingVanishes`, `LedgerInOrder`, `NoSinkNoCall` | only the oldest is dropped, order kept, no call of a sink taken back |
| | | `EntriesSettle`, `CloseEnds` | each entry reaches the storage or the count of the lost; the destructor returns |
| `memory` | 2 memories, 3 dates over 800 days, both forms of a time, a store that throws | `OneStepASweep` | no memory passes two gates in one sweep |
| | | `LossAccounted` | a memory disappears from below the first gate, off the slope, or by a storage error met on its way to long term; a landmark by the last only |
| | | `StandingKept` | landmarks stay, and what sank stays below |
| `season` | 2 sessions of 6 lives, 3 batches of 50, 1 stop anywhere | `RowsAgree` | no session is counted without its row, no engine runs in another season than the row's, no landmark without its crossing |
| | | `NothingTakenBack` | no count and no season goes back |
| | | `CrossingSound` | a season turns when the rows hold what it asks, and a season earned for good turns in the end |
| `gate` | 2 messages, 4 drafts, 1 correction, drift over 3, spring and summer | `SpokenIsWeighed` | what is spoken is no violation where it stands, and neither repeats nor neighbours any draft refused in the turn |
| | | `Accounted` | one row per reply, a memory per reply that is no violation, none of a refusal |
| | | `BaselineHolds` | the learned drift never makes a text without ethical sense a violation, and leaves it aligned where only the walls of harmony and grace are near, but for fall |
| `homes` | up to 4 memories at 3 places on 2 lines, 3 homes | `HomesHoldMemories` | each memory is in one home, the nearest, and homes lie inside |
| | | `DiscoveryEnds` | though a cluster may be re-seeded in every round |
| | | `FrameHonest` | a frame is inside its lattice, and one that names no wall is aligned |
| `homes`, the projection | 20 points on 2 lines of 4 seasons, 16 grains to a unit; 40 sweeps and 8 nudges, or 12 and 1 | `EndsInside` | what is returned is inside, the center included, which is needed here |
| | | `EndsAtNearest` | the result of a call that was not cut off is the nearest place, to two grains |
| `command` | 24 calls, pipe of 2, 4 writes, a shell and a job, failing system calls | `ResultTrue` | all that was written, in order, unless a read failed; an end in time told as it was, unless the wait failed; no timeout before the deadline |
| | | `CallHonoured` | the command run is the one written, quotes, braces and key names included |
| | | `Returns` | a command whose processes end is answered |
| `window` | 6 tokens, 2 calls | `LiveAsWhole` | sorting piece by piece is sorting the whole |
| | | `ChannelsApart` | no closed thought and no complete call is spoken |
| `window`, the pieces | 6 pieces of 11 kinds | `SortedHoweverCut` | wherever the pieces cut the markers, the parser finds what it would find in the whole; and no complete thought is left in the response, not even one that cutting out the call makes |
| `turn_two_speakers` | as `turn_safety` | `OneSpeaker` | violated, see below |

`MCHomeRegions` and `MCOpenWindow` each hold two systems that share no variable and no
step: the home regions and the projection, the turn's channels and the parser on pieces.
A behaviour of theirs takes steps of one while the other is as it was in the beginning
(`GeometrySpec`, `StreamSpec`), so each is checked in full, and their states add up.

Bounds. Two messages are what it takes for a stale flag, callback or thread of
one to meet the next; one voluntary turn is the only other speaker; a cap of two
history entries is reached by one exchange; two tool calls are what it takes to
run one too many; three actions let a timed-out request, its successor and a
third overlap. The bounds sit in guards (`MaxTurns`, `MaxFloors`, `MaxActions`,
...) and cut off only further requests: a reached bound never removes a step of
one in progress. A ring of seven bytes takes two frames of three but not two of
four; frames that start at 3, 4, 5 or 6 go over the end, in the payload or within
the prefix; four pushes let one overwrite a frame two before it; one process end
falls on each step of a push and of a pop. Four entries are one batch being
stored, a full queue and one too many. Two memories are formed or found at any
score the factors give; 200 days are past the grace and several half-lives, 800
past the 730 of the slope. The six lives begin one session short of a season or
long overdue, with a ledger that is empty or full. The four drafts are one
turned inside by its negation, one tolerated after one message and not after the
other, and two far outside: aligned, variance, repeat, neighbour and violation
all occur. Two memories in one place leave a cluster empty; three places are
inside, near a wall and outside every season. The points projected have feet in whole
units, so that only the rounding at the end of the sweeps moves them; forty sweeps bring
each within two grains, and ten do not; with twelve sweeps and one nudge some are still
outside, and the center is returned. Four writes fill a pipe of two twice.
Six tokens hold a thought and a call in any nesting, with words inside and out; six
pieces hold a thought whose opening marker another thought's erasure brings together,
and a call in the middle of a marker.
Between them the runs fire every action and every disjunct.

Deadlock is checked in `turn_*`, `approval_one`, `ring`, `telemetry` and
`season`; where such a system may stop, its specification says so with a step of
its own (`Quiet`, `Quit`), or a pool can always be attached again. The
other runs stop at their bounds.

### Where the code and its documents differ

`PROJECT.json` lists one counterexample, `turn_two_speakers`:
`begin_turn` reads `turn_active_` (`core` 365) and stores it 38 lines later, and
the window thread's compare-exchange fits in between. The comment at `core`
450-452 and `docs/TECHNICAL.md` 636-638 say it cannot. `DoorKept` shows that
this is the only way.

The following have a configuration a reader can run; TLC ends each with a
counterexample.

| Configuration | Property | What the code does |
|---|---|---|
| `MCTurnDriver_answered` | `EndedTurnAnswered` | a turn without response text calls neither `on_complete` nor `on_error` |
| `MCTurnDriver_cancel` | `StopCancelsCurrent` | a stop stays up and silences later voluntary turns |
| `MCTurnDriver_stop` | `StopDeliversWhatSheHad` | a stop during a tool drops the text that came before it |
| `MCApprovalGate_told` | `ToldIsTrue` | a click between the deadline and the lowering of the flag shows "approved" for a declined action (`ui` 1131, 1908) |
| `MCApprovalGate_close` | `NoHandlerInDeadWindow` | closing the window leaves a request inside its handler |
| `MCMemoryLifecycle_grace` | `GraceKept` | D-027's 48 hours in the fallout (`docs/TECHNICAL.md` 365-367) are not kept: the time of the fall has no column |
| `MCMemoryLifecycle_slope` | `SlopeForgets` | nothing idle for 730 days is forgotten (379-384) when the store's times do not parse |
| `MCSeasonGrowth_homes` | `HomesMove` | after a crossing the homes are found again in the lattice of the boot (`core` 1341) |
| `MCRunCommand_timeout` | `TimeoutBounds` | a child that wrote something and stays silent holds the inner read past its deadline (`tool_engine.cpp` 52-53) |
| `MCOpenWindow_private` | `ThoughtsPrivate` | a thought cut short by the end of its pass stays in the response (`core` 673-674) |
| `MCOpenWindow_call` | `CallEndsPass` | a complete call whose last piece holds something after the marker does not end the pass, and what she writes on is lost when the call is executed (`llama_adapter.cpp` 276, against its comment at 273-274 and `include/stream_parser.hpp` 38-39) |

Met while modelling and followed as the code has it, without a configuration:

- Withholding records a violation row (`tests/orchestrator_tests.cpp` 348 says it
  bypasses the ledger); `docs/TECHNICAL.md` 6.2 has one retry, the code three passes.
- The season table of the code differs from `docs/TECHNICAL.md` 281-286; the
  alignment rate counts variance as aligned where `docs/DECISIONS.md` 1051 is
  stricter (`core` 1280-1302); `sessions_completed` counts sessions begun.
- Nothing in `src/` but a crossing forms the memories a crossing asks for, and
  nothing raises `reference_count`: a host has to. Recall does not re-stoke
  (against `include/memory_module.hpp` 312).
- A tool that ran and failed is recorded as denied (`core` 878, against
  `docs/DECISIONS.md` 1052-1054). `approval_timeout_ms` and `--season` are read
  by nothing. "Monthly" maintenance runs at the end of each session.
- `dragon_ring.h` 37 gives a frame's length "excluding prefix"; both ends
  include it.
- A shell that ended well and in time is told to have timed out when a job it left holds
  the pipe past the deadline (`tool_engine.cpp` 102, against 53).
- Callbacks that `emit_turn_event` copied before the destructor cleared them are
  called after (`core` 746).
- Poles depend on the order of the rows, not on the memories alone. The flat JSON
  extraction depends on the order the protocol prescribes: a name that quotes
  `arguments` before them would mislead it.
- Biases learned from a confirmed correction are overwritten by the drift after
  the next reply (`core` 1109).

Two threads in `request_approval` are more than the program has today (tools
run on the turn thread or in its tests). `OneApprovalOneAction` is proved for any
number of them, `NoOrphanCard` too; `WaitingIsAnswerable` is checked and proved for one
(`OneThread`), as the unlocked store at `ui` 1908 can lower the flag of another
requester's request.

The words of a refusal are an ordinary text. `Accounted` is proved of a driver that
does not write them itself (`OtherWords`): one that did, with an aligned reply, could
not be told from the gate.

The baseline has less room than the 0.05 the drift is clamped to suggests. Integrity's
lead wall can be grazed by a full drift, and those of order and flourishing approached in
fall, so silence may land in variance there; on harmony and grace in fall the drift may
spend the whole margin that aligned asks for, and rounding decides. It is never a violation.

## 5. Fairness

Safety needs none. The liveness properties assume weak fairness of the steps of
threads the operating system schedules: a started `begin_turn` or destructor,
the turn thread, the window thread once its step is enabled, a requester, the
GUI's event loop, and the destruction that follows a close. Strong fairness of
`CrossWindow` and `StopWindow` says that who asks for `window_mutex_` gets it, though the
window thread wakes and waits again for ever; no wait has to wake by itself. A generation is
bounded by `max_tokens`, so `Stream` is taken. Nothing is assumed of the human
(no click is fair), of when the caller calls, or of when the three minutes pass.
The ring assumes a spoke that keeps popping (weak fairness of `PopSteps`; a
ring nobody reads fills up and refuses pushes) and nothing of the core. The bus
assumes its threads are scheduled, and strong fairness of one step, `RaiseStop`:
the mutex it waits for is released again and again even when waits wake by
themselves for ever, and a thread that asks for such a mutex gets it.
`SeasonGrowth` assumes that the owner's steps go on: the process is started again
when it is down and its sessions begin and end; nothing is assumed of stops. `HomeRegions`
assumes only that the search runs.
`RunCommand` assumes that the parent runs and the deadline passes; `Returns` adds
that each process of the command ends, which is what "a command that ends"
means: without it `TimeoutBounds` fails as shown above. No system call has to fail.
A process that ended (`~alive`) satisfies the liveness properties of the
driver and the gate: that is a crash, and the formulas say so.

## 6. What is proved

Every theorem holds for every value of the constants its assumptions admit:
any number of turns, tool calls, requesters and actions, any history cap above
zero (`BoundsAssumption`, `ActionsAssumption`), any buffer sizes, any number of
memories, sessions, stops and writes (`MemoryAssumption`, `GrowthAssumption`,
`CommandAssumption`), any set of plumb lines (`LinesAssumption`), any points, places,
grain and bounds of a projection (`ProjectionAssumption`).

- `TypeCorrect`, `GateTypeCorrect`: type correctness. The types also say that a
  thread stands in its own part of the control and that an action, promise,
  future or verdict is there where a step uses it; later proofs rest on it.
- `MutualExclusion`: `OneSpeakerUnlessStolen`. Not inductive alone; `Exclusion`
  adds that while nothing was stolen a speaker in the door holds the flag and a
  caller between read and store faces a finished turn thread.
- `NoLostRelease`: `ClaimHasHolder`, inductive with the types: every step out
  of the door lowers the flag.
- `JoinBeforeSpawn`: the action property, from the control's types.
- `TranscriptBounded`: `HistoryBound` for every cap, from lemma `TrimmedLength`.
- `KeptOnlyIfDelivered`, `ImplementsContract`: from `SpeechInv`, which says that
  each speaker's current utterance is delivered exactly from `Deliver` on, and
  remembered exactly from `StoreMemory` on. `ImplementsContract` is the
  refinement of `SpeechContract`: every step is a delivery, an imprint or a
  stutter.
- `ApprovedActionsOnly`: `OneApprovalOneAction` from `GateInv`: an action in
  flight has one owner, is decided once, takes a future nobody else took, and is
  approved only by the setting or the answer behind that future.
- `RingTypeCorrect`, `PopNeverSticks`, `RingIsFrameQueue`: for a ring of any size,
  any prefix, frame limit and set of threads (`RingAssumption`). From `RingInv`:
  frames lie end to end from `tail` to `head` (`Layout`), the bytes of each are in
  the ring (`Stored`), the one thread that pushes writes past `head` and less than
  a ring beyond `tail` (`Writing`), and a pop in progress holds the first bytes of
  the oldest frame (`Reading`). The step that needs them all is `WriteByte`: two
  positions less than a ring apart have different offsets (`OffsetsDiffer`, from
  the division theorem), so a byte written hits no frame. `RingIsFrameQueue` is the
  refinement: `Publish` is a push, `FinishPop` a pop, all else a stutter.
- `BusTypeCorrect`, `NoEntryVanishes`, `OnlyOldestDropped`, `LedgerOrdered`,
  `DrainedWhenGone`, `SinkLeftAlone`: for any threads and any limit above zero
  (`BusAssumption`). From `BusInv`: the queue holds the last entries queued
  (`QueueIsLast`), rows and batch are older and ascend (`Older`), the flag is
  raised only after the emitters ended and the writer returns only with nothing
  left (`Closing`).
- `OneStep`: `OneStepASweep` for any memories. From `SweepInv`: the snapshots of the
  four loops share no memory, and a memory still in one has made no step
  (`SnapshotsApart`); it rests on their being taken before the first move.
- `LossIsAccounted`: `LossAccounted`, and `LandmarkStays` of `StandingKept`, for any
  memories, provided the landmarks the database already holds have the score, the
  references and the status a landmark is formed with (`LandmarksFormed`). From
  `MemoryInv`: what was fetched and not visited is still there (`Fetched`), only the
  loops ahead hold anything (`LoopsInTurn`), and what is left of the calls of a visit
  is one of nine plans that fit the row as it is (`CallsSafe`, `Plan`). Then the next
  call of a plan keeps its row or takes it for a reason (`NextCall`), and a plan goes on
  after each of its calls (`PlanGoesOn`); a landmark is never `subconscious`, because
  its floor is its own score and that score lies between the two lines
  (`LandmarkJudged`).
- `RowsAgreeAlways`, `NothingIsTakenBack`, `CrossingIsEarned`: from `GrowthInv`:
  the record that `begin_session` writes back is the row it read (`CopyIsFresh`),
  the engine is behind the row only before a boot and within a crossing
  (`EngineFollows`), and only a crossing in progress, or cut short by a stop, lacks
  its landmark (`LandmarksFollow`). `CrossingIsEarned` is the safety half of
  `CrossingSound`: rows only grow, so what the metrics showed still holds.
- `ResultIsTrue`: `ResultTrue` for any calls, pipe and writes. From `CommandInv`: what was
  read, then what is in the pipe, is all that was written, in order; the loop is left only
  with the shell reaped and nobody holding the pipe, unless a system call failed; and the
  status is that of the shell, by itself or by a signal of its own, from the moment it is
  reaped. When `waitpid` fails the status stays 0 and is told as a success; the
  formula says so.
- `EveryCallHonoured`: `CallHonoured` for every call, its command and name of any length
  and any words, its arguments in either order. A string as it is written is read back
  wherever it stands before a quote (`ReadsBack`), a quote inside it follows an escape
  (`QuotesEscaped`), and the scan of an object passes over it at one depth
  (`StringPassed`). So a key can be mistaken for a word of the command only at the
  command's very end, and the first colon after that is the right one, or there is none
  (`KeyAfterCommand`): the first-match search of `find_key` cannot go wrong on a call
  written as the prompt asks. The texts are those of `CallText`, in tokens.
- `PiecesSortedAsWhole`, `ChannelsStayApart`: `LiveAsWhole` and `ChannelsApart` for streams
  of any length, with any markers in any order and any pieces. From `WindowInv`: the buffer
  is settled, that is no thought in it is complete (`Settled`), so a token completes one
  thought at most (`FedOnce`); and the sweep of the longer stream follows that of the
  shorter until it ends (`PullMore`, `SweepEnds`, `SweepIs`), so that sorting goes on where
  it was left (`SweepMore`). For the channels: a word written in a thought is kept behind
  the marker that opened it, and nothing has closed a thought since (`InwardKept`); a
  token is kept once or shown once (`KeptOnce`); and the response is what is left beside
  the call (`ResponseIs`).
- `SeasonsOpen`, `CenterIsClear`: the geometry, for every season and line.
  `CenterIsClear` is about the code's last resort.
- `ProjectionEndsInside`: `EndsInside` for any points, lines, rounding, grain, cap and
  number of nudges. From `ProjectionInv`: what is returned passed the exact test, or is the
  center, which in grains is as clear of every facet as `CenterIsClear` says.
- `NothingNearerIsPassed`: `NothingNearer` for the same, of all places inside, which no run
  could enumerate. From
  `MakesUp` of `ProjectionInv`: until a nudge, what is projected is the iterate and all the
  corrections together, and no correction is negative, however each step was rounded. What
  a place inside can save is then at most what the corrections hold back from their
  facets: when they hold back nothing, the iterate is as near as any place inside.
- `ProjectedInside` is a lemma about `Nearest`, the place `ReplyGate` and `HomeRegions`
  take for the result. It rests on the corner of full virtue and no shadow, which is
  inside in every season (`FullVirtue`), so that among the places chosen from there is
  a nearest (`Smallest`, from the well-foundedness of the naturals).
- `StopIsForThisTurn`, `StopHaltsTools`, `ReplyReachesItsAsker`: `StopReachesItsOwnTurn`,
  `StopBoundsTools` and `RepliesToItsOwnTurn` for any number of turns and tools. From
  `StopInv`: between `InstallTurn` and `SpawnTurn` the flag is down and the callbacks are
  the new message's, and a flag up over a user turn was asked of it; and from
  `OwnTurnInv`: while nothing was stolen `begin_turn` runs over no user turn
  (`Exclusion`), so an asked stop stays up and the callbacks stay the turn's own. The
  first needs no such premise: a stolen claim is the voluntary turn's.
- `CardsEnd`: `NoOrphanCard` for any number of requesters and actions. From `CardInv`: an
  action is shown once (`ShownOnce`), a pending promise is that of its own action
  (`PromiseOfCard`), an answered request has lost its card unless a stale one was clicked
  (`AnswerFromCard`), and a card or its show event has somebody in the handler to take
  it away, or a removal behind it in the queue (`Cleared`).
- `HumanCanAnswer`: `WaitingIsAnswerable` of one thread (`OneThread`). From `Answerable`:
  the promise armed last is the requester's own, and its card is the youngest event of the
  queue or on screen, so that a removal left by an earlier request comes before it.
- `SpokenWasWeighed`: `SpokenIsWeighed` for any drafts, messages, corrections and ledger,
  from the types of the pipeline: the biases do not move between the weighing and
  `Record`, and what is not flagged differs from each earlier attempt.
- `RepliesAccounted`: `Accounted`, from `AccountInv`: the ledger is one row ahead of what
  was said between `Record` and `Conclude` only, and that row is the result in hand
  (`Written`); a count over the texts said grows by the new one alone (`TallyKept`,
  `OneMore`).
- `BaselineStands`: `BaselineHolds` for every season, any of the seven lines and any
  ledger. The drift is held to a twentieth whatever sums it is the difference of
  (`DriftIs`), so silence stays within ten units of where the encoder puts it
  (`DriftedIs`); there it is inside, or one unit past integrity's wall
  (`AroundIsInside`, `IntegrityGrazes`), and the projection takes no longer step than the
  foot of that wall (`NearestIs`).
- `NoWallNamed`: the geometry of the last part of `FrameHonest`, for every season, any
  plumb lines and every place inside. The twentieth within which `near_walls` names a
  wall is wider than the aligned margin of every season (`NothingNear`, `ToleranceIs`),
  and of the walls that are near the nearest has none before it, so one is named.
- `FrameIsHonest`: `FrameHonest` for any memories, replies and plumb lines, through every
  crossing and boot. From `HomeInv`: the homes are inside the season they were found in
  (`PolesInside`), and the lattice she is judged in is that season or a later one
  (`Since`), where what was inside still is (`StaysInside`, from `SeasonsOpen`); what was
  delivered is inside, whether it was corrected or not (`DeliversInside`, for which a
  correction of no length is no correction, `NothingApart`). A centroid is a place
  because the mean of coordinates is one (`MeanIs`), there is a first nearest home
  (`ClosestIs`), and re-seeding leaves a sequence of centers (`SeedsAreSequence`,
  `MovedAreSequence`). The last part is `NoWallNamed`.

The sums of `Lattice`, `Encoder` and `ReplyGate` are folds over finite sets. What a proof
needs of them (`SumUnrolls`: a sum over a set is its value at one member and the sum over
the rest) is proved without the library's induction theorems, by a least counterexample:
of the sizes at which two functions differ there is a smallest (`Smallest`, `UptoAll`).
The functions of `ToolCall` that run over a text, `Pulled`, and the seeds and moves of
`HomeRegions` are proved about in the same way: such a function exists, being built from
the end of the text or from its start, so it obeys its own equation (`ReadingUnrolls`,
`ScanUnrolls`, `PulledUnrolls`, `SequenceGrows`), and what one place hands on to the next
holds at all of them (`Down`, `On`).

Only model-checked:

- the liveness properties (fairness and ENABLED are out of the prover's reach),
  `DiscoveryEnds` among them;
- `SubconsciousOneWay` of `StandingKept`, which also needs the rows a database already
  holds to be as the program forms them, and the value of a power of two, opaque to the
  prover;
- of `HomeRegions`, `HomesHoldMemories`, whose last part rests on why the search was
  ended (by its own convergence or by the cap);
- `EndsAtNearest`: that the cap leaves time enough for the corrections to hold back
  next to nothing, and that the nudges spoil it by two grains at most;
- `SortedHoweverCut`, whose sweep is a recursive operator.

The sequences of entries, frames and bytes are proved about by what one step adds or
takes.

## 7. What is not modelled

Token sampling, prompt text, SQL text, Qt layout, the browser's protocol, the
self-test runner and the start-up scripts: I/O or libraries, with no state the
properties above relate. `PROJECT.json` gives the reason for each part.

- `recall`, `inject_context` and the cosine of embeddings only read; the wisdom
  filter's words, the wording of a frame and most of the lexicon are data.
- `set_window_ms` and the live scores of the turn driver are left out of `TurnDriver`.
- A crossing runs on the owner's thread while a turn thread may read the same
  value engine: a data race on GMP numbers, whose outcomes no model of the values
  would cover. `SeasonGrowth` and `ReplyGate` cross between replies.
- A positive return of `llama_decode` is taken by the code as success
  (`llama_adapter.cpp` 284); the model takes a prompt to succeed or fail.
- A turn that ends after its window was destroyed posts to a freed object
  (`ui` 1004): undefined behaviour, listed as a hazard without a property.
