----------------------------- MODULE TelemetryBus -----------------------------
(***************************************************************************)
(* The telemetry bus of src/src/lina_core.cpp: threads queue entries, one  *)
(* writer thread stores them, a sink shows them, and the destructor winds  *)
(* it all down.                                                            *)
(*                                                                         *)
(* An entry is the number of its place in the order of queueing.  The      *)
(* mirror of an event on the RX ring is a push of DragonRing.              *)
(***************************************************************************)
EXTENDS Naturals, Sequences

CONSTANTS
  Workers,      \* the turn thread and the window thread
  Owner,        \* the thread that boots, feeds and destroys the core
  Capacity,     \* the queue's limit, 5000
  MaxEntries    \* bound: entries queued

ASSUME BusAssumption ==
  /\ Owner \notin Workers
  /\ Capacity \in Nat \ {0}
  /\ MaxEntries \in Nat

Threads == Workers \cup {Owner}

VARIABLES
  queue,        \* telemetry_queue_
  stop,         \* telemetry_stop_
  mutex,        \* telemetry_mutex_ is held by the writer
  wpc,          \* where the writer stands
  batch,        \* its local batch
  rows,         \* the rows stored, in order
  epc,          \* where each thread stands in an emission
  showing,      \* threads inside the sink
  held,         \* the thread, if any, that holds sink_mutex_
  sink,         \* a sink is set
  dpc,          \* where the destructor stands
  queued,       \* auxiliary: entries queued so far
  dropped,      \* auxiliary: entries dropped at the limit
  failed        \* auxiliary: entries the storage refused

writer   == <<mutex, wpc, batch, rows, failed>>
emitters == <<epc, showing, held, queued, dropped>>
vars == <<queue, stop, writer, emitters, sink, dpc>>

Init ==
  /\ queue = <<>> /\ stop = FALSE
  /\ mutex = FALSE /\ wpc = "none" /\ batch = <<>> /\ rows = <<>> /\ failed = {}
  /\ epc = [t \in Threads |-> "idle"] /\ showing = {} /\ held = {}
  /\ queued = 0 /\ dropped = {}
  /\ sink = FALSE
  /\ dpc = "alive"

\* The workers emit until the destructor has joined them, and so does the owner,
\* which runs the destructor: its stop_turn reports itself.
MayEmit == dpc \in {"alive", "closing"}

-------------------------------------------------------------------------------
(* Emission: emit_telemetry, or persist_telemetry alone.                   *)

\* The queue after its oldest entry made room.
DropOldest(q) == IF Len(q) >= Capacity THEN Tail(q) ELSE q

\* The scope of persist_telemetry that holds the lock.
Persist(t, then) ==
  LET kept == DropOldest(queue)
  IN  /\ epc[t] = "idle" /\ MayEmit /\ queued < MaxEntries
      /\ ~mutex
      /\ queued' = queued + 1
      /\ queue' = Append(kept, queued + 1)
      /\ dropped' = dropped \cup {queue[i] : i \in 1..(Len(queue) - Len(kept))}
      /\ epc' = [epc EXCEPT ![t] = then]
      /\ UNCHANGED <<stop, writer, showing, held, sink, dpc>>

\* Mutant: the entry is queued and nobody is told.
NoWake == UNCHANGED wpc

\* notify_one and notify_all: a writer that waits goes to take the lock.
Wake == IF wpc = "waiting" THEN wpc' = "locking" ELSE UNCHANGED wpc

Notify(t) ==
  /\ epc[t] \in {"log", "event"}
  /\ Wake
  /\ epc' = [epc EXCEPT ![t] = IF @ = "log" THEN "idle" ELSE "show"]
  /\ UNCHANGED <<queue, stop, mutex, batch, rows, failed, showing, held, queued,
                 dropped, sink, dpc>>

EnterSink(t) ==
  /\ showing' = IF sink THEN showing \cup {t} ELSE showing
  /\ epc' = [epc EXCEPT ![t] = IF sink THEN "shown" ELSE "idle"]
  /\ UNCHANGED <<queue, stop, writer, queued, dropped, sink, dpc>>

\* Mutant: the sink is called without its lock.
CallSinkUnlocked(t) == epc[t] = "show" /\ EnterSink(t) /\ UNCHANGED held

\* The sink, if there is one, runs under sink_mutex_.
CallSink(t) ==
  /\ epc[t] = "show" /\ held = {}
  /\ held' = IF sink THEN {t} ELSE {}
  /\ EnterSink(t)

SinkReturns(t) ==
  /\ epc[t] = "shown"
  /\ showing' = showing \ {t} /\ held' = held \ {t}
  /\ epc' = [epc EXCEPT ![t] = "idle"]
  /\ UNCHANGED <<queue, stop, writer, queued, dropped, sink, dpc>>

-------------------------------------------------------------------------------
(* The writer: telemetry_writer_loop.                                      *)

\* The lock, and the predicate of the wait under it.
WriterLocks ==
  /\ wpc = "locking" /\ ~mutex
  /\ mutex' = TRUE
  /\ wpc' = IF stop \/ queue # <<>> THEN "awake" ELSE "blocking"
  /\ UNCHANGED <<queue, stop, batch, rows, failed, emitters, sink, dpc>>

\* The wait lets the lock go.
WriterWaits ==
  /\ wpc = "blocking"
  /\ mutex' = FALSE /\ wpc' = "waiting"
  /\ UNCHANGED <<queue, stop, batch, rows, failed, emitters, sink, dpc>>

SpuriousWake ==
  /\ wpc = "waiting"
  /\ wpc' = "locking"
  /\ UNCHANGED <<queue, stop, mutex, batch, rows, failed, emitters, sink, dpc>>

\* Told to stop, and nothing left.
Drained == stop /\ queue = <<>>

WriterReturns ==
  /\ wpc = "awake" /\ Drained
  /\ mutex' = FALSE /\ wpc' = "returned"
  /\ UNCHANGED <<queue, stop, batch, rows, failed, emitters, sink, dpc>>

\* Mutant: the batch is copied and the queue not emptied.
WriterCopies ==
  /\ wpc = "awake" /\ ~Drained
  /\ batch' = queue /\ queue' = queue
  /\ mutex' = FALSE /\ wpc' = "storing"
  /\ UNCHANGED <<stop, rows, failed, emitters, sink, dpc>>

\* The queue is taken as a whole and the lock let go.
WriterSwaps ==
  /\ wpc = "awake" /\ ~Drained
  /\ batch' = queue /\ queue' = <<>>
  /\ mutex' = FALSE /\ wpc' = "storing"
  /\ UNCHANGED <<stop, rows, failed, emitters, sink, dpc>>

\* Mutant: an exception ends the loop over the batch.
StoreAbandons ==
  /\ wpc = "storing" /\ batch # <<>>
  /\ \/ rows' = Append(rows, Head(batch)) /\ batch' = Tail(batch) /\ UNCHANGED failed
     \/ failed' = failed \cup {Head(batch)} /\ batch' = <<>> /\ UNCHANGED rows
  /\ UNCHANGED <<queue, stop, mutex, wpc, emitters, sink, dpc>>

\* One entry of the batch; an exception of the storage is swallowed.
Store ==
  /\ wpc = "storing" /\ batch # <<>>
  /\ batch' = Tail(batch)
  /\ \/ rows' = Append(rows, Head(batch)) /\ UNCHANGED failed
     \/ failed' = failed \cup {Head(batch)} /\ UNCHANGED rows
  /\ UNCHANGED <<queue, stop, mutex, wpc, emitters, sink, dpc>>

BatchDone ==
  /\ wpc = "storing" /\ batch = <<>>
  /\ wpc' = "locking"
  /\ UNCHANGED <<queue, stop, mutex, batch, rows, failed, emitters, sink, dpc>>

-------------------------------------------------------------------------------
(* The owner: initialize, set_telemetry_sink, ~LinaCore.                   *)

OwnerFree == dpc = "alive" /\ epc[Owner] = "idle"

\* start_telemetry_writer, the last step of initialize.
StartWriter ==
  /\ OwnerFree /\ wpc = "none"
  /\ wpc' = "locking"
  /\ UNCHANGED <<queue, stop, mutex, batch, rows, failed, emitters, sink, dpc>>

SetSink(present) ==
  /\ OwnerFree /\ wpc # "none" /\ held = {} /\ sink # present
  /\ sink' = present
  /\ UNCHANGED <<queue, stop, writer, emitters, dpc>>

\* The destructor, or the constructor of a core that failed to boot, takes the
\* sink back.
BeginClose ==
  /\ OwnerFree /\ held = {}
  /\ sink' = FALSE
  /\ dpc' = "closing"
  /\ UNCHANGED <<queue, stop, writer, emitters>>

\* The workers ended, and the owner is past its own report.
JoinWorkers ==
  /\ dpc = "closing"
  /\ \A t \in Threads : epc[t] = "idle"
  /\ dpc' = "joined"
  /\ UNCHANGED <<queue, stop, writer, emitters, sink>>

\* Mutant: the flag is raised without the lock.
RaiseStopUnlocked ==
  /\ dpc = "joined"
  /\ stop' = TRUE
  /\ dpc' = "raised"
  /\ UNCHANGED <<queue, writer, emitters, sink>>

RaiseStop ==
  /\ dpc = "joined" /\ ~mutex
  /\ stop' = TRUE
  /\ dpc' = "raised"
  /\ UNCHANGED <<queue, writer, emitters, sink>>

NotifyStop ==
  /\ dpc = "raised"
  /\ Wake
  /\ dpc' = "joining"
  /\ UNCHANGED <<queue, stop, mutex, batch, rows, failed, emitters, sink>>

JoinWriter ==
  /\ dpc = "joining" /\ wpc \in {"none", "returned"}
  /\ dpc' = "gone"
  /\ UNCHANGED <<queue, stop, writer, emitters, sink>>

-------------------------------------------------------------------------------
EmitterSteps(t) == Notify(t) \/ CallSink(t) \/ SinkReturns(t)

WriterSteps ==
  WriterLocks \/ WriterWaits \/ WriterReturns \/ WriterSwaps \/ Store \/ BatchDone

CloseSteps == JoinWorkers \/ RaiseStop \/ NotifyStop \/ JoinWriter

Next ==
  \/ \E t \in Threads :
       Persist(t, "log") \/ Persist(t, "event") \/ EmitterSteps(t)
  \/ WriterSteps \/ SpuriousWake
  \/ StartWriter \/ (\E present \in BOOLEAN : SetSink(present))
  \/ BeginClose \/ CloseSteps

\* The destructor returned.
Quiet == dpc = "gone" /\ UNCHANGED vars

Spec == Init /\ [][Next \/ Quiet]_vars

\* Threads that can run do, and the destructor gets a mutex that comes free again
\* and again (a wait may wake by itself any number of times).  Nobody has to emit,
\* start the writer or destroy the core.
FairSpec ==
  /\ Spec
  /\ \A t \in Threads : WF_vars(EmitterSteps(t))
  /\ WF_vars(WriterSteps)
  /\ WF_vars(CloseSteps) /\ SF_vars(RaiseStop)

-------------------------------------------------------------------------------
(* Properties.                                                             *)

\* Types, and the queue within its limit.
TypeOK ==
  /\ queue \in Seq(Nat) /\ Len(queue) <= Capacity
  /\ stop \in BOOLEAN /\ mutex \in BOOLEAN
  /\ wpc \in {"none", "locking", "awake", "blocking", "waiting", "storing",
              "returned"}
  /\ batch \in Seq(Nat) /\ rows \in Seq(Nat) /\ failed \subseteq Nat
  /\ epc \in [Threads -> {"idle", "log", "event", "show", "shown"}]
  /\ showing \subseteq Threads /\ held \subseteq Threads /\ sink \in BOOLEAN
  /\ dpc \in {"alive", "closing", "joined", "raised", "joining", "gone"}
  /\ queued \in Nat /\ dropped \subseteq Nat

Members(s) == {s[i] : i \in 1..Len(s)}

\* No entry vanishes: each one queued is stored, refused by the storage, dropped
\* at the limit, or on its way, at every interleaving of the swap with emissions
\* and whatever the storage throws.
NothingVanishes ==
  1..queued = Members(rows) \cup failed \cup dropped \cup Members(batch)
                \cup Members(queue)

Ascending(s) == \A i, j \in 1..Len(s) : i < j => s[i] < s[j]

\* The ledger keeps the order of the bus, and no entry is stored twice.
LedgerInOrder == Ascending(rows \o batch \o queue)

\* An entry is dropped only for Capacity newer ones.
DropsOldestOnly == \A n \in dropped : n + Capacity <= queued

\* A core that is gone left nothing behind in its queue, if it ever had a writer.
GoneIsDrained == dpc = "gone" /\ wpc # "none" => queue = <<>> /\ batch = <<>>

\* While no sink is set none runs: who takes it back may be destroyed.
NoSinkNoCall == ~sink => showing = {}

\* An entry of a bus with a writer is stored, refused or dropped.
EntriesSettle ==
  \A n \in 1..MaxEntries :
    (queued >= n /\ wpc # "none") ~> n \in Members(rows) \cup failed \cup dropped

\* The destructor returns.
CloseEnds == dpc = "closing" ~> dpc = "gone"
===============================================================================
