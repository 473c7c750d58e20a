------------------------------ MODULE DragonRing ------------------------------
(***************************************************************************)
(* One ring of the DragonCache (src/include/dragon_ring.h) with the core's *)
(* Hub at its producing end (src/src/dragoncache.cpp) and a spoke at the   *)
(* other.  They are two processes over one file of huge pages: the ring    *)
(* outlives either of them.                                                *)
(*                                                                         *)
(* A step is one access to shared memory: the loads at the start of a push *)
(* or a pop, one byte of a frame, or the store that ends it.  The release  *)
(* store of head and its acquire load order the bytes in between, and tail *)
(* likewise, so interleaving these steps loses no behaviour of the code.   *)
(*                                                                         *)
(* A byte is abstracted to the push that wrote it and its place in that    *)
(* frame; the bytes of the length prefix are the ones that tell the total. *)
(***************************************************************************)
EXTENDS Naturals, Sequences

CONSTANTS
  Threads,      \* threads of the core that push through the Hub
  Size,         \* RING_PAYLOAD_SIZE
  Prefix,       \* RING_LEN_PREFIX
  FrameMax,     \* RING_FRAME_MAX
  MaxPushes,    \* bound: pushes that find room
  MaxEnds       \* bound: times a process ends

ASSUME RingAssumption ==
  /\ Size \in Nat \ {0}
  /\ Prefix \in Nat \ {0}
  /\ FrameMax \in Nat
  /\ MaxPushes \in Nat
  /\ MaxEnds \in Nat

VARIABLES
  head, tail,   \* the ring's free-running counters
  payload,      \* the ring's bytes
  attached,     \* the Hub has the pool mapped
  mutex,        \* the threads inside the Hub's mutex_
  pushing,      \* the frame each thread is pushing
  written,      \* how many bytes of it are written
  pushes,       \* number of the last push that found room
  cpc,          \* where the consumer stands in ring_pop
  seen,         \* the head it loaded
  got,          \* the bytes it has read
  accepted,     \* auxiliary: frames published, in order
  returned,     \* auxiliary: the bytes of each frame popped
  rejected,     \* auxiliary: a pop returned 0 with frames in the ring
  ends          \* auxiliary: times a process ended

ring     == <<head, tail, payload>>
producer == <<attached, mutex, pushing, written, pushes>>
consumer == <<cpc, seen, got>>
history  == <<accepted, returned, rejected>>
vars == <<ring, producer, consumer, history, ends>>

\* Number of its push, total length, and the position it starts at.
NoFrame == [push |-> 0, total |-> 0, at |-> 0]

Byte(f, i) == [push |-> f.push, total |-> f.total, place |-> i]

Offset(position) == position % Size

Init ==
  /\ head = 0 /\ tail = 0
  /\ payload = [o \in 0..(Size - 1) |-> Byte(NoFrame, 0)]
  /\ attached = TRUE
  /\ mutex = {}
  /\ pushing = [t \in Threads |-> NoFrame]
  /\ written = [t \in Threads |-> 0]
  /\ pushes = 0
  /\ cpc = "idle" /\ seen = 0 /\ got = <<>>
  /\ accepted = <<>> /\ returned = <<>> /\ rejected = FALSE
  /\ ends = 0

-------------------------------------------------------------------------------
(* The producer: Hub::push_frame and ring_push.                            *)

Begin(t, total) ==
  /\ attached /\ pushing[t] = NoFrame /\ pushes < MaxPushes
  /\ pushes' = pushes + 1
  /\ pushing' = [pushing EXCEPT ![t] = [push |-> pushes + 1, total |-> total,
                                        at |-> head]]
  /\ written' = [written EXCEPT ![t] = 0]
  /\ mutex' = mutex \cup {t}
  /\ UNCHANGED <<ring, attached, consumer, history, ends>>

\* The mutex, head and tail, and the size tests.  A push that is refused (not
\* attached, too long, no room) changes nothing.
StartPush(t, len) ==
  /\ mutex = {}
  /\ len <= FrameMax
  /\ head - tail + Prefix + 1 + len <= Size
  /\ Begin(t, Prefix + 1 + len)

\* ring_write_bytes of prefix, type byte and payload.
WriteByte(t) ==
  /\ written[t] < pushing[t].total
  /\ payload' = [payload EXCEPT ![Offset(pushing[t].at + written[t])] =
                   Byte(pushing[t], written[t])]
  /\ written' = [written EXCEPT ![t] = @ + 1]
  /\ UNCHANGED <<head, tail, attached, mutex, pushing, pushes, consumer, history,
                 ends>>

EndPush(t) ==
  /\ head' = pushing[t].at + pushing[t].total
  /\ accepted' = Append(accepted, pushing[t])
  /\ pushing' = [pushing EXCEPT ![t] = NoFrame]
  /\ mutex' = mutex \ {t}
  /\ UNCHANGED <<tail, payload, attached, written, pushes, consumer, returned,
                 rejected, ends>>

\* Mutant: head is advanced before the payload is written.
PublishEarly(t) ==
  pushing[t] # NoFrame /\ written[t] >= Prefix /\ EndPush(t)

\* The release store of head, the return, the unlock.
Publish(t) ==
  pushing[t] # NoFrame /\ written[t] = pushing[t].total /\ EndPush(t)

\* Hub::detach waits for the mutex.
Detach ==
  /\ attached /\ mutex = {}
  /\ attached' = FALSE
  /\ UNCHANGED <<ring, mutex, pushing, written, pushes, consumer, history, ends>>

\* Hub::attach, in this process or the next, maps the pool as it was left.
Attach ==
  /\ ~attached
  /\ attached' = TRUE
  /\ UNCHANGED <<ring, mutex, pushing, written, pushes, consumer, history, ends>>

\* The core's process ends at any point of a push; its mutex goes with it.
CoreEnds ==
  /\ attached /\ ends < MaxEnds
  /\ ends' = ends + 1
  /\ attached' = FALSE
  /\ mutex' = {}
  /\ pushing' = [t \in Threads |-> NoFrame]
  /\ UNCHANGED <<ring, written, pushes, consumer, history>>

-------------------------------------------------------------------------------
(* The consumer: ring_pop in the spoke that reads this ring.               *)

\* The loads of head and tail; equal counters mean empty and return 0.
StartPop ==
  /\ cpc = "idle" /\ head # tail
  /\ seen' = head
  /\ got' = <<>>
  /\ cpc' = "prefix"
  /\ UNCHANGED <<ring, producer, history, ends>>

ReadByte ==
  /\ got' = Append(got, payload[Offset(tail + Len(got))])
  /\ UNCHANGED <<ring, producer, cpc, seen, history, ends>>

ReadPrefix == cpc = "prefix" /\ Len(got) < Prefix /\ ReadByte

\* ring_read_u32: the total of the frame whose prefix these bytes are; of any
\* other bytes a number out of bounds.
TotalRead ==
  IF \A i \in 1..Prefix : got[i].total = got[1].total /\ got[i].place = i - 1
  THEN got[1].total
  ELSE 0

\* The sanity tests.  When one fails pop returns 0 and tail stays.
CheckPrefix ==
  /\ cpc = "prefix" /\ Len(got) = Prefix
  /\ IF /\ Prefix + 1 <= TotalRead /\ TotalRead <= FrameMax + Prefix + 1
        /\ TotalRead <= seen - tail
     THEN cpc' = "body" /\ UNCHANGED rejected
     ELSE cpc' = "idle" /\ rejected' = TRUE
  /\ UNCHANGED <<ring, producer, seen, got, accepted, returned, ends>>

ReadBody == cpc = "body" /\ Len(got) < TotalRead /\ ReadByte

EndPop(total) ==
  /\ tail' = tail + total
  /\ returned' = Append(returned, got)
  /\ cpc' = "idle"
  /\ UNCHANGED <<head, payload, producer, seen, got, accepted, rejected, ends>>

\* Mutant: the total is taken for the length without the prefix, as the frame
\* format's comment has it.
FinishPopPastEnd ==
  cpc = "body" /\ Len(got) \in {Prefix + 1, TotalRead} /\ EndPop(TotalRead + Prefix)

\* The release store of tail.  A payload longer than the caller's buffer is
\* passed over: only the prefix and the type byte were read.
FinishPop ==
  cpc = "body" /\ Len(got) \in {Prefix + 1, TotalRead} /\ EndPop(TotalRead)

\* The spoke's process ends: the frame it was reading is still in the ring.
SpokeEnds ==
  /\ cpc # "idle" /\ ends < MaxEnds
  /\ ends' = ends + 1
  /\ cpc' = "idle"
  /\ UNCHANGED <<ring, producer, seen, got, history>>

-------------------------------------------------------------------------------
PushSteps ==
  \E t \in Threads :
    (\E len \in 0..FrameMax : StartPush(t, len)) \/ WriteByte(t) \/ Publish(t)

PopSteps == StartPop \/ ReadPrefix \/ CheckPrefix \/ ReadBody \/ FinishPop

Next == PushSteps \/ PopSteps \/ Detach \/ Attach \/ CoreEnds \/ SpokeEnds

Spec == Init /\ [][Next]_vars

\* The spoke keeps popping, and keeps being scheduled while it does.
FairSpec == Spec /\ WF_vars(PopSteps)

-------------------------------------------------------------------------------
(* Properties.                                                             *)

Positions == [push : Nat, total : Nat, at : Nat]

Bytes == [push : Nat, total : Nat, place : Nat]

RingTypes ==
  /\ head \in Nat /\ tail \in Nat
  /\ payload \in [0..(Size - 1) -> Bytes]

ProducerTypes ==
  /\ attached \in BOOLEAN
  /\ mutex \subseteq Threads
  /\ pushing \in [Threads -> Positions]
  /\ written \in [Threads -> Nat]
  /\ pushes \in Nat

ConsumerTypes ==
  /\ cpc \in {"idle", "prefix", "body"}
  /\ seen \in Nat
  /\ got \in Seq(Bytes)

HistoryTypes ==
  /\ accepted \in Seq(Positions)
  /\ returned \in Seq(Seq(Bytes))
  /\ rejected \in BOOLEAN
  /\ ends \in Nat

\* Types; a full ring holds at most Size bytes, an empty one none: neither
\* counter overtakes the other.
TypeOK ==
  /\ RingTypes /\ ProducerTypes /\ ConsumerTypes /\ HistoryTypes
  /\ tail <= head /\ head <= tail + Size

\* A pop that finds frames returns one: it never takes bytes for corrupt or for
\* not yet committed.  (If it did the consumer would be stuck, for tail stays.)
NeverRejected == ~rejected

\* The frame that bytes belong to, if they are its first bytes in order, all of
\* them or those before its payload.
FrameRead(bytes) ==
  IF /\ \A i \in 1..Len(bytes) : bytes[i] = Byte(bytes[1], i - 1)
     /\ Len(bytes) \in {Prefix + 1, bytes[1].total}
  THEN [push |-> bytes[1].push, total |-> bytes[1].total]
  ELSE [push |-> 0, total |-> 0]

Queue ==
  INSTANCE FrameQueue
    WITH Frames <- [push : Nat, total : Nat],
         accepted <- [i \in DOMAIN accepted |->
                        [push |-> accepted[i].push, total |-> accepted[i].total]],
         returned <- [i \in DOMAIN returned |-> FrameRead(returned[i])]

\* The ring is a queue of whole frames: with pushes of several threads, frames
\* that wrap around the end, short buffers and processes that end in the middle
\* of a push or a pop, each published frame is popped once, whole and in order.
IsFrameQueue == Queue!Spec

\* A published frame is popped by a spoke that keeps popping.
PublishedIsPopped ==
  \A n \in 1..MaxPushes : Len(accepted) >= n ~> Len(returned) >= n
===============================================================================
