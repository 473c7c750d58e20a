--------------------------- MODULE DragonRingProofs ---------------------------
(* Theorems about DragonRing, for a ring of any size, any prefix length, any *)
(* frame limit and any number of pushing threads.                          *)
EXTENDS DragonRing, Integers, TLAPS

LEMMA RemaindersDiffer ==
  ASSUME NEW n \in Nat \ {0}, NEW p \in Nat, NEW q \in Nat, p < q, q < p + n
  PROVE  p % n # q % n
<1> DEFINE a == p \div n
           b == q \div n
<1>1. /\ p = n * a + (p % n) /\ q = n * b + (q % n)
      /\ a \in Int /\ b \in Int
  OBVIOUS
<1> HIDE DEF a, b
<1>2. SUFFICES ASSUME p % n = q % n PROVE FALSE
  OBVIOUS
<1>3. q - p = n * (b - a)
  <2>1. q - p = n * b - n * a
    BY <1>1, <1>2
  <2>2. QED
    BY <1>1, <2>1
<1>4. CASE b - a <= 0
  <2>1. n * (b - a) <= 0
    BY <1>1, <1>4
  <2>2. QED
    BY <1>3, <2>1
<1>5. CASE b - a >= 1
  <2>1. n * (b - a) >= n
    BY <1>1, <1>5
  <2>2. QED
    BY <1>3, <2>1
<1>6. QED
  BY <1>1, <1>4, <1>5

\* Two positions less than a ring apart have different offsets.
LEMMA OffsetsDiffer ==
  ASSUME NEW p \in Nat, NEW q \in Nat, p < q, q < p + Size
  PROVE  Offset(p) # Offset(q)
BY RemaindersDiffer, RingAssumption DEF Offset

LEMMA OffsetInRing ==
  ASSUME NEW p \in Nat
  PROVE  Offset(p) \in 0..(Size - 1)
BY RingAssumption DEF Offset

-------------------------------------------------------------------------------
(* The inductive invariant.                                                *)

Types == RingTypes /\ ProducerTypes /\ ConsumerTypes /\ HistoryTypes

End(f) == f.at + f.total

Oldest == accepted[Len(returned) + 1]

\* Frames lie end to end from tail, or from what was popped, up to head.
Layout ==
  /\ Len(returned) <= Len(accepted)
  /\ tail = IF Len(returned) < Len(accepted) THEN Oldest.at ELSE head
  /\ head <= tail + Size
  /\ \A i \in 1..Len(accepted) :
       /\ accepted[i].total \in (Prefix + 1)..(FrameMax + Prefix + 1)
       /\ End(accepted[i]) <= head
       /\ i = Len(accepted) => End(accepted[i]) = head
       /\ i < Len(accepted) => End(accepted[i]) = accepted[i + 1].at
       /\ \A j \in 1..Len(accepted) : i < j => End(accepted[i]) <= accepted[j].at

\* The bytes of a frame not yet popped are in the ring.
Stored ==
  \A i \in (Len(returned) + 1)..Len(accepted) : \A k \in 0..(accepted[i].total - 1) :
    payload[Offset(accepted[i].at + k)] = Byte(accepted[i], k)

\* One thread pushes at a time, into room past head that no frame occupies.
Writing ==
  /\ \A t \in Threads : pushing[t] # NoFrame => t \in mutex
  /\ \A t, u \in Threads : pushing[t] # NoFrame /\ pushing[u] # NoFrame => t = u
  /\ \A t \in Threads : pushing[t] # NoFrame =>
       /\ pushing[t].at = head
       /\ pushing[t].total \in (Prefix + 1)..(FrameMax + Prefix + 1)
       /\ head + pushing[t].total <= tail + Size
       /\ written[t] <= pushing[t].total
       /\ \A k \in 0..(written[t] - 1) :
            payload[Offset(head + k)] = Byte(pushing[t], k)

\* A pop in progress has seen the whole oldest frame and read its first bytes.
Reading ==
  cpc # "idle" =>
    /\ Len(returned) < Len(accepted)
    /\ End(Oldest) <= seen
    /\ Len(got) <= Oldest.total
    /\ cpc = "prefix" => Len(got) <= Prefix
    /\ cpc = "body" => Len(got) >= Prefix
    /\ \A i \in 1..Len(got) : got[i] = Byte(Oldest, i - 1)

Name(f) == [push |-> f.push, total |-> f.total]

\* What was popped are the frames accepted, in their order.
InOrder ==
  \A i \in 1..Len(returned) : FrameRead(returned[i]) = Name(accepted[i])

RingInv ==
  Types /\ Layout /\ Stored /\ Writing /\ Reading /\ InOrder /\ NeverRejected

LEMMA Counters ==
  ASSUME Types, Layout
  PROVE  tail <= head /\ head <= tail + Size
<1>1. /\ head \in Nat /\ tail \in Nat /\ head <= tail + Size
      /\ Len(returned) \in Nat /\ Len(accepted) \in Nat
  BY DEF Types, RingTypes, HistoryTypes, Layout
<1>2. CASE Len(returned) < Len(accepted)
  <2> DEFINE i == Len(returned) + 1
  <2>1. i \in 1..Len(accepted) /\ accepted[i] \in Positions
    BY <1>1, <1>2 DEF Types, HistoryTypes
  <2>2. tail = accepted[i].at /\ accepted[i].total \in Nat /\ End(accepted[i]) <= head
    BY <1>2, <2>1 DEF Layout, Oldest, Positions
  <2>3. QED
    BY <1>1, <2>2 DEF End
<1>3. CASE ~(Len(returned) < Len(accepted))
  BY <1>1, <1>3 DEF Layout
<1>4. QED
  BY <1>2, <1>3

LEMMA OldestFrame ==
  ASSUME Types, Layout, Len(returned) < Len(accepted)
  PROVE  /\ Oldest \in Positions
         /\ Oldest.total \in (Prefix + 1)..(FrameMax + Prefix + 1)
         /\ Oldest.at = tail /\ End(Oldest) <= head
<1>1. Len(returned) + 1 \in 1..Len(accepted)
  BY DEF Types, HistoryTypes
<1>2. QED
  BY <1>1 DEF Types, HistoryTypes, Layout, Oldest

\* The prefix of the oldest frame reads as its total.
LEMMA PrefixRead ==
  ASSUME Types, Layout, Reading, cpc # "idle", Len(got) >= Prefix
  PROVE  TotalRead = Oldest.total
<1> DEFINE n == Len(got)
<1>0. n \in Nat /\ Prefix \in Nat /\ Prefix <= n
  BY RingAssumption DEF Types, ConsumerTypes
<1>1. \A i \in 1..Prefix : got[i] = Byte(Oldest, i - 1)
  <2>1. \A i \in 1..n : got[i] = Byte(Oldest, i - 1)
    BY DEF Reading
  <2> HIDE DEF n
  <2>2. QED
    BY <1>0, <2>1
<1>2. ASSUME NEW i \in 1..Prefix
      PROVE  got[i].total = Oldest.total /\ got[i].place = i - 1
  <2>1. got[i] = Byte(Oldest, i - 1)
    BY <1>1
  <2>2. QED
    BY <2>1 DEF Byte
<1>3. 1 \in 1..Prefix
  BY RingAssumption
<1>4. QED
  BY <1>2, <1>3 DEF TotalRead

LEMMA InitInv == Init => RingInv
<1> SUFFICES ASSUME Init PROVE RingInv
  OBVIOUS
<1> USE RingAssumption DEF Init, NoFrame
<1>1. RingTypes
  BY DEF RingTypes, Byte, Bytes
<1>2. ProducerTypes
  BY DEF ProducerTypes, Positions
<1>3. ConsumerTypes
  <2>1. <<>> \in Seq(Bytes)
    OBVIOUS
  <2>2. QED
    BY <2>1 DEF ConsumerTypes
<1>4. HistoryTypes
  <2>1. accepted \in Seq(Positions) /\ returned \in Seq(Seq(Bytes))
    OBVIOUS
  <2>2. QED
    BY <2>1 DEF HistoryTypes
<1>5. Layout /\ Stored /\ Reading /\ InOrder /\ NeverRejected
  BY DEF Layout, Stored, Reading, InOrder, NeverRejected
<1>6. Writing
  BY DEF Writing
<1>7. QED
  BY <1>1, <1>2, <1>3, <1>4, <1>5, <1>6 DEF RingInv, Types

\* A push starts in free room past head.
LEMMA StartPushInv ==
  ASSUME RingInv, NEW t \in Threads, NEW len \in 0..FrameMax, StartPush(t, len)
  PROVE  RingInv'
<1> USE DEF RingInv, StartPush, Begin, ring, producer, consumer, history
<1>1. Types'
  <2>1. [push |-> pushes + 1, total |-> Prefix + 1 + len, at |-> head] \in Positions
    BY RingAssumption DEF Types, RingTypes, ProducerTypes, Positions
  <2>2. QED
    BY <2>1 DEF Types, RingTypes, ProducerTypes, ConsumerTypes, HistoryTypes
<1>2. Layout'
  BY DEF Layout, Oldest
<1>3. Stored'
  BY DEF Stored
<1>4. Writing'
  <2> DEFINE f == [push |-> pushes + 1, total |-> Prefix + 1 + len, at |-> head]
  <2>1. \A u \in Threads : pushing[u] = NoFrame
    BY DEF Writing
  <2>2. pushing' = [u \in Threads |-> IF u = t THEN f ELSE NoFrame]
    BY <2>1 DEF Types, ProducerTypes
  <2>3. written'[t] = 0 /\ t \in mutex'
    BY DEF Types, ProducerTypes
  <2>4. head + f.total <= tail + Size /\ f.total \in (Prefix + 1)..(FrameMax + Prefix + 1)
    BY RingAssumption DEF Types, RingTypes
  <2>5. /\ \A u \in Threads : pushing'[u] # NoFrame => u = t
        /\ pushing'[t] = f /\ f.at = head /\ head' = head /\ tail' = tail
    BY <2>2
  <2>6. \A u \in Threads : pushing'[u] # NoFrame =>
          /\ pushing'[u].at = head'
          /\ pushing'[u].total \in (Prefix + 1)..(FrameMax + Prefix + 1)
          /\ head' + pushing'[u].total <= tail' + Size
          /\ written'[u] <= pushing'[u].total
          /\ \A k \in 0..(written'[u] - 1) :
               payload'[Offset(head' + k)] = Byte(pushing'[u], k)
    BY <2>3, <2>4, <2>5, RingAssumption
  <2>7. QED
    BY <2>3, <2>5, <2>6 DEF Writing
<1>5. Reading'
  BY DEF Reading, Oldest
<1>6. InOrder'
  BY DEF InOrder
<1>7. NeverRejected'
  BY DEF NeverRejected
<1>8. QED
  BY <1>1, <1>2, <1>3, <1>4, <1>5, <1>6, <1>7

\* A byte is written past head, clear of every frame.
LEMMA WriteByteInv ==
  ASSUME RingInv, NEW t \in Threads, WriteByte(t)
  PROVE  RingInv'
<1> USE DEF RingInv, WriteByte, ring, producer, consumer, history
<1>1. Types'
  <2>0. pushing[t] \in Positions /\ written[t] \in Nat
    BY DEF Types, ProducerTypes
  <2>1. Byte(pushing[t], written[t]) \in Bytes /\ pushing[t].at + written[t] \in Nat
    BY <2>0 DEF Positions, Byte, Bytes
  <2>2. RingTypes'
    BY <2>1 DEF Types, RingTypes
  <2>3. ProducerTypes'
    BY <2>0 DEF Types, ProducerTypes
  <2>4. ConsumerTypes' /\ HistoryTypes'
    BY DEF Types, ConsumerTypes, HistoryTypes
  <2>5. QED
    BY <2>2, <2>3, <2>4 DEF Types
<1>2. Layout'
  BY DEF Layout, Oldest
<1>3. Stored'
  <2> SUFFICES ASSUME NEW i \in (Len(returned) + 1)..Len(accepted),
                      NEW k \in 0..(accepted[i].total - 1)
               PROVE  payload'[Offset(accepted[i].at + k)] = Byte(accepted[i], k)
    BY DEF Stored
  <2> DEFINE p == accepted[i].at + k
             q == pushing[t].at + written[t]
  <2>1. p \in Nat /\ tail <= p /\ p < head
    <3>1. i \in 1..Len(accepted) /\ accepted[i] \in Positions
      BY DEF Types, HistoryTypes
    <3>2. p \in Nat /\ p < head
      BY <3>1 DEF Layout, End, Positions, Types, RingTypes
    <3>3. Len(returned) + 1 \in 1..Len(accepted) /\ Oldest \in Positions
      BY <3>1 DEF Types, HistoryTypes, Oldest
    <3>4. tail <= accepted[i].at
      <4>1. CASE i = Len(returned) + 1
        BY <4>1, <3>1, <3>3 DEF Layout, Oldest, Positions, Types, HistoryTypes
      <4>2. CASE i > Len(returned) + 1
        <5>1. tail = Oldest.at /\ End(Oldest) <= accepted[i].at
          BY <4>2, <3>1, <3>3 DEF Layout, Oldest
        <5>2. Oldest.at \in Nat /\ Oldest.total \in Nat /\ accepted[i].at \in Nat
          BY <3>1, <3>3 DEF Positions
        <5>3. QED
          BY <5>1, <5>2 DEF End
      <4>3. QED
        BY <4>1, <4>2, <3>1 DEF Types, HistoryTypes
    <3>5. QED
      BY <3>1, <3>2, <3>4 DEF Positions, Types, RingTypes
  <2>0. pushing[t] # NoFrame /\ pushing[t] \in Positions /\ written[t] \in Nat
    BY DEF Types, ProducerTypes, NoFrame
  <2>2. q \in Nat /\ head <= q /\ q < tail + Size
    <3>1. pushing[t].at = head /\ head + pushing[t].total <= tail + Size
      BY <2>0 DEF Writing
    <3>2. /\ head \in Nat /\ tail \in Nat /\ pushing[t].total \in Nat
          /\ written[t] < pushing[t].total
      BY <2>0 DEF Types, RingTypes, Positions
    <3>3. QED
      BY <2>0, <3>1, <3>2, RingAssumption
  <2>3. Offset(p) # Offset(q)
    <3>1. head \in Nat /\ tail \in Nat /\ Size \in Nat
      BY RingAssumption DEF Types, RingTypes
    <3> HIDE DEF p, q
    <3>2. p < q /\ q < p + Size
      BY <2>1, <2>2, <3>1
    <3>3. QED
      BY <2>1, <2>2, <3>2, OffsetsDiffer
  <2>4. Offset(p) \in 0..(Size - 1)
    BY <2>1, OffsetInRing
  <2>5. payload'[Offset(p)] = payload[Offset(p)]
    BY <2>3, <2>4 DEF Types, RingTypes
  <2>6. QED
    BY <2>5 DEF Stored
<1>4. Writing'
  <2> DEFINE q == head + written[t]
  <2>1. /\ pushing[t] # NoFrame /\ pushing[t].at = head
        /\ head + pushing[t].total <= tail + Size
        /\ written[t] \in Nat /\ written[t] + 1 <= pushing[t].total
        /\ written' = [written EXCEPT ![t] = written[t] + 1]
        /\ head \in Nat /\ tail \in Nat /\ pushing[t].total \in Nat
    BY DEF Writing, Types, RingTypes, ProducerTypes, Positions, NoFrame
  <2>2. \A u \in Threads : pushing[u] # NoFrame => u = t
    BY <2>1 DEF Writing
  <2>3. ASSUME NEW k \in 0..written[t]
        PROVE  payload'[Offset(head + k)] = Byte(pushing[t], k)
    <3>1. Offset(head + k) \in 0..(Size - 1) /\ Offset(q) \in 0..(Size - 1)
      BY <2>1, OffsetInRing
    <3>2. CASE k = written[t]
      BY <2>1, <3>1, <3>2 DEF Types, RingTypes
    <3>3. CASE k < written[t]
      <4>1. q < head + k + Size
        BY <2>1, <3>3, Counters, RingAssumption
      <4>2. Offset(head + k) # Offset(q)
        BY <2>1, <3>3, <4>1, OffsetsDiffer
      <4>3. payload'[Offset(head + k)] = payload[Offset(head + k)]
        BY <2>1, <3>1, <4>2 DEF Types, RingTypes
      <4>4. k \in 0..(written[t] - 1)
        BY <2>1, <3>3
      <4>5. payload[Offset(head + k)] = Byte(pushing[t], k)
        BY <2>1, <4>4 DEF Writing
      <4>6. QED
        BY <4>3, <4>5
    <3>4. QED
      BY <2>1, <3>2, <3>3
  <2>4. written'[t] = written[t] + 1 /\ written'[t] - 1 = written[t]
    BY <2>1 DEF Types, ProducerTypes
  <2>5. QED
    BY <2>1, <2>2, <2>3, <2>4 DEF Writing
<1>5. Reading'
  BY DEF Reading, Oldest
<1>6. InOrder'
  BY DEF InOrder
<1>7. NeverRejected'
  BY DEF NeverRejected
<1>8. QED
  BY <1>1, <1>2, <1>3, <1>4, <1>5, <1>6, <1>7

\* The finished frame joins the others at head.
LEMMA PublishInv ==
  ASSUME RingInv, NEW t \in Threads, Publish(t)
  PROVE  RingInv'
<1> USE DEF RingInv, Publish, EndPush, ring, producer, consumer, history
<1>1. Types'
  <2>1. pushing[t] \in Positions /\ NoFrame \in Positions
    BY DEF Types, ProducerTypes, Positions, NoFrame
  <2>2. accepted' \in Seq(Positions) /\ head' \in Nat
    BY <2>1 DEF Types, HistoryTypes, Positions
  <2>3. QED
    BY <2>1, <2>2 DEF Types, RingTypes, ProducerTypes, ConsumerTypes, HistoryTypes
<1>2. Layout'
  <2> DEFINE n == Len(accepted)
  <2>1. /\ pushing[t] \in Positions /\ pushing[t].at = head
        /\ pushing[t].total \in (Prefix + 1)..(FrameMax + Prefix + 1)
        /\ head + pushing[t].total <= tail + Size
        /\ head \in Nat /\ tail \in Nat
    BY DEF Writing, Types, RingTypes, ProducerTypes
  <2>2. /\ n \in Nat /\ Len(accepted') = n + 1 /\ accepted'[n + 1] = pushing[t]
        /\ \A i \in 1..n : accepted'[i] = accepted[i] /\ accepted[i] \in Positions
    BY <2>1 DEF Types, HistoryTypes
  <2>3. Len(returned) \in Nat /\ Len(returned) <= n
    BY DEF Layout, Types, HistoryTypes
  <2>4. tail' = IF Len(returned') < Len(accepted') THEN Oldest'.at ELSE head'
    <3>1. CASE Len(returned) < n
      BY <3>1, <2>2, <2>3 DEF Layout, Oldest
    <3>2. CASE Len(returned) = n
      BY <3>2, <2>1, <2>2, <2>3 DEF Layout, Oldest
    <3>3. QED
      BY <3>1, <3>2, <2>3, <2>2
  <2>5. head' <= tail' + Size
    BY <2>1
  <2>6. ASSUME NEW i \in 1..n
        PROVE  /\ accepted[i].total \in (Prefix + 1)..(FrameMax + Prefix + 1)
               /\ End(accepted[i]) <= head
               /\ i = n => End(accepted[i]) = head
               /\ i < n => End(accepted[i]) = accepted[i + 1].at
               /\ End(accepted[i]) \in Nat
    BY <2>2 DEF Layout, End, Positions
  <2>7. End(pushing[t]) = head' /\ head <= head' /\ head' \in Nat
    BY <2>1, RingAssumption DEF End
  <2>8. ASSUME NEW i \in 1..(n + 1)
        PROVE  /\ accepted'[i].total \in (Prefix + 1)..(FrameMax + Prefix + 1)
               /\ End(accepted'[i]) <= head'
               /\ i = n + 1 => End(accepted'[i]) = head'
               /\ i < n + 1 => End(accepted'[i]) = accepted'[i + 1].at
               /\ \A j \in 1..(n + 1) : i < j => End(accepted'[i]) <= accepted'[j].at
    <3>1. CASE i = n + 1
      BY <3>1, <2>1, <2>2, <2>7
    <3>2. CASE i \in 1..n
      <4>1. End(accepted'[i]) <= head' /\ accepted'[i] = accepted[i]
        BY <3>2, <2>1, <2>2, <2>6, <2>7
      <4>2. End(accepted'[i]) = accepted'[i + 1].at
        <5>1. CASE i = n
          BY <5>1, <2>1, <2>2, <2>6, <3>2
        <5>2. CASE i < n
          BY <5>2, <2>2, <2>6, <3>2
        <5>3. QED
          BY <5>1, <5>2, <3>2, <2>2
      <4>3. ASSUME NEW j \in 1..(n + 1), i < j
            PROVE  End(accepted'[i]) <= accepted'[j].at
        <5>1. CASE j = n + 1
          BY <5>1, <2>1, <2>2, <2>6, <3>2
        <5>2. CASE j \in 1..n
          BY <5>2, <4>3, <2>2, <3>2 DEF Layout
        <5>3. QED
          BY <5>1, <5>2, <2>2
      <4>4. accepted'[i].total \in (Prefix + 1)..(FrameMax + Prefix + 1)
        BY <3>2, <4>1, <2>6
      <4>5. i # n + 1 /\ End(accepted'[i]) <= head'
        BY <3>2, <4>1, <2>2
      <4>6. \A j \in 1..(n + 1) : i < j => End(accepted'[i]) <= accepted'[j].at
        BY <4>3
      <4>7. QED
        BY <4>2, <4>4, <4>5, <4>6, Zenon
    <3>3. QED
      BY <3>1, <3>2, <2>2
  <2>9. Len(returned') <= Len(accepted') /\ Len(accepted') = n + 1
    BY <2>2, <2>3
  <2> HIDE DEF n
  <2>10. QED
    BY <2>4, <2>5, <2>8, <2>9 DEF Layout
<1>3. Stored'
  <2> SUFFICES ASSUME NEW i \in (Len(returned') + 1)..Len(accepted'),
                      NEW k \in 0..(accepted'[i].total - 1)
               PROVE  payload'[Offset(accepted'[i].at + k)] = Byte(accepted'[i], k)
    BY DEF Stored
  <2>1. /\ Len(accepted) \in Nat /\ Len(returned) \in Nat
        /\ Len(accepted') = Len(accepted) + 1
        /\ accepted'[Len(accepted) + 1] = pushing[t]
        /\ \A j \in 1..Len(accepted) : accepted'[j] = accepted[j]
    BY DEF Types, HistoryTypes, ProducerTypes
  <2>2. CASE i = Len(accepted) + 1
    BY <2>1, <2>2 DEF Writing
  <2>3. CASE i \in 1..Len(accepted)
    BY <2>1, <2>3 DEF Stored
  <2>4. QED
    BY <2>1, <2>2, <2>3
<1>4. Writing'
  <2>1. \A u \in Threads : pushing[u] # NoFrame => u = t
    BY DEF Writing
  <2>2. \A u \in Threads : pushing'[u] = NoFrame
    BY <2>1 DEF Types, ProducerTypes
  <2>3. QED
    BY <2>2 DEF Writing
<1>5. Reading'
  <2>1. ASSUME Len(returned) < Len(accepted)
        PROVE  Len(returned') < Len(accepted') /\ Oldest' = Oldest
    BY <2>1 DEF Types, HistoryTypes, ProducerTypes, Oldest
  <2>2. QED
    BY <2>1 DEF Reading
<1>6. InOrder'
  <2>1. \A i \in 1..Len(returned) : accepted'[i] = accepted[i]
    BY DEF Layout, Types, HistoryTypes, ProducerTypes
  <2>2. QED
    BY <2>1 DEF InOrder
<1>7. NeverRejected'
  BY DEF NeverRejected
<1>8. QED
  BY <1>1, <1>2, <1>3, <1>4, <1>5, <1>6, <1>7

LEMMA CoreEndsInv ==
  ASSUME RingInv, CoreEnds
  PROVE  RingInv'
<1> USE DEF RingInv, CoreEnds, ring, producer, consumer, history
<1>1. Types'
  <2>1. NoFrame \in Positions
    BY DEF Positions, NoFrame
  <2>2. ProducerTypes'
    BY <2>1 DEF Types, ProducerTypes
  <2>3. ends' \in Nat
    BY DEF Types, HistoryTypes
  <2>4. QED
    BY <2>2, <2>3 DEF Types, RingTypes, ConsumerTypes, HistoryTypes
<1>2. Layout'
  BY DEF Layout, Oldest
<1>3. Stored'
  BY DEF Stored
<1>4. Writing'
  BY DEF Writing
<1>5. Reading'
  BY DEF Reading, Oldest
<1>6. InOrder'
  BY DEF InOrder
<1>7. NeverRejected'
  BY DEF NeverRejected
<1>8. QED
  BY <1>1, <1>2, <1>3, <1>4, <1>5, <1>6, <1>7

\* A pop that starts sees the whole oldest frame.
LEMMA StartPopInv ==
  ASSUME RingInv, StartPop
  PROVE  RingInv'
<1> USE DEF RingInv, StartPop, ring, producer, consumer, history
<1>1. Types'
  BY DEF Types, RingTypes, ProducerTypes, ConsumerTypes, HistoryTypes
<1>2. Layout'
  BY DEF Layout, Oldest
<1>3. Stored'
  BY DEF Stored
<1>4. Writing'
  BY DEF Writing
<1>5. Reading'
  <2>1. Len(returned) < Len(accepted)
    BY DEF Layout, Types, HistoryTypes
  <2>2. QED
    BY <2>1, OldestFrame, RingAssumption DEF Reading, Oldest, Positions
<1>6. InOrder'
  BY DEF InOrder
<1>7. NeverRejected'
  BY DEF NeverRejected
<1>8. QED
  BY <1>1, <1>2, <1>3, <1>4, <1>5, <1>6, <1>7

\* A byte read is the oldest frame's next.
LEMMA ReadByteInv ==
  ASSUME RingInv, ReadPrefix \/ ReadBody
  PROVE  RingInv'
<1> USE DEF RingInv, ReadByte, ring, producer, consumer, history
<1>1. Types'
  <2>1. tail + Len(got) \in Nat
    BY DEF Types, RingTypes, ConsumerTypes
  <2>2. payload[Offset(tail + Len(got))] \in Bytes
    BY <2>1, OffsetInRing DEF Types, RingTypes
  <2>3. got' \in Seq(Bytes)
    BY <2>2 DEF Types, ConsumerTypes, ReadPrefix, ReadBody
  <2>4. QED
    BY <2>3 DEF Types, RingTypes, ProducerTypes, ConsumerTypes, HistoryTypes,
                ReadPrefix, ReadBody
<1>2. Layout'
  BY DEF Layout, Oldest, ReadPrefix, ReadBody
<1>3. Stored'
  BY DEF Stored, ReadPrefix, ReadBody
<1>4. Writing'
  BY DEF Writing, ReadPrefix, ReadBody
<1>5. Reading'
  <2>1. cpc # "idle" /\ Len(returned) < Len(accepted)
    BY DEF Reading, ReadPrefix, ReadBody
  <2>2. /\ Oldest \in Positions /\ Oldest.at = tail
        /\ Oldest.total \in (Prefix + 1)..(FrameMax + Prefix + 1)
    BY <2>1, OldestFrame
  <2>3. Len(got) \in Nat /\ Len(got) < Oldest.total
    <3>1. CASE ReadPrefix
      BY <3>1, <2>2, RingAssumption DEF ReadPrefix, Types, ConsumerTypes
    <3>2. CASE ReadBody
      BY <3>2, <2>1, PrefixRead DEF ReadBody, Reading, Types, ConsumerTypes
    <3>3. QED
      BY <3>1, <3>2
  <2>4. payload[Offset(tail + Len(got))] = Byte(Oldest, Len(got))
    BY <2>1, <2>2, <2>3 DEF Stored, Oldest, Types, HistoryTypes
  <2>5. /\ Len(got') = Len(got) + 1 /\ got'[Len(got) + 1] = Byte(Oldest, Len(got))
        /\ \A i \in 1..Len(got) : got'[i] = got[i]
    BY <2>4 DEF Types, ConsumerTypes, ReadPrefix, ReadBody
  <2>6. \A i \in 1..Len(got') : got'[i] = Byte(Oldest, i - 1)
    BY <2>1, <2>3, <2>5 DEF Reading
  <2>7. /\ UNCHANGED <<accepted, returned, cpc, seen>> /\ Oldest' = Oldest
        /\ cpc = "prefix" => Len(got) < Prefix
        /\ cpc = "body" => Len(got) >= Prefix
    BY DEF Reading, Oldest, ReadPrefix, ReadBody
  <2>8. End(Oldest) <= seen
    BY <2>1 DEF Reading
  <2>9. Prefix \in Nat
    BY RingAssumption
  <2> HIDE DEF RingInv, ReadByte
  <2>10. QED
    BY <2>1, <2>2, <2>3, <2>5, <2>6, <2>7, <2>8, <2>9 DEF Reading, End, Positions
<1>6. InOrder'
  BY DEF InOrder, ReadPrefix, ReadBody
<1>7. NeverRejected'
  BY DEF NeverRejected, ReadPrefix, ReadBody
<1>8. QED
  BY <1>1, <1>2, <1>3, <1>4, <1>5, <1>6, <1>7

\* The sanity tests pass.
LEMMA CheckPrefixInv ==
  ASSUME RingInv, CheckPrefix
  PROVE  RingInv'
<1> USE DEF RingInv, CheckPrefix, ring, producer, consumer, history
<1>1. Types'
  BY DEF Types, RingTypes, ProducerTypes, ConsumerTypes, HistoryTypes
<1>2. Layout'
  BY DEF Layout, Oldest
<1>3. Stored'
  BY DEF Stored
<1>4. Writing'
  BY DEF Writing
<1>5. Reading'
  BY RingAssumption DEF Reading, Oldest
<1>6. InOrder'
  BY DEF InOrder
<1>7. NeverRejected'
  <2>1. cpc # "idle" /\ Len(returned) < Len(accepted) /\ Len(got) >= Prefix
    BY RingAssumption DEF Reading
  <2>2. TotalRead = Oldest.total
    BY <2>1, PrefixRead
  <2>3. /\ Prefix + 1 <= TotalRead /\ TotalRead <= FrameMax + Prefix + 1
        /\ TotalRead <= seen - tail
    BY <2>1, <2>2, OldestFrame, RingAssumption
       DEF Reading, End, Positions, Types, RingTypes, ConsumerTypes
  <2>4. QED
    BY <2>3 DEF NeverRejected
<1>8. QED
  BY <1>1, <1>2, <1>3, <1>4, <1>5, <1>6, <1>7

\* The oldest frame leaves, whole.
LEMMA FinishPopInv ==
  ASSUME RingInv, FinishPop
  PROVE  RingInv'
<1> USE DEF RingInv, FinishPop, EndPop, ring, producer, consumer, history
<1>1. Types'
  <2>1. cpc # "idle" /\ Len(returned) < Len(accepted) /\ Len(got) >= Prefix
    BY DEF Reading
  <2>2. TotalRead \in Nat
    BY <2>1, PrefixRead, OldestFrame DEF Positions
  <2>3. returned' \in Seq(Seq(Bytes)) /\ tail' \in Nat
    BY <2>2 DEF Types, RingTypes, HistoryTypes, ConsumerTypes
  <2>4. QED
    BY <2>3 DEF Types, RingTypes, ProducerTypes, ConsumerTypes, HistoryTypes
<1>2. Layout'
  <2> DEFINE n == Len(returned)
  <2>1. cpc # "idle" /\ n < Len(accepted) /\ Len(got) >= Prefix
    BY DEF Reading
  <2>2. tail' = End(Oldest) /\ tail' \in Nat /\ tail <= tail'
    BY <2>1, PrefixRead, OldestFrame DEF End, Positions, Types, RingTypes
  <2>3. n \in Nat /\ Len(returned') = n + 1 /\ n + 1 \in 1..Len(accepted)
    BY <2>1 DEF Types, HistoryTypes, ConsumerTypes
  <2>4. tail' = IF n + 1 < Len(accepted) THEN accepted[n + 2].at ELSE head
    <3>1. CASE n + 1 < Len(accepted)
      BY <3>1, <2>2, <2>3 DEF Layout, Oldest
    <3>2. CASE n + 1 = Len(accepted)
      BY <3>2, <2>2, <2>3 DEF Layout, Oldest
    <3>3. QED
      BY <3>1, <3>2, <2>3 DEF Types, HistoryTypes
  <2>5. tail' = IF Len(returned') < Len(accepted') THEN Oldest'.at ELSE head'
    BY <2>3, <2>4 DEF Oldest
  <2>6. head' <= tail' + Size
    BY <2>2, RingAssumption DEF Layout, Types, RingTypes
  <2>7. Len(returned') <= Len(accepted')
    BY <2>3
  <2>8. QED
    BY <2>5, <2>6, <2>7 DEF Layout
<1>3. Stored'
  <2>1. Len(returned') = Len(returned) + 1
    BY DEF Types, HistoryTypes, ConsumerTypes
  <2>2. QED
    BY <2>1 DEF Stored, Types, HistoryTypes
<1>4. Writing'
  <2>1. cpc # "idle" /\ Len(returned) < Len(accepted) /\ Len(got) >= Prefix
    BY DEF Reading
  <2>2. tail \in Nat /\ tail' \in Nat /\ tail <= tail'
    BY <2>1, PrefixRead, OldestFrame DEF Positions, Types, RingTypes
  <2>3. \A t \in Threads : head + pushing[t].total <= tail + Size
                              => head' + pushing'[t].total <= tail' + Size
    BY <2>2, RingAssumption DEF Types, RingTypes, ProducerTypes, Positions
  <2>4. QED
    BY <2>3 DEF Writing
<1>5. Reading'
  BY DEF Reading, Oldest
<1>6. InOrder'
  <2> DEFINE n == Len(returned)
  <2>1. cpc # "idle" /\ n < Len(accepted) /\ Len(got) >= Prefix
    BY DEF Reading
  <2>2. TotalRead = Oldest.total /\ Oldest \in Positions
    BY <2>1, PrefixRead, OldestFrame
  <2>3. got[1] = Byte(Oldest, 0)
    BY <2>1, RingAssumption DEF Reading, Types, ConsumerTypes
  <2>4. got[1].push = Oldest.push /\ got[1].total = Oldest.total
    BY <2>3 DEF Byte
  <2>5. \A i \in 1..Len(got) : got[i] = Byte(got[1], i - 1)
    BY <2>1, <2>4 DEF Reading, Byte
  <2>6. FrameRead(got) = Name(Oldest)
    BY <2>2, <2>4, <2>5 DEF FrameRead, Name
  <2>7. /\ n \in Nat /\ Len(returned') = n + 1 /\ returned'[n + 1] = got
        /\ \A i \in 1..n : returned'[i] = returned[i]
    BY DEF Types, HistoryTypes, ConsumerTypes
  <2>8. ASSUME NEW i \in 1..(n + 1)
        PROVE  FrameRead(returned'[i]) = Name(accepted[i])
    <3>1. CASE i = n + 1
      BY <3>1, <2>6, <2>7 DEF Oldest
    <3>2. CASE i \in 1..n
      BY <3>2, <2>7 DEF InOrder
    <3>3. QED
      BY <3>1, <3>2, <2>7
  <2>9. QED
    BY <2>7, <2>8 DEF InOrder
<1>7. NeverRejected'
  BY DEF NeverRejected
<1>8. QED
  BY <1>1, <1>2, <1>3, <1>4, <1>5, <1>6, <1>7

\* Mapping and unmapping the pool, the spoke's end, and stuttering.
LEMMA OtherInv ==
  ASSUME RingInv, Detach \/ Attach \/ SpokeEnds \/ UNCHANGED vars
  PROVE  RingInv'
<1> USE DEF RingInv, Detach, Attach, SpokeEnds, vars, ring, producer, consumer, history
<1>1. Types'
  <2>1. RingTypes' /\ ProducerTypes'
    BY DEF Types, RingTypes, ProducerTypes
  <2>2. ConsumerTypes'
    BY DEF Types, ConsumerTypes
  <2>3. HistoryTypes'
    BY DEF Types, HistoryTypes
  <2>4. QED
    BY <2>1, <2>2, <2>3 DEF Types
<1>2. Layout'
  BY DEF Layout, Oldest
<1>3. Stored'
  BY DEF Stored
<1>4. Writing'
  BY DEF Writing
<1>5. Reading'
  BY DEF Reading, Oldest
<1>6. InOrder'
  BY DEF InOrder
<1>7. NeverRejected'
  BY DEF NeverRejected
<1>8. QED
  BY <1>1, <1>2, <1>3, <1>4, <1>5, <1>6, <1>7

LEMMA NextInv == RingInv /\ [Next]_vars => RingInv'
<1> SUFFICES ASSUME RingInv, [Next]_vars PROVE RingInv'
  OBVIOUS
<1>1. CASE PushSteps
  BY <1>1, StartPushInv, WriteByteInv, PublishInv DEF PushSteps
<1>2. CASE PopSteps
  BY <1>2, StartPopInv, ReadByteInv, CheckPrefixInv, FinishPopInv DEF PopSteps
<1>3. CASE CoreEnds
  BY <1>3, CoreEndsInv
<1>4. QED
  BY <1>1, <1>2, <1>3, OtherInv DEF Next

LEMMA RingInvariant == Spec => []RingInv
BY InitInv, NextInv, PTL DEF Spec

\* Every reachable state is well typed, and neither counter overtakes the other.
THEOREM RingTypeCorrect == Spec => []TypeOK
<1>1. RingInv => TypeOK
  BY Counters DEF RingInv, Types, TypeOK
<1>2. QED
  BY <1>1, RingInvariant, PTL

\* A pop that finds frames returns one, whatever the interleaving, the wrap and
\* the ends of either process.
THEOREM PopNeverSticks == Spec => []NeverRejected
<1>1. RingInv => NeverRejected
  BY DEF RingInv
<1>2. QED
  BY <1>1, RingInvariant, PTL

-------------------------------------------------------------------------------
(* The ring implements FrameQueue.                                         *)

Names == [push : Nat, total : Nat]

\* The queue's accepted and returned, as IsFrameQueue maps them.
NamesOf(frames) ==
  [i \in DOMAIN frames |-> [push |-> frames[i].push, total |-> frames[i].total]]

ReadsOf(pops) == [i \in DOMAIN pops |-> FrameRead(pops[i])]

LEMMA LongerByOne ==
  ASSUME NEW S, NEW a \in Seq(S), NEW b \in Seq(S), Len(b) = Len(a) + 1,
         \A i \in 1..Len(a) : b[i] = a[i]
  PROVE  b = Append(a, b[Len(a) + 1])
OBVIOUS

LEMMA NamesTyped ==
  ASSUME NEW frames \in Seq(Positions)
  PROVE  /\ NamesOf(frames) \in Seq(Names) /\ Len(NamesOf(frames)) = Len(frames)
         /\ \A i \in 1..Len(frames) :
              NamesOf(frames)[i] = Name(frames[i]) /\ Name(frames[i]) \in Names
<1>1. /\ DOMAIN frames = 1..Len(frames) /\ Len(frames) \in Nat
      /\ \A i \in 1..Len(frames) : frames[i] \in Positions
  OBVIOUS
<1>2. ASSUME NEW i \in 1..Len(frames)
      PROVE  NamesOf(frames)[i] = Name(frames[i]) /\ Name(frames[i]) \in Names
  <2>1. frames[i] \in Positions
    BY <1>1
  <2>2. Name(frames[i]) \in Names
    BY <2>1 DEF Name, Names, Positions
  <2>3. QED
    BY <1>1, <2>2 DEF NamesOf, Name
<1>3. NamesOf(frames) = [i \in 1..Len(frames) |-> Name(frames[i])]
  BY <1>1 DEF NamesOf, Name
<1>4. NamesOf(frames) \in Seq(Names) /\ Len(NamesOf(frames)) = Len(frames)
  BY <1>1, <1>2, <1>3
<1>5. QED
  BY <1>2, <1>4

LEMMA ReadsTyped ==
  ASSUME NEW pops, NEW frames \in Seq(Positions), pops \in Seq(Seq(Bytes)),
         Len(pops) <= Len(frames),
         \A i \in 1..Len(pops) : FrameRead(pops[i]) = Name(frames[i])
  PROVE  /\ ReadsOf(pops) \in Seq(Names) /\ Len(ReadsOf(pops)) = Len(pops)
         /\ \A i \in 1..Len(pops) : ReadsOf(pops)[i] = Name(frames[i])
<1>1. DOMAIN pops = 1..Len(pops) /\ Len(pops) \in Nat /\ Len(frames) \in Nat
  OBVIOUS
<1>2. \A i \in 1..Len(pops) : FrameRead(pops[i]) \in Names
  <2>1. \A i \in 1..Len(frames) : Name(frames[i]) \in Names
    BY NamesTyped
  <2>2. QED
    BY <1>1, <2>1
<1>3. ReadsOf(pops) = [i \in 1..Len(pops) |-> FrameRead(pops[i])]
  BY <1>1 DEF ReadsOf
<1>4. ReadsOf(pops) \in Seq(Names) /\ Len(ReadsOf(pops)) = Len(pops)
  BY <1>1, <1>2, <1>3
<1>5. QED
  BY <1>3, <1>4

LEMMA PublishIsPush ==
  ASSUME RingInv, RingInv', NEW t \in Threads, Publish(t)
  PROVE  Queue!Push
<1> DEFINE n == Len(accepted)
           a == NamesOf(accepted)
           b == NamesOf(accepted')
<1>1. accepted \in Seq(Positions) /\ accepted' \in Seq(Positions)
  BY DEF RingInv, Types, HistoryTypes
<1>2. /\ n \in Nat /\ Len(accepted') = n + 1 /\ returned' = returned
      /\ \A i \in 1..n : accepted'[i] = accepted[i]
  BY DEF RingInv, Types, HistoryTypes, ProducerTypes, Publish, EndPush
<1>3. a \in Seq(Names) /\ Len(a) = n /\ \A i \in 1..n : a[i] = Name(accepted[i])
  BY <1>1, NamesTyped
<1>4. /\ b \in Seq(Names) /\ Len(b) = n + 1
      /\ \A i \in 1..(n + 1) : b[i] = Name(accepted'[i]) /\ b[i] \in Names
  BY <1>1, <1>2, NamesTyped
<1>5. \A i \in 1..n : b[i] = a[i]
  BY <1>2, <1>3, <1>4
<1> HIDE DEF a, b
<1>6. b = Append(a, b[Len(a) + 1]) /\ b[Len(a) + 1] \in Names
  BY <1>2, <1>3, <1>4, <1>5, LongerByOne
<1>7. ReadsOf(returned') = ReadsOf(returned)
  BY <1>2
<1>8. QED
  BY <1>2, <1>3, <1>4, <1>6, <1>7 DEF Queue!Push, a, b, NamesOf, ReadsOf, Names

LEMMA FinishIsPop ==
  ASSUME RingInv, RingInv', FinishPop
  PROVE  Queue!Pop
<1> DEFINE n == Len(returned)
           a == NamesOf(accepted)
           r == ReadsOf(returned)
           q == ReadsOf(returned')
<1>1. /\ accepted \in Seq(Positions) /\ accepted' = accepted
      /\ returned \in Seq(Seq(Bytes)) /\ returned' \in Seq(Seq(Bytes))
      /\ Len(returned') <= Len(accepted) /\ n \in Nat /\ Len(returned') = n + 1
  <2>1. /\ accepted \in Seq(Positions) /\ returned \in Seq(Seq(Bytes))
        /\ returned' \in Seq(Seq(Bytes)) /\ n \in Nat
    BY DEF RingInv, Types, HistoryTypes
  <2>2. accepted' = accepted /\ Len(returned') = n + 1
    BY <2>1 DEF FinishPop, EndPop, RingInv, Types, ConsumerTypes
  <2>3. Len(returned') <= Len(accepted')
    BY DEF RingInv, Layout
  <2>4. QED
    BY <2>1, <2>2, <2>3
<1>2. /\ \A i \in 1..n : FrameRead(returned[i]) = Name(accepted[i])
      /\ \A i \in 1..(n + 1) : FrameRead(returned'[i]) = Name(accepted[i])
  BY <1>1 DEF RingInv, InOrder
<1>3. /\ a \in Seq(Names) /\ Len(a) = Len(accepted)
      /\ \A i \in 1..Len(accepted) : a[i] = Name(accepted[i])
  BY <1>1, NamesTyped
<1>4. r \in Seq(Names) /\ Len(r) = n /\ \A i \in 1..n : r[i] = Name(accepted[i])
  <2>1. n <= Len(accepted) /\ Len(accepted) \in Nat
    BY <1>1
  <2>2. QED
    BY <2>1, <1>1, <1>2, ReadsTyped
<1>5. /\ q \in Seq(Names) /\ Len(q) = n + 1
      /\ \A i \in 1..(n + 1) : q[i] = Name(accepted[i])
  BY <1>1, <1>2, ReadsTyped
<1>6. n + 1 \in 1..Len(accepted)
  BY <1>1
<1> HIDE DEF a, r, q
<1>7. q = Append(r, q[Len(r) + 1])
  BY <1>1, <1>4, <1>5, LongerByOne
<1>8. q[Len(r) + 1] = a[Len(r) + 1]
  BY <1>1, <1>3, <1>4, <1>5, <1>6
<1>9. NamesOf(accepted') = NamesOf(accepted)
  BY <1>1
<1>10. Len(r) < Len(a)
  BY <1>1, <1>3, <1>4
<1>11. QED
  BY <1>7, <1>8, <1>9, <1>10 DEF Queue!Pop, a, r, q, NamesOf, ReadsOf

QueueVars == <<NamesOf(accepted), ReadsOf(returned)>>

LEMMA StepsOfQueue ==
  ASSUME RingInv, RingInv', [Next]_vars
  PROVE  Queue!Push \/ Queue!Pop \/ UNCHANGED QueueVars
<1>1. ASSUME UNCHANGED <<accepted, returned>>
      PROVE  UNCHANGED QueueVars
  BY <1>1 DEF QueueVars
<1>2. CASE UNCHANGED vars
  BY <1>1, <1>2 DEF vars, history
<1>3. CASE PushSteps
  <2>1. ASSUME NEW t \in Threads, NEW len \in 0..FrameMax, StartPush(t, len)
        PROVE  UNCHANGED <<accepted, returned>>
    BY <2>1 DEF StartPush, Begin, history
  <2>2. ASSUME NEW t \in Threads, WriteByte(t)
        PROVE  UNCHANGED <<accepted, returned>>
    BY <2>2 DEF WriteByte, history
  <2>3. QED
    BY <1>1, <1>3, <2>1, <2>2, PublishIsPush DEF PushSteps
<1>4. CASE PopSteps
  <2>1. ASSUME StartPop \/ ReadPrefix \/ CheckPrefix \/ ReadBody
        PROVE  UNCHANGED <<accepted, returned>>
    BY <2>1 DEF StartPop, ReadPrefix, CheckPrefix, ReadBody, ReadByte, history
  <2>2. QED
    BY <1>1, <1>4, <2>1, FinishIsPop DEF PopSteps
<1>5. CASE Detach \/ Attach \/ CoreEnds \/ SpokeEnds
  BY <1>1, <1>5 DEF Detach, Attach, CoreEnds, SpokeEnds, history
<1>6. QED
  BY <1>2, <1>3, <1>4, <1>5 DEF Next

\* The ring is a queue of whole frames: each frame published is popped once,
\* whole and in order, however pushes and pops interleave and processes end.
THEOREM RingIsFrameQueue == Spec => IsFrameQueue
<1>1. Init => Queue!Init
  BY DEF Init, Queue!Init
<1>2. RingInv /\ RingInv' /\ [Next]_vars
        => [Queue!Push \/ Queue!Pop]_<<
             [i \in DOMAIN accepted |->
                [push |-> accepted[i].push, total |-> accepted[i].total]],
             [i \in DOMAIN returned |-> FrameRead(returned[i])]>>
  BY StepsOfQueue DEF QueueVars, NamesOf, ReadsOf
<1>3. QED
  BY <1>1, <1>2, RingInvariant, PTL DEF Spec, IsFrameQueue, Queue!Spec
===============================================================================
