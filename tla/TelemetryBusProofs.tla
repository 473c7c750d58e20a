-------------------------- MODULE TelemetryBusProofs --------------------------
(* Theorems about TelemetryBus, for any threads, any limit of the queue and any *)
(* number of entries.                                                      *)
EXTENDS TelemetryBus, TLAPS

\* The entries in the queue are the last ones queued.
QueueIsLast ==
  /\ Len(queue) <= queued
  /\ \A i \in 1..Len(queue) : queue[i] = queued - Len(queue) + i

\* What was taken from the queue is older than what is in it.
Older ==
  /\ \A i \in 1..Len(batch) : batch[i] + Len(queue) <= queued
  /\ \A i \in 1..Len(rows) : rows[i] + Len(queue) <= queued
  /\ \A i \in 1..Len(rows), j \in 1..Len(batch) : rows[i] < batch[j]
  /\ Ascending(rows) /\ Ascending(batch)

\* The flag is raised when nobody emits, the batch is the writer's own, and it
\* returns with nothing left.
Closing ==
  /\ stop => dpc \in {"raised", "joining", "gone"}
  /\ wpc # "storing" => batch = <<>>
  /\ wpc = "returned" => stop /\ queue = <<>>
  /\ dpc = "gone" => wpc \in {"none", "returned"}

SinkHeld == showing \subseteq held /\ NoSinkNoCall

BusInv ==
  TypeOK /\ QueueIsLast /\ Older /\ Closing /\ SinkHeld /\ NothingVanishes
    /\ DropsOldestOnly

-------------------------------------------------------------------------------
(* Sequences.                                                              *)

LEMMA MembersAppend ==
  ASSUME NEW S, NEW s \in Seq(S), NEW x \in S
  PROVE  Members(Append(s, x)) = Members(s) \cup {x}
BY DEF Members

LEMMA MembersHeadTail ==
  ASSUME NEW S, NEW s \in Seq(S), s # <<>>
  PROVE  Members(s) = {Head(s)} \cup Members(Tail(s)) /\ Head(s) \in S
<1> DEFINE n == Len(s)
<1>1. /\ n \in Nat /\ n > 0 /\ Head(s) = s[1] /\ Tail(s) \in Seq(S)
      /\ Len(Tail(s)) = n - 1 /\ \A i \in 1..(n - 1) : Tail(s)[i] = s[i + 1]
  OBVIOUS
<1> HIDE DEF n
<1>2. ASSUME NEW x \in Members(s) PROVE x \in {Head(s)} \cup Members(Tail(s))
  <2>1. PICK i \in 1..n : x = s[i]
    BY DEF Members, n
  <2>2. CASE i = 1
    BY <1>1, <2>1, <2>2
  <2>3. CASE i # 1
    <3>1. i - 1 \in 1..(n - 1) /\ Tail(s)[i - 1] = s[i]
      BY <1>1, <2>1, <2>3
    <3>2. QED
      BY <1>1, <2>1, <3>1 DEF Members
  <2>4. QED
    BY <2>2, <2>3
<1>3. ASSUME NEW x \in {Head(s)} \cup Members(Tail(s)) PROVE x \in Members(s)
  <2>1. CASE x = Head(s)
    BY <1>1, <2>1 DEF Members, n
  <2>2. CASE x \in Members(Tail(s))
    <3>1. PICK i \in 1..(n - 1) : x = Tail(s)[i]
      BY <1>1, <2>2 DEF Members
    <3>2. i + 1 \in 1..n /\ x = s[i + 1]
      BY <1>1, <3>1
    <3>3. QED
      BY <3>2 DEF Members, n
  <2>3. QED
    BY <1>3, <2>1, <2>2
<1>4. QED
  BY <1>1, <1>2, <1>3

LEMMA AscendingJoin ==
  ASSUME NEW s \in Seq(Nat), NEW u \in Seq(Nat), Ascending(s), Ascending(u),
         \A i \in 1..Len(s), j \in 1..Len(u) : s[i] < u[j]
  PROVE  Ascending(s \o u)
<1> DEFINE m == Len(s)
           n == Len(u)
           c == s \o u
<1>1. /\ m \in Nat /\ n \in Nat /\ Len(c) = m + n
      /\ \A i \in 1..m : c[i] = s[i]
      /\ \A i \in (m + 1)..(m + n) : c[i] = u[i - m] /\ i - m \in 1..n
  OBVIOUS
<1>0. /\ \A i, j \in 1..m : i < j => s[i] < s[j]
      /\ \A i, j \in 1..n : i < j => u[i] < u[j]
      /\ \A i \in 1..m, j \in 1..n : s[i] < u[j]
  BY DEF Ascending
<1> HIDE DEF m, n, c
<1>2. ASSUME NEW i \in 1..(m + n), NEW j \in 1..(m + n), i < j
      PROVE  c[i] < c[j]
  <2>1. CASE j <= m
    <3>1. i \in 1..m /\ j \in 1..m
      BY <1>1, <1>2, <2>1
    <3>2. QED
      BY <1>0, <1>1, <1>2, <3>1
  <2>2. CASE i <= m /\ m < j
    <3>1. i \in 1..m /\ j \in (m + 1)..(m + n)
      BY <1>1, <1>2, <2>2
    <3>2. QED
      BY <1>0, <1>1, <3>1
  <2>3. CASE m < i
    <3>1. i - m \in 1..n /\ j - m \in 1..n /\ i - m < j - m
      BY <1>1, <1>2, <2>3
    <3>2. u[i - m] < u[j - m]
      BY <1>0, <3>1
    <3>3. i \in (m + 1)..(m + n) /\ j \in (m + 1)..(m + n)
      BY <1>1, <1>2, <2>3
    <3>4. QED
      BY <1>1, <3>2, <3>3
  <2>4. QED
    BY <1>1, <1>2, <2>1, <2>2, <2>3
<1>3. QED
  BY <1>1, <1>2 DEF Ascending, c

\* What the limit leaves of a queue of last entries, and what it drops.
LEMMA Dropping ==
  ASSUME BusInv
  PROVE  LET kept == DropOldest(queue)
             gone == {queue[i] : i \in 1..(Len(queue) - Len(kept))}
         IN  /\ kept \in Seq(Nat) /\ Len(kept) < Capacity /\ Len(kept) <= Len(queue)
             /\ \A i \in 1..Len(kept) : kept[i] = queued - Len(kept) + i
             /\ \A n \in gone : n \in Nat /\ n + Capacity = queued + 1
             /\ Members(queue) = Members(kept) \cup gone
<1> DEFINE kept == DropOldest(queue)
           gone == {queue[i] : i \in 1..(Len(queue) - Len(kept))}
           n == Len(queue)
<1>1. queue \in Seq(Nat) /\ n \in Nat /\ n <= Capacity /\ queued \in Nat
      /\ Capacity \in Nat \ {0}
  BY BusAssumption DEF BusInv, TypeOK
<1>2. \A i \in 1..n : queue[i] = queued - n + i
  BY DEF BusInv, QueueIsLast
<1>3. CASE n < Capacity
  <2>1. kept = queue
    BY <1>1, <1>3 DEF DropOldest
  <2>2. gone = {}
    BY <1>1, <2>1
  <2>3. QED
    BY <1>1, <1>2, <1>3, <2>1, <2>2
<1>4. CASE n = Capacity
  <2>1. kept = Tail(queue) /\ queue # <<>>
    BY <1>1, <1>4 DEF DropOldest
  <2>2. /\ kept \in Seq(Nat) /\ Len(kept) = n - 1
        /\ \A i \in 1..(n - 1) : kept[i] = queue[i + 1] /\ i + 1 \in 1..n
    BY <1>1, <2>1
  <2>3. \A i \in 1..Len(kept) : kept[i] = queued - Len(kept) + i
    BY <1>1, <1>2, <2>2
  <2>4. gone = {Head(queue)} /\ Head(queue) = queue[1] /\ 1 \in 1..n
    BY <1>1, <1>4, <2>2, <2>1
  <2>5. queue[1] + Capacity = queued + 1 /\ queue[1] \in Nat
    BY <1>1, <1>2, <1>4, <2>4
  <2>6. Members(queue) = Members(kept) \cup gone
    BY <1>1, <2>1, <2>4, MembersHeadTail
  <2>7. QED
    BY <1>1, <1>4, <2>2, <2>3, <2>4, <2>5, <2>6
<1>5. QED
  BY <1>1, <1>3, <1>4

-------------------------------------------------------------------------------
(* Every step preserves the invariant.                                     *)

LEMMA InitInv == Init => BusInv
<1> SUFFICES ASSUME Init PROVE BusInv
  OBVIOUS
<1>1. TypeOK
  <2>1. <<>> \in Seq(Nat) /\ Len(<<>>) = 0
    OBVIOUS
  <2>2. /\ queue = <<>> /\ batch = <<>> /\ rows = <<>> /\ Len(queue) <= Capacity
        /\ epc \in [Threads -> {"idle", "log", "event", "show", "shown"}]
    BY <2>1, BusAssumption DEF Init
  <2>3. QED
    BY <2>1, <2>2 DEF Init, TypeOK
<1>2. QueueIsLast /\ Older /\ Closing /\ SinkHeld /\ NothingVanishes /\ DropsOldestOnly
  BY DEF Init, QueueIsLast, Older, Closing, SinkHeld, NoSinkNoCall, NothingVanishes,
         DropsOldestOnly, Members, Ascending
<1>3. QED
  BY <1>1, <1>2 DEF BusInv

\* An entry joins the queue, for the oldest if it is full.
LEMMA PersistInv ==
  ASSUME BusInv, NEW t \in Threads, NEW then \in {"log", "event"}, Persist(t, then)
  PROVE  BusInv'
<1> DEFINE kept == DropOldest(queue)
           gone == {queue[i] : i \in 1..(Len(queue) - Len(kept))}
           k == Len(kept)
<1>1. /\ queued' = queued + 1 /\ queue' = Append(kept, queued + 1)
      /\ dropped' = dropped \cup gone
      /\ epc' = [epc EXCEPT ![t] = then]
      /\ UNCHANGED <<stop, mutex, wpc, batch, rows, failed, showing, held, sink, dpc>>
  BY DEF Persist, writer
<1>2. /\ kept \in Seq(Nat) /\ k < Capacity /\ k <= Len(queue)
      /\ \A i \in 1..k : kept[i] = queued - k + i
      /\ \A n \in gone : n \in Nat /\ n + Capacity = queued + 1
      /\ Members(queue) = Members(kept) \cup gone
  BY Dropping
<1>3. queued \in Nat /\ k \in Nat /\ Len(queue) \in Nat /\ Capacity \in Nat
      /\ Len(queue) <= queued
  BY <1>2, BusAssumption DEF BusInv, TypeOK, QueueIsLast
<1> HIDE DEF kept, gone, k
<1>4. /\ queue' \in Seq(Nat) /\ Len(queue') = k + 1 /\ queue'[k + 1] = queued + 1
      /\ \A i \in 1..k : queue'[i] = kept[i]
  BY <1>1, <1>2, <1>3 DEF k
<1>5. TypeOK'
  <2>1. epc' \in [Threads -> {"idle", "log", "event", "show", "shown"}]
    BY <1>1 DEF BusInv, TypeOK
  <2>2. dropped' \subseteq Nat /\ queued' \in Nat /\ Len(queue') <= Capacity
    <3>1. dropped \subseteq Nat /\ \A n \in gone : n \in Nat
      BY <1>2 DEF BusInv, TypeOK
    <3>2. queued' \in Nat /\ Len(queue') <= Capacity
      BY <1>1, <1>2, <1>3, <1>4
    <3>3. QED
      BY <1>1, <3>1, <3>2
  <2>3. QED
    BY <1>1, <1>4, <2>1, <2>2 DEF BusInv, TypeOK
<1>6. QueueIsLast'
  <2>1. k + 1 <= queued + 1
    BY <1>2, <1>3
  <2>2. ASSUME NEW i \in 1..(k + 1) PROVE queue'[i] = (queued + 1) - (k + 1) + i
    <3>1. CASE i = k + 1
      BY <1>3, <1>4, <3>1
    <3>2. CASE i \in 1..k
      BY <1>2, <1>3, <1>4, <3>2
    <3>3. QED
      BY <1>3, <3>1, <3>2
  <2>3. QED
    BY <1>1, <1>4, <2>1, <2>2 DEF QueueIsLast
<1>7. Older'
  <2>1. Ascending(rows)' /\ Ascending(batch)'
    BY <1>1 DEF BusInv, Older, Ascending
  <2>2. \A i \in 1..Len(batch) : batch[i] \in Nat
    BY DEF BusInv, TypeOK
  <2>3. \A i \in 1..Len(rows) : rows[i] \in Nat
    BY DEF BusInv, TypeOK
  <2>4. QED
    BY <1>1, <1>2, <1>3, <1>4, <2>1, <2>2, <2>3 DEF BusInv, Older
<1>8. Closing'
  <2>1. dpc \in {"alive", "closing"}
    BY DEF Persist, MayEmit
  <2>2. QED
    BY <1>1, <2>1 DEF BusInv, Closing
<1>9. SinkHeld'
  BY <1>1 DEF BusInv, SinkHeld, NoSinkNoCall
<1>10. NothingVanishes'
  <2>1. Members(queue') = Members(kept) \cup {queued + 1}
    BY <1>1, <1>2, <1>3, MembersAppend
  <2>2. 1..queued' = 1..queued \cup {queued + 1}
    BY <1>1, <1>3
  <2>3. 1..queued = Members(rows) \cup failed \cup dropped \cup Members(batch)
                      \cup Members(queue)
    BY DEF BusInv, NothingVanishes
  <2>4. Members(rows)' = Members(rows) /\ Members(batch)' = Members(batch)
    BY <1>1 DEF Members
  <2>5. QED
    BY <1>1, <1>2, <2>1, <2>2, <2>3, <2>4 DEF NothingVanishes
<1>11. DropsOldestOnly'
  <2>1. \A n \in dropped : n \in Nat /\ n + Capacity <= queued
    BY DEF BusInv, TypeOK, DropsOldestOnly
  <2>2. QED
    BY <1>1, <1>2, <1>3, <2>1 DEF DropsOldestOnly
<1>12. QED
  BY <1>5, <1>6, <1>7, <1>8, <1>9, <1>10, <1>11 DEF BusInv

\* The whole queue becomes the batch.
LEMMA WriterSwapsInv ==
  ASSUME BusInv, WriterSwaps
  PROVE  BusInv'
<1>1. /\ batch' = queue /\ queue' = <<>> /\ mutex' = FALSE /\ wpc' = "storing"
      /\ wpc = "awake"
      /\ UNCHANGED <<stop, rows, failed, epc, showing, held, queued, dropped, sink, dpc>>
  BY DEF WriterSwaps, emitters
<1>2. /\ queue \in Seq(Nat) /\ batch = <<>> /\ rows \in Seq(Nat)
      /\ queued \in Nat /\ Len(queue) \in Nat /\ Len(queue) <= queued
      /\ <<>> \in Seq(Nat) /\ Len(<<>>) = 0
  BY <1>1 DEF BusInv, TypeOK, Closing, QueueIsLast
<1>3. TypeOK'
  <2>1. queue' \in Seq(Nat) /\ batch' \in Seq(Nat) /\ Len(queue') <= Capacity
    BY <1>1, <1>2, BusAssumption
  <2>2. QED
    BY <1>1, <2>1 DEF BusInv, TypeOK
<1>4. QueueIsLast'
  BY <1>1, <1>2 DEF QueueIsLast
<1>5. Older'
  <2>1. \A i \in 1..Len(queue) : queue[i] = queued - Len(queue) + i
    BY DEF BusInv, QueueIsLast
  <2>2. \A i \in 1..Len(rows) : rows[i] + Len(queue) <= queued /\ rows[i] \in Nat
    BY <1>2 DEF BusInv, Older
  <2>3. Ascending(queue) /\ \A i \in 1..Len(queue) : queue[i] <= queued
    BY <1>2, <2>1 DEF Ascending
  <2>4. \A i \in 1..Len(rows), j \in 1..Len(queue) : rows[i] < queue[j]
    BY <1>2, <2>1, <2>2
  <2>5. Ascending(rows)
    BY DEF BusInv, Older
  <2>6. \A i \in 1..Len(rows) : rows[i] <= queued
    BY <1>2, <2>2
  <2>7. \A i \in 1..Len(queue) : queue[i] \in Nat
    BY <1>2
  <2>8. (Ascending(rows) /\ Ascending(batch))'
    BY <1>1, <2>3, <2>5 DEF Ascending
  <2>9. QED
    BY <1>1, <1>2, <2>2, <2>3, <2>4, <2>6, <2>7, <2>8 DEF Older
<1>6. Closing'
  BY <1>1 DEF BusInv, Closing
<1>7. SinkHeld'
  BY <1>1 DEF BusInv, SinkHeld, NoSinkNoCall
<1>8. NothingVanishes'
  BY <1>1, <1>2 DEF BusInv, NothingVanishes, Members
<1>9. DropsOldestOnly'
  BY <1>1 DEF BusInv, DropsOldestOnly
<1>10. QED
  BY <1>3, <1>4, <1>5, <1>6, <1>7, <1>8, <1>9 DEF BusInv

\* The batch's first entry is stored or refused.
LEMMA StoreInv ==
  ASSUME BusInv, Store
  PROVE  BusInv'
<1> DEFINE x == Head(batch)
<1>1. /\ wpc = "storing" /\ batch # <<>> /\ batch' = Tail(batch)
      /\ \/ rows' = Append(rows, x) /\ failed' = failed
         \/ failed' = failed \cup {x} /\ rows' = rows
      /\ UNCHANGED <<queue, stop, mutex, wpc, epc, showing, held, queued, dropped,
                     sink, dpc>>
  BY DEF Store, emitters
<1>2. /\ batch \in Seq(Nat) /\ rows \in Seq(Nat) /\ failed \subseteq Nat
      /\ queue \in Seq(Nat) /\ queued \in Nat /\ Len(queue) \in Nat
  BY DEF BusInv, TypeOK
<1>3. /\ x \in Nat /\ x = batch[1] /\ 1 \in 1..Len(batch) /\ Len(batch) \in Nat
      /\ batch' \in Seq(Nat) /\ Len(batch') = Len(batch) - 1
      /\ \A i \in 1..Len(batch') : batch'[i] = batch[i + 1] /\ i + 1 \in 1..Len(batch)
  BY <1>1, <1>2
<1>4. Members(batch) = {x} \cup Members(batch')
  BY <1>1, <1>2, MembersHeadTail
<1> HIDE DEF x
<1>5. TypeOK'
  <2>1. rows' \in Seq(Nat)
    <3>1. rows \in Seq(Nat) /\ Append(rows, x) \in Seq(Nat)
      BY <1>2, <1>3
    <3>2. rows' = rows \/ rows' = Append(rows, x)
      BY <1>1
    <3>3. QED
      BY <3>1, <3>2
  <2>2. failed' \subseteq Nat
    BY <1>1, <1>2, <1>3
  <2>3. QED
    BY <1>1, <1>3, <2>1, <2>2 DEF BusInv, TypeOK
<1>6. QueueIsLast'
  BY <1>1 DEF BusInv, QueueIsLast
<1>7. Older'
  <2>1. /\ \A i \in 1..Len(batch) : batch[i] + Len(queue) <= queued
        /\ \A i \in 1..Len(rows) : rows[i] + Len(queue) <= queued
        /\ \A i \in 1..Len(rows), j \in 1..Len(batch) : rows[i] < batch[j]
        /\ \A i, j \in 1..Len(rows) : i < j => rows[i] < rows[j]
        /\ \A i, j \in 1..Len(batch) : i < j => batch[i] < batch[j]
    BY DEF BusInv, Older, Ascending
  <2>2. /\ \A i \in 1..Len(batch') : batch'[i] + Len(queue) <= queued /\ x < batch'[i]
        /\ Ascending(batch')
    <3>1. ASSUME NEW i \in 1..Len(batch')
          PROVE  batch'[i] + Len(queue) <= queued /\ x < batch'[i]
      <4>1. batch'[i] = batch[i + 1] /\ i + 1 \in 1..Len(batch) /\ 1 < i + 1
        BY <1>3
      <4>2. QED
        BY <1>3, <2>1, <4>1
    <3>2. ASSUME NEW i \in 1..Len(batch'), NEW j \in 1..Len(batch'), i < j
          PROVE  batch'[i] < batch'[j]
      <4>1. /\ batch'[i] = batch[i + 1] /\ i + 1 \in 1..Len(batch)
            /\ batch'[j] = batch[j + 1] /\ j + 1 \in 1..Len(batch)
            /\ i + 1 < j + 1
        BY <1>3, <3>2
      <4>2. QED
        BY <2>1, <4>1
    <3>3. QED
      BY <3>1, <3>2 DEF Ascending
  <2>3. CASE rows' = rows
    <3>1. Ascending(rows')
      BY <2>1, <2>3 DEF Ascending
    <3>2. \A i \in 1..Len(rows), j \in 1..Len(batch') : rows[i] < batch'[j]
      BY <1>3, <2>1
    <3>3. QED
      BY <1>1, <2>1, <2>2, <2>3, <3>1, <3>2 DEF Older, Ascending
  <2>4. CASE rows' = Append(rows, x)
    <3> DEFINE n == Len(rows)
    <3>1. /\ n \in Nat /\ Len(rows') = n + 1 /\ rows'[n + 1] = x
          /\ \A i \in 1..n : rows'[i] = rows[i]
      BY <1>2, <1>3, <2>4
    <3>2. \A i \in 1..n : rows[i] < x
      BY <1>3, <2>1
    <3>3. Ascending(rows')
      BY <2>1, <3>1, <3>2 DEF Ascending
    <3>4. ASSUME NEW i \in 1..(n + 1) PROVE rows'[i] + Len(queue) <= queued
      <4>1. CASE i = n + 1
        BY <1>3, <2>1, <3>1, <4>1
      <4>2. CASE i \in 1..n
        BY <2>1, <3>1, <4>2
      <4>3. QED
        BY <3>1, <4>1, <4>2
    <3>5. ASSUME NEW i \in 1..(n + 1), NEW j \in 1..Len(batch')
          PROVE  rows'[i] < batch'[j]
      <4>1. CASE i = n + 1
        BY <2>2, <3>1, <4>1
      <4>2. CASE i \in 1..n
        BY <1>3, <2>1, <3>1, <4>2
      <4>3. QED
        BY <3>1, <4>1, <4>2
    <3>6. QED
      BY <1>1, <2>2, <3>1, <3>3, <3>4, <3>5 DEF Older, Ascending
  <2>5. QED
    BY <1>1, <2>3, <2>4
<1>8. Closing'
  BY <1>1 DEF BusInv, Closing
<1>9. SinkHeld'
  BY <1>1 DEF BusInv, SinkHeld, NoSinkNoCall
<1>10. NothingVanishes'
  <2>1. Members(rows') \cup failed' = Members(rows) \cup failed \cup {x}
    <3>1. CASE rows' = rows /\ failed' = failed \cup {x}
      BY <3>1
    <3>2. CASE rows' = Append(rows, x) /\ failed' = failed
      BY <1>2, <1>3, <3>2, MembersAppend
    <3>3. QED
      BY <1>1, <3>1, <3>2
  <2>2. Members(queue') = Members(queue)
    BY <1>1
  <2>3. QED
    BY <1>1, <1>4, <2>1, <2>2 DEF BusInv, NothingVanishes
<1>11. DropsOldestOnly'
  BY <1>1 DEF BusInv, DropsOldestOnly
<1>12. QED
  BY <1>5, <1>6, <1>7, <1>8, <1>9, <1>10, <1>11 DEF BusInv

\* The steps that leave the entries where they are.
Entries == <<queue, batch, rows, failed, queued, dropped>>

LEMMA StillInv ==
  ASSUME BusInv, UNCHANGED Entries, TypeOK', Closing', SinkHeld'
  PROVE  BusInv'
<1>1. QueueIsLast' /\ DropsOldestOnly' /\ NothingVanishes'
  BY DEF BusInv, Entries, QueueIsLast, DropsOldestOnly, NothingVanishes, Members
<1>2. Older'
  BY DEF BusInv, Entries, Older, Ascending
<1>3. QED
  BY <1>1, <1>2 DEF BusInv

LEMMA EmitterInv ==
  ASSUME BusInv, NEW t \in Threads, EmitterSteps(t)
  PROVE  BusInv'
<1>1. UNCHANGED Entries
  BY DEF EmitterSteps, Notify, CallSink, EnterSink, SinkReturns, Entries, writer
<1>2. TypeOK'
  <2>1. epc' \in [Threads -> {"idle", "log", "event", "show", "shown"}]
    BY DEF BusInv, TypeOK, EmitterSteps, Notify, CallSink, EnterSink, SinkReturns
  <2>2. showing' \subseteq Threads /\ held' \subseteq Threads
    BY DEF BusInv, TypeOK, EmitterSteps, Notify, CallSink, EnterSink, SinkReturns
  <2>3. /\ wpc' = wpc \/ wpc' = "locking"
        /\ UNCHANGED <<stop, mutex, sink, dpc>>
    BY DEF EmitterSteps, Notify, Wake, CallSink, EnterSink, SinkReturns, writer
  <2>4. QED
    BY <1>1, <2>1, <2>2, <2>3 DEF BusInv, TypeOK, Entries
<1>3. Closing'
  BY <1>1 DEF BusInv, Closing, Entries, EmitterSteps, Notify, Wake, CallSink,
              EnterSink, SinkReturns, writer
<1>4. SinkHeld'
  BY DEF BusInv, SinkHeld, NoSinkNoCall, EmitterSteps, Notify, CallSink, EnterSink,
         SinkReturns
<1>5. QED
  BY <1>1, <1>2, <1>3, <1>4, StillInv

LEMMA WriterInv ==
  ASSUME BusInv, WriterLocks \/ WriterWaits \/ SpuriousWake \/ WriterReturns
                   \/ BatchDone \/ StartWriter
  PROVE  BusInv'
<1> USE DEF WriterLocks, WriterWaits, SpuriousWake, WriterReturns, BatchDone,
            StartWriter, OwnerFree, emitters
<1>1. UNCHANGED Entries
  BY DEF Entries
<1>2. TypeOK'
  BY <1>1 DEF BusInv, TypeOK, Entries
<1>3. Closing'
  BY <1>1 DEF BusInv, Closing, Entries, Drained
<1>4. SinkHeld'
  BY DEF BusInv, SinkHeld, NoSinkNoCall
<1>5. QED
  BY <1>1, <1>2, <1>3, <1>4, StillInv

LEMMA OwnerInv ==
  ASSUME BusInv, (\E present \in BOOLEAN : SetSink(present)) \/ BeginClose \/ CloseSteps
                   \/ UNCHANGED vars
  PROVE  BusInv'
<1> USE DEF SetSink, BeginClose, CloseSteps, JoinWorkers, RaiseStop, NotifyStop, Wake,
            JoinWriter, OwnerFree, vars, writer, emitters
<1>1. UNCHANGED Entries
  BY DEF Entries
<1>2. TypeOK'
  BY <1>1 DEF BusInv, TypeOK, Entries
<1>3. Closing'
  BY <1>1 DEF BusInv, Closing, Entries
<1>4. SinkHeld'
  BY DEF BusInv, SinkHeld, NoSinkNoCall
<1>5. QED
  BY <1>1, <1>2, <1>3, <1>4, StillInv

LEMMA NextInv == BusInv /\ [Next \/ Quiet]_vars => BusInv'
BY PersistInv, EmitterInv, WriterSwapsInv, StoreInv, WriterInv, OwnerInv
   DEF Next, Quiet, WriterSteps

LEMMA BusInvariant == Spec => []BusInv
BY InitInv, NextInv, PTL DEF Spec

-------------------------------------------------------------------------------
\* Every reachable state is well typed and the queue within its limit.
THEOREM BusTypeCorrect == Spec => []TypeOK
<1>1. BusInv => TypeOK
  BY DEF BusInv
<1>2. QED
  BY <1>1, BusInvariant, PTL

\* Every entry queued is stored, refused, dropped at the limit or on its way.
THEOREM NoEntryVanishes == Spec => []NothingVanishes
<1>1. BusInv => NothingVanishes
  BY DEF BusInv
<1>2. QED
  BY <1>1, BusInvariant, PTL

\* What is dropped gave way to Capacity newer entries.
THEOREM OnlyOldestDropped == Spec => []DropsOldestOnly
<1>1. BusInv => DropsOldestOnly
  BY DEF BusInv
<1>2. QED
  BY <1>1, BusInvariant, PTL

\* The rows, the batch and the queue, one after the other, are in the order of
\* queueing.
THEOREM LedgerOrdered == Spec => []LedgerInOrder
<1>1. ASSUME BusInv PROVE LedgerInOrder
  <2> DEFINE r == Len(rows)
             b == Len(batch)
             c == rows \o batch
  <2>1. /\ rows \in Seq(Nat) /\ batch \in Seq(Nat) /\ queue \in Seq(Nat)
        /\ r \in Nat /\ b \in Nat /\ Len(queue) \in Nat /\ queued \in Nat
        /\ \A i \in 1..Len(queue) : queue[i] = queued - Len(queue) + i
    BY <1>1 DEF BusInv, TypeOK, QueueIsLast
  <2>2. Ascending(c)
    BY <1>1, <2>1, AscendingJoin DEF BusInv, Older
  <2>3. c \in Seq(Nat) /\ Len(c) = r + b /\ \A i \in 1..(r + b) :
          c[i] = IF i <= r THEN rows[i] ELSE batch[i - r]
    BY <2>1
  <2>4. \A i \in 1..Len(c) : c[i] + Len(queue) <= queued /\ c[i] \in Nat
    <3> SUFFICES ASSUME NEW i \in 1..(r + b)
                 PROVE  c[i] + Len(queue) <= queued /\ c[i] \in Nat
      BY <2>3
    <3>1. CASE i <= r
      BY <1>1, <2>1, <2>3, <3>1 DEF BusInv, Older
    <3>2. CASE i > r
      <4>1. i - r \in 1..b /\ c[i] = batch[i - r]
        BY <2>1, <2>3, <3>2
      <4>2. QED
        BY <1>1, <2>1, <4>1 DEF BusInv, Older
    <3>3. QED
      BY <2>1, <3>1, <3>2
  <2>5. Ascending(queue)
    BY <2>1 DEF Ascending
  <2> HIDE DEF c
  <2>6. ASSUME NEW i \in 1..Len(c), NEW j \in 1..Len(queue)
        PROVE  c[i] < queue[j]
    <3>1. c[i] \in Nat /\ c[i] + Len(queue) <= queued
      BY <2>4
    <3>2. queue[j] = queued - Len(queue) + j /\ j >= 1 /\ j \in Nat
      BY <2>1
    <3>3. Len(queue) \in Nat /\ queued \in Nat
      BY <2>1
    <3>4. QED
      BY <3>1, <3>2, <3>3
  <2>7. Ascending(c \o queue)
    BY <2>1, <2>2, <2>3, <2>5, <2>6, AscendingJoin
  <2>8. QED
    BY <2>7 DEF LedgerInOrder, c
<1>2. QED
  BY <1>1, BusInvariant, PTL

\* The destructor returns with every entry out of the queue and the batch.
THEOREM DrainedWhenGone == Spec => []GoneIsDrained
<1>1. BusInv => GoneIsDrained
  BY DEF BusInv, Closing, GoneIsDrained
<1>2. QED
  BY <1>1, BusInvariant, PTL

\* No call of the sink runs while none is set.
THEOREM SinkLeftAlone == Spec => []NoSinkNoCall
<1>1. BusInv => NoSinkNoCall
  BY DEF BusInv, SinkHeld
<1>2. QED
  BY <1>1, BusInvariant, PTL
===============================================================================
