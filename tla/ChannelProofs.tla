------------------------------ MODULE ChannelProofs ---------------------------
(*****************************************************************************)
(* Proofs about channels. Those that are rings: the queue of data            *)
(* (DataQueue) and the one of sentences (NmeaQueue) each implement           *)
(* FreshestFifo, and the ring of blocks (RingBuffer) implements BoundedFifo, *)
(* for every size. The objects of ch_obj (ObjectData, AisObjects): what an   *)
(* object says it holds was computed, of its ship's last report; the cursor  *)
(* and the list of updates keep no pointer to a removed object; a walk       *)
(* visits every object; the log holds every last report; for all ships and   *)
(* any number of reports.                                                    *)
(*****************************************************************************)
EXTENDS DataQueue, NmeaQueue, RingBuffer, AisObjects, FiniteSetTheorems, SequenceTheorems, TLAPS

(* The queue of data, provided that data_size, the modulus write_buf() takes  *)
(* for m_head, is the same as the ring's or write_buf() is not used.          *)
\* The slot of the i-th item queued behind head h, without the modulus.
Slot(h, i) == IF h + i - 1 < BufferSize THEN h + i - 1 ELSE h + i - 1 - BufferSize

\* The slots that count have been written.
QueueInv ==
  /\ TypeOK
  /\ \A i \in 1..m_num : data_queue[Slot(m_head, i)] \in Items

LEMMA SizeIsPositive == BufferSize \in Nat \ {0}
  BY QueueAssumption DEF QueueAssumption

LEMMA ModSucc == \A i \in 0..BufferSize-1 : Next1(i) = IF i + 1 = BufferSize THEN 0 ELSE i + 1
  BY SizeIsPositive, SMT DEF Next1

LEMMA ModSum ==
  ASSUME NEW h \in 0..BufferSize-1, NEW n \in 0..BufferSize
  PROVE  (h + n) % BufferSize = Slot(h, n + 1)
  BY SizeIsPositive, SMT DEF Slot

LEMMA SlotAround ==
  ASSUME NEW h \in 0..BufferSize-1
  PROVE  Slot(h, BufferSize + 1) = h
  BY SizeIsPositive DEF Slot

LEMMA ModSlot ==
  ASSUME TypeOK, NEW i \in 1..BufferSize+1
  PROVE  (m_head + i - 1) % BufferSize = Slot(m_head, i)
<1>1. m_head \in 0..BufferSize-1
  BY DEF TypeOK
<1> QED
  BY <1>1, SizeIsPositive, SMT DEF Slot

\* TypeOK without the modulus.
LEMMA TailPlace ==
  ASSUME TypeOK
  PROVE  m_tail = Slot(m_head, m_num + 1)
<1>1. m_num + 1 \in 1..BufferSize+1 /\ m_head + (m_num + 1) - 1 = m_head + m_num
  BY SizeIsPositive DEF TypeOK
<1>2. (m_head + (m_num + 1) - 1) % BufferSize = Slot(m_head, m_num + 1)
  BY <1>1, ModSlot
<1> QED
  BY <1>1, <1>2 DEF TypeOK

LEMMA QueuedIs ==
  ASSUME TypeOK
  PROVE  Queued = [i \in 1..m_num |-> data_queue[Slot(m_head, i)]]
<1>1. ASSUME NEW i \in 1..m_num PROVE (m_head + i - 1) % BufferSize = Slot(m_head, i)
  <2>1. i \in 1..BufferSize+1
    BY SizeIsPositive DEF TypeOK
  <2> QED
    BY <2>1, ModSlot
<1> QED
  BY <1>1 DEF Queued

LEMMA QueueInvInit == Init => QueueInv
<1> SUFFICES ASSUME Init PROVE QueueInv
  OBVIOUS
<1>1. (0 + 0) % BufferSize = 0
  BY SizeIsPositive, SMT
<1>2. <<>> \in Seq(Items)
  OBVIOUS
<1> QED
  BY <1>1, <1>2, SizeIsPositive DEF Init, QueueInv, TypeOK

\* Both push() and a round of write_buf() store an item so.
Stored(x) ==
  /\ data_queue' = [data_queue EXCEPT ![m_tail] = x]
  /\ m_tail' = Next1(m_tail)
  /\ IF m_num = BufferSize THEN m_head' = Next1(m_head) /\ UNCHANGED m_num
                           ELSE m_num' = m_num + 1 /\ UNCHANGED m_head

Ring ==
  /\ data_queue \in [0..BufferSize-1 -> Items \cup {NoItem}]
  /\ m_head \in 0..BufferSize-1
  /\ m_num \in 0..BufferSize
  /\ m_tail = (m_head + m_num) % BufferSize
  /\ m_tail \in 0..BufferSize-1
  /\ \A i \in 1..m_num : data_queue[Slot(m_head, i)] \in Items

LEMMA RingInv == QueueInv <=> Ring /\ batch \in Seq(Items) /\ out \in Seq(Items)
  BY DEF QueueInv, TypeOK, Ring

LEMMA StoredPlaces ==
  ASSUME QueueInv, NEW x \in Items, Stored(x)
  PROVE  /\ m_head' \in 0..BufferSize-1
         /\ m_num' \in 0..BufferSize
         /\ m_tail' \in 0..BufferSize-1
         /\ m_num' = BufferSize => m_tail' = m_head'
         /\ m_num' < BufferSize => m_tail' = Slot(m_head', m_num' + 1)
         /\ m_tail = Slot(m_head', m_num')
         /\ m_num' >= 1
         /\ m_num = BufferSize => \A i \in 1..m_num-1 : Slot(m_head', i) = Slot(m_head, i + 1) /\ Slot(m_head, i + 1) # m_tail
         /\ m_num < BufferSize => \A i \in 1..m_num : Slot(m_head', i) = Slot(m_head, i) /\ Slot(m_head, i) # m_tail
<1>1. m_head \in 0..BufferSize-1 /\ m_num \in 0..BufferSize /\ m_tail \in 0..BufferSize-1
  BY DEF QueueInv, TypeOK
<1>2. m_tail = Slot(m_head, m_num + 1)
  BY TailPlace DEF QueueInv
<1>3. /\ Next1(m_head) = IF m_head + 1 = BufferSize THEN 0 ELSE m_head + 1
      /\ Next1(m_tail) = IF m_tail + 1 = BufferSize THEN 0 ELSE m_tail + 1
  BY <1>1, ModSucc
<1>4. CASE m_num = BufferSize
  <2>1. m_head = m_tail /\ m_head' = m_tail' /\ m_num' = BufferSize
    BY <1>1, <1>2, <1>4, SizeIsPositive DEF Stored, Slot
  <2>2. m_tail' = IF m_tail + 1 = BufferSize THEN 0 ELSE m_tail + 1
    BY <1>3 DEF Stored
  <2> QED
    BY <1>1, <1>4, <2>1, <2>2, SizeIsPositive DEF Slot
<1>5. CASE m_num # BufferSize
  <2>1. m_head' = m_head /\ m_num' = m_num + 1 /\ m_num < BufferSize
    BY <1>1, <1>5, SizeIsPositive DEF Stored
  <2>2. m_tail' = IF m_tail + 1 = BufferSize THEN 0 ELSE m_tail + 1
    BY <1>3 DEF Stored
  <2> QED
    BY <1>1, <1>2, <1>5, <2>1, <2>2, SizeIsPositive DEF Slot
<1> QED
  BY <1>4, <1>5

LEMMA StoredRing ==
  ASSUME QueueInv, NEW x \in Items, Stored(x)
  PROVE  Ring'
<1>1. m_head' \in 0..BufferSize-1 /\ m_num' \in 0..BufferSize /\ m_tail' \in 0..BufferSize-1
  BY StoredPlaces
<1>2. /\ m_num' = BufferSize => m_tail' = m_head'
      /\ m_num' < BufferSize => m_tail' = Slot(m_head', m_num' + 1)
  BY StoredPlaces
<1>3. m_tail' = (m_head' + m_num') % BufferSize
  <2>1. (m_head' + m_num') % BufferSize = Slot(m_head', m_num' + 1)
    BY <1>1, ModSum
  <2>2. CASE m_num' = BufferSize
    BY <1>1, <1>2, <2>1, <2>2, SlotAround
  <2>3. CASE m_num' < BufferSize
    BY <1>2, <2>1, <2>3
  <2>4. m_num' = BufferSize \/ m_num' < BufferSize
    BY <1>1, SizeIsPositive
  <2> QED
    BY <2>2, <2>3, <2>4, Zenon
<1>4. data_queue' \in [0..BufferSize-1 -> Items \cup {NoItem}]
  BY DEF QueueInv, TypeOK, Stored
<1>5. ASSUME NEW i \in 1..m_num' PROVE data_queue'[Slot(m_head', i)] \in Items
  <2>1. CASE i = m_num'
    BY <2>1, StoredPlaces DEF QueueInv, TypeOK, Stored
  <2>2. CASE i # m_num' /\ m_num = BufferSize
    <3>0. i \in 1..m_num-1 /\ i + 1 \in 1..m_num
      BY <2>2, SizeIsPositive DEF Stored
    <3>1. Slot(m_head', i) = Slot(m_head, i + 1) /\ Slot(m_head, i + 1) # m_tail
      BY <2>2, <3>0, StoredPlaces
    <3>2. data_queue[Slot(m_head, i + 1)] \in Items
      BY <3>0 DEF QueueInv
    <3>3. Slot(m_head, i + 1) \in 0..BufferSize-1
      <4>1. m_head \in 0..BufferSize-1 /\ m_num \in 0..BufferSize
        BY DEF QueueInv, TypeOK
      <4> QED
        BY <3>0, <4>1, SizeIsPositive DEF Slot
    <3> QED
      BY <3>1, <3>2, <3>3 DEF QueueInv, TypeOK, Stored
  <2>3. CASE i # m_num' /\ m_num # BufferSize
    <3>0. m_num < BufferSize /\ m_num' = m_num + 1
      BY <2>3, SizeIsPositive DEF QueueInv, TypeOK, Stored
    <3>1. i \in 1..m_num /\ Slot(m_head', i) = Slot(m_head, i) /\ Slot(m_head, i) # m_tail
      BY <2>3, <3>0, StoredPlaces, SizeIsPositive DEF QueueInv, TypeOK
    <3>2. data_queue[Slot(m_head, i)] \in Items
      BY <3>1 DEF QueueInv
    <3>3. Slot(m_head, i) \in 0..BufferSize-1
      <4>1. m_head \in 0..BufferSize-1 /\ m_num \in 0..BufferSize
        BY DEF QueueInv, TypeOK
      <4> QED
        BY <3>1, <4>1, SizeIsPositive DEF Slot
    <3> QED
      BY <3>1, <3>2, <3>3 DEF QueueInv, TypeOK, Stored
  <2> QED
    BY <2>1, <2>2, <2>3
<1> QED
  BY <1>1, <1>3, <1>4, <1>5 DEF Ring


LEMMA SlotMod ==
  ASSUME NEW h \in 0..BufferSize-1, NEW i \in 1..BufferSize+1
  PROVE  (h + i - 1) % BufferSize = Slot(h, i)
  BY SizeIsPositive, SMT DEF Slot

LEMMA SlotRange ==
  ASSUME NEW h \in 0..BufferSize-1, NEW i \in 1..BufferSize+1
  PROVE  Slot(h, i) \in 0..BufferSize-1
  BY SizeIsPositive DEF Slot

\* The queue as a sequence, without the modulus.
QueueOf(q, h, n) == [i \in 1..n |-> q[Slot(h, i)]]

LEMMA QueuedAre ==
  ASSUME QueueInv, Ring'
  PROVE  /\ Queued = QueueOf(data_queue, m_head, m_num)
         /\ Queued' = QueueOf(data_queue', m_head', m_num')
<1>1. Queued = QueueOf(data_queue, m_head, m_num)
  BY QueuedIs DEF QueueInv, QueueOf
<1>2. ASSUME NEW i \in 1..m_num' PROVE (m_head' + i - 1) % BufferSize = Slot(m_head', i)
  <2>1. i \in 1..BufferSize+1 /\ m_head' \in 0..BufferSize-1
    BY SizeIsPositive DEF Ring
  <2> QED
    BY <2>1, SlotMod
<1>3. Queued' = QueueOf(data_queue', m_head', m_num')
  BY <1>2 DEF Queued, QueueOf
<1> QED
  BY <1>1, <1>3

LEMMA QueueIsSeq ==
  ASSUME QueueInv
  PROVE  /\ QueueOf(data_queue, m_head, m_num) \in Seq(Items)
         /\ Len(QueueOf(data_queue, m_head, m_num)) = m_num
<1>1. m_num \in Nat
  BY SizeIsPositive DEF QueueInv, TypeOK
<1>2. QueueOf(data_queue, m_head, m_num) \in [1..m_num -> Items]
  BY DEF QueueInv, QueueOf
<1> QED
  BY <1>1, <1>2

LEMMA AppendIs ==
  ASSUME NEW S, NEW s \in Seq(S), NEW x \in S, NEW n \in Nat, n >= 1, Len(s) = n - 1
  PROVE  Append(s, x) = [i \in 1..n |-> IF i = n THEN x ELSE s[i]]
<1>1. s = [i \in 1..n-1 |-> s[i]]
  OBVIOUS
<1> QED
  BY <1>1

\* Storing an item appends it, at the cost of the oldest in a full queue.
LEMMA StoredAppends ==
  ASSUME QueueInv, NEW x \in Items, Stored(x)
  PROVE  Queued' = Append(IF Len(Queued) = BufferSize THEN Tail(Queued) ELSE Queued, x)
<1> DEFINE old == QueueOf(data_queue, m_head, m_num)
           new == QueueOf(data_queue', m_head', m_num')
<1>1. Queued = old /\ Queued' = new
  BY StoredRing, QueuedAre
<1>2. old \in Seq(Items) /\ Len(old) = m_num /\ old = [i \in 1..m_num |-> data_queue[Slot(m_head, i)]]
  BY QueueIsSeq DEF QueueOf
<1>3. new = [i \in 1..m_num' |-> data_queue'[Slot(m_head', i)]]
  BY DEF QueueOf
<1>4. m_head \in 0..BufferSize-1 /\ m_num \in 0..BufferSize
  BY DEF QueueInv, TypeOK
<1>5. data_queue'[Slot(m_head', m_num')] = x
  BY StoredPlaces DEF QueueInv, TypeOK, Stored
<1>6. CASE m_num = BufferSize
  <2>1. m_num' = m_num
    BY <1>6 DEF Stored
  <2>2. ASSUME NEW i \in 1..m_num-1 PROVE data_queue'[Slot(m_head', i)] = old[i + 1]
    <3>1. Slot(m_head', i) = Slot(m_head, i + 1) /\ Slot(m_head, i + 1) # m_tail
      BY <1>6, StoredPlaces
    <3>2. i + 1 \in 1..m_num /\ i + 1 \in 1..BufferSize+1
      BY <1>4, SizeIsPositive
    <3>3. Slot(m_head, i + 1) \in 0..BufferSize-1
      BY <1>4, <3>2, SlotRange
    <3> QED
      BY <1>2, <3>1, <3>2, <3>3 DEF QueueInv, TypeOK, Stored
  <2>3. new = Append(Tail(old), x)
    <3>1. m_num \in Nat /\ m_num >= 1
      BY <1>4, <1>6, SizeIsPositive
    <3>2. Tail(old) = [i \in 1..m_num-1 |-> old[i + 1]]
      BY <1>2, <3>1
    <3>3. Tail(old) \in Seq(Items) /\ Len(Tail(old)) = m_num - 1
      BY <1>2, <3>1
    <3>4. Append(Tail(old), x) = [i \in 1..m_num |-> IF i = m_num THEN x ELSE old[i + 1]]
      <4> DEFINE t == Tail(old)
      <4>1. t \in Seq(Items) /\ Len(t) = m_num - 1 /\ t = [i \in 1..m_num-1 |-> old[i + 1]]
        BY <3>2, <3>3
      <4> HIDE DEF t
      <4>2. Append(t, x) = [i \in 1..m_num |-> IF i = m_num THEN x ELSE t[i]]
        BY <3>1, <4>1, AppendIs
      <4>3. ASSUME NEW i \in 1..m_num, i # m_num PROVE t[i] = old[i + 1]
        BY <3>1, <4>1, <4>3
      <4> QED
        BY <4>2, <4>3 DEF t
    <3>5. ASSUME NEW i \in 1..m_num
          PROVE  data_queue'[Slot(m_head', i)] = IF i = m_num THEN x ELSE old[i + 1]
      <4>1. CASE i = m_num
        BY <1>5, <2>1, <4>1
      <4>2. CASE i # m_num
        <5>1. i \in 1..m_num-1
          BY <3>1, <4>2
        <5> QED
          BY <2>2, <4>2, <5>1
      <4> QED
        BY <4>1, <4>2
    <3>6. new = [i \in 1..m_num |-> data_queue'[Slot(m_head', i)]]
      BY <1>3, <2>1
    <3> HIDE DEF old, new
    <3> QED
      BY <3>4, <3>5, <3>6
  <2> QED
    BY <1>1, <1>2, <1>6, <2>3
<1>7. CASE m_num # BufferSize
  <2>1. m_num' = m_num + 1 /\ m_num < BufferSize /\ m_num \in Nat
    BY <1>4, <1>7, SizeIsPositive DEF Stored
  <2>2. ASSUME NEW i \in 1..m_num PROVE data_queue'[Slot(m_head', i)] = old[i]
    <3>1. Slot(m_head', i) = Slot(m_head, i) /\ Slot(m_head, i) # m_tail
      BY <2>1, StoredPlaces
    <3>2. i \in 1..BufferSize+1
      BY <1>4, SizeIsPositive
    <3>3. Slot(m_head, i) \in 0..BufferSize-1
      BY <1>4, <3>2, SlotRange
    <3> QED
      BY <1>2, <3>1, <3>3 DEF QueueInv, TypeOK, Stored
  <2>3. new = Append(old, x)
    <3>1. old \in Seq(Items) /\ Len(old) = m_num
      BY <1>2
    <3>2. new = [i \in 1..m_num+1 |-> data_queue'[Slot(m_head', i)]]
      BY <1>3, <2>1
    <3> HIDE DEF old, new
    <3>3. Append(old, x) = [i \in 1..m_num+1 |-> IF i = m_num + 1 THEN x ELSE old[i]]
      <4>1. m_num + 1 \in Nat /\ m_num + 1 >= 1 /\ Len(old) = (m_num + 1) - 1
        BY <2>1, <3>1
      <4> QED
        BY <3>1, <4>1, AppendIs
    <3>4. ASSUME NEW i \in 1..m_num+1
          PROVE  data_queue'[Slot(m_head', i)] = IF i = m_num + 1 THEN x ELSE old[i]
      <4>1. CASE i = m_num + 1
        BY <1>5, <2>1, <4>1
      <4>2. CASE i # m_num + 1
        <5>1. i \in 1..m_num
          BY <2>1, <4>2
        <5> QED
          BY <2>2, <4>2, <5>1
      <4> QED
        BY <4>1, <4>2
    <3> QED
      BY <3>2, <3>3, <3>4
  <2> QED
    BY <1>1, <1>2, <1>7, <2>3
<1> QED
  BY <1>6, <1>7

\* The queue without its first item.
LEMMA Popped ==
  ASSUME QueueInv, Pop, m_num > 0
  PROVE  /\ QueueInv'
         /\ Queued # <<>>
         /\ out' = <<Head(Queued)>>
         /\ Queued' = Tail(Queued)
<1>1. /\ m_head \in 0..BufferSize-1 /\ m_num \in 1..BufferSize
      /\ m_tail = Slot(m_head, m_num + 1) /\ m_tail \in 0..BufferSize-1
  BY TailPlace, SizeIsPositive DEF QueueInv, TypeOK
<1>2. /\ m_head' = Next1(m_head) /\ m_num' = m_num - 1
      /\ UNCHANGED <<data_queue, m_tail, batch>>
      /\ out' = <<data_queue[m_head]>>
  BY <1>1, SizeIsPositive DEF Pop, SlotValues
<1>3. m_head' = IF m_head + 1 = BufferSize THEN 0 ELSE m_head + 1
  BY <1>1, <1>2, ModSucc
<1>4. \A i \in 1..m_num : Slot(m_head', i) = Slot(m_head, i + 1)
  BY <1>1, <1>3, SizeIsPositive DEF Slot
<1>5. m_head' \in 0..BufferSize-1 /\ m_num' \in 0..BufferSize
  BY <1>1, <1>2, <1>3, SizeIsPositive
<1>6. Slot(m_head, 1) = m_head
  BY <1>1, SizeIsPositive DEF Slot
<1>7. data_queue[m_head] \in Items
  BY <1>1, <1>6 DEF QueueInv
<1>8. m_tail' = (m_head' + m_num') % BufferSize
  <2>1. m_tail' = Slot(m_head', m_num' + 1)
    BY <1>1, <1>2, <1>4
  <2> QED
    BY <2>1, <1>5, ModSum
<1>9. ASSUME NEW i \in 1..m_num' PROVE data_queue'[Slot(m_head', i)] = data_queue[Slot(m_head, i + 1)]
                                       /\ data_queue[Slot(m_head, i + 1)] \in Items
  <2>1. i \in 1..m_num /\ i + 1 \in 1..m_num
    BY <1>1, <1>2
  <2> QED
    BY <1>2, <1>4, <2>1 DEF QueueInv
<1>10. Ring'
  BY <1>1, <1>2, <1>5, <1>8, <1>9 DEF Ring, QueueInv, TypeOK
<1>11. out' \in Seq(Items) /\ batch' \in Seq(Items)
  BY <1>2, <1>7 DEF QueueInv, TypeOK
<1>12. QueueInv'
  BY <1>10, <1>11 DEF QueueInv, TypeOK, Ring
<1> DEFINE old == QueueOf(data_queue, m_head, m_num)
           new == QueueOf(data_queue', m_head', m_num')
<1>13. Queued = old /\ Queued' = new
  BY <1>10, QueuedAre
<1>14. old \in Seq(Items) /\ Len(old) = m_num /\ old = [i \in 1..m_num |-> data_queue[Slot(m_head, i)]]
  BY QueueIsSeq DEF QueueOf
<1>15. new = [i \in 1..m_num-1 |-> data_queue'[Slot(m_head', i)]]
  BY <1>2 DEF QueueOf
<1>16. old # <<>> /\ Head(old) = data_queue[m_head]
  <2>1. old[1] = data_queue[m_head]
    BY <1>1, <1>6, <1>14
  <2> HIDE DEF old
  <2> QED
    BY <1>1, <1>14, <2>1
<1>17. new = Tail(old)
  <2>1. ASSUME NEW i \in 1..m_num-1 PROVE data_queue'[Slot(m_head', i)] = old[i + 1]
    <3>1. i + 1 \in 1..m_num /\ i \in 1..m_num'
      BY <1>1, <1>2
    <3> QED
      BY <1>9, <1>14, <3>1
  <2> HIDE DEF old, new
  <2>2. Tail(old) = [i \in 1..m_num-1 |-> old[i + 1]]
    BY <1>1, <1>14
  <2> QED
    BY <1>15, <2>1, <2>2
<1> QED
  BY <1>2, <1>12, <1>13, <1>16, <1>17

LEMMA Missed ==
  ASSUME QueueInv, Pop, ~(m_num > 0)
  PROVE  QueueInv' /\ Queued = <<>> /\ Queued' = <<>> /\ out' = <<>>
<1>1. UNCHANGED <<data_queue, m_head, m_tail, m_num, batch>> /\ out' = <<>> /\ m_num = 0
  BY SizeIsPositive DEF Pop, QueueInv, TypeOK
<1>2. Queued = <<>> /\ Queued' = <<>>
  BY <1>1 DEF Queued
<1>3. out' \in Seq(Items)
  BY <1>1
<1> QED
  BY <1>1, <1>2, <1>3 DEF QueueInv, TypeOK

LEMMA Drained ==
  ASSUME QueueInv, ReadBuf
  PROVE  QueueInv' /\ out' = Queued /\ Queued' = <<>>
<1>1. m_head \in 0..BufferSize-1 /\ m_num \in 0..BufferSize
  BY DEF QueueInv, TypeOK
<1>2. SlotValues(m_head) = {data_queue[m_head]}
  BY <1>1, SizeIsPositive DEF SlotValues
<1>3. (m_head + 1 - 1) % BufferSize = m_head
  BY <1>1, SizeIsPositive, SMT
<1>4. out' = Queued
  BY <1>2, <1>3 DEF ReadBuf, Queued
<1>5. Queued \in Seq(Items)
  <2>1. Queued = QueueOf(data_queue, m_head, m_num)
    BY QueuedIs DEF QueueInv, QueueOf
  <2> QED
    BY <2>1, QueueIsSeq
<1>6. UNCHANGED <<data_queue, batch>> /\ m_head' = 0 /\ m_tail' = 0 /\ m_num' = 0
  BY DEF ReadBuf
<1>7. Queued' = <<>>
  BY <1>6 DEF Queued
<1>8. (0 + 0) % BufferSize = 0
  BY SizeIsPositive, SMT
<1> QED
  BY <1>4, <1>5, <1>6, <1>7, <1>8, SizeIsPositive DEF QueueInv, TypeOK

LEMMA StoredInv ==
  ASSUME QueueInv, NEW x \in Items, Stored(x), batch' \in Seq(Items), out' = out
  PROVE  QueueInv' /\ Fifo!Put(x)
<1>1. Ring'
  BY StoredRing
<1>2. out' \in Seq(Items)
  BY DEF QueueInv, TypeOK
<1>3. QueueInv'
  BY <1>1, <1>2 DEF QueueInv, TypeOK, Ring
<1> QED
  BY <1>3, StoredAppends DEF Fifo!Put

\* Where write_buf()'s modulus of m_head, data_size, does no harm.
SafeSizes == DataSize = BufferSize \/ BatchSize = 0

\* Nothing is imported where write_buf() is not used.
ImportInv == BatchSize = 0 => batch = <<>>

LEMMA NothingImported ==
  ASSUME ImportInv, [Next]_vars
  PROVE  ImportInv'
<1>1. ASSUME BatchSize = 0 PROVE Batches = {}
  BY <1>1 DEF Batches
<1> QED
  BY <1>1 DEF ImportInv, Next, vars, Push, Import, WriteBuf, Pop, ReadBuf

\* Every operation keeps the invariant and is one of the promised operations.
LEMMA QueueStep ==
  ASSUME SafeSizes, ImportInv, QueueInv, [Next]_vars
  PROVE  QueueInv' /\ [Fifo!FifoNext]_(Fifo!fvars)
<1>1. ASSUME NEW x \in Items, Push(x) PROVE QueueInv' /\ Fifo!FifoNext
  <2>1. Stored(x) /\ batch' \in Seq(Items) /\ out' = out
    BY <1>1 DEF Push, Stored, QueueInv, TypeOK
  <2> QED
    BY <2>1, StoredInv DEF Fifo!FifoNext
<1>2. CASE Import
  <2>1. batch \in Seq(Items) /\ batch # <<>>
    BY <1>2 DEF QueueInv, TypeOK, Import
  <2>2. Head(batch) \in Items /\ Tail(batch) \in Seq(Items)
    BY <2>1
  <2>3. DataSize = BufferSize
    BY <1>2 DEF SafeSizes, ImportInv, Import
  <2>4. Stored(Head(batch)) /\ batch' \in Seq(Items) /\ out' = out
    BY <1>2, <2>2, <2>3 DEF Import, Stored, Next1
  <2> QED
    BY <2>2, <2>4, StoredInv DEF Fifo!FifoNext
<1>3. ASSUME NEW b \in Batches, WriteBuf(b) PROVE QueueInv' /\ UNCHANGED Fifo!fvars
  <2>1. b \in Seq(Items)
    BY QueueAssumption, SizeIsPositive DEF Batches
  <2>2. UNCHANGED <<data_queue, m_head, m_tail, m_num, out>> /\ batch' = b
    BY <1>3 DEF WriteBuf
  <2> QED
    BY <2>1, <2>2 DEF QueueInv, TypeOK, Fifo!fvars, Queued
<1>4. CASE Pop
  <2>1. CASE m_num > 0
    BY <1>4, <2>1, Popped DEF Fifo!FifoNext, Fifo!Take
  <2>2. CASE ~(m_num > 0)
    BY <1>4, <2>2, Missed DEF Fifo!FifoNext, Fifo!Miss
  <2> QED
    BY <2>1, <2>2
<1>5. CASE ReadBuf
  BY <1>5, Drained DEF Fifo!FifoNext, Fifo!Drain
<1>6. CASE UNCHANGED vars
  BY <1>6 DEF vars, QueueInv, TypeOK, Fifo!fvars, Queued
<1> QED
  BY <1>1, <1>2, <1>3, <1>4, <1>5, <1>6 DEF Next

\* Head, tail and count of the ring agree, and every import and export is of
\* items (push, pop, write_buf and read_buf of ch_binary_data_queue.hpp), where
\* data_size and buffer_size are the same or write_buf() is not used.
THEOREM QueueTypeCorrect == SafeSizes => (Spec => []TypeOK)
<1> SUFFICES ASSUME SafeSizes PROVE Spec => []TypeOK
  OBVIOUS
<1>1. Init => QueueInv /\ ImportInv
  BY QueueInvInit DEF Init, ImportInv
<1>2. QueueInv /\ ImportInv /\ [Next]_vars => QueueInv' /\ ImportInv'
  BY QueueStep, NothingImported
<1>3. QueueInv => TypeOK
  BY DEF QueueInv
<1> QED
  BY <1>1, <1>2, <1>3, PTL DEF Spec

\* What push() and write_buf() put in comes out of pop() and read_buf() in the
\* same order, the oldest lost first, for every size of the ring and of the
\* buffers exchanged, where data_size and buffer_size are the same or write_buf()
\* is not used.
THEOREM QueueImplementsFifo == SafeSizes => (Spec => ImplementsFifo)
<1> SUFFICES ASSUME SafeSizes PROVE Spec => ImplementsFifo
  OBVIOUS
<1>1. Init => QueueInv /\ ImportInv
  BY QueueInvInit DEF Init, ImportInv
<1>2. QueueInv /\ ImportInv /\ [Next]_vars => QueueInv' /\ ImportInv'
  BY QueueStep, NothingImported
<1>3. QueueInv /\ ImportInv /\ [Next]_vars => [Fifo!FifoNext]_(Fifo!fvars)
  BY QueueStep
<1>4. Init => Fifo!FifoInit
  BY DEF Init, Fifo!FifoInit, Queued
<1> QED
  BY <1>1, <1>2, <1>3, <1>4, PTL DEF Spec, ImplementsFifo, Fifo!FifoSpec
-------------------------------------------------------------------------------
(* The queue of sentences.                                                    *)

LEMMA SlotsAreSeveral == NmeaSizes => MaxBuf \in Nat /\ MaxBuf >= 2
  BY DEF NmeaSizes

\* The slot of the i-th sentence behind head h, without the modulus.
NmeaSlot(h, i) == IF h + i - 1 < MaxBuf THEN h + i - 1 ELSE h + i - 1 - MaxBuf

LEMMA NmeaModSlot ==
  ASSUME NmeaSizes, NEW h \in 0..MaxBuf-1, NEW i \in 1..MaxBuf
  PROVE  (h + i - 1) % MaxBuf = NmeaSlot(h, i) /\ NmeaSlot(h, i) \in 0..MaxBuf-1
  BY SlotsAreSeveral, SMT DEF NmeaSlot

LEMMA NmeaModSucc ==
  ASSUME NmeaSizes, NEW i \in 0..MaxBuf-1
  PROVE  Succ(i) = IF i + 1 = MaxBuf THEN 0 ELSE i + 1
  BY SlotsAreSeveral, SMT DEF Succ

\* How many there are between head h and tail t, without the modulus.
Between(h, t) == IF t >= h THEN t - h ELSE t - h + MaxBuf

LEMMA ModBetween ==
  ASSUME NmeaSizes, NEW h \in 0..MaxBuf-1, NEW t \in 0..MaxBuf-1
  PROVE  (t - h) % MaxBuf = Between(h, t) /\ Between(h, t) \in 0..MaxBuf-1
  BY SlotsAreSeveral, SMT DEF Between

\* The ring from head h as a sequence of n.
NmeaQueueOf(b, h, n) == [i \in 1..n |-> b[NmeaSlot(h, i)]]

NmeaRing ==
  /\ nmea_buf \in [0..MaxBuf-1 -> Sentences \cup {TooLong}]
  /\ nmea_head \in 0..MaxBuf-1
  /\ nmea_tail \in 0..MaxBuf-1

LEMMA NmeaQueuedIs ==
  ASSUME NmeaSizes, NmeaRing
  PROVE  /\ HeldNmea = Between(nmea_head, nmea_tail)
         /\ HeldNmea \in 0..MaxBuf-1
         /\ QueuedNmea = NmeaQueueOf(nmea_buf, nmea_head, Between(nmea_head, nmea_tail))
<1>1. HeldNmea = Between(nmea_head, nmea_tail) /\ HeldNmea \in 0..MaxBuf-1
  BY ModBetween DEF NmeaRing, HeldNmea
<1>2. ASSUME NEW i \in 1..HeldNmea PROVE (nmea_head + i - 1) % MaxBuf = NmeaSlot(nmea_head, i)
  BY <1>1, NmeaModSlot, SlotsAreSeveral DEF NmeaRing
<1> QED
  BY <1>1, <1>2 DEF QueuedNmea, NmeaQueueOf

\* The slots between head and tail have been written by a push() that was accepted.
NmeaInv ==
  /\ NmeaTypeOK
  /\ \A i \in 1..Between(nmea_head, nmea_tail) : nmea_buf[NmeaSlot(nmea_head, i)] \in Sentences

LEMMA NmeaInvInit == NmeaSizes /\ NmeaInit => NmeaInv /\ QueuedNmea = <<>>
<1> SUFFICES ASSUME NmeaSizes, NmeaInit PROVE NmeaInv /\ QueuedNmea = <<>>
  OBVIOUS
<1>1. NmeaRing /\ nmea_out \in Seq(Sentences)
  BY SlotsAreSeveral DEF NmeaInit, NmeaRing
<1>2. Between(nmea_head, nmea_tail) = 0
  BY DEF NmeaInit, Between
<1>3. QueuedNmea = <<>>
  BY <1>1, <1>2, NmeaQueuedIs DEF NmeaQueueOf
<1> QED
  BY <1>1, <1>2, <1>3 DEF NmeaInv, NmeaTypeOK, NmeaRing

LEMMA NmeaQueueIsSeq ==
  ASSUME NEW b, NEW h, NEW n \in Nat, \A i \in 1..n : b[NmeaSlot(h, i)] \in Sentences
  PROVE  NmeaQueueOf(b, h, n) \in Seq(Sentences) /\ Len(NmeaQueueOf(b, h, n)) = n
<1>1. NmeaQueueOf(b, h, n) \in [1..n -> Sentences]
  BY DEF NmeaQueueOf
<1> QED
  BY <1>1

LEMMA QueuedIsSeq ==
  ASSUME NmeaSizes, NmeaInv
  PROVE  QueuedNmea \in Seq(Sentences) /\ Len(QueuedNmea) = Between(nmea_head, nmea_tail)
<1>1. NmeaRing
  BY DEF NmeaInv, NmeaTypeOK, NmeaRing
<1>2. Between(nmea_head, nmea_tail) \in Nat
  BY <1>1, NmeaQueuedIs, SlotsAreSeveral
<1> QED
  BY <1>1, <1>2, NmeaQueuedIs, NmeaQueueIsSeq DEF NmeaInv

\* A ring that holds what s does and one sentence more.
LEMMA QueueAppends ==
  ASSUME NEW s \in Seq(Sentences), NEW x \in Sentences, NEW b, NEW h,
         \A i \in 1..Len(s) : b[NmeaSlot(h, i)] = s[i],
         b[NmeaSlot(h, Len(s) + 1)] = x
  PROVE  /\ NmeaQueueOf(b, h, Len(s) + 1) = Append(s, x)
         /\ \A i \in 1..Len(s)+1 : b[NmeaSlot(h, i)] \in Sentences
<1>1. Append(s, x) = [i \in 1..Len(s)+1 |-> IF i = Len(s) + 1 THEN x ELSE s[i]]
  <2>1. Len(s) + 1 \in Nat /\ Len(s) + 1 >= 1 /\ Len(s) = (Len(s) + 1) - 1
    OBVIOUS
  <2> QED
    BY <2>1, AppendIs
<1>2. ASSUME NEW i \in 1..Len(s)+1
      PROVE  b[NmeaSlot(h, i)] = (IF i = Len(s) + 1 THEN x ELSE s[i]) /\ b[NmeaSlot(h, i)] \in Sentences
  <2>1. i = Len(s) + 1 \/ (i # Len(s) + 1 /\ i \in 1..Len(s) /\ s[i] \in Sentences)
    OBVIOUS
  <2> QED
    BY <2>1
<1> QED
  BY <1>1, <1>2 DEF NmeaQueueOf

-----------------------------------------------------------------------------
(* push() *)

\* Which slots push() leaves in the queue, and where its own is among them.
LEMMA PushPlaces ==
  ASSUME NmeaSizes, NmeaRing, NEW x \in Sentences, PushNmea(x)
  PROVE  LET n == Between(nmea_head, nmea_tail)
             m == Between(nmea_head', nmea_tail')
         IN /\ nmea_head' \in 0..MaxBuf-1 /\ nmea_tail' \in 0..MaxBuf-1
            /\ NmeaSlot(nmea_head', m) = nmea_tail
            /\ n = MaxBuf - 1 =>
                 m = n /\ \A i \in 1..n-1 : NmeaSlot(nmea_head', i) = NmeaSlot(nmea_head, i + 1)
                                         /\ NmeaSlot(nmea_head, i + 1) # nmea_tail
            /\ n # MaxBuf - 1 =>
                 m = n + 1 /\ \A i \in 1..n : NmeaSlot(nmea_head', i) = NmeaSlot(nmea_head, i)
                                           /\ NmeaSlot(nmea_head, i) # nmea_tail
<1>1. nmea_head \in 0..MaxBuf-1 /\ nmea_tail \in 0..MaxBuf-1 /\ MaxBuf \in Nat /\ MaxBuf >= 2
  BY SlotsAreSeveral DEF NmeaRing
<1>2. /\ nmea_tail' = IF nmea_tail + 1 = MaxBuf THEN 0 ELSE nmea_tail + 1
      /\ nmea_head' = IF nmea_head = nmea_tail'
                     THEN IF nmea_head + 1 = MaxBuf THEN 0 ELSE nmea_head + 1
                     ELSE nmea_head
  BY <1>1, NmeaModSucc DEF PushNmea
<1>3. nmea_head' \in 0..MaxBuf-1 /\ nmea_tail' \in 0..MaxBuf-1
  BY <1>1, <1>2
<1>4. NmeaSlot(nmea_head', Between(nmea_head', nmea_tail')) = nmea_tail
  BY <1>1, <1>2 DEF NmeaSlot, Between
<1>5. CASE nmea_head = nmea_tail'
  <2>1. Between(nmea_head, nmea_tail) = MaxBuf - 1 /\ Between(nmea_head', nmea_tail') = MaxBuf - 1
    BY <1>1, <1>2, <1>5 DEF Between
  <2>2. \A i \in 1..MaxBuf-2 : NmeaSlot(nmea_head', i) = NmeaSlot(nmea_head, i + 1) /\ NmeaSlot(nmea_head, i + 1) # nmea_tail
    BY <1>1, <1>2, <1>5 DEF NmeaSlot
  <2> QED
    BY <1>1, <1>3, <1>4, <2>1, <2>2
<1>6. CASE nmea_head # nmea_tail'
  <2>1. /\ Between(nmea_head, nmea_tail) # MaxBuf - 1
        /\ Between(nmea_head', nmea_tail') = Between(nmea_head, nmea_tail) + 1
    BY <1>1, <1>2, <1>6 DEF Between
  <2>2. \A i \in 1..Between(nmea_head, nmea_tail) :
          NmeaSlot(nmea_head', i) = NmeaSlot(nmea_head, i) /\ NmeaSlot(nmea_head, i) # nmea_tail
    BY <1>1, <1>2, <1>6 DEF NmeaSlot, Between
  <2> QED
    BY <1>3, <1>4, <2>1, <2>2
<1> QED
  BY <1>5, <1>6

LEMMA Pushed ==
  ASSUME NmeaSizes, NmeaInv, NEW x \in Sentences, PushNmea(x)
  PROVE  NmeaInv' /\ NmeaFifo!Put(x)
<1> DEFINE n == Between(nmea_head, nmea_tail)
           m == Between(nmea_head', nmea_tail')
           old == NmeaQueueOf(nmea_buf, nmea_head, n)
           new == NmeaQueueOf(nmea_buf', nmea_head', m)
<1>1. NmeaRing /\ nmea_out' = nmea_out
  BY DEF NmeaInv, NmeaTypeOK, NmeaRing, PushNmea
<1>2. n \in 0..MaxBuf-1 /\ MaxBuf \in Nat /\ MaxBuf >= 2
  BY <1>1, NmeaQueuedIs, SlotsAreSeveral
<1>3. nmea_head' \in 0..MaxBuf-1 /\ nmea_tail' \in 0..MaxBuf-1 /\ NmeaSlot(nmea_head', m) = nmea_tail
  BY <1>1, PushPlaces
<1>4. nmea_buf' \in [0..MaxBuf-1 -> Sentences \cup {TooLong}]
  BY <1>1 DEF NmeaRing, PushNmea
<1>5. NmeaRing'
  BY <1>3, <1>4 DEF NmeaRing
<1>6. nmea_buf'[nmea_tail] = x /\ \A k \in (0..MaxBuf-1) \ {nmea_tail} : nmea_buf'[k] = nmea_buf[k]
  BY <1>1 DEF NmeaRing, PushNmea
<1>7. QueuedNmea = old /\ old \in Seq(Sentences) /\ Len(old) = n
  BY <1>1, NmeaQueuedIs, QueuedIsSeq
<1>8. QueuedNmea' = new
  <2>1. HeldNmea' = m /\ m \in 0..MaxBuf-1
    BY <1>3, ModBetween DEF HeldNmea
  <2>2. ASSUME NEW i \in 1..m PROVE (nmea_head' + i - 1) % MaxBuf = NmeaSlot(nmea_head', i)
    BY <1>2, <1>3, <2>1, NmeaModSlot
  <2> QED
    BY <2>1, <2>2 DEF QueuedNmea, NmeaQueueOf
<1>9. ASSUME NEW i \in 1..n
      PROVE  old[i] = nmea_buf[NmeaSlot(nmea_head, i)] /\ NmeaSlot(nmea_head, i) \in 0..MaxBuf-1
  <2>1. i \in 1..MaxBuf /\ nmea_head \in 0..MaxBuf-1
    BY <1>1, <1>2 DEF NmeaRing
  <2> QED
    BY <2>1, NmeaModSlot DEF NmeaQueueOf
<1>10. CASE n = MaxBuf - 1
  <2>1. m = n /\ \A i \in 1..n-1 : NmeaSlot(nmea_head', i) = NmeaSlot(nmea_head, i + 1) /\ NmeaSlot(nmea_head, i + 1) # nmea_tail
    BY <1>1, <1>10, PushPlaces
  <2>2. ASSUME NEW i \in 1..n-1 PROVE nmea_buf'[NmeaSlot(nmea_head', i)] = old[i + 1]
    <3>1. i + 1 \in 1..n
      BY <1>2
    <3> QED
      BY <1>6, <1>9, <2>1, <3>1
  <2> HIDE DEF old, n, m
  <2>3. Tail(old) \in Seq(Sentences) /\ Len(Tail(old)) = n - 1 /\ n - 1 \in Nat
    BY <1>2, <1>7, <1>10
  <2>4. \A i \in 1..n-1 : Tail(old)[i] = old[i + 1]
    BY <1>7, <2>3
  <2>5. Len(Tail(old)) + 1 = m
    BY <1>2, <2>1, <2>3
  <2> DEFINE s == Tail(old)
  <2> HIDE DEF s
  <2>6. /\ s \in Seq(Sentences) /\ Len(s) + 1 = m
        /\ \A i \in 1..Len(s) : nmea_buf'[NmeaSlot(nmea_head', i)] = s[i]
        /\ nmea_buf'[NmeaSlot(nmea_head', Len(s) + 1)] = x
    BY <1>3, <1>6, <2>2, <2>3, <2>4, <2>5 DEF s
  <2>7. new = Append(s, x) /\ \A i \in 1..m : nmea_buf'[NmeaSlot(nmea_head', i)] \in Sentences
    BY <2>6, QueueAppends
  <2>8. NmeaFifo!Put(x)
    BY <1>1, <1>7, <1>8, <1>10, <2>7 DEF NmeaFifo!Put, s
  <2> QED
    BY <1>1, <1>5, <2>7, <2>8 DEF NmeaInv, NmeaTypeOK, NmeaRing, m
<1>11. CASE n # MaxBuf - 1
  <2>1. m = n + 1 /\ \A i \in 1..n : NmeaSlot(nmea_head', i) = NmeaSlot(nmea_head, i) /\ NmeaSlot(nmea_head, i) # nmea_tail
    BY <1>1, <1>11, PushPlaces
  <2>2. ASSUME NEW i \in 1..n PROVE nmea_buf'[NmeaSlot(nmea_head', i)] = old[i]
    BY <1>6, <1>9, <2>1
  <2> HIDE DEF old, n, m
  <2>3. /\ Len(old) + 1 = m
        /\ \A i \in 1..Len(old) : nmea_buf'[NmeaSlot(nmea_head', i)] = old[i]
        /\ nmea_buf'[NmeaSlot(nmea_head', Len(old) + 1)] = x
    BY <1>3, <1>6, <1>7, <2>1, <2>2
  <2>4. new = Append(old, x) /\ \A i \in 1..m : nmea_buf'[NmeaSlot(nmea_head', i)] \in Sentences
    BY <1>7, <2>3, QueueAppends
  <2>5. NmeaFifo!Put(x)
    BY <1>1, <1>7, <1>8, <1>11, <2>4 DEF NmeaFifo!Put
  <2> QED
    BY <1>1, <1>5, <2>4, <2>5 DEF NmeaInv, NmeaTypeOK, NmeaRing, m
<1> QED
  BY <1>10, <1>11

\* A string that is refused has been written where no queued sentence is.
LEMMA Refused ==
  ASSUME NmeaSizes, NmeaInv, PushNmeaTooLong
  PROVE  NmeaInv' /\ UNCHANGED NmeaFifo!fvars
<1>1. NmeaRing /\ UNCHANGED <<nmea_head, nmea_tail, nmea_out>>
  BY DEF NmeaInv, NmeaTypeOK, NmeaRing, PushNmeaTooLong
<1>2. nmea_buf' \in [0..MaxBuf-1 -> Sentences \cup {TooLong}] /\ NmeaRing'
  BY <1>1 DEF NmeaRing, PushNmeaTooLong
<1>3. ASSUME NEW i \in 1..Between(nmea_head, nmea_tail)
      PROVE  nmea_buf'[NmeaSlot(nmea_head, i)] = nmea_buf[NmeaSlot(nmea_head, i)]
  <2>1. NmeaSlot(nmea_head, i) # nmea_tail /\ NmeaSlot(nmea_head, i) \in 0..MaxBuf-1
    BY <1>1, SlotsAreSeveral, SMTT(30) DEF NmeaSlot, Between, NmeaRing
  <2> QED
    BY <1>1, <2>1 DEF NmeaRing, PushNmeaTooLong
<1>4. QueuedNmea = NmeaQueueOf(nmea_buf, nmea_head, Between(nmea_head, nmea_tail))
  BY <1>1, NmeaQueuedIs
<1>5. QueuedNmea' = NmeaQueueOf(nmea_buf', nmea_head, Between(nmea_head, nmea_tail))
  <2>1. HeldNmea' = Between(nmea_head, nmea_tail) /\ HeldNmea' \in 0..MaxBuf-1
    BY <1>1, ModBetween DEF HeldNmea, NmeaRing
  <2>2. ASSUME NEW i \in 1..HeldNmea' PROVE (nmea_head' + i - 1) % MaxBuf = NmeaSlot(nmea_head, i)
    BY <1>1, <2>1, NmeaModSlot, SlotsAreSeveral DEF NmeaRing
  <2> QED
    BY <1>1, <2>1, <2>2 DEF QueuedNmea, NmeaQueueOf
<1>6. QueuedNmea' = QueuedNmea
  BY <1>3, <1>4, <1>5 DEF NmeaQueueOf
<1> QED
  BY <1>1, <1>2, <1>3, <1>6 DEF NmeaInv, NmeaTypeOK, NmeaFifo!fvars

-----------------------------------------------------------------------------
(* pop() *)

LEMMA NmeaMissed ==
  ASSUME NmeaSizes, NmeaInv, PopNmea, nmea_head = nmea_tail
  PROVE  NmeaInv' /\ NmeaFifo!Miss
<1>1. NmeaRing /\ UNCHANGED <<nmea_buf, nmea_head, nmea_tail>> /\ nmea_out' = <<>>
  BY DEF NmeaInv, NmeaTypeOK, NmeaRing, PopNmea
<1>2. Between(nmea_head, nmea_tail) = 0
  BY <1>1 DEF NmeaRing, Between
<1>3. QueuedNmea = <<>> /\ QueuedNmea' = QueuedNmea
  BY <1>1, <1>2, NmeaQueuedIs DEF NmeaQueueOf, QueuedNmea, HeldNmea
<1> QED
  BY <1>1, <1>3 DEF NmeaInv, NmeaTypeOK, NmeaFifo!Miss

LEMMA PopPlaces ==
  ASSUME NmeaSizes, NmeaRing, PopNmea, nmea_head # nmea_tail
  PROVE  /\ nmea_head' \in 0..MaxBuf-1 /\ nmea_tail' = nmea_tail
         /\ Between(nmea_head, nmea_tail) >= 1
         /\ Between(nmea_head', nmea_tail') = Between(nmea_head, nmea_tail) - 1
         /\ NmeaSlot(nmea_head, 1) = nmea_head
         /\ \A i \in 1..Between(nmea_head', nmea_tail') : NmeaSlot(nmea_head', i) = NmeaSlot(nmea_head, i + 1)
<1>1. nmea_head \in 0..MaxBuf-1 /\ nmea_tail \in 0..MaxBuf-1 /\ MaxBuf \in Nat /\ MaxBuf >= 2
  BY SlotsAreSeveral DEF NmeaRing
<1>2. nmea_tail' = nmea_tail /\ nmea_head' = IF nmea_head + 1 = MaxBuf THEN 0 ELSE nmea_head + 1
  BY <1>1, NmeaModSucc DEF PopNmea
<1>3. nmea_head' \in 0..MaxBuf-1
  BY <1>1, <1>2
<1>4. /\ Between(nmea_head, nmea_tail) >= 1
      /\ Between(nmea_head', nmea_tail') = Between(nmea_head, nmea_tail) - 1
  BY <1>1, <1>2 DEF Between
<1>5. \A i \in 1..MaxBuf-1 : NmeaSlot(nmea_head', i) = NmeaSlot(nmea_head, i + 1)
  BY <1>1, <1>2 DEF NmeaSlot
<1>6. NmeaSlot(nmea_head, 1) = nmea_head
  BY <1>1 DEF NmeaSlot
<1>7. Between(nmea_head', nmea_tail') \in 0..MaxBuf-1
  BY <1>1, <1>2, <1>3, ModBetween
<1> QED
  BY <1>1, <1>2, <1>3, <1>4, <1>5, <1>6, <1>7

LEMMA NmeaPopped ==
  ASSUME NmeaSizes, NmeaInv, PopNmea, nmea_head # nmea_tail
  PROVE  NmeaInv' /\ NmeaFifo!Take
<1> DEFINE n == Between(nmea_head, nmea_tail)
           m == Between(nmea_head', nmea_tail')
           old == NmeaQueueOf(nmea_buf, nmea_head, n)
<1>1. NmeaRing /\ nmea_buf' = nmea_buf /\ nmea_out' = <<nmea_buf[nmea_head]>>
  BY DEF NmeaInv, NmeaTypeOK, NmeaRing, PopNmea
<1>2. /\ nmea_head' \in 0..MaxBuf-1 /\ nmea_tail' = nmea_tail /\ n >= 1 /\ m = n - 1
      /\ NmeaSlot(nmea_head, 1) = nmea_head
      /\ \A i \in 1..m : NmeaSlot(nmea_head', i) = NmeaSlot(nmea_head, i + 1)
  BY <1>1, PopPlaces
<1>3. QueuedNmea = old /\ old \in Seq(Sentences) /\ Len(old) = n /\ n \in 0..MaxBuf-1
  BY <1>1, NmeaQueuedIs, QueuedIsSeq
<1>4. NmeaRing'
  BY <1>1, <1>2 DEF NmeaRing
<1>5. QueuedNmea' = NmeaQueueOf(nmea_buf', nmea_head', m)
  <2>1. HeldNmea' = m /\ m \in 0..MaxBuf-1
    BY <1>4, ModBetween DEF HeldNmea, NmeaRing
  <2>2. ASSUME NEW i \in 1..m PROVE (nmea_head' + i - 1) % MaxBuf = NmeaSlot(nmea_head', i)
    BY <1>2, <2>1, NmeaModSlot, SlotsAreSeveral
  <2> QED
    BY <2>1, <2>2 DEF QueuedNmea, NmeaQueueOf
<1>6. ASSUME NEW i \in 1..n PROVE old[i] = nmea_buf[NmeaSlot(nmea_head, i)] /\ old[i] \in Sentences
  BY <1>6 DEF NmeaQueueOf, NmeaInv
<1>7. ASSUME NEW i \in 1..m PROVE i + 1 \in 1..n /\ nmea_buf'[NmeaSlot(nmea_head', i)] = old[i + 1]
  <2>1. i + 1 \in 1..n
    BY <1>2, <1>3, SlotsAreSeveral
  <2> QED
    BY <1>1, <1>2, <1>6, <2>1
<1>8. 1 \in 1..n
  BY <1>2, <1>3, SlotsAreSeveral
<1>9. nmea_out' = <<old[1]>> /\ old[1] \in Sentences
  BY <1>1, <1>2, <1>6, <1>8
<1>10. NmeaInv'
  <2>1. nmea_out' \in Seq(Sentences)
    BY <1>9
  <2>2. \A i \in 1..m : nmea_buf'[NmeaSlot(nmea_head', i)] \in Sentences
    BY <1>6, <1>7
  <2> QED
    BY <1>4, <2>1, <2>2 DEF NmeaInv, NmeaTypeOK, NmeaRing
<1>11. old # <<>> /\ Head(old) = old[1] /\ Tail(old) = [i \in 1..m |-> old[i + 1]]
  <2>1. n \in Nat /\ n >= 1 /\ m = n - 1
    BY <1>2, <1>3, SlotsAreSeveral
  <2>2. old = [i \in 1..n |-> old[i]]
    BY DEF NmeaQueueOf
  <2> HIDE DEF old, n, m
  <2>3. old # <<>> /\ Head(old) = old[1]
    BY <1>3, <2>1
  <2>4. Tail(old) = [i \in 1..n-1 |-> old[i + 1]]
    BY <1>3, <2>1, <2>2
  <2> QED
    BY <2>1, <2>3, <2>4
<1> HIDE DEF old, n, m
<1>12. QueuedNmea' = Tail(old)
  BY <1>5, <1>7, <1>11 DEF NmeaQueueOf
<1> QED
  BY <1>3, <1>9, <1>10, <1>11, <1>12 DEF NmeaFifo!Take

-----------------------------------------------------------------------------
LEMMA NmeaStep ==
  ASSUME NmeaSizes, NmeaInv, [NmeaNext]_nmeaVars
  PROVE  NmeaInv' /\ [NmeaFifo!FifoNext]_(NmeaFifo!fvars)
<1>1. CASE \E x \in Sentences : PushNmea(x)
  BY <1>1, Pushed DEF NmeaFifo!FifoNext
<1>2. CASE PushNmeaTooLong
  BY <1>2, Refused
<1>3. CASE PopNmea
  BY <1>3, NmeaMissed, NmeaPopped DEF NmeaFifo!FifoNext
<1>4. CASE UNCHANGED nmeaVars
  BY <1>4 DEF nmeaVars, NmeaInv, NmeaTypeOK, NmeaFifo!fvars, QueuedNmea, HeldNmea
<1> QED
  BY <1>1, <1>2, <1>3, <1>4 DEF NmeaNext

\* push() and pop() of ch_nmea are the operations of a first-in first-out queue of
\* one sentence less than the ring has slots, which gives up its oldest when it is
\* full and never hands out a string that was refused.
THEOREM NmeaIsFifo == NmeaSpec => NmeaImplementsFifo
<1> NmeaSizes
  BY NmeaAssumption
<1>1. NmeaInit => NmeaInv /\ NmeaFifo!FifoInit
  BY NmeaInvInit DEF NmeaInit, NmeaFifo!FifoInit
<1>2. NmeaInv /\ [NmeaNext]_nmeaVars => NmeaInv' /\ [NmeaFifo!FifoNext]_(NmeaFifo!fvars)
  BY NmeaStep
<1> QED
  BY <1>1, <1>2, PTL DEF NmeaSpec, NmeaImplementsFifo, NmeaFifo!FifoSpec
-------------------------------------------------------------------------------
(* The ring of blocks.                                                        *)

\* The place k elements behind place p, without the modulus.
Place(p, k) == IF p + k < Size THEN p + k ELSE p + k - Size

LEMMA ModPlace ==
  ASSUME RingSizes, NEW p \in Places, NEW k \in 0..Size
  PROVE  (p + k) % Size = Place(p, k) /\ Place(p, k) \in Places
  BY SMT DEF RingSizes, Places, Place

LEMMA PlaceAdds ==
  ASSUME RingSizes, NEW p \in Places, NEW j \in Nat, NEW k \in Nat, j + k <= Size
  PROVE  Place(Place(p, j), k) = Place(p, j + k)
  BY DEF RingSizes, Places, Place

\* How far place p is behind place q, without the modulus.
Behind(p, q) == IF p >= q THEN p - q ELSE p - q + Size

LEMMA ModBehind ==
  ASSUME RingSizes, NEW p \in Places, NEW q \in Places
  PROVE  (p - q) % Size = Behind(p, q) /\ Behind(p, q) \in 0..Size-1
  BY SMT DEF RingSizes, Places, Behind

\* The ring from head h as a sequence of n.
StreamOf(b, h, n) == [i \in 1..n |-> b[(h + i - 1) % Size]]

LEMMA StreamIs ==
  ASSUME RingSizes, NEW b \in [Places -> Elements], NEW h \in Places, NEW n \in 0..Size
  PROVE  /\ StreamOf(b, h, n) \in Seq(Elements)
         /\ Len(StreamOf(b, h, n)) = n
         /\ \A i \in 1..n : /\ StreamOf(b, h, n)[i] = b[Place(h, i - 1)]
                            /\ Place(h, i - 1) \in Places
<1>1. n \in Nat
  BY DEF RingSizes
<1>2. ASSUME NEW i \in 1..n
      PROVE  (h + i - 1) % Size = Place(h, i - 1) /\ Place(h, i - 1) \in Places
  <2>1. i - 1 \in 0..Size /\ h + i - 1 = h + (i - 1)
    BY DEF RingSizes, Places
  <2> QED
    BY <2>1, ModPlace
<1>3. StreamOf(b, h, n) \in [1..n -> Elements]
  BY <1>2 DEF StreamOf
<1> QED
  BY <1>1, <1>2, <1>3 DEF StreamOf

LEMMA RingTypeInit == RingSizes /\ RingInit => RingTypeOK /\ Stream!BoundedInit
<1> SUFFICES ASSUME RingSizes, RingInit PROVE RingTypeOK /\ Stream!BoundedInit
  OBVIOUS
<1>1. (0 + 0) % Size = 0 /\ 0 \in Places
  BY SMT DEF RingSizes, Places
<1> QED
  BY <1>1 DEF RingInit, RingTypeOK, Stream!BoundedInit, RingSizes

-----------------------------------------------------------------------------
(* write() *)

LEMMA Written ==
  ASSUME RingSizes, RingTypeOK, NEW k \in 1..Size+1, NEW s \in [1..k -> Elements], WriteRing(s)
  PROVE  RingTypeOK' /\ Stream!Write(k)
<1> DEFINE n == Least(Len(s), Room)
           old == StreamOf(ring_buf, ring_head, ring_num)
           new == StreamOf(ring_buf', ring_head', ring_num')
           sub == SubSeq(s, 1, n)
<1>1. s \in Seq(Elements) /\ Len(s) = k /\ k \in Nat /\ Size \in Nat /\ Size >= 1
  BY DEF RingSizes
<1>2. n \in 0..Size /\ n <= k /\ n <= Size - ring_num /\ ring_num \in 0..Size /\ ring_num + n \in 0..Size
  BY <1>1 DEF Least, Room, RingTypeOK
<1>3. ring_head \in Places /\ ring_tail \in Places /\ ring_tail = Place(ring_head, ring_num)
  BY ModPlace DEF RingTypeOK
<1>4. /\ ring_num' = ring_num + n /\ ring_head' = ring_head /\ moved' = n /\ got' = got
      /\ ring_tail' = (ring_tail + n) % Size
      /\ ring_buf' = [i \in Places |-> IF (i - ring_tail) % Size < n THEN s[((i - ring_tail) % Size) + 1]
                                      ELSE ring_buf[i]]
  BY DEF WriteRing
<1>5. ASSUME NEW p \in Places
      PROVE  /\ Behind(p, ring_tail) \in 0..Size-1
             /\ ring_buf'[p] = IF Behind(p, ring_tail) < n THEN s[Behind(p, ring_tail) + 1] ELSE ring_buf[p]
  BY <1>3, <1>4, ModBehind
<1>6. ring_buf' \in [Places -> Elements]
  <2>1. ASSUME NEW p \in Places, Behind(p, ring_tail) < n
        PROVE  s[Behind(p, ring_tail) + 1] \in Elements
    BY <1>1, <1>2, <1>5, <2>1
  <2>2. ring_buf' = [p \in Places |-> ring_buf'[p]]
    BY <1>4
  <2>3. ASSUME NEW p \in Places PROVE ring_buf'[p] \in Elements
    BY <1>5, <2>1 DEF RingTypeOK
  <2> QED
    BY <2>2, <2>3
<1>7. ring_tail' \in Places /\ ring_tail' = (ring_head' + ring_num') % Size
  <2>1. ring_tail' = Place(ring_tail, n) /\ ring_tail' \in Places
    BY <1>2, <1>3, <1>4, ModPlace
  <2>2. (ring_head' + ring_num') % Size = Place(ring_head, ring_num + n)
    BY <1>2, <1>3, <1>4, ModPlace
  <2>3. Place(ring_tail, n) = Place(ring_head, ring_num + n)
    BY <1>1, <1>2, <1>3, SMTT(30) DEF Place, Places
  <2> QED
    BY <2>1, <2>2, <2>3
<1>8. RingTypeOK'
  BY <1>2, <1>3, <1>4, <1>6, <1>7 DEF RingTypeOK
<1>9. /\ old \in Seq(Elements) /\ Len(old) = ring_num
      /\ \A i \in 1..ring_num : old[i] = ring_buf[Place(ring_head, i - 1)] /\ Place(ring_head, i - 1) \in Places
  BY <1>2, <1>3, StreamIs DEF RingTypeOK
<1>10. /\ new \in Seq(Elements) /\ Len(new) = ring_num + n
       /\ \A i \in 1..ring_num+n : new[i] = ring_buf'[Place(ring_head, i - 1)]
                                /\ Place(ring_head, i - 1) \in Places
  BY <1>2, <1>3, <1>4, <1>6, StreamIs
<1>11. sub \in Seq(Elements) /\ Len(sub) = n /\ \A i \in 1..n : sub[i] = s[i]
  BY <1>1, <1>2, SubSeqProperties
<1>12. ASSUME NEW i \in 1..ring_num+n PROVE new[i] = (old \o sub)[i]
  <2>1. i \in Nat /\ n \in Nat /\ ring_num \in Nat /\ i >= 1 /\ i <= ring_num + n
    BY <1>1, <1>2
  <2>2. new[i] = ring_buf'[Place(ring_head, i - 1)] /\ Place(ring_head, i - 1) \in Places
    BY <1>10
  <2>3. /\ Behind(Place(ring_head, i - 1), ring_tail) \in 0..Size-1
        /\ ring_buf'[Place(ring_head, i - 1)] =
             IF Behind(Place(ring_head, i - 1), ring_tail) < n
               THEN s[Behind(Place(ring_head, i - 1), ring_tail) + 1] ELSE ring_buf[Place(ring_head, i - 1)]
    BY <1>5, <2>2
  <2> HIDE DEF old, new, sub, n
  <2>4. (old \o sub)[i] = IF i <= ring_num THEN old[i] ELSE sub[i - ring_num]
    <3>1. i \in 1 .. Len(old) + Len(sub)
      BY <1>9, <1>11
    <3>2. (old \o sub)[i] = IF i <= Len(old) THEN old[i] ELSE sub[i - Len(old)]
      BY <1>9, <1>11, <3>1, ConcatProperties
    <3> QED
      BY <1>9, <3>2
  <2>5. CASE i <= ring_num
    <3>1. Behind(Place(ring_head, i - 1), ring_tail) >= n
      BY <1>1, <1>2, <1>3, <2>1, <2>5 DEF Behind, Place, Places
    <3>2. new[i] = ring_buf[Place(ring_head, i - 1)]
      BY <1>1, <2>1, <2>2, <2>3, <3>1
    <3>3. i \in 1..ring_num
      BY <2>1, <2>5
    <3> QED
      BY <1>9, <2>4, <2>5, <3>2, <3>3
  <2>6. CASE i > ring_num
    <3>1. Behind(Place(ring_head, i - 1), ring_tail) = i - 1 - ring_num
      BY <1>1, <1>2, <1>3, <2>1, <2>6 DEF Behind, Place, Places
    <3>2. i - 1 - ring_num < n /\ i - 1 - ring_num + 1 = i - ring_num /\ i - ring_num \in 1..n /\ ~(i <= ring_num)
      BY <2>1, <2>6
    <3>3. new[i] = s[i - ring_num]
      BY <2>2, <2>3, <3>1, <3>2
    <3> QED
      BY <1>11, <2>4, <3>2, <3>3
  <2>7. i <= ring_num \/ i > ring_num
    BY <2>1
  <2> QED
    BY <2>5, <2>6, <2>7, Zenon
<1>13. new = old \o sub
  <2>1. old \o sub \in Seq(Elements) /\ Len(old \o sub) = ring_num + n
    BY <1>9, <1>11, ConcatProperties
  <2> QED
    BY <1>10, <1>12, <2>1, SeqEqual
<1>14. moved' = Stream!AtMost(k, Size - Len(old))
  BY <1>1, <1>4, <1>9 DEF Stream!AtMost, Least, Room
<1>15. new = old \o SubSeq(s, 1, moved')
  BY <1>4, <1>13
<1> QED
  BY <1>4, <1>8, <1>14, <1>15 DEF Stream!Write, StreamOf

-----------------------------------------------------------------------------
(* read() *)

LEMMA HasRead ==
  ASSUME RingSizes, RingTypeOK, NEW len \in 1..Size+1, ReadRing(len)
  PROVE  RingTypeOK' /\ Stream!Read(len)
<1> DEFINE n == Least(len, ring_num)
           old == StreamOf(ring_buf, ring_head, ring_num)
           new == StreamOf(ring_buf', ring_head', ring_num')
           front == StreamOf(ring_buf, ring_head, n)
<1>1. Size \in Nat /\ Size >= 1 /\ len \in Nat
  BY DEF RingSizes
<1>2. ring_num \in 0..Size /\ n \in 0..Size /\ n <= ring_num /\ ring_num - n \in 0..Size
  BY <1>1 DEF Least, RingTypeOK
<1>3. ring_head \in Places /\ ring_buf \in [Places -> Elements]
  BY DEF RingTypeOK
<1>4. /\ ring_num' = ring_num - n /\ ring_buf' = ring_buf /\ ring_tail' = ring_tail /\ moved' = n
      /\ ring_head' = (ring_head + n) % Size /\ got' = front
  BY DEF ReadRing, StreamOf
<1>5. ring_head' = Place(ring_head, n) /\ ring_head' \in Places
  BY <1>2, <1>3, <1>4, ModPlace
<1>6. ring_tail' = (ring_head' + ring_num') % Size
  <2>1. ring_tail = Place(ring_head, ring_num)
    BY <1>2, <1>3, ModPlace DEF RingTypeOK
  <2>2. (ring_head' + ring_num') % Size = Place(ring_head', ring_num - n)
    BY <1>2, <1>4, <1>5, ModPlace
  <2>3. Place(ring_head', ring_num - n) = Place(ring_head, ring_num)
    <3>1. n \in Nat /\ ring_num - n \in Nat /\ n + (ring_num - n) = ring_num /\ ring_num <= Size
      BY <1>1, <1>2
    <3> QED
      BY <1>3, <1>5, <3>1, PlaceAdds
  <2> QED
    BY <1>4, <2>1, <2>2, <2>3
<1>7. /\ old \in Seq(Elements) /\ Len(old) = ring_num
      /\ \A i \in 1..ring_num : old[i] = ring_buf[Place(ring_head, i - 1)]
  BY <1>2, <1>3, StreamIs
<1>8. /\ new \in Seq(Elements) /\ Len(new) = ring_num - n
      /\ \A i \in 1..ring_num-n : new[i] = ring_buf[Place(ring_head', i - 1)]
  BY <1>2, <1>3, <1>4, <1>5, StreamIs
<1>9. /\ front \in Seq(Elements) /\ Len(front) = n
      /\ \A i \in 1..n : front[i] = ring_buf[Place(ring_head, i - 1)]
  BY <1>2, <1>3, StreamIs
<1>10. RingTypeOK'
  BY <1>2, <1>3, <1>4, <1>5, <1>6, <1>9 DEF RingTypeOK
<1> HIDE DEF old, new, front, n
<1>11. n \in Nat /\ ring_num \in Nat /\ n <= ring_num
  BY <1>1, <1>2
<1>12. front = SubSeq(old, 1, n)
  <2>1. \A i \in 1..n : i \in 1..ring_num /\ old[i] \in Elements /\ 1 + i - 1 = i
    BY <1>7, <1>11
  <2>2. /\ SubSeq(old, 1, n) \in Seq(Elements) /\ Len(SubSeq(old, 1, n)) = n
        /\ \A i \in 1..n : SubSeq(old, 1, n)[i] = old[i]
    BY <1>11, <2>1, SubSeqProperties
  <2> QED
    BY <1>7, <1>9, <2>1, <2>2, SeqEqual
<1>13. new = SubSeq(old, n + 1, ring_num)
  <2>1. \A i \in n+1..ring_num : old[i] \in Elements
    BY <1>7, <1>11
  <2>2. /\ SubSeq(old, n + 1, ring_num) \in Seq(Elements)
        /\ Len(SubSeq(old, n + 1, ring_num)) = ring_num - n
        /\ \A i \in 1..ring_num-n : SubSeq(old, n + 1, ring_num)[i] = old[n + i]
    <3>1. n + 1 \in Int /\ ring_num \in Int
      BY <1>11
    <3>2. /\ SubSeq(old, n + 1, ring_num) \in Seq(Elements)
          /\ Len(SubSeq(old, n + 1, ring_num)) =
               IF n + 1 <= ring_num THEN ring_num - (n + 1) + 1 ELSE 0
          /\ \A i \in 1 .. ring_num - (n + 1) + 1 :
               SubSeq(old, n + 1, ring_num)[i] = old[(n + 1) + i - 1]
      BY <2>1, <3>1, SubSeqProperties
    <3> QED
      BY <1>11, <3>2
  <2>3. ASSUME NEW i \in 1..ring_num-n PROVE new[i] = old[n + i]
    <3>1. /\ i - 1 \in Nat /\ n + (i - 1) = (n + i) - 1 /\ n + (i - 1) <= Size
          /\ n + i \in 1..ring_num
      BY <1>1, <1>2, <1>11
    <3>2. Place(ring_head', i - 1) = Place(ring_head, (n + i) - 1)
      BY <1>3, <1>5, <1>11, <3>1, PlaceAdds
    <3>3. old[n + i] = ring_buf[Place(ring_head, (n + i) - 1)]
      BY <1>7, <3>1
    <3> QED
      BY <1>8, <3>2, <3>3
  <2> QED
    BY <1>8, <2>2, <2>3, SeqEqual
<1>14. moved' = Stream!AtMost(len, Len(old))
  BY <1>4, <1>7 DEF Stream!AtMost, Least, n
<1> QED
  BY <1>4, <1>7, <1>10, <1>12, <1>13, <1>14 DEF Stream!Read, StreamOf, old, new

-----------------------------------------------------------------------------
LEMMA RingStep ==
  ASSUME RingSizes, RingTypeOK, [RingNext]_ringVars
  PROVE  RingTypeOK' /\ [Stream!BoundedNext]_(Stream!bvars)
<1>1. ASSUME NEW s \in Blocks, WriteRing(s) PROVE RingTypeOK' /\ Stream!BoundedNext
  <2>1. PICK k \in 1..Size+1 : s \in [1..k -> Elements]
    BY DEF Blocks
  <2>2. RingTypeOK' /\ Stream!Write(k)
    BY <1>1, <2>1, Written
  <2> QED
    BY <2>1, <2>2 DEF Stream!BoundedNext
<1>2. ASSUME NEW len \in 1..Size+1, ReadRing(len) PROVE RingTypeOK' /\ Stream!BoundedNext
  BY <1>2, HasRead DEF Stream!BoundedNext
<1>3. CASE UNCHANGED ringVars
  BY <1>3 DEF ringVars, RingTypeOK, Stream!bvars
<1> QED
  BY <1>1, <1>2, <1>3 DEF RingNext

\* write() and read() of ch_ring are the operations of a stream: what write() says it
\* has taken is handed out once and in order, wherever the ring wraps.
THEOREM RingIsStream == RingSpec => RingImplementsStream
<1> RingSizes
  BY RingAssumption
<1>1. RingInit => RingTypeOK /\ Stream!BoundedInit
  BY RingTypeInit
<1>2. RingTypeOK /\ [RingNext]_ringVars => RingTypeOK' /\ [Stream!BoundedNext]_(Stream!bvars)
  BY RingStep
<1> QED
  BY <1>1, <1>2, PTL DEF RingSpec, RingImplementsStream, Stream!BoundedSpec

-------------------------------------------------------------------------------
Flags == Data \union {"AIS"}
AisObject == [m_dtype : SUBSET Flags, from : [Data -> Nat], born : Nat, m_t : Nat]

-------------------------------------------------------------------------------
(* One object.                                                             *)

TargetInv == target \in [m_dtype : SUBSET Data, from : [Data -> Nat]] /\ FlaggedIsComputed

\* What keeps the target's promise: a datum put, dropped or converted from a
\* flagged one.
Good(o) ==
  /\ o \in [m_dtype : SUBSET Data, from : [Data -> Nat]]
  /\ \A d \in o.m_dtype \ {"TDCPA"} : o.from[d] # Unset

LEMMA PutIsGood ==
  ASSUME NEW x, Good(x), NEW d, d \in Data, NEW s, s \in Nat, s # Unset \/ d = "TDCPA"
  PROVE  Good(Put(x, d, s))
BY DEF Put, Good

LEMMA DropIsGood ==
  ASSUME NEW x, Good(x), NEW ds
  PROVE  Good(Drop(x, ds))
BY DEF Drop, Good

LEMMA ConvertIsGood ==
  ASSUME NEW x, Good(x), NEW d, d \in Data \ {"TDCPA"}, d \in x.m_dtype, NEW e, e \in Data
  PROVE  Good(Convert(x, d, e))
<1>1. x.from[d] \in Nat /\ x.from[d] # Unset
  BY DEF Good
<1> QED
  BY <1>1, PutIsGood DEF Convert

LEMMA TargetNext ==
  ASSUME TargetInv, ObjectNext
  PROVE  TargetInv'
<1>1. Good(target)
  BY DEF TargetInv, FlaggedIsComputed, Good
<1>2. 1 \in Nat /\ 1 # Unset /\ Data = {"POS_BLH", "VEL_BLH", "POS_ECEF", "VEL_ECEF", "POS_REL", "VEL_REL",
                                       "ATTD", "POS_BD", "TDCPA"}
  BY DEF Unset, Data
<1>3. CASE SetByCaller
  <2>1. Good(set_vel_blh(set_pos_blh(target, 1), 1))
    BY <1>1, <1>2, PutIsGood DEF set_vel_blh, set_pos_blh
  <2>2. Good(set_vel_ecef(set_pos_ecef(target, 1), 1))
    BY <1>1, <1>2, PutIsGood DEF set_vel_ecef, set_pos_ecef
  <2>3. Good(set_vel_rel(set_pos_rel(target, 1), 1))
    BY <1>1, <1>2, PutIsGood DEF set_vel_rel, set_pos_rel
  <2>4. Good(set_att(target, 1))
    BY <1>1, <1>2, PutIsGood DEF set_att
  <2>5. Good(set_pos_bd(target, 1))
    BY <1>1, <1>2, PutIsGood, DropIsGood DEF set_pos_bd
  <2>6. Good(target')
    BY <1>3, <2>1, <2>2, <2>3, <2>4, <2>5 DEF SetByCaller
  <2> QED
    BY <2>6 DEF Good, TargetInv, FlaggedIsComputed
<1>4. CASE Derive
  <2>1. Good(set_ecef_from_rel(target)) /\ Good(set_pos_rel_from_ecef(target))
        /\ Good(set_vel_rel_from_ecef(target)) /\ Good(set_vel_rel_from_blh(target))
    BY <1>1, <1>2, ConvertIsGood
       DEF set_ecef_from_rel, set_pos_rel_from_ecef, set_vel_rel_from_ecef, set_vel_rel_from_blh, Has
  <2>2. Good(calc_tdcpa(target))
    <3>1. CASE ~Has(target, "POS_REL")
      BY <1>1, <3>1 DEF calc_tdcpa
    <3>2. CASE Has(target, "POS_REL")
      <4> DEFINE b == IF Has(target, "POS_BD") THEN target ELSE Convert(target, "POS_REL", "POS_BD")
                 s == Older(b.from["POS_REL"], b.from["VEL_REL"])
      <4>1. Good(b)
        BY <1>1, <1>2, <3>2, ConvertIsGood DEF Has
      <4> HIDE DEF b
      <4>2. s \in Nat
        BY <1>2, <4>1 DEF Good, Older
      <4>3. calc_tdcpa(target) = Put(b, "TDCPA", s)
        BY <3>2 DEF calc_tdcpa, b
      <4> HIDE DEF s
      <4> QED
        BY <1>2, <4>1, <4>2, <4>3, PutIsGood
    <3> QED
      BY <3>1, <3>2
  <2>3. Good(target')
    BY <1>4, <2>1, <2>2 DEF Derive
  <2> QED
    BY <2>3 DEF Good, TargetInv, FlaggedIsComputed
<1>5. CASE DeriveKnown
  <2>1. Good(target')
    BY <1>1, <1>2, <1>5, ConvertIsGood
       DEF DeriveKnown, Has, set_blh_from_ecef, set_ecef_from_blh, set_vel_ecef_from_blh,
           set_pos_rel_from_bd, set_pos_bd_from_rel
  <2> QED
    BY <2>1 DEF Good, TargetInv, FlaggedIsComputed
<1>6. CASE ResetByCaller
  <2>1. Good(target')
    BY <1>1, <1>6, DropIsGood
       DEF ResetByCaller, reset_blh, reset_ecef, reset_rel, reset_att, reset_bd, reset_tdcpa
  <2> QED
    BY <2>1 DEF Good, TargetInv, FlaggedIsComputed
<1> QED
  BY <1>3, <1>4, <1>5, <1>6 DEF ObjectNext

\* No conversion of c_obj flags a datum that was not computed from one a caller set.
THEOREM FlagsAreComputed == ObjectSpec => []FlaggedIsComputed
<1>1. ObjectInit => TargetInv
  BY DEF ObjectInit, TargetInv, NewObject, FlaggedIsComputed, Unset
<1>2. TargetInv /\ [ObjectNext]_target => TargetInv'
  <2>1. TargetInv /\ UNCHANGED target => TargetInv'
    BY DEF TargetInv, FlaggedIsComputed
  <2> QED
    BY <2>1, TargetNext
<1>3. TargetInv => FlaggedIsComputed
  BY DEF TargetInv
<1> QED
  BY <1>1, <1>2, <1>3, PTL DEF ObjectSpec
-------------------------------------------------------------------------------
(* The objects of the channel, each of its ship's last report.             *)

Mmsis == 0..MaxMmsi
LogRecord == [t : Nat, mmsi : Mmsis, of : Nat]
Report == [mmsi : Ships, far : BOOLEAN, late : BOOLEAN]

ObjectsTyped == DOMAIN objs \subseteq Mmsis /\ objs \in [DOMAIN objs -> AisObject]
AisTypeOK ==
  /\ ObjectsTyped /\ updates \in Seq(Nat \X Mmsis)
  /\ ais_tfile \in Nat /\ ais_pf \in Seq(LogRecord) /\ ais_pos \in Nat
  /\ held \in {"free", "walk", "read"} /\ seen \in Seq(Mmsis)
  /\ reading \in [until : Nat, t : Nat, mmsi : Mmsis, of : Nat]
  /\ reports \in Seq(Report) /\ Len(reports) <= MaxReports
  /\ ais_replay \in BOOLEAN /\ (held = "read" => ais_replay)

\* Everything the object says it has is of report n.
Constant == {"AIS", "ATTD", "POS_BLH", "VEL_BLH", "POS_ECEF"}
OfReport(o, n) ==
  /\ Constant \subseteq o.m_dtype
  /\ \A d \in o.m_dtype \ {"AIS"} : o.from[d] = n
  /\ "POS_REL" \in o.m_dtype => "VEL_REL" \in o.m_dtype

\* IsLastReport, of the reports rs.
LastOf(rs, i, m) ==
  i \in DOMAIN rs /\ rs[i].mmsi = m /\ \A j \in DOMAIN rs : j > i => rs[j].mmsi # m

ObjectsAreOfLast ==
  ~ais_replay =>
    \A m \in DOMAIN objs : LastOf(reports, objs[m].from["ATTD"], m) /\ OfReport(objs[m], objs[m].from["ATTD"])

\* A walk has visited the objects before the cursor.
WalkVisits ==
  held = "walk" => Enumerates(seen, {m \in DOMAIN objs : m < ais_itr})

\* Report n of ship m is in the log pf.
IsLogged(pf, m, n) == \E i \in DOMAIN pf : pf[i].mmsi = m /\ pf[i].of = n

\* A ship's last report, unless it came late, is newer than the log or in it.
LogKeeps ==
  ~ais_replay =>
    \A m \in DOMAIN objs : ~reports[objs[m].from["ATTD"]].late =>
      objs[m].m_t > ais_tfile \/ IsLogged(ais_pf, m, objs[m].from["ATTD"])

AisInv ==
  /\ AisTypeOK /\ ObjectsAreOfLast /\ NoDeadPointer /\ NoUpdateLost /\ WalkVisits /\ LogKeeps

\* After a report an object has its position and velocity, of the report.
LEMMA UpdateKeeps ==
  ASSUME NEW x, x \in AisObject, NEW t, t \in Nat, NEW n, n \in Nat, NEW v, v \in Nat
  PROVE  update(x, t, n, v) \in AisObject
BY ZenonT(30) DEF update, set_pos_blh, set_vel_blh, reset_ecef, reset_rel, Put, Drop, AisObject, Flags, Data

LEMMA UpdateIs ==
  ASSUME NEW x, x \in AisObject, NEW t, NEW n, NEW v
  PROVE  /\ update(x, t, n, v).born = x.born /\ update(x, t, n, v).m_t = t
         /\ update(x, t, n, v).m_dtype = {"AIS", "ATTD", "POS_BLH", "VEL_BLH"}
         /\ update(x, t, n, v).from["ATTD"] = n /\ update(x, t, n, v).from["VEL_BLH"] = n
         /\ update(x, t, n, v).from["POS_BLH"] = v
BY ZenonT(30) DEF update, set_pos_blh, set_vel_blh, reset_ecef, reset_rel, Put, Drop, AisObject, Flags, Data

LEMMA NewAisIs ==
  ASSUME NEW b, b \in Nat, NEW t, t \in Nat, NEW n, n \in Nat, NEW v, v \in Nat
  PROVE  /\ NewAis(b, t, n, v) \in AisObject /\ NewAis(b, t, n, v).m_t = t
         /\ NewAis(b, t, n, v).m_dtype = {"AIS", "ATTD", "POS_BLH", "VEL_BLH"}
         /\ NewAis(b, t, n, v).from["ATTD"] = n /\ NewAis(b, t, n, v).from["VEL_BLH"] = n
         /\ NewAis(b, t, n, v).from["POS_BLH"] = v
<1> DEFINE x == [m_dtype |-> {}, from |-> NewObject.from, born |-> b, m_t |-> 0]
<1>1. x \in AisObject
  BY DEF AisObject, NewObject, Unset
<1> HIDE DEF x
<1>2. NewAis(b, t, n, v) = update(x, t, n, v)
  BY DEF NewAis, x
<1>3. update(x, t, n, v) \in AisObject
  BY <1>1, UpdateKeeps
<1> QED
  BY <1>1, <1>2, <1>3, UpdateIs

\* Then its position is taken to the earth's coordinates.
LEMMA ReportedIs ==
  ASSUME NEW x, x \in AisObject, NEW n, n \in Nat,
         x.m_dtype = {"AIS", "ATTD", "POS_BLH", "VEL_BLH"},
         x.from["ATTD"] = n, x.from["VEL_BLH"] = n
  PROVE  /\ set_ecef_from_blh(x) \in AisObject /\ set_ecef_from_blh(x).born = x.born
         /\ set_ecef_from_blh(x).m_t = x.m_t
         /\ x.from["POS_BLH"] = n => OfReport(set_ecef_from_blh(x), n)
<1>1. /\ set_ecef_from_blh(x) \in AisObject /\ set_ecef_from_blh(x).born = x.born
         /\ set_ecef_from_blh(x).m_t = x.m_t
  BY DEF set_ecef_from_blh, Convert, Put, AisObject, Flags, Data
<1>2. x.from["POS_BLH"] = n => OfReport(set_ecef_from_blh(x), n)
  BY DEF set_ecef_from_blh, Convert, Put, AisObject, Flags, Data, OfReport, Constant
<1> QED
  BY <1>1, <1>2

\* A conversion hands the report on.
LEMMA ConvertIs ==
  ASSUME NEW x, x \in AisObject, NEW n, OfReport(x, n), NEW d, d \in Data, d \in x.m_dtype, NEW e, e \in Data,
         e = "POS_REL" => "VEL_REL" \in x.m_dtype
  PROVE  /\ Convert(x, d, e) \in AisObject /\ OfReport(Convert(x, d, e), n)
         /\ Convert(x, d, e).m_dtype = x.m_dtype \union {e} /\ Convert(x, d, e).born = x.born
<1>1. /\ Convert(x, d, e) \in AisObject 
         /\ Convert(x, d, e).m_dtype = x.m_dtype \union {e} /\ Convert(x, d, e).born = x.born
  BY DEF Convert, Put, AisObject, Flags, Data
<1>2. OfReport(Convert(x, d, e), n)
  BY DEF Convert, Put, AisObject, Flags, Data, OfReport, Constant
<1> QED
  BY <1>1, <1>2

\* An object of whatever report stays one, of the same time.
LEMMA PutKeeps ==
  ASSUME NEW x, x \in AisObject, NEW d, d \in Data, NEW v, v \in Nat
  PROVE  Put(x, d, v) \in AisObject /\ Put(x, d, v).born = x.born /\ Put(x, d, v).m_t = x.m_t
BY DEF Put, AisObject, Flags

LEMMA ConvertKeeps ==
  ASSUME NEW x, x \in AisObject, NEW d, d \in Data, NEW e, e \in Data
  PROVE  Convert(x, d, e) \in AisObject /\ Convert(x, d, e).born = x.born /\ Convert(x, d, e).m_t = x.m_t
<1>1. x.from[d] \in Nat
  BY DEF AisObject
<1> QED
  BY <1>1, PutKeeps DEF Convert

LEMMA LocatedKeeps ==
  ASSUME NEW x, x \in AisObject
  PROVE  Located(x) \in AisObject /\ Located(x).born = x.born /\ Located(x).m_t = x.m_t
<1> DEFINE p == set_pos_rel_from_ecef(x)
           q == set_vel_ecef_from_blh(p)
           r == set_vel_rel_from_blh(q)
<1>1. p \in AisObject /\ p.born = x.born /\ p.m_t = x.m_t
  BY ConvertKeeps DEF set_pos_rel_from_ecef, Data
<1> HIDE DEF p
<1>2. q \in AisObject /\ q.born = x.born /\ q.m_t = x.m_t
  BY <1>1, ConvertKeeps DEF set_vel_ecef_from_blh, Data
<1> HIDE DEF q
<1>3. r \in AisObject /\ r.born = x.born /\ r.m_t = x.m_t
  BY <1>2, ConvertKeeps DEF set_vel_rel_from_blh, Data
<1> HIDE DEF r
<1>4. Located(x) = Convert(r, "POS_REL", "POS_BD")
  BY DEF Located, set_pos_bd_from_rel, p, q, r
<1> QED
  BY <1>3, <1>4, ConvertKeeps DEF Data

LEMMA ApproachKeeps ==
  ASSUME NEW x, x \in AisObject
  PROVE  calc_tdcpa(x) \in AisObject /\ calc_tdcpa(x).born = x.born /\ calc_tdcpa(x).m_t = x.m_t
<1> DEFINE b == IF Has(x, "POS_BD") THEN x ELSE Convert(x, "POS_REL", "POS_BD")
           v == Older(b.from["POS_REL"], b.from["VEL_REL"])
<1>1. b \in AisObject /\ b.born = x.born /\ b.m_t = x.m_t
  BY ConvertKeeps DEF Data
<1> HIDE DEF b
<1>2. v \in Nat
  BY <1>1 DEF AisObject, Data, Older
<1> HIDE DEF v
<1>3. calc_tdcpa(x) = x \/ calc_tdcpa(x) = Put(b, "TDCPA", v)
  BY DEF calc_tdcpa, b, v
<1> QED
  BY <1>1, <1>2, <1>3, PutKeeps DEF Data

\* The relative coordinates and the closest approach are of the same report.
LEMMA LocatedIs ==
  ASSUME NEW x, x \in AisObject, NEW n, OfReport(x, n)
  PROVE  Located(x) \in AisObject /\ OfReport(Located(x), n) /\ Located(x).born = x.born
<1> DEFINE p == Convert(x, "POS_ECEF", "POS_REL")
           q == Convert(p, "VEL_BLH", "VEL_ECEF")
           r == Convert(q, "VEL_BLH", "VEL_REL")
           u == Convert(r, "POS_REL", "POS_BD")
<1>1. x.from["POS_ECEF"] = n /\ n \in Nat /\ Constant \subseteq x.m_dtype
  BY DEF OfReport, AisObject, Constant, Data
<1>2. /\ p \in AisObject /\ p.born = x.born /\ p.m_dtype = x.m_dtype \union {"POS_REL"}
      /\ \A d \in p.m_dtype \ {"AIS"} : p.from[d] = n
  BY <1>1 DEF Convert, Put, AisObject, Flags, Data, OfReport, Constant
<1> HIDE DEF p
<1>3. /\ q \in AisObject /\ q.born = x.born
      /\ q.m_dtype = x.m_dtype \union {"POS_REL", "VEL_ECEF"}
      /\ \A d \in q.m_dtype \ {"AIS"} : q.from[d] = n
  BY <1>1, <1>2 DEF Convert, Put, AisObject, Flags, Data, Constant
<1> HIDE DEF q
<1>4. /\ r \in AisObject /\ r.born = x.born
      /\ r.m_dtype = x.m_dtype \union {"POS_REL", "VEL_ECEF", "VEL_REL"}
      /\ \A d \in r.m_dtype \ {"AIS"} : r.from[d] = n
  BY <1>1, <1>3 DEF Convert, Put, AisObject, Flags, Data, Constant
<1> HIDE DEF r
<1>5. OfReport(r, n) /\ "POS_REL" \in r.m_dtype /\ "VEL_REL" \in r.m_dtype
  BY <1>1, <1>4 DEF OfReport, Constant
<1>6. u \in AisObject /\ OfReport(u, n) /\ u.born = x.born
  BY <1>4, <1>5, ConvertIs DEF Data
<1> HIDE DEF u
<1>7. Located(x) = u
  <2>1. set_pos_rel_from_ecef(x) = p
    BY <1>1 DEF set_pos_rel_from_ecef, Has, Constant, p
  <2>2. set_vel_ecef_from_blh(p) = q
    BY <1>1, <1>2 DEF set_vel_ecef_from_blh, Has, Constant, q
  <2>3. set_vel_rel_from_blh(q) = r
    BY <1>1, <1>3 DEF set_vel_rel_from_blh, Has, Constant, r
  <2> QED
    BY <2>1, <2>2, <2>3 DEF Located, set_pos_bd_from_rel, u
<1> QED
  BY <1>6, <1>7

LEMMA ApproachIs ==
  ASSUME NEW x, x \in AisObject, NEW n, OfReport(x, n)
  PROVE  calc_tdcpa(x) \in AisObject /\ OfReport(calc_tdcpa(x), n) /\ calc_tdcpa(x).born = x.born
<1>1. CASE ~Has(x, "POS_REL")
  BY <1>1 DEF calc_tdcpa
<1>2. CASE Has(x, "POS_REL")
  <2> DEFINE b == IF Has(x, "POS_BD") THEN x ELSE Convert(x, "POS_REL", "POS_BD")
             s == Older(b.from["POS_REL"], b.from["VEL_REL"])
  <2>1. b \in AisObject /\ OfReport(b, n) /\ b.born = x.born /\ x.m_dtype \subseteq b.m_dtype
    BY <1>2, ConvertIs DEF Has, Data
  <2> HIDE DEF b
  <2>2. s = n /\ n \in Nat
    BY <1>2, <2>1 DEF Has, OfReport, Older, AisObject, Data
  <2>3. calc_tdcpa(x) = Put(b, "TDCPA", s)
    BY <1>2 DEF calc_tdcpa, b
  <2> HIDE DEF s
  <2>4. Put(b, "TDCPA", n) \in AisObject /\ Put(b, "TDCPA", n).born = b.born
    BY <2>1, <2>2 DEF Put, AisObject, Flags, Data
  <2>5. OfReport(Put(b, "TDCPA", n), n)
    BY <2>1, <2>2 DEF Put, AisObject, Flags, Data, OfReport, Constant
  <2> QED
    BY <2>1, <2>2, <2>3, <2>4, <2>5
<1> QED
  BY <1>1, <1>2
-------------------------------------------------------------------------------
(* The channel: an object entered, objects recomputed, objects removed.    *)

LEMMA MmsisAre ==
  /\ MaxMmsi \in Nat /\ MaxReports \in Nat /\ Ships \subseteq Mmsis
  /\ NoShip \in Mmsis /\ NoObject \in Nat /\ NoObject \notin Mmsis
  /\ \A m \in Mmsis : m \in Nat /\ m < NoObject
BY ShipsAssumption DEF Mmsis, NoShip, NoObject

LEMMA ObjectsAre ==
  ASSUME ObjectsTyped
  PROVE  \A m \in DOMAIN objs : objs[m] \in AisObject /\ m \in Mmsis
BY DEF ObjectsTyped

\* The object entered takes its place among the others and in the list.
LEMMA EnterKeeps ==
  ASSUME AisTypeOK, NoDeadPointer, NoUpdateLost, NEW m, m \in Mmsis, NEW x, x \in AisObject,
         m \in DOMAIN objs => x.born = objs[m].born, Enter(m, x)
  PROVE  /\ ObjectsTyped' /\ DOMAIN objs' = DOMAIN objs \union {m} /\ objs'[m] = x
         /\ \A k \in DOMAIN objs : k # m => objs'[k] = objs[k]
         /\ updates' \in Seq(Nat \X Mmsis) /\ NoDeadPointer' /\ NoUpdateLost'
<1>1. /\ objs' = [k \in DOMAIN objs \union {m} |-> IF k = m THEN x ELSE objs[k]]
      /\ updates' = Append(updates, <<x.born, m>>)
      /\ ais_itr' = (IF m \in DOMAIN objs THEN m ELSE NoObject)
      /\ owed' = owed \union {m}
  BY DEF Enter, Lists
<1>2. DOMAIN objs' = DOMAIN objs \union {m} /\ objs'[m] = x /\ \A k \in DOMAIN objs : k # m => objs'[k] = objs[k]
  BY <1>1
<1>3. ObjectsTyped'
  BY <1>1, ObjectsAre DEF ObjectsTyped, AisTypeOK
<1>4. updates \in Seq(Nat \X Mmsis) /\ <<x.born, m>> \in Nat \X Mmsis
  BY DEF AisTypeOK, AisObject
<1>5. /\ updates' \in Seq(Nat \X Mmsis) /\ DOMAIN updates' = DOMAIN updates \union {Len(updates) + 1}
      /\ updates'[Len(updates) + 1] = <<x.born, m>> /\ \A i \in DOMAIN updates : updates'[i] = updates[i]
  BY <1>1, <1>4
<1>6. NoDeadPointer'
  <2>1. ais_itr' \in DOMAIN objs' \union {NoObject}
    BY <1>1, <1>2
  <2>2. ASSUME NEW i \in DOMAIN updates
        PROVE  updates'[i][2] \in DOMAIN objs' /\ updates'[i] = <<objs'[updates'[i][2]].born, updates'[i][2]>>
    BY <1>2, <1>5 DEF NoDeadPointer, Pointer
  <2>3. \A i \in DOMAIN updates' : i \in DOMAIN updates \/ i = Len(updates) + 1
    BY <1>5
  <2> QED
    BY <1>2, <1>5, <2>1, <2>2, <2>3 DEF NoDeadPointer, Pointer
<1>7. NoUpdateLost'
  <2> SUFFICES ASSUME NEW k \in owed'  PROVE  \E i \in DOMAIN updates' : k = updates'[i][2]
    BY DEF NoUpdateLost
  <2>1. CASE k = m
    BY <1>5, <2>1
  <2>2. CASE k \in owed
    BY <1>5, <2>2 DEF NoUpdateLost
  <2> QED
    BY <1>1, <2>1, <2>2
<1> QED
  BY <1>2, <1>3, <1>5, <1>6, <1>7

\* All objects are recomputed in place.
LEMMA RecomputedKeeps ==
  ASSUME AisTypeOK, NoDeadPointer, NoUpdateLost, DOMAIN objs' = DOMAIN objs, objs' \in [DOMAIN objs -> AisObject],
         \A m \in DOMAIN objs : objs'[m].born = objs[m].born,
         ais_itr' = NoObject, UNCHANGED <<updates, owed>>
  PROVE  ObjectsTyped' /\ NoDeadPointer' /\ NoUpdateLost'
<1>1. ObjectsTyped'
  BY DEF ObjectsTyped, AisTypeOK
<1>2. NoDeadPointer'
  <2>1. \A i \in DOMAIN updates : updates[i][2] \in DOMAIN objs
                                  /\ updates[i] = <<objs[updates[i][2]].born, updates[i][2]>>
    BY DEF NoDeadPointer, Pointer
  <2>2. updates' = updates /\ ais_itr' \in DOMAIN objs' \union {NoObject}
    OBVIOUS
  <2> QED
    BY <2>1, <2>2 DEF NoDeadPointer, Pointer
<1>3. NoUpdateLost'
  BY DEF NoUpdateLost
<1> QED
  BY <1>1, <1>2, <1>3

LEMMA RemoveKeeps ==
  ASSUME AisTypeOK, NoDeadPointer, NoUpdateLost, NEW ms, ms \subseteq DOMAIN objs, RemoveShips(ms)
  PROVE  /\ ObjectsTyped' /\ DOMAIN objs' = DOMAIN objs \ ms
         /\ \A k \in DOMAIN objs' : objs'[k] = objs[k]
         /\ updates' \in Seq(Nat \X Mmsis) /\ NoDeadPointer' /\ NoUpdateLost'
         /\ UNCHANGED <<ais_tfile, ais_pf, ais_pos, held, seen, reading, reports, ais_replay>>
<1> DEFINE L == Listed(ms)
<1>1. /\ objs' = [m \in DOMAIN objs \ ms |-> objs[m]]
      /\ owed' = owed \ ms /\ ais_itr' = NoObject
      /\ UNCHANGED <<ais_tfile, ais_pf, ais_pos, held, seen, reading, reports, ais_replay>>
  BY DEF RemoveShips, Removed
<1>2. PICK is \in Enumerations(L) : updates' = [k \in DOMAIN is |-> updates[is[k]]]
  BY DEF RemoveShips, Removed
<1>3. L \subseteq DOMAIN updates /\ \A i \in DOMAIN updates : i \in L <=> updates[i] \notin {Pointer(m) : m \in ms}
  BY DEF Listed
<1> HIDE DEF L
<1>4. Cardinality(L) \in Nat
  <2>1. DOMAIN updates = 1..Len(updates) /\ Len(updates) \in Nat
    BY DEF AisTypeOK
  <2>2. IsFiniteSet(1..Len(updates))
    BY <2>1, FS_Interval
  <2>3. IsFiniteSet(L)
    BY <1>3, <2>1, <2>2, FS_Subset
  <2> QED
    BY <2>3, FS_CardinalityType
<1>5. /\ is \in [1..Cardinality(L) -> L] /\ \A i \in L : \E k \in DOMAIN is : is[k] = i
  BY <1>2 DEF Enumerations, Enumerates
<1>6. DOMAIN updates' = 1..Cardinality(L) /\ \A k \in DOMAIN updates' : is[k] \in L /\ updates'[k] = updates[is[k]]
  BY <1>2, <1>5
<1>7. \A i \in DOMAIN updates : updates[i] \in Nat \X Mmsis
  BY DEF AisTypeOK
<1>8. updates' \in Seq(Nat \X Mmsis)
  BY <1>2, <1>3, <1>4, <1>5, <1>6, <1>7
<1>9. DOMAIN objs' = DOMAIN objs \ ms /\ \A k \in DOMAIN objs' : objs'[k] = objs[k]
  BY <1>1
<1>10. ObjectsTyped'
  BY <1>1, ObjectsAre DEF ObjectsTyped, AisTypeOK
<1>11. NoDeadPointer'
  <2>1. ASSUME NEW i \in L
        PROVE  updates[i][2] \in DOMAIN objs' /\ updates[i] = <<objs'[updates[i][2]].born, updates[i][2]>>
    <3>1. updates[i][2] \in DOMAIN objs /\ updates[i] = Pointer(updates[i][2])
      BY <1>3 DEF NoDeadPointer
    <3>2. updates[i][2] \notin ms
      BY <1>3, <3>1
    <3> QED
      BY <1>9, <3>1, <3>2 DEF Pointer
  <2> QED
    BY <1>1, <1>6, <2>1, ZenonT(30) DEF NoDeadPointer, Pointer
<1>12. NoUpdateLost'
  <2> SUFFICES ASSUME NEW m \in owed \ ms  PROVE  \E k \in DOMAIN updates' : m = updates'[k][2]
    BY <1>1 DEF NoUpdateLost
  <2>1. PICK i \in DOMAIN updates : m = updates[i][2]
    BY DEF NoUpdateLost
  <2>2. i \in L
    <3>1. ASSUME NEW k \in ms  PROVE  updates[i] # Pointer(k)
      BY <2>1 DEF Pointer
    <3> QED
      BY <1>3, <3>1
  <2> QED
    BY <1>5, <1>6, <2>1, <2>2
<1> QED
  BY <1>1, <1>8, <1>9, <1>10, <1>11, <1>12
-------------------------------------------------------------------------------
(* The actions.                                                            *)

\* A new report of ship m is its last one.
LEMMA NewReport ==
  ASSUME NEW rs, rs \in Seq(Report), NEW r, r \in Report, NEW ss, ss = Append(rs, r), NEW n, n = Len(rs) + 1
  PROVE  /\ Len(ss) = n /\ ss \in Seq(Report) /\ LastOf(ss, n, r.mmsi)
         /\ \A k, i : k # r.mmsi /\ LastOf(rs, i, k) => LastOf(ss, i, k)
<1>1. /\ Len(ss) = n /\ n \in Nat /\ ss \in Seq(Report)
      /\ DOMAIN rs = 1..(n - 1) /\ DOMAIN ss = 1..n
      /\ ss[n] = r /\ \A i \in DOMAIN rs : ss[i] = rs[i]
  OBVIOUS
<1>2. LastOf(ss, n, r.mmsi)
  BY <1>1 DEF LastOf
<1>3. ASSUME NEW k, NEW i, k # r.mmsi, LastOf(rs, i, k)
      PROVE  LastOf(ss, i, k)
  <2>1. i \in DOMAIN ss /\ ss[i].mmsi = k
    BY <1>1, <1>3 DEF LastOf
  <2>2. ASSUME NEW j \in DOMAIN ss, j > i
        PROVE  ss[j].mmsi # k
    <3>1. CASE j \in DOMAIN rs
      BY <1>1, <1>3, <2>2, <3>1 DEF LastOf
    <3>2. CASE j = n
      BY <1>1, <1>3, <3>2
    <3> QED
      BY <1>1, <3>1, <3>2
  <2> QED
    BY <2>1, <2>2 DEF LastOf
<1> QED
  BY <1>1, <1>2, <1>3

LEMMA PushKeeps ==
  ASSUME AisInv, push_ais
  PROVE  AisInv'
<1>1. PICK m \in Ships, far \in BOOLEAN, t \in Stamps : TakeReport(m, far, t)
  BY DEF push_ais
<1>0. PICK n \in Nat : n = Len(reports) + 1
  BY DEF AisInv, AisTypeOK
<1> DEFINE x == set_ecef_from_blh(IF m \in DOMAIN objs THEN update(objs[m], t, n, n) ELSE NewAis(n, t, n, n))
           r == [mmsi |-> m, far |-> far, late |-> t <= ais_tfile]
<1>2. /\ reports' = Append(reports, r) /\ Enter(m, x) /\ ~ais_replay /\ held = "free" /\ Len(reports) < MaxReports
      /\ UNCHANGED <<ais_tfile, ais_pf, ais_pos, held, seen, reading, ais_replay>>
  BY <1>1, <1>0 DEF TakeReport, push_ais
<1>3. n \in Nat /\ m \in Mmsis /\ t \in Nat /\ r \in Report /\ r.mmsi = m /\ (r.late <=> t <= ais_tfile)
  <2>1. m \in Mmsis /\ t \in Nat
    BY MmsisAre, ShipsAssumption
  <2>2. (t <= ais_tfile) \in BOOLEAN
    OBVIOUS
  <2>3. r \in Report /\ r.mmsi = m /\ (r.late <=> t <= ais_tfile)
    BY <2>2, Zenon DEF Report
  <2> QED
    BY <2>1, <2>3
<1>4. x \in AisObject /\ OfReport(x, n) /\ x.m_t = t /\ (m \in DOMAIN objs => x.born = objs[m].born)
  <2>1. CASE m \in DOMAIN objs
    <3> DEFINE o == update(objs[m], t, n, n)
    <3>1. objs[m] \in AisObject
      BY <2>1, ObjectsAre DEF AisInv, AisTypeOK
    <3>2. /\ o \in AisObject /\ o.born = objs[m].born /\ o.m_t = t
          /\ o.m_dtype = {"AIS", "ATTD", "POS_BLH", "VEL_BLH"}
          /\ o.from["ATTD"] = n /\ o.from["VEL_BLH"] = n /\ o.from["POS_BLH"] = n
      <4>1. o \in AisObject
        BY <1>3, <3>1, UpdateKeeps
      <4> QED
        BY <3>1, <4>1, UpdateIs
    <3>3. x = set_ecef_from_blh(o)
      BY <2>1
    <3> HIDE DEF o, x
    <3> QED
      BY <1>3, <3>2, <3>3, ReportedIs
  <2>2. CASE m \notin DOMAIN objs
    <3> DEFINE o == NewAis(n, t, n, n)
    <3>1. /\ o \in AisObject /\ o.m_t = t
          /\ o.m_dtype = {"AIS", "ATTD", "POS_BLH", "VEL_BLH"}
          /\ o.from["ATTD"] = n /\ o.from["VEL_BLH"] = n /\ o.from["POS_BLH"] = n
      BY <1>3, NewAisIs
    <3>2. x = set_ecef_from_blh(o)
      BY <2>2
    <3> HIDE DEF o, x
    <3> QED
      BY <1>3, <2>2, <3>1, <3>2, ReportedIs
  <2> QED
    BY <2>1, <2>2
<1> HIDE DEF x, r
<1>11. x.from["ATTD"] = n
  BY <1>4 DEF OfReport, Constant
<1>5. /\ ObjectsTyped' /\ DOMAIN objs' = DOMAIN objs \union {m} /\ objs'[m] = x
      /\ \A k \in DOMAIN objs : k # m => objs'[k] = objs[k]
      /\ updates' \in Seq(Nat \X Mmsis) /\ NoDeadPointer' /\ NoUpdateLost'
  BY <1>2, <1>3, <1>4, EnterKeeps DEF AisInv
<1>6. /\ Len(reports') = n /\ reports' \in Seq(Report) /\ LastOf(reports', n, m)
      /\ reports'[n] = r /\ \A i \in DOMAIN reports : reports'[i] = reports[i]
      /\ \A k, i : k # m /\ LastOf(reports, i, k) => LastOf(reports', i, k)
  <2>1. reports'[n] = r /\ \A i \in DOMAIN reports : reports'[i] = reports[i]
    BY <1>2, <1>3, <1>0 DEF AisInv, AisTypeOK
  <2>2. /\ Len(reports') = n /\ reports' \in Seq(Report) /\ LastOf(reports', n, m)
        /\ \A k, i : k # m /\ LastOf(reports, i, k) => LastOf(reports', i, k)
    BY <1>2, <1>3, <1>0, NewReport DEF AisInv, AisTypeOK
  <2> QED
    BY <2>1, <2>2
<1>7. AisTypeOK'
  <2>1. Len(reports') <= MaxReports
    BY <1>2, <1>6, <1>0, MmsisAre DEF AisInv, AisTypeOK
  <2> QED
    BY <1>2, <1>5, <1>6, <2>1 DEF AisInv, AisTypeOK
<1>8. ObjectsAreOfLast'
  <2> SUFFICES ASSUME NEW k \in DOMAIN objs'
               PROVE  LastOf(reports', objs'[k].from["ATTD"], k) /\ OfReport(objs'[k], objs'[k].from["ATTD"])
    BY DEF ObjectsAreOfLast
  <2>1. CASE k = m
    BY <1>4, <1>5, <1>6, <1>11, <2>1
  <2>2. CASE k # m
    BY <1>2, <1>5, <1>6, <2>2 DEF AisInv, ObjectsAreOfLast
  <2> QED
    BY <2>1, <2>2
<1>9. WalkVisits'
  BY <1>2 DEF WalkVisits
<1>10. LogKeeps'
  <2> SUFFICES ASSUME NEW k \in DOMAIN objs', ~reports'[objs'[k].from["ATTD"]].late
               PROVE  objs'[k].m_t > ais_tfile \/ IsLogged(ais_pf, k, objs'[k].from["ATTD"])
    BY <1>2 DEF LogKeeps
  <2>1. CASE k = m
    <3>1. ais_tfile \in Nat /\ ~r.late /\ objs'[k].m_t = t
      BY <1>4, <1>5, <1>6, <1>11, <2>1 DEF AisInv, AisTypeOK
    <3> QED
      BY <1>3, <3>1
  <2>2. CASE k # m
    <3>1. k \in DOMAIN objs /\ objs'[k] = objs[k]
      BY <1>5, <2>2
    <3>2. objs[k].from["ATTD"] \in DOMAIN reports
      BY <1>2, <3>1 DEF AisInv, ObjectsAreOfLast, LastOf
    <3>3. ~reports[objs[k].from["ATTD"]].late
      BY <1>6, <3>1, <3>2
    <3> QED
      BY <1>2, <3>1, <3>3 DEF AisInv, LogKeeps
  <2> QED
    BY <2>1, <2>2
<1> QED
  BY <1>5, <1>7, <1>8, <1>9, <1>10 DEF AisInv

\* Recomputing hands on the report each object is of.
LEMMA RecomputedIsKept ==
  ASSUME AisInv, DOMAIN objs' = DOMAIN objs, objs' \in [DOMAIN objs -> AisObject],
         ais_itr' = NoObject, held = "free",
         \A m \in DOMAIN objs : objs'[m].born = objs[m].born /\ objs'[m].m_t = objs[m].m_t,
         \A m \in DOMAIN objs :
           OfReport(objs[m], objs[m].from["ATTD"]) => OfReport(objs'[m], objs[m].from["ATTD"]),
         UNCHANGED <<updates, ais_tfile, ais_pf, ais_pos, held, seen, reading, reports, owed, ais_replay>>
  PROVE  AisInv'
<1>1. ObjectsTyped' /\ NoDeadPointer' /\ NoUpdateLost'
  BY RecomputedKeeps DEF AisInv
<1>2. AisTypeOK'
  BY <1>1 DEF AisInv, AisTypeOK
<1>3. ~ais_replay => \A m \in DOMAIN objs : /\ objs'[m].from["ATTD"] = objs[m].from["ATTD"]
                                           /\ OfReport(objs'[m], objs[m].from["ATTD"])
  BY DEF AisInv, ObjectsAreOfLast, OfReport, Constant
<1>4. ObjectsAreOfLast'
  BY <1>3 DEF AisInv, ObjectsAreOfLast
<1>5. WalkVisits'
  BY DEF WalkVisits
<1>6. LogKeeps'
  BY <1>3 DEF AisInv, LogKeeps
<1> QED
  BY <1>1, <1>2, <1>4, <1>5, <1>6 DEF AisInv

LEMMA RecomputeKeeps ==
  ASSUME AisInv, update_rel_pos_and_vel \/ calc_all_tdcpa
  PROVE  AisInv'
<1>0. \A m \in DOMAIN objs : objs[m] \in AisObject
  BY ObjectsAre DEF AisInv, AisTypeOK
<1>1. CASE update_rel_pos_and_vel
  <2>1. \A m \in DOMAIN objs : /\ Located(objs[m]) \in AisObject /\ Located(objs[m]).born = objs[m].born
                               /\ Located(objs[m]).m_t = objs[m].m_t
    BY <1>0, LocatedKeeps
  <2>2. \A m \in DOMAIN objs :
          OfReport(objs[m], objs[m].from["ATTD"]) => OfReport(Located(objs[m]), objs[m].from["ATTD"])
    BY <1>0, LocatedIs
  <2>3. /\ DOMAIN objs' = DOMAIN objs /\ \A m \in DOMAIN objs : objs'[m] = Located(objs[m])
        /\ objs' = [m \in DOMAIN objs |-> Located(objs[m])] /\ ais_itr' = NoObject /\ held = "free"
        /\ UNCHANGED <<updates, ais_tfile, ais_pf, ais_pos, held, seen, reading, reports, owed, ais_replay>>
    BY <1>1 DEF update_rel_pos_and_vel
  <2>4. objs' \in [DOMAIN objs -> AisObject]
    BY <2>1, <2>3
  <2> QED
    BY <2>1, <2>2, <2>3, <2>4, RecomputedIsKept
<1>2. CASE calc_all_tdcpa
  <2>1. \A m \in DOMAIN objs : /\ calc_tdcpa(objs[m]) \in AisObject /\ calc_tdcpa(objs[m]).born = objs[m].born
                               /\ calc_tdcpa(objs[m]).m_t = objs[m].m_t
    BY <1>0, ApproachKeeps
  <2>2. \A m \in DOMAIN objs :
          OfReport(objs[m], objs[m].from["ATTD"]) => OfReport(calc_tdcpa(objs[m]), objs[m].from["ATTD"])
    BY <1>0, ApproachIs
  <2>3. /\ DOMAIN objs' = DOMAIN objs /\ \A m \in DOMAIN objs : objs'[m] = calc_tdcpa(objs[m])
        /\ objs' = [m \in DOMAIN objs |-> calc_tdcpa(objs[m])] /\ ais_itr' = NoObject /\ held = "free"
        /\ UNCHANGED <<updates, ais_tfile, ais_pf, ais_pos, held, seen, reading, reports, owed, ais_replay>>
    BY <1>2 DEF calc_all_tdcpa
  <2>4. objs' \in [DOMAIN objs -> AisObject]
    BY <2>1, <2>3
  <2> QED
    BY <2>1, <2>2, <2>3, <2>4, RecomputedIsKept
<1> QED
  BY <1>1, <1>2

LEMMA RemovedKeeps ==
  ASSUME AisInv, remove_out \/ remove_old
  PROVE  AisInv'
<1>1. PICK ms \in SUBSET DOMAIN objs : RemoveShips(ms) /\ held = "free"
  BY DEF remove_out, remove_old
<1>2. /\ ObjectsTyped' /\ DOMAIN objs' = DOMAIN objs \ ms
      /\ \A k \in DOMAIN objs' : objs'[k] = objs[k]
      /\ updates' \in Seq(Nat \X Mmsis) /\ NoDeadPointer' /\ NoUpdateLost'
      /\ UNCHANGED <<ais_tfile, ais_pf, ais_pos, held, seen, reading, reports, ais_replay>>
  BY <1>1, RemoveKeeps DEF AisInv
<1>3. AisTypeOK'
  BY <1>2 DEF AisInv, AisTypeOK
<1>4. ObjectsAreOfLast'
  BY <1>2 DEF AisInv, ObjectsAreOfLast
<1>5. WalkVisits'
  BY <1>1, <1>2 DEF WalkVisits
<1>6. LogKeeps'
  BY <1>2 DEF AisInv, LogKeeps
<1> QED
  BY <1>2, <1>3, <1>4, <1>5, <1>6 DEF AisInv

\* The buffer's reader takes the first update, or the list is dropped.
LEMMA ReadUpdateKeeps ==
  ASSUME AisInv, read_update
  PROVE  AisInv'
<1>1. /\ updates # <<>> /\ updates' = Tail(updates) /\ owed' = owed \ {updates[1][2]}
      /\ UNCHANGED <<objs, ais_itr, ais_tfile, ais_pf, ais_pos, held, seen, reading, reports, ais_replay>>
  BY DEF read_update
<1>2. /\ updates \in Seq(Nat \X Mmsis) /\ Len(updates) \in Nat /\ DOMAIN updates = 1..Len(updates)
      /\ updates' \in Seq(Nat \X Mmsis) /\ DOMAIN updates' = 1..(Len(updates) - 1)
      /\ \A i \in DOMAIN updates' : i + 1 \in DOMAIN updates /\ updates'[i] = updates[i + 1]
  BY <1>1 DEF AisInv, AisTypeOK
<1>3. AisTypeOK'
  BY <1>1, <1>2 DEF AisInv, AisTypeOK, ObjectsTyped
<1>4. NoDeadPointer'
  <2>1. \A i \in DOMAIN updates : updates[i][2] \in DOMAIN objs
                                  /\ updates[i] = <<objs[updates[i][2]].born, updates[i][2]>>
    BY DEF AisInv, NoDeadPointer, Pointer
  <2>2. ais_itr' \in DOMAIN objs' \union {NoObject}
    BY <1>1 DEF AisInv, NoDeadPointer
  <2> QED
    BY <1>1, <1>2, <2>1, <2>2 DEF NoDeadPointer, Pointer
<1>5. NoUpdateLost'
  <2> SUFFICES ASSUME NEW k \in owed, k # updates[1][2]  PROVE  \E i \in DOMAIN updates' : k = updates'[i][2]
    BY <1>1 DEF NoUpdateLost
  <2>1. PICK i \in DOMAIN updates : k = updates[i][2]
    BY DEF AisInv, NoUpdateLost
  <2>2. i # 1
    BY <2>1
  <2>3. i \in 1..Len(updates) /\ Len(updates) \in Nat /\ DOMAIN updates' = 1..(Len(updates) - 1)
    BY <1>2, <2>1
  <2>4. i - 1 \in DOMAIN updates' /\ i = (i - 1) + 1
    BY <2>2, <2>3
  <2> QED
    BY <1>2, <2>1, <2>4
<1>6. ObjectsAreOfLast' /\ WalkVisits' /\ LogKeeps'
  BY <1>1 DEF AisInv, ObjectsAreOfLast, WalkVisits, LogKeeps
<1> QED
  BY <1>3, <1>4, <1>5, <1>6 DEF AisInv

\* What moves only the cursor, or what a step leaves to the walk.
LEMMA FreeKeeps ==
  ASSUME AisInv, set_track \/ reset_updates \/ LockAndBegin \/ Unlock \/ read_ais \/ ReadEnds
  PROVE  AisInv'
<1>1. objs' = objs /\ UNCHANGED <<ais_tfile, ais_pf, ais_pos, reports, ais_replay>>
  BY DEF set_track, reset_updates, LockAndBegin, Unlock, read_ais, ReadEnds
<1>2. ObjectsAreOfLast' /\ LogKeeps'
  BY <1>1 DEF AisInv, ObjectsAreOfLast, LogKeeps
<1>3. AisTypeOK'
  <2>1. updates' = updates \/ updates' = <<>>
    BY DEF set_track, reset_updates, LockAndBegin, Unlock, read_ais, ReadEnds
  <2>2. held' \in {"free", "walk", "read"} /\ (held' = "read" => ais_replay) /\ (seen' = seen \/ seen' = <<>>)
    BY DEF AisInv, AisTypeOK, set_track, reset_updates, LockAndBegin, Unlock, read_ais, ReadEnds
  <2>3. reading' \in [until : Nat, t : Nat, mmsi : Mmsis, of : Nat]
    <3>1. \A k \in Limits : k \in Nat
      BY ShipsAssumption DEF Limits
    <3> QED
      BY <3>1, MmsisAre DEF AisInv, AisTypeOK, set_track, reset_updates, LockAndBegin, Unlock, read_ais, ReadEnds,
                            Unset
  <2>4. updates' \in Seq(Nat \X Mmsis) /\ seen' \in Seq(Mmsis)
    <3>1. updates \in Seq(Nat \X Mmsis) /\ seen \in Seq(Mmsis)
      BY DEF AisInv, AisTypeOK
    <3>2. updates' \in Seq(Nat \X Mmsis)
      BY <2>1, <3>1, EmptySeq
    <3>3. seen' \in Seq(Mmsis)
      BY <2>2, <3>1, EmptySeq
    <3> QED
      BY <3>2, <3>3
  <2>5. ObjectsTyped'
    BY <1>1 DEF AisInv, AisTypeOK, ObjectsTyped
  <2> QED
    BY <1>1, <2>2, <2>3, <2>4, <2>5 DEF AisInv, AisTypeOK
<1>4. NoDeadPointer'
  <2>1. ais_itr' \in DOMAIN objs \union {NoObject}
    <3>1. CASE LockAndBegin
      BY <3>1 DEF LockAndBegin, Firsts
    <3>2. CASE ais_itr' = ais_itr \/ ais_itr' = NoObject
      BY <3>2 DEF AisInv, NoDeadPointer
    <3> QED
      BY <3>1, <3>2 DEF set_track, reset_updates, Unlock, read_ais, ReadEnds
  <2>2. updates' = updates \/ updates' = <<>>
    BY DEF set_track, reset_updates, LockAndBegin, Unlock, read_ais, ReadEnds
  <2> QED
    BY <1>1, <2>1, <2>2 DEF AisInv, NoDeadPointer, Pointer
<1>5. NoUpdateLost'
  BY DEF AisInv, NoUpdateLost, set_track, reset_updates, LockAndBegin, Unlock, read_ais, ReadEnds
<1>6. WalkVisits'
  <2>1. CASE LockAndBegin
    <3>1. seen' = <<>> /\ ais_itr' \in Firsts(DOMAIN objs)
      BY <2>1 DEF LockAndBegin
    <3>2. \A m \in DOMAIN objs : ~(m < ais_itr')
      BY <3>1, MmsisAre DEF Firsts, AisInv, AisTypeOK, ObjectsTyped
    <3> QED
      BY <1>1, <3>1, <3>2 DEF WalkVisits, Enumerates
  <2>2. CASE ~LockAndBegin
    BY <2>2 DEF WalkVisits, set_track, reset_updates, Unlock, read_ais, ReadEnds
  <2> QED
    BY <2>1, <2>2
<1> QED
  BY <1>2, <1>3, <1>4, <1>5, <1>6 DEF AisInv

LEMMA NextKeeps ==
  ASSUME AisInv, next
  PROVE  AisInv'
<1>1. /\ held = "walk" /\ ais_itr # NoObject /\ seen' = Append(seen, ais_itr)
      /\ ais_itr' \in Firsts({k \in DOMAIN objs : k > ais_itr})
      /\ UNCHANGED <<objs, updates, ais_tfile, ais_pf, ais_pos, held, reading, reports, owed, ais_replay>>
  BY DEF next
<1>2. ais_itr \in DOMAIN objs /\ ais_itr \in Mmsis /\ \A m \in DOMAIN objs : m \in Nat /\ m < NoObject
  BY <1>1, MmsisAre DEF AisInv, NoDeadPointer, AisTypeOK, ObjectsTyped
<1>3. /\ ais_itr' \in DOMAIN objs \union {NoObject}
      /\ \A m \in DOMAIN objs : m < ais_itr' <=> m < ais_itr \/ m = ais_itr
  BY <1>1, <1>2, MmsisAre DEF Firsts
<1>4. AisTypeOK'
  BY <1>1, <1>2 DEF AisInv, AisTypeOK, ObjectsTyped
<1>5. ObjectsAreOfLast' /\ LogKeeps' /\ NoUpdateLost'
  BY <1>1 DEF AisInv, ObjectsAreOfLast, LogKeeps, NoUpdateLost
<1>6. NoDeadPointer'
  BY <1>1, <1>3 DEF AisInv, NoDeadPointer, Pointer
<1>7. WalkVisits'
  <2>1. /\ seen \in Seq(Mmsis) /\ Len(seen) \in Nat /\ DOMAIN seen = 1..Len(seen)
        /\ DOMAIN seen' = 1..(Len(seen) + 1) /\ seen'[Len(seen) + 1] = ais_itr
        /\ \A i \in DOMAIN seen : seen'[i] = seen[i]
    BY <1>1, <1>2 DEF AisInv, AisTypeOK
  <2>2. /\ \A i \in DOMAIN seen : seen[i] \in DOMAIN objs /\ seen[i] < ais_itr
        /\ \A m \in DOMAIN objs : m < ais_itr => \E i \in DOMAIN seen : seen[i] = m
        /\ \A i, j \in DOMAIN seen : i < j => seen[i] < seen[j]
    BY <1>1 DEF AisInv, WalkVisits, Enumerates
  <2>3. {seen'[i] : i \in DOMAIN seen'} = {m \in DOMAIN objs : m < ais_itr'}
    <3>1. ASSUME NEW i \in DOMAIN seen'  PROVE  seen'[i] \in DOMAIN objs /\ seen'[i] < ais_itr'
      BY <1>2, <1>3, <2>1, <2>2
    <3>2. ASSUME NEW m \in DOMAIN objs, m < ais_itr'  PROVE  \E i \in DOMAIN seen' : seen'[i] = m
      BY <1>2, <1>3, <2>1, <2>2, <3>2
    <3> QED
      BY <3>1, <3>2
  <2>4. \A i, j \in DOMAIN seen' : i < j => seen'[i] < seen'[j]
    BY <1>2, <2>1, <2>2
  <2> QED
    BY <1>1, <2>3, <2>4 DEF WalkVisits, Enumerates
<1> QED
  BY <1>4, <1>5, <1>6, <1>7 DEF AisInv

LEMMA PrevKeeps ==
  ASSUME AisInv, prev
  PROVE  AisInv'
<1>1. /\ held = "walk" /\ ais_itr' \in Lasts({k \in DOMAIN objs : k < ais_itr})
      /\ seen' = SubSeq(seen, 1, Len(seen) - 1)
      /\ UNCHANGED <<objs, updates, ais_tfile, ais_pf, ais_pos, held, reading, reports, owed, ais_replay>>
  BY DEF prev
<1>2. \A m \in DOMAIN objs : m \in Nat
  BY MmsisAre DEF AisInv, AisTypeOK, ObjectsTyped
<1>3. ais_itr' \in DOMAIN objs /\ ais_itr' < ais_itr /\ \A m \in DOMAIN objs : m < ais_itr => m <= ais_itr'
  BY <1>1, <1>2 DEF Lasts
<1>4. /\ seen \in Seq(Mmsis) /\ Len(seen) \in Nat /\ DOMAIN seen = 1..Len(seen)
      /\ \A i \in DOMAIN seen : seen[i] \in DOMAIN objs /\ seen[i] < ais_itr
      /\ \A m \in DOMAIN objs : m < ais_itr => \E i \in DOMAIN seen : seen[i] = m
      /\ \A i, j \in DOMAIN seen : i < j => seen[i] < seen[j]
  BY <1>1 DEF AisInv, AisTypeOK, WalkVisits, Enumerates
<1>5. PICK l \in DOMAIN seen : seen[l] = ais_itr'
  BY <1>3, <1>4
<1>6. l = Len(seen)
  <2>1. seen[Len(seen)] <= ais_itr'
    BY <1>3, <1>4, <1>5
  <2> QED
    BY <1>2, <1>3, <1>4, <1>5, <2>1
<1>7. /\ seen' \in Seq(Mmsis) /\ DOMAIN seen' = 1..(Len(seen) - 1)
      /\ \A i \in DOMAIN seen' : i \in DOMAIN seen /\ seen'[i] = seen[i]
  BY <1>1, <1>4, <1>5, <1>6
<1>8. AisTypeOK'
  BY <1>1, <1>7 DEF AisInv, AisTypeOK, ObjectsTyped
<1>9. ObjectsAreOfLast' /\ LogKeeps' /\ NoUpdateLost'
  BY <1>1 DEF AisInv, ObjectsAreOfLast, LogKeeps, NoUpdateLost
<1>10. NoDeadPointer'
  BY <1>1, <1>3 DEF AisInv, NoDeadPointer, Pointer
<1>11. WalkVisits'
  <2>1. {seen'[i] : i \in DOMAIN seen'} = {m \in DOMAIN objs : m < ais_itr'}
    <3>1. ASSUME NEW i \in DOMAIN seen'  PROVE  seen'[i] \in DOMAIN objs /\ seen'[i] < ais_itr'
      BY <1>4, <1>5, <1>6, <1>7
    <3>2. ASSUME NEW m \in DOMAIN objs, m < ais_itr'  PROVE  \E i \in DOMAIN seen' : seen'[i] = m
      <4>1. m < ais_itr
        BY <1>2, <1>3, <3>2, MmsisAre DEF AisInv, NoDeadPointer
      <4>2. PICK i \in DOMAIN seen : seen[i] = m
        BY <1>4, <4>1
      <4>3. i # Len(seen)
        BY <1>2, <1>3, <1>5, <1>6, <3>2, <4>2
      <4> QED
        BY <1>4, <1>7, <4>2, <4>3
    <3> QED
      BY <3>1, <3>2
  <2>2. \A i, j \in DOMAIN seen' : i < j => seen'[i] < seen'[j]
    BY <1>4, <1>7
  <2> QED
    BY <1>1, <2>1, <2>2 DEF WalkVisits, Enumerates
<1> QED
  BY <1>8, <1>9, <1>10, <1>11 DEF AisInv

\* What write logs: of each ship the last report, if it did not come late.
LEMMA WriteLogs ==
  ASSUME AisInv, write_ais
  PROVE  /\ ais_pf' \in Seq(LogRecord) /\ ais_tfile' \in Nat
         /\ \A m \in DOMAIN objs : ~reports[objs[m].from["ATTD"]].late => IsLogged(ais_pf', m, objs[m].from["ATTD"])
<1> DEFINE Record(m) == [t |-> objs[m].m_t, mmsi |-> m, of |-> objs[m].from["ATTD"]]
<1>1. PICK ms \in Enumerations(ToLog) : ais_pf' = ais_pf \o [i \in DOMAIN ms |-> Record(ms[i])]
  BY DEF write_ais
<1> DEFINE ns == [i \in DOMAIN ms |-> Record(ms[i])]
<1>2. ~ais_replay /\ ais_tfile' \in Lasts({ais_tfile} \union {objs[m].m_t : m \in ToLog})
  BY DEF write_ais
<1>3. /\ ToLog \subseteq DOMAIN objs /\ \A m \in DOMAIN objs : m \in ToLog <=> objs[m].m_t > ais_tfile
  BY DEF ToLog
<1>4. \A m \in DOMAIN objs : m \in Mmsis /\ objs[m].m_t \in Nat /\ objs[m].from["ATTD"] \in Nat
  BY ObjectsAre DEF AisInv, AisTypeOK, AisObject, Data
<1>5. Cardinality(ToLog) \in Nat
  <2>1. 0..MaxMmsi \in SUBSET Int /\ IsFiniteSet(0..MaxMmsi)
    BY MmsisAre, FS_Interval
  <2>2. ToLog \subseteq 0..MaxMmsi
    BY <1>3, <1>4 DEF Mmsis
  <2>3. IsFiniteSet(ToLog)
    BY <2>1, <2>2, FS_Subset
  <2> QED
    BY <2>3, FS_CardinalityType
<1>6. ms \in [1..Cardinality(ToLog) -> ToLog] /\ \A m \in ToLog : \E i \in DOMAIN ms : ms[i] = m
  BY <1>1 DEF Enumerations, Enumerates
<1>7. ns \in Seq(LogRecord) /\ Len(ns) = Cardinality(ToLog)
  <2>1. \A i \in 1..Cardinality(ToLog) : Record(ms[i]) \in LogRecord
    BY <1>3, <1>4, <1>6 DEF LogRecord
  <2>2. ns = [i \in 1..Cardinality(ToLog) |-> Record(ms[i])]
    BY <1>6
  <2> HIDE DEF Record
  <2>3. ns \in [1..Cardinality(ToLog) -> LogRecord] /\ DOMAIN ns = 1..Cardinality(ToLog)
    BY <2>1, <2>2
  <2> HIDE DEF ns
  <2>4. ns \in Seq(LogRecord)
    BY <1>5, <2>3
  <2> QED
    BY <1>5, <2>3, <2>4
<1>8. ais_pf \in Seq(LogRecord) /\ ais_tfile \in Nat
  BY DEF AisInv, AisTypeOK
<1>9. /\ ais_pf' \in Seq(LogRecord) /\ Len(ais_pf') = Len(ais_pf) + Len(ns)
      /\ \A i \in 1..Len(ais_pf) : ais_pf'[i] = ais_pf[i]
      /\ \A i \in 1..Len(ns) : ais_pf'[Len(ais_pf) + i] = ns[i]
  <2> HIDE DEF Record
  <2> QED
    BY <1>1, <1>7, <1>8
<1>10. ais_tfile' \in Nat
  BY <1>2, <1>3, <1>4, <1>8 DEF Lasts
<1>11. ASSUME NEW m \in DOMAIN objs, ~reports[objs[m].from["ATTD"]].late
       PROVE  IsLogged(ais_pf', m, objs[m].from["ATTD"])
  <2>1. DOMAIN ais_pf' = 1..Len(ais_pf') /\ Len(ais_pf) \in Nat /\ Len(ns) \in Nat
    BY <1>7, <1>8, <1>9
  <2>2. CASE m \in ToLog
    <3>1. PICK i \in DOMAIN ms : ms[i] = m
      BY <1>6, <2>2
    <3>2. i \in 1..Len(ns) /\ ns[i] = Record(m)
      BY <1>6, <1>7, <3>1
    <3>3. Len(ais_pf) + i \in DOMAIN ais_pf'
      BY <1>9, <2>1, <3>2
    <3> HIDE DEF ns
    <3>4. ais_pf'[Len(ais_pf) + i].mmsi = m /\ ais_pf'[Len(ais_pf) + i].of = objs[m].from["ATTD"]
      BY <1>9, <3>2
    <3> QED
      BY <3>3, <3>4 DEF IsLogged
  <2>3. CASE m \notin ToLog
    <3>1. ~(objs[m].m_t > ais_tfile)
      BY <1>3, <2>3
    <3>2. PICK i \in DOMAIN ais_pf : ais_pf[i].mmsi = m /\ ais_pf[i].of = objs[m].from["ATTD"]
      BY <1>2, <1>11, <3>1 DEF AisInv, LogKeeps, IsLogged
    <3>3. i \in 1..Len(ais_pf) /\ i \in DOMAIN ais_pf'
      BY <1>8, <1>9, <2>1, <3>2
    <3> HIDE DEF ns
    <3>4. ais_pf'[i] = ais_pf[i]
      BY <1>9, <3>3
    <3> QED
      BY <3>2, <3>3, <3>4 DEF IsLogged
  <2> QED
    BY <2>2, <2>3
<1> QED
  BY <1>9, <1>10, <1>11

LEMMA WriteKeeps ==
  ASSUME AisInv, write_ais
  PROVE  AisInv'
<1>1. /\ held = "free" /\ ~ais_replay /\ ais_itr' = NoObject
      /\ UNCHANGED <<objs, updates, ais_pos, held, seen, reading, reports, owed, ais_replay>>
  BY DEF write_ais
<1>2. AisTypeOK'
  BY <1>1, WriteLogs DEF AisInv, AisTypeOK, ObjectsTyped
<1>3. LogKeeps'
  BY <1>1, WriteLogs DEF LogKeeps
<1>4. ObjectsAreOfLast' /\ NoDeadPointer' /\ NoUpdateLost' /\ WalkVisits'
  BY <1>1 DEF AisInv, ObjectsAreOfLast, NoDeadPointer, Pointer, NoUpdateLost, WalkVisits
<1> QED
  BY <1>2, <1>3, <1>4 DEF AisInv

LEMMA StartReplayKeeps ==
  ASSUME AisInv, StartAisReplay
  PROVE  AisInv'
<1>1. /\ objs' = <<>> /\ updates' = <<>> /\ ais_itr' = NoObject /\ ais_tfile' = 0 /\ reports' = <<>>
      /\ owed' = {} /\ ais_replay' = TRUE /\ held' = "free"
      /\ UNCHANGED <<ais_pf, ais_pos, seen, reading>>
  BY DEF StartAisReplay
<1>2. DOMAIN objs' = {} /\ objs' \in [{} -> AisObject] /\ DOMAIN updates' = {} /\ Len(reports') = 0
  BY <1>1
<1>3. AisTypeOK'
  BY <1>1, <1>2, MmsisAre DEF AisInv, AisTypeOK, ObjectsTyped
<1> QED
  BY <1>1, <1>2, <1>3 DEF AisInv, ObjectsAreOfLast, NoDeadPointer, NoUpdateLost, WalkVisits, LogKeeps

LEMMA ReadRecordKeeps ==
  ASSUME AisInv, ReadRecord
  PROVE  AisInv'
<1> DEFINE m == reading'.mmsi
           x == set_ecef_from_blh(IF m \in DOMAIN objs THEN
                                  update(objs[m], objs[m].m_t, objs[m].from["ATTD"], objs[m].from["POS_BLH"])
                                  ELSE NewAis(ais_pos', reading'.t, reading'.of, Cut))
<1>1. /\ held = "read" /\ ReadsOn /\ ais_pos' = ais_pos + 1 /\ ais_tfile' = reading'.t /\ Enter(m, x)
      /\ reading' = (IF ais_pos = Len(ais_pf) THEN reading
                     ELSE [reading EXCEPT !.t = ais_pf[ais_pos + 1].t, !.mmsi = ais_pf[ais_pos + 1].mmsi,
                                          !.of = ais_pf[ais_pos + 1].of])
      /\ UNCHANGED <<ais_pf, held, seen, reports, ais_replay>>
  BY DEF ReadRecord
<1>2. reading' \in [until : Nat, t : Nat, mmsi : Mmsis, of : Nat]
  <2>1. CASE ais_pos = Len(ais_pf)
    BY <1>1, <2>1 DEF AisInv, AisTypeOK
  <2>2. CASE ais_pos # Len(ais_pf)
    <3>1. ais_pos + 1 \in DOMAIN ais_pf
      BY <1>1, <2>2 DEF ReadsOn, AisInv, AisTypeOK
    <3>2. ais_pf[ais_pos + 1] \in LogRecord
      BY <3>1 DEF AisInv, AisTypeOK
    <3> QED
      BY <1>1, <2>2, <3>2 DEF AisInv, AisTypeOK, LogRecord
  <2> QED
    BY <2>1, <2>2
<1>3. m \in Mmsis /\ reading'.t \in Nat /\ reading'.of \in Nat /\ Cut \in Nat /\ ais_pos' \in Nat
  <2>1. reading'.mmsi \in Mmsis /\ reading'.t \in Nat /\ reading'.of \in Nat
    BY <1>2
  <2>2. Cut \in Nat
    BY MmsisAre DEF Cut
  <2>3. ais_pos' \in Nat
    BY <1>1 DEF AisInv, AisTypeOK
  <2> QED
    BY <2>1, <2>2, <2>3
<1>4. x \in AisObject /\ (m \in DOMAIN objs => x.born = objs[m].born)
  <2>1. CASE m \in DOMAIN objs
    <3> DEFINE k == objs[m]
               t == k.m_t
               v == k.from["POS_BLH"]
               n == k.from["ATTD"]
               o == update(k, t, n, v)
    <3>1. k \in AisObject
      BY <2>1, ObjectsAre DEF AisInv, AisTypeOK
    <3>2. t \in Nat /\ v \in Nat /\ n \in Nat
      BY <3>1 DEF AisObject, Data
    <3>3. x = Convert(o, "POS_BLH", "POS_ECEF")
      BY <2>1 DEF set_ecef_from_blh
    <3>4. k.born = objs[m].born
      OBVIOUS
    <3> HIDE DEF k, t, v, n, x
    <3>5. o \in AisObject /\ o.born = k.born
      <4>1. o \in AisObject
        BY <3>1, <3>2, UpdateKeeps
      <4>2. o.born = k.born
        BY <3>1, UpdateIs
      <4> QED
        BY <4>1, <4>2
    <3> HIDE DEF o
    <3> QED
      BY <3>3, <3>4, <3>5, ConvertKeeps DEF Data
  <2>2. CASE m \notin DOMAIN objs
    <3> DEFINE o == NewAis(ais_pos', reading'.t, reading'.of, Cut)
    <3>1. o \in AisObject
      BY <1>3, NewAisIs
    <3>2. x = Convert(o, "POS_BLH", "POS_ECEF")
      BY <2>2 DEF set_ecef_from_blh
    <3> HIDE DEF o, x
    <3> QED
      BY <2>2, <3>1, <3>2, ConvertKeeps DEF Data
  <2> QED
    BY <2>1, <2>2
<1> HIDE DEF x, m
<1>5. ObjectsTyped' /\ updates' \in Seq(Nat \X Mmsis) /\ NoDeadPointer' /\ NoUpdateLost'
  BY <1>1, <1>3, <1>4, EnterKeeps DEF AisInv
<1>6. AisTypeOK'
  BY <1>1, <1>2, <1>3, <1>5 DEF AisInv, AisTypeOK
<1>7. ais_replay
  BY <1>1 DEF AisInv, AisTypeOK
<1>8. ObjectsAreOfLast' /\ LogKeeps' /\ WalkVisits'
  BY <1>1, <1>7 DEF ObjectsAreOfLast, LogKeeps, WalkVisits
<1> QED
  BY <1>5, <1>6, <1>8 DEF AisInv

LEMMA AisNext ==
  ASSUME AisInv, [ObjsNext]_objsVars
  PROVE  AisInv'
<1>1. CASE UNCHANGED objsVars
  BY <1>1 DEF objsVars, AisInv, AisTypeOK, ObjectsTyped, ObjectsAreOfLast, NoDeadPointer, Pointer, NoUpdateLost,
              WalkVisits, LogKeeps
<1>2. CASE ObjsNext
  BY <1>2, PushKeeps, RecomputeKeeps, RemovedKeeps, ReadUpdateKeeps, FreeKeeps, NextKeeps, PrevKeeps, WriteKeeps,
     StartReplayKeeps, ReadRecordKeeps DEF ObjsNext
<1> QED
  BY <1>1, <1>2

LEMMA AisFirst ==
  ASSUME ObjsInit
  PROVE  AisInv
<1>1. /\ objs = <<>> /\ updates = <<>> /\ ais_itr = NoObject /\ ais_tfile = 0 /\ reports = <<>>
      /\ owed = {} /\ ais_replay = FALSE /\ held = "free" /\ ais_pf = <<>> /\ ais_pos = 0 /\ seen = <<>>
      /\ reading = [until |-> 0, t |-> 0, mmsi |-> NoShip, of |-> Unset]
  BY DEF ObjsInit
<1>2. DOMAIN objs = {} /\ objs \in [{} -> AisObject] /\ DOMAIN updates = {} /\ Len(reports) = 0
  BY <1>1
<1>3. AisTypeOK
  <2>1. ObjectsTyped
    BY <1>1, <1>2 DEF ObjectsTyped
  <2>2. updates \in Seq(Nat \X Mmsis) /\ ais_pf \in Seq(LogRecord) /\ seen \in Seq(Mmsis) /\ reports \in Seq(Report)
    BY <1>1, EmptySeq
  <2>3. reading \in [until : Nat, t : Nat, mmsi : Mmsis, of : Nat] /\ Len(reports) <= MaxReports
    BY <1>1, <1>2, MmsisAre DEF Unset
  <2> QED
    BY <1>1, <2>1, <2>2, <2>3 DEF AisTypeOK
<1> QED
  BY <1>1, <1>2, <1>3 DEF AisInv, ObjectsAreOfLast, NoDeadPointer, NoUpdateLost, WalkVisits, LogKeeps

LEMMA IsLast ==
  ASSUME NEW i, NEW m
  PROVE  IsLastReport(i, m) <=> LastOf(reports, i, m)
BY DEF IsLastReport, LastOf

LEMMA AisSafe ==
  ASSUME AisInv
  PROVE  CoordinatesOfLastReport /\ NoDeadPointer /\ NoUpdateLost /\ WalkIsComplete
<1>1. CoordinatesOfLastReport
  <2> SUFFICES ASSUME ~ais_replay, NEW m \in DOMAIN objs, NEW d \in objs[m].m_dtype \ {"AIS"}
               PROVE  IsLastReport(objs[m].from[d], m)
    BY DEF CoordinatesOfLastReport
  <2>1. LastOf(reports, objs[m].from["ATTD"], m) /\ objs[m].from[d] = objs[m].from["ATTD"]
    BY DEF AisInv, ObjectsAreOfLast, OfReport
  <2> QED
    BY <2>1, IsLast
<1>2. WalkIsComplete
  <2> SUFFICES ASSUME held = "walk", ais_itr = NoObject  PROVE  Enumerates(seen, DOMAIN objs)
    BY DEF WalkIsComplete
  <2>1. DOMAIN objs = {m \in DOMAIN objs : m < ais_itr}
    BY MmsisAre DEF AisInv, AisTypeOK, ObjectsTyped
  <2> QED
    BY <2>1 DEF AisInv, WalkVisits
<1> QED
  BY <1>1, <1>2 DEF AisInv

\* remove_out decides by the last report's position, which is never the cut one.
LEMMA DistantAre ==
  ASSUME AisInv, remove_out, \A m \in DOMAIN objs : "POS_REL" \in objs[m].m_dtype, ~ais_replay
  PROVE  DOMAIN objs' = {m \in DOMAIN objs : \A i \in DOMAIN reports : IsLastReport(i, m) => ~reports[i].far}
<1> DEFINE ms == {m \in DOMAIN objs : OutOfRange(objs[m])}
<1>1. DOMAIN objs' = DOMAIN objs \ ms
  <2>1. ms \subseteq DOMAIN objs /\ RemoveShips(ms)
    BY DEF remove_out
  <2> HIDE DEF ms
  <2> QED
    BY <2>1, RemoveKeeps DEF AisInv
<1>2. ASSUME NEW m \in DOMAIN objs
      PROVE  OutOfRange(objs[m]) <=> \E i \in DOMAIN reports : IsLastReport(i, m) /\ reports[i].far
  <2> DEFINE n == objs[m].from["ATTD"]
  <2>1. LastOf(reports, n, m) /\ objs[m].from["POS_REL"] = n
    BY DEF AisInv, ObjectsAreOfLast, OfReport
  <2> HIDE DEF n
  <2>2. n \in DOMAIN reports /\ n \in Nat /\ n # Cut /\ DOMAIN reports \subseteq Nat
    BY <2>1, MmsisAre DEF LastOf, AisInv, AisTypeOK, Cut
  <2>3. \A i \in DOMAIN reports : LastOf(reports, i, m) => i = n
    BY <2>1, <2>2 DEF LastOf
  <2>4. OutOfRange(objs[m]) <=> reports[n].far
    BY <2>1, <2>2 DEF OutOfRange
  <2> QED
    BY <2>1, <2>2, <2>3, <2>4, IsLast
<1> QED
  BY <1>1, <1>2

LEMMA LogIs ==
  ASSUME AisInv, write_ais
  PROVE  \A m \in DOMAIN objs : \A n \in DOMAIN reports :
           IsLastReport(n, m) /\ ~reports[n].late =>
             \E i \in DOMAIN ais_pf' : ais_pf'[i].mmsi = m /\ ais_pf'[i].of = n
<1> SUFFICES ASSUME NEW m \in DOMAIN objs, NEW n \in DOMAIN reports, IsLastReport(n, m), ~reports[n].late
             PROVE  IsLogged(ais_pf', m, n)
  BY DEF IsLogged
<1>1. LastOf(reports, objs[m].from["ATTD"], m) /\ LastOf(reports, n, m)
  BY IsLast DEF write_ais, AisInv, ObjectsAreOfLast
<1>2. DOMAIN reports \subseteq Nat
  BY DEF AisInv, AisTypeOK
<1>3. objs[m].from["ATTD"] = n
  BY <1>1, <1>2 DEF LastOf
<1> QED
  BY <1>3, WriteLogs

\* Through updates, walks, removals and the log, and however many reports and
\* ships there are, the channel shows of each ship its last report.
THEOREM ShipsStayTracked == ObjsSpec => ShipsAreTracked
<1>1. ObjsInit => AisInv
  BY AisFirst
<1>2. AisInv /\ [ObjsNext]_objsVars => AisInv'
  BY AisNext
<1>3. AisInv => CoordinatesOfLastReport /\ NoDeadPointer /\ NoUpdateLost /\ WalkIsComplete
  BY AisSafe
<1>4. AisInv /\ [ObjsNext]_objsVars =>
        [remove_out /\ (\A m \in DOMAIN objs : "POS_REL" \in objs[m].m_dtype) /\ ~ais_replay
           => DOMAIN objs' = {m \in DOMAIN objs : \A i \in DOMAIN reports :
                                IsLastReport(i, m) => ~reports[i].far}]_objsVars
  BY DistantAre
<1>5. AisInv /\ [ObjsNext]_objsVars =>
        [write_ais => \A m \in DOMAIN objs : \A n \in DOMAIN reports :
           IsLastReport(n, m) /\ ~reports[n].late =>
             \E i \in DOMAIN ais_pf' : ais_pf'[i].mmsi = m /\ ais_pf'[i].of = n]_objsVars
  BY LogIs
<1> QED
  BY <1>1, <1>2, <1>3, <1>4, <1>5, PTL DEF ObjsSpec, ShipsAreTracked, RemovesTheDistant, LogIsComplete

\* Objects hold what was computed for them, of their ships' last reports.
THEOREM ObjectsStayTracked == ObjectSpec /\ ObjsSpec => ObjectsAreTracked
BY FlagsAreComputed, ShipsStayTracked, PTL DEF ObjectsAreTracked
===============================================================================
