------------------------------ MODULE DataQueue ------------------------------
(***************************************************************************)
(* ch_binary_data_queue<buffer_size, data_size>                            *)
(* (src/channels/ch_binary_data_queue.hpp): a ring of buffer_size slots    *)
(* shared by the filters that push, pop, export and import under the       *)
(* channel's mutex.  An item stands for its bytes and their length.        *)
(***************************************************************************)
EXTENDS Integers, Sequences

CONSTANTS
  Items,      \* data of at most data_size bytes
  NoItem,     \* a slot nobody has written
  BufferSize, \* buffer_size
  DataSize,   \* data_size
  BatchSize   \* bound: items in a buffer given to write_buf()

ASSUME QueueAssumption ==
  /\ NoItem \notin Items
  /\ {BufferSize, DataSize} \subseteq Nat \ {0}
  /\ BatchSize \in 0..BufferSize

VARIABLES
  data_queue, \* the slots, each with its length
  m_head, m_tail, m_num,
  batch,      \* what a write_buf() in progress has still to import
  out         \* what the last pop() or read_buf() returned

vars == <<data_queue, m_head, m_tail, m_num, batch, out>>

Batches == UNION {[1..n -> Items] : n \in 1..BatchSize}

TypeOK ==
  /\ data_queue \in [0..BufferSize-1 -> Items \cup {NoItem}]
  /\ m_head \in 0..BufferSize-1
  /\ m_tail \in 0..BufferSize-1
  /\ m_num \in 0..BufferSize
  /\ m_tail = (m_head + m_num) % BufferSize
  /\ batch \in Seq(Items)
  /\ out \in Seq(Items)

Init ==
  /\ data_queue = [i \in 0..BufferSize-1 |-> NoItem]
  /\ m_head = 0 /\ m_tail = 0 /\ m_num = 0
  /\ batch = <<>>
  /\ out = <<>>

Next1(i) == (i + 1) % BufferSize

\* What reading slot i may yield: behind the last slot lies other memory.
SlotValues(i) == IF i < BufferSize THEN {data_queue[i]} ELSE Items \cup {NoItem}

\* write_buf() keeps the mutex while it imports.
Unlocked == batch = <<>>

\* Faulty variant: a full queue keeps its head.
Push_KeepsHead(x) ==
  /\ Unlocked
  /\ data_queue' = [data_queue EXCEPT ![m_tail] = x]
  /\ m_tail' = Next1(m_tail)
  /\ m_num' = IF m_num = BufferSize THEN m_num ELSE m_num + 1
  /\ UNCHANGED <<m_head, batch, out>>

Push(x) ==
  /\ Unlocked
  /\ data_queue' = [data_queue EXCEPT ![m_tail] = x]
  /\ m_tail' = Next1(m_tail)
  /\ IF m_num = BufferSize THEN m_head' = Next1(m_head) /\ UNCHANGED m_num
                           ELSE m_num' = m_num + 1 /\ UNCHANGED m_head
  /\ UNCHANGED <<batch, out>>

Pop ==
  /\ Unlocked
  /\ IF m_num > 0
       THEN /\ \E x \in SlotValues(m_head) : out' = <<x>>
            /\ m_head' = Next1(m_head)
            /\ m_num' = m_num - 1
       ELSE out' = <<>> /\ UNCHANGED <<m_head, m_num>>
  /\ UNCHANGED <<data_queue, m_tail, batch>>

\* write_buf() starts on a buffer it was given.
WriteBuf(b) ==
  /\ Unlocked
  /\ batch' = b
  /\ UNCHANGED <<data_queue, m_head, m_tail, m_num, out>>

\* One round of its loop; note the modulus of m_head.
Import ==
  /\ batch # <<>>
  /\ data_queue' = [data_queue EXCEPT ![m_tail] = Head(batch)]
  /\ m_tail' = Next1(m_tail)
  /\ IF m_num = BufferSize THEN m_head' = (m_head + 1) % DataSize /\ UNCHANGED m_num
                           ELSE m_num' = m_num + 1 /\ UNCHANGED m_head
  /\ batch' = Tail(batch)
  /\ UNCHANGED out

\* Faulty variant: m_tail stays where it is when everything has been exported.
ReadBuf_KeepsTail ==
  /\ Unlocked
  /\ out' = [i \in 1..m_num |-> data_queue[(m_head + i - 1) % BufferSize]]
  /\ m_head' = 0 /\ m_num' = 0
  /\ UNCHANGED <<data_queue, m_tail, batch>>

ReadBuf ==
  /\ Unlocked
  /\ \E x \in SlotValues(m_head) :
       out' = [i \in 1..m_num |->
                 IF i = 1 THEN x ELSE data_queue[(m_head + i - 1) % BufferSize]]
  /\ m_head' = 0 /\ m_tail' = 0 /\ m_num' = 0
  /\ UNCHANGED <<data_queue, batch>>

Next ==
  \/ \E x \in Items : Push(x)
  \/ \E b \in Batches : WriteBuf(b)
  \/ Pop \/ Import \/ ReadBuf

Spec == Init /\ [][Next]_vars

-----------------------------------------------------------------------------
Queued == [i \in 1..m_num |-> data_queue[(m_head + i - 1) % BufferSize]]

Fifo == INSTANCE FreshestFifo WITH Capacity <- BufferSize, contents <- Queued

\* What push() and write_buf() put in, pop() and read_buf() hand out in the same
\* order, the oldest lost first (test_ch_binary_data_queue.cpp:44-51, 67-82).
ImplementsFifo == Fifo!FifoSpec
=============================================================================
