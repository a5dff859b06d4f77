------------------------------ MODULE RingBuffer ------------------------------
(***************************************************************************)
(* ch_ring<T, size> (src/channels/ch_vector.hpp): blocks of any length are *)
(* written to and read from a ring of m_size elements.  Each call holds    *)
(* the channel's mutex while its loop runs.                                *)
(***************************************************************************)
EXTENDS Sequences, Integers

CONSTANTS Elements, Size

RingSizes == Size \in Nat \ {0}

ASSUME RingAssumption == RingSizes

VARIABLES
  ring_buf, ring_head, ring_tail, ring_num,  \* m_buf, m_head, m_tail, m_num
  moved,  \* what the last call returned
  got     \* what the last read() filled its buffer with

ringVars == <<ring_buf, ring_head, ring_tail, ring_num, moved, got>>

Places == 0..Size-1

Blocks == UNION {[1..n -> Elements] : n \in 1..Size + 1}

RingTypeOK ==
  /\ ring_buf \in [Places -> Elements]
  /\ ring_head \in Places /\ ring_tail \in Places
  /\ ring_num \in 0..Size
  /\ ring_tail = (ring_head + ring_num) % Size
  /\ moved \in 0..Size
  /\ got \in Seq(Elements)

RingInit ==
  /\ ring_buf \in [Places -> Elements]
  /\ ring_head = 0 /\ ring_tail = 0 /\ ring_num = 0
  /\ moved = 0
  /\ got = <<>>

Least(m, n) == IF m < n THEN m ELSE n

\* Faulty variant: writes on when the ring is full.
Room_Ignored == Size

Room == Size - ring_num

\* write(): stops where there is no room.
WriteRing(s) ==
  LET n == Least(Len(s), Room)
      offset(i) == (i - ring_tail) % Size
  IN /\ ring_buf' = [i \in Places |-> IF offset(i) < n THEN s[offset(i) + 1] ELSE ring_buf[i]]
     /\ ring_tail' = (ring_tail + n) % Size
     /\ ring_num' = ring_num + n
     /\ moved' = n
     /\ UNCHANGED <<ring_head, got>>

\* read(): stops where the ring is empty.
ReadRing(len) ==
  LET n == Least(len, ring_num) IN
  /\ got' = [i \in 1..n |-> ring_buf[(ring_head + i - 1) % Size]]
  /\ ring_head' = (ring_head + n) % Size
  /\ ring_num' = ring_num - n
  /\ moved' = n
  /\ UNCHANGED <<ring_buf, ring_tail>>

RingNext ==
  \/ \E s \in Blocks : WriteRing(s)
  \/ \E len \in 1..Size + 1 : ReadRing(len)

RingSpec == RingInit /\ [][RingNext]_ringVars

-----------------------------------------------------------------------------
Stream == INSTANCE BoundedFifo WITH
  Capacity <- Size, taken <- moved,
  contents <- [i \in 1..ring_num |-> ring_buf[(ring_head + i - 1) % Size]]

\* What write() has taken, and it says how much, read() hands out once and in the
\* same order (ch_vector.hpp:65-83).
RingImplementsStream == Stream!BoundedSpec
=============================================================================
