------------------------------ MODULE NmeaQueue ------------------------------
(***************************************************************************)
(* ch_nmea (src/channels/ch_nmea.hpp): a ring of m_max_buf slots for NMEA  *)
(* sentences.  It has no count: m_head = m_tail means that it is empty, so *)
(* that it holds one sentence less than it has slots.                      *)
(***************************************************************************)
EXTENDS Integers, Sequences

CONSTANTS
  Sentences,  \* strings that fit a slot of 84 characters
  TooLong,    \* what is left in a slot of a string that does not
  MaxBuf      \* m_max_buf

NmeaSizes ==
  /\ TooLong \notin Sentences
  /\ MaxBuf \in Nat \ {0, 1}

ASSUME NmeaAssumption == NmeaSizes

VARIABLES
  nmea_buf, nmea_head, nmea_tail,  \* m_buf, m_head, m_tail
  nmea_out    \* what the last pop() copied out

nmeaVars == <<nmea_buf, nmea_head, nmea_tail, nmea_out>>

NmeaTypeOK ==
  /\ nmea_buf \in [0..MaxBuf-1 -> Sentences \cup {TooLong}]
  /\ nmea_head \in 0..MaxBuf-1
  /\ nmea_tail \in 0..MaxBuf-1
  /\ nmea_out \in Seq(Sentences)

\* The slots are allocated, not written.
NmeaInit ==
  /\ nmea_buf = [i \in 0..MaxBuf-1 |-> TooLong]
  /\ nmea_head = 0 /\ nmea_tail = 0
  /\ nmea_out = <<>>

Succ(i) == (i + 1) % MaxBuf

PushNmea(x) ==
  /\ nmea_buf' = [nmea_buf EXCEPT ![nmea_tail] = x]
  /\ nmea_tail' = Succ(nmea_tail)
  /\ nmea_head' = IF nmea_head = Succ(nmea_tail) THEN Succ(nmea_head) ELSE nmea_head
  /\ UNCHANGED nmea_out

\* Faulty variant: a string that is refused is queued all the same.
PushNmeaTooLong_Keeps ==
  /\ nmea_buf' = [nmea_buf EXCEPT ![nmea_tail] = TooLong]
  /\ nmea_tail' = Succ(nmea_tail)
  /\ nmea_head' = IF nmea_head = Succ(nmea_tail) THEN Succ(nmea_head) ELSE nmea_head
  /\ UNCHANGED nmea_out

\* push() has overwritten the free slot before it finds no end in the string.
PushNmeaTooLong ==
  /\ nmea_buf' = [nmea_buf EXCEPT ![nmea_tail] = TooLong]
  /\ UNCHANGED <<nmea_head, nmea_tail, nmea_out>>

PopNmea ==
  /\ IF nmea_head = nmea_tail
       THEN nmea_out' = <<>> /\ UNCHANGED nmea_head
       ELSE nmea_out' = <<nmea_buf[nmea_head]>> /\ nmea_head' = Succ(nmea_head)
  /\ UNCHANGED <<nmea_buf, nmea_tail>>

NmeaNext == (\E x \in Sentences : PushNmea(x)) \/ PushNmeaTooLong \/ PopNmea

NmeaSpec == NmeaInit /\ [][NmeaNext]_nmeaVars

-----------------------------------------------------------------------------
HeldNmea == (nmea_tail - nmea_head) % MaxBuf

QueuedNmea == [i \in 1..HeldNmea |-> nmea_buf[(nmea_head + i - 1) % MaxBuf]]

NmeaFifo == INSTANCE FreshestFifo
              WITH Items <- Sentences, Capacity <- MaxBuf - 1, contents <- QueuedNmea,
                   out <- nmea_out

\* Sentences are popped in the order they were pushed, the oldest lost first, and
\* one that was refused is never seen (ch_nmea.hpp:76-122).
NmeaImplementsFifo == NmeaFifo!FifoSpec
=============================================================================
