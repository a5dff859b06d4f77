----------------------------- MODULE BoundedFifo -----------------------------
(***************************************************************************)
(* What a byte ring promises: a stream of which a writer is told how much  *)
(* was taken, and of which nothing taken is lost.  RingBuffer implements   *)
(* it.                                                                     *)
(***************************************************************************)
EXTENDS Sequences, Integers

CONSTANTS Elements, Capacity

VARIABLES contents,  \* what is queued, oldest first
          taken,     \* how many elements the last Write or Read moved
          got        \* what the last Read handed out

bvars == <<contents, taken, got>>

AtMost(m, n) == IF m < n THEN m ELSE n

BoundedInit == contents = <<>> /\ taken = 0 /\ got = <<>>

Write(n) ==
  /\ taken' = AtMost(n, Capacity - Len(contents))
  /\ UNCHANGED got
  /\ \E s \in [1..n -> Elements] : contents' = contents \o SubSeq(s, 1, taken')

Read(n) ==
  /\ taken' = AtMost(n, Len(contents))
  /\ got' = SubSeq(contents, 1, taken')
  /\ contents' = SubSeq(contents, taken' + 1, Len(contents))

BoundedNext ==
  \E n \in 1..Capacity + 1 : Write(n) \/ Read(n)

BoundedSpec == BoundedInit /\ [][BoundedNext]_bvars
=============================================================================
