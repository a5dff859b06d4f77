----------------------------- MODULE FreshestFifo -----------------------------
(***************************************************************************)
(* What the queue channels promise: items leave in the order they came,    *)
(* and when there is no room left the oldest one makes way.                *)
(* DataQueue and NmeaQueue implement it.                                   *)
(***************************************************************************)
EXTENDS Sequences, Naturals

CONSTANTS Items, Capacity

VARIABLES contents,  \* the items queued, oldest first
          out        \* what the last reading operation handed out

fvars == <<contents, out>>

FifoInit == contents = <<>> /\ out = <<>>

Put(x) ==
  /\ contents' = Append(IF Len(contents) = Capacity THEN Tail(contents) ELSE contents, x)
  /\ UNCHANGED out

Take ==
  /\ contents # <<>>
  /\ out' = <<Head(contents)>>
  /\ contents' = Tail(contents)

Miss ==
  /\ contents = <<>>
  /\ out' = <<>>
  /\ UNCHANGED contents

Drain ==
  /\ out' = contents
  /\ contents' = <<>>

FifoNext == Take \/ Miss \/ Drain \/ \E x \in Items : Put(x)

FifoSpec == FifoInit /\ [][FifoNext]_fvars
=============================================================================
