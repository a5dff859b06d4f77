-------------------------------- MODULE MCClock --------------------------------
(* Values for TLC: corrections to both sides of the resolution and of 30 s. *)
EXTENDS Clock

MCTimeErrors == {-7, -3, 3, 7}
MCCycles == {-1, 2}
=============================================================================
