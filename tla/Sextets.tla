------------------------------- MODULE Sextets -------------------------------
(* The six-bit characters of AIS payloads and the bit arithmetic of           *)
(* src/src/aws_nmea_ais.cpp.                                                  *)
EXTENDS Integers, Sequences, FiniteSetsExt

(* A part <<i, mask, shift>> stands for (dat[i] & mask) << shift, a negative  *)
(* shift for >>.  The parts of a field do not overlap, so | adds them up.     *)
BitOf(x, b) == (x \div 2^b) % 2
And == [x \in 0..63, mask \in 0..63 |->
          MapThenSumSet(LAMBDA b : BitOf(x, b) * BitOf(mask, b) * 2^b, 0..5)]
Shifted(x, s) == IF s < 0 THEN x \div 2^(-s) ELSE x * 2^s
Field(dat, parts) == MapThenSumSet(LAMBDA p : Shifted(And[dat[p[1]], p[2]], p[3]), parts)

\* Six-bit characters.  A space becomes '`', as the tests expect it to.
DecChar(c6) == IF c6 <= 32 THEN c6 + 64 ELSE c6
EncChar(c8) == IF 64 <= c8 /\ c8 < 96 THEN c8 - 64 ELSE IF c8 >= 32 THEN c8 ELSE 0
Armor(c) == IF c < 40 THEN c + 48 ELSE c + 56
Dearmor(c) == IF c - 48 > 40 THEN c - 56 ELSE c - 48
=============================================================================
