------------------------------ MODULE RadarImage ------------------------------
(* ch_radar_image (ch_radar.hpp): set_spoke spreads the energy of a spoke     *)
(* over the lines its beam overlaps and, when the beam has left a line, thins *)
(* that line to its first return and the blobs that end before it.            *)
(*                                                                            *)
(* The antenna turns forward; spokes get lost, the range changes.  All spokes *)
(* have one length: set_spoke takes it with each, and what lies beyond a      *)
(* shorter one would be neither renewed nor thinned.  Range and image are     *)
(* under the channel's lock but for the reset before it.                      *)
EXTENDS Integers, Sequences, FiniteSetsExt

CONSTANTS Spokes,      \* GARMIN_XHD_SPOKES
          Len0,        \* points of a spoke
          Overwrap, Vth,
          Echoes,      \* data a spoke may carry: functions on 1..Len0
          Starts,      \* bearings of the first spoke
          MaxSpokes, MaxEvents   \* bounds: spokes; echoes, lost spokes, changes of range

\* The beam is far narrower than a turn, and a spoke lost leaves its line in it.
ASSUME RadarAssumption ==
  /\ Overwrap \in Nat /\ Overwrap >= 2 /\ Spokes \in Nat /\ Spokes > 6 * Overwrap + 1
  /\ Len0 \in Nat /\ Vth \in 1..255 /\ Echoes \subseteq [1..Len0 -> 0..255]
  /\ Starts \subseteq 0..(Spokes - 1) /\ MaxSpokes \in Nat /\ MaxEvents \in Nat

VARIABLES lines, number,     \* by bearing; number is of m_history
          spoke_count, recent_spoke, m_range,
          bearing,     \* of the last spoke
          energy,      \* from each of the last spokes on
          finished,    \* lines thinned and out of the beam's reach since
          events

radarVars == <<lines, number, spoke_count, recent_spoke, m_range, bearing, energy, finished, events>>

Bearings == 0..(Spokes - 1)
Pixels == 1..Len0
Blank == [b \in Bearings |-> [r \in Pixels |-> 0]]

RadarInit ==
  /\ lines = Blank /\ number = [b \in Bearings |-> 0]
  /\ spoke_count = 0 /\ recent_spoke = <<>> /\ m_range = 1
  /\ bearing \in {(s - 1) % Spokes : s \in Starts}
  /\ energy = <<>> /\ finished = {} /\ events = 0
-------------------------------------------------------------------------------
\* The difference of two numbers, unsigned, is more than the overlap.
Apart(n, k) == n < k \/ n - k > Overwrap

(* The spoke's share of each line around it: the line is begun anew if it is  *)
(* of an earlier turn.                                                        *)
\* A bug: the new share is always added.
Renewed_Never(old, share, isOld) == Min({255, old + share})
Renewed(old, share, isOld) == IF isOld THEN share ELSE Min({255, old + share})
Share(data) == [r \in Pixels |-> data[r] \div (2 * Overwrap + 1)]
Reach(b) == {(b + i) % Spokes : i \in (-Overwrap)..Overwrap}
Spread(ln, num, b, data) ==
  [c \in Bearings |->
     IF c \notin Reach(b) THEN ln[c]
     ELSE [r \in Pixels |-> Renewed(ln[c][r], Share(data)[r], Apart(spoke_count, num[c]))]]

\* What the last spokes have given to each of their lines, with this spoke's.
Poured(e, data) ==
  Append([i \in DOMAIN e |-> [r \in Pixels |-> e[i][r] + Share(data)[r]]], Share(data))

(* The blob that ends before line f at point r: the lines before f that are   *)
(* bright there, as far as they are within the overlap of f's number nf.      *)
BlobWidth(ln, num, f, nf, r) ==
  Min({Spokes} \union {d \in 0..(Spokes - 1) :
         LET c == (f - d - 1) % Spokes IN Apart(nf, num[c]) \/ ln[c][r] < Vth})

(* The line at distance d before f, of a blob of width l: its sides are       *)
(* cleared.  A blob of an even width keeps its farther half.                  *)
\* A bug: a blob of one line is cleared.
Lit_RoundedUp(l, d) == LET zero == Min({(l + 1) \div 2, Overwrap}) IN d >= 1 + zero /\ d < l - zero + 1
Lit(l, d) ==
  LET zero == Min({l \div 2, Overwrap})
  IN  d >= 1 + zero /\ (d < l - zero + 1 \/ l = 2 * zero)

\* The first return of a line, or none; of a finished line nothing else stays.
Return(line) == Min({Len0 + 1} \union {r \in Pixels : line[r] >= Vth})
\* A bug: what lies behind the first return stays.
Kept_Behind(r, first) == r >= first
Kept(r, first) == r = first

(* Sidelobe suppression at f; first is the return of f.  In the first calls,  *)
(* when no line is left yet, f is -1 and line f is what lies before the lines *)
(* in memory: m_history.                                                      *)
Suppressed(ln, num, f, nf, first) ==
  [c \in Bearings |-> [r \in Pixels |->
     LET l == BlobWidth(ln, num, f, nf, r)
         d == (f - c) % Spokes
     IN  IF c = f THEN IF Kept(r, first) THEN ln[c][r] ELSE 0
         ELSE IF r # first /\ d \in 1..l THEN IF Lit(l, d) THEN 255 ELSE 0
         ELSE ln[c][r]]]

set_spoke(b, data, range) ==
  LET anew == range # m_range
      num == [IF anew THEN [c \in Bearings |-> 0] ELSE number EXCEPT ![b] = spoke_count]
      ln == Spread(IF anew THEN Blank ELSE lines, num, b, data)
      full == Len(recent_spoke) = Overwrap
      seen == {c \in Bearings : num[c] # 0}
  IN  /\ m_range' = range /\ bearing' = b /\ spoke_count' = spoke_count + 1
      /\ recent_spoke' = Append(IF full THEN Tail(recent_spoke) ELSE recent_spoke, b)
      /\ energy' = LET e == Poured(IF anew THEN <<>> ELSE energy, data)
                   IN  IF Len(e) > 2 * Overwrap + 1 THEN Tail(e) ELSE e
      /\ IF full
         THEN LET f == Head(recent_spoke)
              IN  /\ lines' = Suppressed(ln, num, f, num[f], Return(ln[f]))
                  /\ number' = num
                  /\ finished' = ((IF anew THEN {} ELSE finished) \ Reach(b)) \union {f}
         ELSE \* the memory before m_history and its bytes are anything
              /\ \E nf \in {0, MaxSpokes + Overwrap + 1}, first \in 1..(Len0 + 1) :
                   lines' = Suppressed(ln, num, -1, nf, first)
              /\ \E z \in SUBSET seen : number' = [c \in Bearings |-> IF c \in z THEN 0 ELSE num[c]]
              /\ finished' = (IF anew THEN {} ELSE finished) \ Reach(b)

RadarNext ==
  /\ spoke_count < MaxSpokes
  /\ \E lost \in 0..1, range \in 1..2, data \in Echoes :
       /\ events' = events + lost + (IF range # m_range THEN 1 ELSE 0) + (IF data = Blank[0] THEN 0 ELSE 1)
       /\ events' <= MaxEvents
       /\ set_spoke((bearing + 1 + lost) % Spokes, data, range)

RadarSpec == RadarInit /\ [][RadarNext]_radarVars
-------------------------------------------------------------------------------
(* What the beam has left behind shows one return per line, whatever blobs    *)
(* are cut from it later.                                                     *)
ThinnedBehindBeam ==
  \A b \in finished : \A r, q \in Pixels : lines[b][r] # 0 /\ lines[b][q] # 0 => r = q

(* Cutting a blob does not make an echo vanish: where a line behind the beam  *)
(* goes dark, a line of the same blob is lit at this distance.                *)
EchoSurvives ==
  [][m_range' = m_range =>
       \A b \in finished \ Reach(bearing') : \A r \in Pixels :
         lines[b][r] >= Vth /\ lines'[b][r] = 0 =>
           \E d \in 1..Overwrap : lines'[(b - d) % Spokes][r] = 255
                                  \/ lines'[(b + d) % Spokes][r] = 255]_radarVars

(* The lines in the beam hold energy of the last spokes alone: none of an     *)
(* earlier turn or of another range.  What the first calls cut out of lines   *)
(* before the memory may have lit a line is behind them by then.              *)
NoStaleEnergy ==
  \A i \in DOMAIN recent_spoke : \A r \in Pixels :
    spoke_count > 2 * Overwrap + 1 => lines[recent_spoke[i]][r] <= energy[1][r]

(* Thinning takes of each echo all but its middle, and only this turn's echoes*)
(* are there.                                                                 *)
EchoesAreKept == [](ThinnedBehindBeam /\ NoStaleEnergy) /\ EchoSurvives
=============================================================================
