------------------------------ MODULE AisBinary ------------------------------
(* AIS binary messages (s_binary_message): set_msg_*() pack numbers, digits   *)
(* or text into the bytes msg[], and gen_nmea() cuts them into the sextets of *)
(* ABM and BBM sentences.                                                     *)
EXTENDS Sextets, SequencesExt

CONSTANTS Blank,           \* what the bytes of a new message may hold
          PvcInputs(_),    \* the arguments of set_msg_pvc*() TLC looks at
          Strings, Hexes, Bins  \* and of set_msg_text/c6, set_msg_hex, set_msg_bin

VARIABLES bin,    \* [len, sq, type, ch, msg], the object's members
          given,  \* <<operation, argument>> that filled msg
          nmeas   \* the payloads of the sentences made from it

binVars == <<bin, given, nmeas>>

(* A run <<i, f, lo, hi, at>>: bits lo..hi of field f lie in byte i from bit  *)
(* at on.                                                                     *)
Byte(runs, i, v) ==
  MapThenSumSet(LAMBDA r : ((v[r[2]] \div 2^r[3]) % 2^(r[4] - r[3] + 1)) * 2^r[5],
                {r \in runs : r[1] = i})
Gathered(runs, f, msg) ==
  MapThenSumSet(LAMBDA r : ((msg[r[1]] \div 2^r[5]) % 2^(r[4] - r[3] + 1)) * 2^r[3],
                {r \in runs : r[2] = f})

\* id, speed and course over ground of pvc2 to pvc5
SetMotion == {<<3, "id", 0, 3, 0>>, <<4, "id", 4, 7, 4>>,
              <<4, "sog", 0, 3, 0>>, <<5, "sog", 4, 9, 2>>,
              <<5, "cog", 0, 1, 0>>, <<6, "cog", 2, 9, 0>>, <<7, "cog", 10, 11, 6>>}
GetMotion == {<<4, "id", 4, 7, 4>>, <<3, "id", 0, 3, 0>>,
              <<5, "sog", 4, 9, 2>>, <<4, "sog", 0, 3, 0>>,
              <<7, "cog", 10, 11, 6>>, <<6, "cog", 2, 9, 0>>, <<5, "cog", 0, 1, 0>>}

\* the absolute position of pvc2 and pvc4
SetPosition == {<<7, "lon", 0, 5, 0>>, <<8, "lon", 6, 13, 0>>, <<9, "lon", 14, 21, 0>>,
                <<10, "lon", 22, 27, 2>>,
                <<10, "lat", 0, 1, 0>>, <<11, "lat", 2, 9, 0>>, <<12, "lat", 10, 17, 0>>,
                <<13, "lat", 18, 25, 0>>, <<14, "lat", 26, 26, 7>>}
GetPosition == {<<10, "lon", 22, 27, 2>>, <<9, "lon", 14, 21, 0>>, <<8, "lon", 6, 13, 0>>,
                <<7, "lon", 0, 5, 0>>,
                <<14, "lat", 26, 26, 7>>, <<13, "lat", 18, 25, 0>>, <<12, "lat", 10, 17, 0>>,
                <<11, "lat", 2, 9, 0>>, <<10, "lat", 0, 1, 0>>}

\* the relative position of pvc3 and pvc5
SetBearing == {<<7, "dist", 0, 5, 0>>, <<8, "dist", 6, 9, 4>>,
               <<8, "bear", 0, 3, 0>>, <<9, "bear", 4, 11, 0>>}
GetBearing == {<<8, "dist", 6, 9, 4>>, <<7, "dist", 0, 5, 0>>,
               <<9, "bear", 4, 11, 0>>, <<8, "bear", 0, 3, 0>>}

SetPvc == {<<0, "id", 0, 7, 0>>, <<1, "sog", 0, 7, 0>>, <<2, "sog", 8, 9, 0>>,
           <<2, "cog", 0, 5, 2>>, <<3, "cog", 6, 11, 0>>,
           <<3, "lon", 0, 1, 6>>, <<4, "lon", 2, 9, 0>>, <<5, "lon", 10, 17, 0>>,
           <<6, "lon", 18, 25, 0>>, <<7, "lon", 26, 27, 0>>,
           <<7, "lat", 0, 5, 2>>, <<8, "lat", 6, 13, 0>>, <<9, "lat", 14, 21, 0>>,
           <<10, "lat", 22, 26, 0>>}
GetPvc == {<<0, "id", 0, 7, 0>>, <<2, "sog", 8, 9, 0>>, <<1, "sog", 0, 7, 0>>,
           <<3, "cog", 6, 11, 0>>, <<2, "cog", 0, 5, 2>>,
           <<7, "lon", 26, 27, 0>>, <<6, "lon", 18, 25, 0>>, <<5, "lon", 10, 17, 0>>,
           <<4, "lon", 2, 9, 0>>, <<3, "lon", 0, 1, 6>>,
           <<10, "lat", 22, 26, 0>>, <<9, "lat", 14, 21, 0>>, <<8, "lat", 6, 13, 0>>,
           <<7, "lat", 0, 5, 2>>}

Kinds == {"pvc", "pvc2", "pvc3", "pvc4", "pvc5"}
SetRuns(k) ==
  CASE k = "pvc" -> SetPvc
    [] k = "pvc2" -> SetMotion \union SetPosition
    [] k = "pvc3" -> SetMotion \union SetBearing
    [] k = "pvc4" -> SetMotion \union SetPosition \union {<<14, "sec", 0, 5, 1>>}
    [] k = "pvc5" -> SetMotion \union SetBearing \union {<<10, "sec", 0, 5, 2>>}
GetRuns(k) ==
  CASE k = "pvc" -> GetPvc
    [] k = "pvc2" -> GetMotion \union GetPosition
    [] k = "pvc3" -> GetMotion \union GetBearing
    [] k = "pvc4" -> GetMotion \union GetPosition \union {<<14, "sec", 0, 5, 1>>}
    [] k = "pvc5" -> GetMotion \union GetBearing \union {<<10, "sec", 0, 5, 2>>}
PvcLen == [pvc |-> 88, pvc2 |-> 113, pvc3 |-> 80, pvc4 |-> 119, pvc5 |-> 86]

FieldsOf(runs) == {r[2] : r \in runs}

\* DAC, FI, AckReq and TextSeq are cleared before id goes into byte 3.
SetMsgPvc(k, v) ==
  LET cleared == IF k = "pvc" THEN {} ELSE 0..3
      written == cleared \union {r[1] : r \in SetRuns(k)}
  IN  /\ bin' = [bin EXCEPT !.len = PvcLen[k],
                            !.msg = [i \in written |-> Byte(SetRuns(k), i, v)] @@ @]
      /\ given' = <<k, v>>
      /\ nmeas' = <<>>

\* Only get_msg_pvc() carries the sign of a position over.
Negative_Never(v, w) == v   \* faulty
Negative(v, w) == IF v >= 2^(w - 1) THEN v - 2^w ELSE v
GetMsgPvc(k, msg) ==
  LET raw == [f \in FieldsOf(GetRuns(k)) |-> Gathered(GetRuns(k), f, msg)]
  IN  IF raw.cog > 3600 THEN "false"
      ELSE IF k = "pvc" THEN [raw EXCEPT !.lon = Negative(@, 28), !.lat = Negative(@, 27)]
      ELSE raw

(* The loops over characters.  n characters of w bits each, packed from the   *)
(* bit a on: the phases ("4 rem 2 res") say which bits of a character complete*)
(* the byte begun and which begin the next, and a byte begun is cleared.      *)
Packed(s, w, a, msg) ==
  LET n == Len(s)
      Touched == {i \in 0..119 : 8 * i + 7 >= a /\ 8 * i < a + w * n}
      CharBit(b) == BitOf(s[(b - a) \div w + 1], w - 1 - ((b - a) % w))
      Kept(i) == IF 8 * i < a THEN msg[i] ELSE 0
  IN  [i \in Touched |->
         Kept(i) + MapThenSumSet(LAMBDA b : CharBit(b) * 2^(7 - (b % 8)),
                                 {b \in (8 * i)..(8 * i + 7) : b >= a /\ b < a + w * n})] @@ msg

Fill(op, s, len, msg) ==
  /\ bin' = [bin EXCEPT !.len = len, !.msg = msg]
  /\ given' = <<op, s>>
  /\ nmeas' = <<>>

\* A digit is 0..15, or 16 for a character that is none: the call fails and
\* what it has written stays.
\* (SetMsgHex_KeepsDigits, faulty: the digits before it stay a message.)
SetMsgHex_KeepsDigits(s) ==
  LET good == SelectInSeq(s, LAMBDA d : d = 16)
      read == IF good = 0 THEN s ELSE SubSeq(s, 1, good - 1)
  IN  Fill("hex", s, 4 * Len(read), Packed(read, 4, 0, bin.msg))

SetMsgHex(s) ==
  LET good == SelectInSeq(s, LAMBDA d : d = 16)
      read == IF good = 0 THEN s ELSE SubSeq(s, 1, good - 1)
  IN  Fill("hex", s, IF good = 0 THEN 4 * Len(s) ELSE 0, Packed(read, 4, 0, bin.msg))

\* The byte after a full one is cleared, even if no bit follows.
SetMsgBin(s) ==
  LET msg == Packed(s, 1, 0, bin.msg)
  IN  Fill("bin", s, Len(s), IF Len(s) % 8 = 0 THEN [msg EXCEPT ![Len(s) \div 8] = 0] ELSE msg)

SetMsgC6(s) ==
  Fill("c6", s, 6 * Len(s), Packed([i \in DOMAIN s |-> EncChar(s[i])], 6, 0, bin.msg))

\* txtseq is 0: DAC 1, FI 0, AckReq set.
TextHead == 0 :> 0 @@ 1 :> \h40 @@ 2 :> \h80 @@ 3 :> 0
SetMsgText(s) ==
  Fill("text", s, 28 + 6 * Len(s),
       Packed([i \in DOMAIN s |-> EncChar(s[i])], 6, 28, TextHead @@ bin.msg))

(* gen_nmea().  The cursor of the loop over sextets: ibit, ibuf and the phase *)
(* im.  A phase that spans two bytes looks at the second only while the       *)
(* message has bits left.                                                     *)
SextetAt(c) ==
  LET byte == bin.msg[c.ibuf]
      next == bin.msg[c.ibuf + 1]
  IN  CASE c.im = 0 -> byte \div 4
        [] c.im = 1 -> (byte % 4) * 16 + IF c.ibit + 2 < bin.len THEN next \div 16 ELSE 0
        [] c.im = 2 -> (byte % 16) * 4 + IF c.ibit + 4 < bin.len THEN next \div 64 ELSE 0
        [] c.im = 3 -> byte % 64

Advanced(c) ==
  CASE c.im = 0 -> [ibit |-> c.ibit + 6, ibuf |-> c.ibuf, im |-> 1]
    [] c.im = 1 -> IF c.ibit + 2 < bin.len
                   THEN [ibit |-> c.ibit + 6, ibuf |-> c.ibuf + 1, im |-> 2]
                   ELSE [ibit |-> c.ibit + 2, ibuf |-> c.ibuf, im |-> 2]
    [] c.im = 2 -> IF c.ibit + 4 < bin.len
                   THEN [ibit |-> c.ibit + 6, ibuf |-> c.ibuf + 1, im |-> 3]
                   ELSE [ibit |-> c.ibit + 4, ibuf |-> c.ibuf, im |-> 3]
    [] c.im = 3 -> [ibit |-> c.ibit + 6, ibuf |-> c.ibuf + 1, im |-> 0]

Addressed == bin.type \in {6, 12}
BitLim == IF Addressed THEN 288 ELSE 348

\* max(num_sends, 9): a message that needs two sentences is sent in nine
NumSends ==
  LET over == bin.len - BitLim
      needed == 1 + (over + 359) \div 360
  IN  IF over <= 0 THEN 1 ELSE IF needed > 9 THEN needed ELSE 9

\* The cursor after k turns of the loop.  Up to the message's end four phases
\* take three bytes.
SextetsOfMessage == IF bin.len = 0 THEN 1 ELSE (bin.len + 5) \div 6
Cursor ==
  LET cursor[k \in 0..(SextetsOfMessage + NumSends)] ==
        IF k < SextetsOfMessage
        THEN [ibit |-> 6 * k, ibuf |-> 3 * (k \div 4) + <<0, 0, 1, 2>>[(k % 4) + 1], im |-> k % 4]
        ELSE Advanced(cursor[k - 1])
  IN  cursor

\* How many sextets the first i sentences carry.  A sentence ends at its limit or
\* at the message's end, but takes one sextet at least: the sentences after the
\* last that is needed carry one each.
Carried ==
  LET carried[i \in 0..NumSends] ==
        IF i = 0 THEN 0
        ELSE Max({carried[i - 1] + 1,
                  Min({SextetsOfMessage, BitLim \div 6 + 60 * (i - 1)})})
  IN  carried

SentencePayloads ==
  [i \in 1..NumSends |->
     [j \in 1..(Carried[i] - Carried[i - 1]) |-> Armor(SextetAt(Cursor[Carried[i - 1] + j - 1]))]]

Pad_BitsUsed(i) == IF i = NumSends THEN bin.len % 6 ELSE 0   \* faulty
Pad(i) == IF i = NumSends THEN (6 - (bin.len % 6)) % 6 ELSE 0
Sentence(i, payload) ==
  [of |-> NumSends, no |-> i, sq |-> bin.sq % (IF Addressed THEN 4 ELSE 10),
   id |-> IF i = 1 THEN bin.type ELSE 0, ch |-> IF i = 1 THEN bin.ch ELSE 0, pad |-> Pad(i),
   payload |-> payload]

GenNmea ==
  /\ IF bin.len > 952 \/ bin.ch >= 4 \/ bin.type \notin {6, 8, 12, 14}
     THEN UNCHANGED <<bin, nmeas>>
     ELSE /\ nmeas' = LET ps == SentencePayloads IN [i \in 1..NumSends |-> Sentence(i, ps[i])]
          /\ bin' = [bin EXCEPT !.sq = (@ % (IF Addressed THEN 4 ELSE 10)) + 1]
  /\ UNCHANGED given

\* type and ch are the caller's to set.
Configure(type, ch) == bin' = [bin EXCEPT !.type = type, !.ch = ch] /\ UNCHANGED <<given, nmeas>>

BinInit ==
  /\ \E b \in Blank : bin = [len |-> 0, sq |-> 0, type |-> 8, ch |-> 0,
                             msg |-> [i \in 0..120 |-> b]]
  /\ given = <<"none">>
  /\ nmeas = <<>>

\* Bounds: one message for an object, sent as often as one likes; a pvc is
\* looked at as it is set, as message 8.
BinNext ==
  \/ given = <<"none">> /\ \E t \in {6, 12, 14}, ch \in {0, 3} : bin.type = 8 /\ Configure(t, ch)
  \/ bin.type = 8 /\ \E k \in Kinds : \E v \in PvcInputs(FieldsOf(SetRuns(k))) :
       given \in {<<"none">>, <<k, v>>} /\ SetMsgPvc(k, v)
  \/ given = <<"none">> /\
       \/ \E s \in Hexes : SetMsgHex(s)
       \/ \E s \in Bins : SetMsgBin(s)
       \/ \E s \in Strings : SetMsgText(s) \/ SetMsgC6(s)
  \/ given[1] \in {"hex", "bin", "c6", "text"} /\ GenNmea

-----------------------------------------------------------------------------
(* What set_msg_pvc*() packs, get_msg_pvc*() of the same message returns, for *)
(* every course up to 360.0 degrees.  pvc2 and pvc4 return a negative lon or  *)
(* lat as its two's complement of 28 or 27 bits.                              *)
PvcRoundTrip ==
  given[1] \in Kinds =>
    LET k == given[1]
        v == given[2]
        Wrapped == IF "lon" \in DOMAIN v /\ k # "pvc"
                   THEN [v EXCEPT !.lon = @ % 2^28, !.lat = @ % 2^27] ELSE v
    IN  v.cog <= 3600 => GetMsgPvc(k, bin.msg) = Wrapped

MsgBit(b) == BitOf(bin.msg[b \div 8], 7 - (b % 8))

(* The message is the digits of the argument one after the other, whatever    *)
(* the bytes held before; a refused string leaves a message of no bits.       *)
MessageIsArgument ==
  /\ given[1] \in {"hex", "bin", "c6", "text"} =>
       LET w == CASE given[1] = "hex" -> 4 [] given[1] = "bin" -> 1 [] OTHER -> 6
           head == bin.len - w * Len(given[2])
       IN  \/ \E i \in DOMAIN given[2] : given[1] = "hex" /\ given[2][i] = 16 /\ bin.len = 0
           \/ /\ head = IF given[1] = "text" THEN 28 ELSE 0
              /\ \A b \in 0..(w * Len(given[2]) - 1) :
                   LET c == given[2][b \div w + 1]
                       d == IF w = 6 THEN c % 64 ELSE c
                   IN  MsgBit(head + b) = BitOf(d, w - 1 - (b % w))

(* The payloads of the sentences, armoured, carry the bits of the message in  *)
(* order and without a gap across sentences, and one sentence carries a       *)
(* message that fits it, with the padding its last sextet has.  (A message of *)
(* no bits is sent as one sextet.)                                            *)
Received == FlattenSeq([i \in DOMAIN nmeas |-> nmeas[i].payload])
SentencesCarryMessage ==
  nmeas # <<>> =>
    /\ 6 * Len(Received) >= bin.len
    /\ \A b \in 0..(bin.len - 1) : BitOf(Dearmor(Received[b \div 6 + 1]), 5 - (b % 6)) = MsgBit(b)
    /\ Len(nmeas) = 1 /\ bin.len > 0 => 6 * Len(Received) - nmeas[1].pad = bin.len
    /\ \A i \in DOMAIN nmeas : Len(nmeas[i].payload) <= 60

(* The bits of a message are its argument's, made, sent and taken apart.      *)
BitsSurvive == PvcRoundTrip /\ MessageIsArgument /\ SentencesCarryMessage
=============================================================================
