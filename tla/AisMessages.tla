----------------------------- MODULE AisMessages -----------------------------
(* The payloads of AIS messages (src/src/aws_nmea_ais.cpp).  A payload is an  *)
(* array of sextets; c_vdm_msg*::dec_payload() puts each field together from  *)
(* masked and shifted sextets, and c_vdm_dec keeps one object per message     *)
(* type that all ships' messages are decoded into.                            *)
EXTENDS Sextets, TLC

CONSTANTS Payloads(_),   \* the payloads of a type TLC looks at: [n |-> sextets, dat |-> array]
          Vectors(_)     \* those of them that may follow another message

VARIABLES obj,    \* the object of each message type: its decoded fields
          last    \* the message decoded last

msgVars == <<obj, last>>

\* tmpi & 0x08000000 ? tmpi | 0xF0000000 : tmpi, and its like for lat and turn
Width == [lon |-> 28, lat |-> 27, turn |-> 8]
Signed(v, w) == IF v >= 2^(w - 1) THEN v - 2^w ELSE v

\* n characters that lie across sextets byte and byte+1, byte and byte+1, ...
Chars(byte, n, hi, left, lo, right) ==
  [i \in 1..n |-> {<<byte + i - 1, hi, left>>, <<byte + i, lo, -right>>}]

(* The fields of each type.                                                   *)
Header ==
  [repeat |-> {<<1, \h30, -4>>},
   mmsi   |-> {<<1, \h0F, 26>>, <<2, \h3F, 20>>, <<3, \h3F, 14>>, <<4, \h3F, 8>>,
               <<5, \h3F, 2>>, <<6, \h30, -4>>}]

\* lon and lat of messages 1 and 4: put at the top of the int and moved down
\* again, by 4 and by 5
PositionAt(i) ==
  [lon |-> {<<i, \h1F, 23>>, <<i + 1, \h3F, 17>>, <<i + 2, \h3F, 11>>, <<i + 3, \h3F, 5>>,
            <<i + 4, \h3E, -1>>},
   lat |-> {<<i + 4, \h01, 26>>, <<i + 5, \h3F, 20>>, <<i + 6, \h3F, 14>>, <<i + 7, \h3F, 8>>,
            <<i + 8, \h3F, 2>>, <<i + 9, \h30, -4>>}]

Radio == {<<24, \h01, 18>>, <<25, \h3F, 12>>, <<26, \h3F, 6>>, <<27, \h3F, 0>>}

Msg1 == PositionAt(10) @@
  [status   |-> {<<6, \h0F, 0>>},
   turn     |-> {<<7, \h3F, 2>>, <<8, \h30, -4>>},
   speed    |-> {<<8, \h0F, 6>>, <<9, \h3F, 0>>},
   accuracy |-> {<<10, \h20, -7>>},
   course   |-> {<<19, \h0F, 8>>, <<20, \h3F, 2>>, <<21, \h30, -4>>},
   heading  |-> {<<21, \h0F, 5>>, <<22, \h3E, -1>>},
   second   |-> {<<22, \h01, 5>>, <<23, \h3E, -1>>},
   maneuver |-> {<<23, \h01, 1>>, <<24, \h20, -5>>},
   raim     |-> {<<24, \h02, -1>>},
   radio    |-> Radio]

Msg4 == PositionAt(13) @@
  [year     |-> {<<6, \h0F, 10>>, <<7, \h3F, 4>>, <<8, \h3C, -2>>},
   month    |-> {<<8, \h03, 2>>, <<9, \h30, -4>>},
   day      |-> {<<9, \h0F, 1>>, <<10, \h20, -5>>},
   hour     |-> {<<10, \h1F, 0>>},
   minute   |-> {<<11, \h3F, 0>>},
   second   |-> {<<12, \h3F, 0>>},
   accuracy |-> {<<13, \h20, -5>>},
   epfd     |-> {<<22, \h0F, 0>>},
   raim     |-> {<<24, \h02, -1>>},
   radio    |-> Radio]

\* Faulty: one bit of the first sextet is masked away.
Thirty_NarrowMask(i) ==
  {<<i, \h01, 28>>, <<i + 1, \h3F, 22>>, <<i + 2, \h3F, 16>>, <<i + 3, \h3F, 10>>,
   <<i + 4, \h3F, 4>>, <<i + 5, \h3C, -2>>}

Thirty(i) == {<<i, \h03, 28>>, <<i + 1, \h3F, 22>>, <<i + 2, \h3F, 16>>, <<i + 3, \h3F, 10>>,
              <<i + 4, \h3F, 4>>, <<i + 5, \h3C, -2>>}

Msg5 ==
  [ais_version |-> {<<6, \h0C, -2>>},
   imo         |-> Thirty(6),
   shiptype    |-> {<<38, \h03, 6>>, <<39, \h3F, 0>>},
   to_bow      |-> {<<40, \h3F, 3>>, <<41, \h38, -3>>},
   to_stern    |-> {<<41, \h07, 6>>, <<42, \h3F, 0>>},
   to_port     |-> {<<43, \h3F, 0>>},
   to_starboard |-> {<<44, \h3F, 0>>},
   epfd        |-> {<<45, \h3C, -2>>},
   month       |-> {<<45, \h03, 2>>, <<46, \h30, -4>>},
   day         |-> {<<46, \h0F, 1>>, <<47, \h20, -5>>},
   hour        |-> {<<47, \h1F, 0>>},
   minute      |-> {<<48, \h3F, 0>>},
   draught     |-> {<<49, \h3F, 2>>, <<50, \h30, -4>>},
   dte         |-> {<<70, \h08, -3>>}]     \* inverted: see Decoded
Text5 ==
  [callsign    |-> Chars(11, 7, \h03, 4, \h3C, 2),
   shipname    |-> Chars(18, 20, \h03, 4, \h3C, 2),
   destination |-> Chars(50, 20, \h0F, 2, \h30, 4)]

Msg6 ==
  [seqno      |-> {<<6, \h0C, -2>>},
   mmsi_dst   |-> Thirty(6),
   retransmit |-> {<<11, \h01, 0>>},       \* dat[11] & 0x02 != 0 is dat[11] & 1
   dac        |-> {<<12, \h3F, 4>>, <<13, \h3C, -2>>},
   fid        |-> {<<13, \h03, 4>>, <<14, \h3C, -2>>}]

Msg8 ==
  [dac |-> {<<6, \h03, 8>>, <<7, \h3F, 2>>, <<8, \h30, -4>>},
   fid |-> {<<8, \h0F, 2>>, <<9, \h30, -4>>}]

\* what messages 18 and 19 have in common
ClassB ==
  [speed    |-> {<<7, \h03, 8>>, <<8, \h3F, 2>>, <<9, \h30, -4>>},
   accuracy |-> {<<9, \h08, -3>>},
   lon      |-> {<<9, \h07, 25>>, <<10, \h3F, 19>>, <<11, \h3F, 13>>, <<12, \h3F, 7>>,
                 <<13, \h3F, 1>>, <<14, \h20, -5>>},
   lat      |-> {<<14, \h1F, 22>>, <<15, \h3F, 16>>, <<16, \h3F, 10>>, <<17, \h3F, 4>>,
                 <<18, \h3C, -2>>},
   course   |-> {<<18, \h03, 10>>, <<19, \h3F, 4>>, <<20, \h3C, -2>>},
   heading  |-> {<<20, \h03, 7>>, <<21, \h3F, 1>>, <<22, \h20, -5>>},
   second   |-> {<<22, \h1F, 1>>, <<23, \h20, -5>>}]

Msg18 == ClassB @@
  [cs |-> {<<23, \h04, -2>>}, disp |-> {<<23, \h02, -1>>}, dsc |-> {<<23, \h01, 0>>},
   band |-> {<<24, \h20, -5>>}, msg22 |-> {<<24, \h10, -4>>},
   assigned |-> {<<24, \h08, -3>>}, raim |-> {<<24, \h04, -2>>}]

Msg19 == ClassB @@
  [shiptype |-> {<<43, \h01, 7>>, <<44, \h3F, 1>>, <<45, \h20, -5>>},
   to_bow   |-> {<<45, \h1F, 4>>, <<46, \h3C, -2>>},
   to_stern |-> {<<46, \h03, 7>>, <<47, \h3F, 1>>, <<48, \h20, -5>>},
   to_port  |-> {<<48, \h1F, 1>>, <<49, \h20, -5>>},
   to_starboard |-> {<<49, \h1F, 1>>, <<50, \h20, -5>>},
   epfd |-> {<<50, \h1E, -1>>}, raim |-> {<<50, \h01, 0>>},
   dte  |-> {<<51, \h20, -5>>}, assigned |-> {<<51, \h10, -4>>}]
Text19 == [shipname |-> Chars(23, 20, \h01, 5, \h3E, 1)]

Msg24 == [part_no |-> {<<6, \h0C, -2>>}]
Text24A == [shipname |-> Chars(6, 20, \h03, 4, \h3C, 2)]
Msg24B ==
  [shiptype |-> {<<6, \h02, 6>>, <<7, \h3F, 0>>},
   to_bow   |-> {<<22, \h3F, 3>>, <<23, \h38, -3>>},
   to_stern |-> {<<23, \h07, 6>>, <<24, \h3F, 0>>},
   to_port  |-> {<<25, \h3F, 0>>}, to_starboard |-> {<<26, \h3F, 0>>},
   ms_mmsi  |-> {<<27, \h3F, 24>>, <<28, \h3F, 18>>, <<29, \h3F, 12>>, <<30, \h3F, 6>>,
                 <<31, \h3F, 0>>}]
Text24B ==
  [vendorid |-> [i \in 1..7 |-> {<<7 + i, \h3F, 0>>}],
   callsign |-> [i \in 1..7 |-> {<<14 + i, \h3F, 0>>}]]

(* A binary message is unpacked into bytes: byte i of message 8 starts at     *)
(* bit 40, of message 6 at bit 72.  Only sextets the payload has are used, but*)
(* message 6 begins one more byte when its last has taken the last of them.   *)
Bytes8(i) == LET b == 6 + 4 * (i \div 3) IN
  CASE i % 3 = 0 -> {<<b, \h03, 6>>, <<b + 1, \h3F, 0>>}
    [] i % 3 = 1 -> {<<b + 2, \h3F, 2>>, <<b + 3, \h30, -4>>}
    [] i % 3 = 2 -> {<<b + 3, \h0F, 4>>, <<b + 4, \h3C, -2>>}

Bytes6(i) == LET b == 12 + 4 * (i \div 3) IN
  CASE i % 3 = 0 -> {<<b, \h3F, 2>>, <<b + 1, \h03, 0>>}       \* & 0x30 >> 4 is & 3
    [] i % 3 = 1 -> {<<b + 1, \h0F, 4>>, <<b + 2, \h3C, -2>>}
    [] i % 3 = 2 -> {<<b + 2, \h03, 6>>, <<b + 3, \h3F, -2>>}

End6(n) == IF n % 4 = 0 THEN n + 1 ELSE n

Unpacked(Bytes(_), end, pl) ==
  LET held(i) == {p \in Bytes(i) : p[1] < end}
  IN  [i \in {k \in 0..119 : held(k) # {}} |-> Field(pl.dat, held(i))]

(* c_vdm_msg*::dec_payload():       what the object holds afterwards.         *)
Types == {1, 4, 5, 6, 8, 18, 19, 24}
NoText == [f \in {} |-> {}]

PartNo(dat) == Field(dat, Msg24.part_no)

Numbers(t, dat) ==
  Header @@ CASE t = 1 -> Msg1 [] t = 4 -> Msg4 [] t = 5 -> Msg5 [] t = 6 -> Msg6
              [] t = 8 -> Msg8 [] t = 18 -> Msg18 [] t = 19 -> Msg19
              [] t = 24 -> IF PartNo(dat) = 0 THEN Msg24 ELSE Msg24B @@ Msg24

Texts(t, dat) ==
  CASE t = 5 -> Text5 [] t = 19 -> Text19
    [] t = 24 -> IF PartNo(dat) = 0 THEN Text24A ELSE Text24B
    [] OTHER -> NoText

\* '@' ends a text, except in m_destination
Letter(f, c6) == IF DecChar(c6) = 64 /\ f # "destination" THEN 0 ELSE DecChar(c6)

Value(t, f, v) ==
  CASE f \in DOMAIN Width -> Signed(v, Width[f])
    [] t = 5 /\ f = "dte" -> 1 - v
    [] OTHER -> v

Decoded(t, pl) ==
  LET num == Numbers(t, pl.dat)
      txt == Texts(t, pl.dat)
  IN  [f \in DOMAIN num |-> Value(t, f, Field(pl.dat, num[f]))]
      @@ [f \in DOMAIN txt |-> [i \in DOMAIN txt[f] |-> Letter(f, Field(pl.dat, txt[f][i]))]]
      @@ (IF t = 6 THEN [msg |-> Unpacked(Bytes6, End6(pl.n), pl)]
          ELSE IF t = 8 THEN [msg |-> Unpacked(Bytes8, pl.n, pl)] ELSE NoText)

(* c_vdm_msg*::dec_payload(ppl, t): the fields the report is made of, in the  *)
(* order of the flatbuffer's arguments.  The scaled speed and course are the  *)
(* integers they were decoded from.                                           *)
Report1 == {"repeat", "status", "accuracy", "second", "maneuver", "raim", "turn", "speed",
            "course", "heading", "mmsi", "lon", "lat"}
Report4 == {"repeat", "month", "day", "hour", "minute", "second", "epfd", "raim", "accuracy",
            "year", "mmsi", "lon", "lat"}
Report5 == {"repeat", "ais_version", "epfd", "month", "day", "hour", "minute", "to_port",
            "to_starboard", "dte", "shiptype", "callsign", "shipname", "destination",
            "to_bow", "to_stern", "mmsi", "imo", "draught"}
Report6 == {"repeat", "seqno", "retransmit", "fid", "msg", "dac", "mmsi", "mmsi_dst"}
Report8 == {"repeat", "fid", "msg", "dac", "mmsi"}
Report18 == {"repeat", "accuracy", "second", "cs", "disp", "dsc", "band", "msg22", "assigned",
             "raim", "speed", "course", "heading", "mmsi", "lon", "lat"}
Report19 == {"repeat", "accuracy", "second", "assigned", "raim", "shipname", "shiptype",
             "epfd", "dte", "to_port", "to_starboard", "speed", "course", "heading",
             "to_bow", "to_stern", "mmsi", "lon", "lat"}
Report24 == {"repeat", "part_no", "shipname", "shiptype", "to_port", "to_starboard", "model",
             "callsign", "to_bow", "to_stern", "mmsi", "vendorid", "serial", "ms_mmsi"}

Reported(t) ==
  CASE t = 1 -> Report1 [] t = 4 -> Report4 [] t = 5 -> Report5 [] t = 6 -> Report6
    [] t = 8 -> Report8 [] t = 18 -> Report18 [] t = 19 -> Report19 [] t = 24 -> Report24

(* c_vdm_dec::dec_payload(): the object of the type takes the message; what   *)
(* the message does not write stays, so does the tail of a longer one before. *)
Binary(t) == t \in {6, 8}

\* Faulty: a blank name leaves the one the object has.
Merged_KeepsName(t, new) ==
  [f \in DOMAIN new |-> IF f = "shipname" /\ f \in DOMAIN obj[t] /\ new[f][1] = 0
                        THEN obj[t][f] ELSE new[f]] @@ obj[t]

Merged(t, new) ==
  IF Binary(t) /\ "msg" \in DOMAIN obj[t]
  THEN [msg |-> new.msg @@ obj[t].msg] @@ new @@ obj[t]
  ELSE new @@ obj[t]

DecodeMsg(t, pl) ==
  /\ obj' = [obj EXCEPT ![t] = Merged(t, Decoded(t, pl))]
  /\ last' = <<t, pl>>

MsgInit ==
  /\ obj = [t \in Types |-> NoText]
  /\ last = <<>>

\* The objects of different types share nothing: TLC looks at one at a time.
\* Any payload may come first, and Vectors may follow.
MsgNext ==
  \E t \in Types :
    \E pl \in IF last = <<>> THEN Payloads(t) ELSE IF last[1] = t THEN Vectors(t) ELSE {} :
      DecodeMsg(t, pl)

-----------------------------------------------------------------------------
(* The bits of the payload a field is to be taken from: the numbers of the    *)
(* comments beside the code of messages 6, 18, 19 and 24 ("46-55 speed over   *)
(* ground") and, for the others, of the AIS standard those comments follow.   *)
(* Left out, because the code takes other bits: message 1's accuracy (always  *)
(* 0), message 6's retransmit and bytes, and message 24's shiptype (bit 41 is *)
(* lost) and ms_mmsi (beyond the end of the message).                         *)
BitsOfClassB == [speed |-> <<46, 55>>, accuracy |-> <<56, 56>>, lon |-> <<57, 84>>,
                 lat |-> <<85, 111>>, course |-> <<112, 123>>, heading |-> <<124, 132>>,
                 second |-> <<133, 138>>]

Bits(t) ==
  [repeat |-> <<6, 7>>, mmsi |-> <<8, 37>>] @@
  CASE t = 1 -> [status |-> <<38, 41>>, turn |-> <<42, 49>>, speed |-> <<50, 59>>,
                 lon |-> <<61, 88>>, lat |-> <<89, 115>>, course |-> <<116, 127>>,
                 heading |-> <<128, 136>>, second |-> <<137, 142>>, maneuver |-> <<143, 144>>,
                 raim |-> <<148, 148>>, radio |-> <<149, 167>>]
    [] t = 4 -> [year |-> <<38, 51>>, month |-> <<52, 55>>, day |-> <<56, 60>>,
                 hour |-> <<61, 65>>, minute |-> <<66, 71>>, second |-> <<72, 77>>,
                 accuracy |-> <<78, 78>>, lon |-> <<79, 106>>, lat |-> <<107, 133>>,
                 epfd |-> <<134, 137>>, raim |-> <<148, 148>>, radio |-> <<149, 167>>]
    [] t = 5 -> [ais_version |-> <<38, 39>>, imo |-> <<40, 69>>, callsign |-> <<70, 111>>,
                 shipname |-> <<112, 231>>, shiptype |-> <<232, 239>>, to_bow |-> <<240, 248>>,
                 to_stern |-> <<249, 257>>, to_port |-> <<258, 263>>,
                 to_starboard |-> <<264, 269>>, epfd |-> <<270, 273>>, month |-> <<274, 277>>,
                 day |-> <<278, 282>>, hour |-> <<283, 287>>, minute |-> <<288, 293>>,
                 draught |-> <<294, 301>>, destination |-> <<302, 421>>, dte |-> <<422, 422>>]
    [] t = 6 -> [seqno |-> <<38, 39>>, mmsi_dst |-> <<40, 69>>, dac |-> <<72, 81>>,
                 fid |-> <<82, 87>>]
    [] t = 8 -> [dac |-> <<40, 49>>, fid |-> <<50, 55>>]
    [] t = 18 -> BitsOfClassB @@
                 [cs |-> <<141, 141>>, disp |-> <<142, 142>>, dsc |-> <<143, 143>>,
                  band |-> <<144, 144>>, msg22 |-> <<145, 145>>, assigned |-> <<146, 146>>,
                  raim |-> <<147, 147>>]
    [] t = 19 -> BitsOfClassB @@
                 [shipname |-> <<143, 262>>, shiptype |-> <<263, 270>>, to_bow |-> <<271, 279>>,
                  to_stern |-> <<280, 288>>, to_port |-> <<289, 294>>,
                  to_starboard |-> <<295, 300>>, epfd |-> <<301, 304>>, raim |-> <<305, 305>>,
                  dte |-> <<306, 306>>, assigned |-> <<307, 307>>]
    [] t = 24 -> [part_no |-> <<38, 39>>, shipname |-> <<40, 159>>, vendorid |-> <<48, 89>>,
                  callsign |-> <<90, 131>>, to_bow |-> <<132, 140>>, to_stern |-> <<141, 149>>,
                  to_port |-> <<150, 155>>, to_starboard |-> <<156, 161>>]

BitNo(dat, n) == BitOf(dat[n \div 6], 5 - (n % 6))
FromBits(dat, a, b) == MapThenSumSet(LAMBDA n : BitNo(dat, n) * 2^(b - n), a..b)

Expected(t, f, dat) ==
  LET a == Bits(t)[f][1]
      b == Bits(t)[f][2]
  IN  IF f \in {"callsign", "shipname", "destination", "vendorid"}
      THEN [i \in 1..((b - a + 1) \div 6) |->
              Letter(f, FromBits(dat, a + 6 * (i - 1), a + 6 * i - 1))]
      ELSE Value(t, f, FromBits(dat, a, b))

(* Every field of a decoded message is the number, or the text, that the bits *)
(* of the payload set aside for it encode, and the bytes of message 8 are its *)
(* bits from 40 on, with nothing read beyond the payload's end.               *)
FieldsTakeTheirBits ==
  last # <<>> =>
    LET t == last[1]
        pl == last[2]
        new == Decoded(t, pl)
    IN  /\ \A f \in DOMAIN new \intersect DOMAIN Bits(t) :
             obj[t][f] = Expected(t, f, pl.dat)
        /\ t = 8 => \A i \in 0..((6 * pl.n - 40) \div 8 - 1) :
                      obj[t].msg[i] = FromBits(pl.dat, 40 + 8 * i, 47 + 8 * i)

(* A report handed out for a ship carries nothing of a ship whose message was *)
(* decoded into the same object before: it is what a new object would report. *)
(* (Not so for the bytes behind a short message 6 or 8, nor for the other part*)
(* of message 24: see the README.)                                            *)
ReportIsOfOneShip ==
  last # <<>> =>
    LET t == last[1]
        new == Decoded(t, last[2])
    IN  /\ \A f \in Reported(t) \ {"msg"} :
             \/ t = 24 /\ f \notin DOMAIN new
             \/ f \in DOMAIN obj[t] \intersect DOMAIN new /\ obj[t][f] = new[f]
        /\ Binary(t) => \A i \in DOMAIN new.msg : obj[t].msg[i] = new.msg[i]

(* Each field is of its own bits, and of its own ship.                        *)
MessagesAreTheirBits == FieldsTakeTheirBits /\ ReportIsOfOneShip
=============================================================================
