---------------------------- MODULE NmeaSentences -----------------------------
(* The NMEA 0183 sentences (c_nmea_dec, src/src/aws_nmea.cpp and              *)
(* aws_nmea_gps.cpp).  A decoder object of each kind is used for every        *)
(* sentence of that kind; decode() resets fields, reads the tokens between    *)
(* the commas one by one, and reports the fields.                             *)
EXTENDS Integers, Sequences, SequencesExt, TLC

CONSTANTS Sentences(_, _),  \* the sentences TLC looks at of a kind with such rules,
          Earlier(_, _)     \* and those of them that may come before others

VARIABLES nmea0183_objs,  \* the kinds a decoder was added for, in that order
          dat,            \* the fields of each decoder object
          report,         \* what decode() returned last
          taken           \* the sentence it was given

nmeaVars == <<nmea0183_objs, dat, report, taken>>

(* A token is a number <<"n", v>>, a letter or word <<"c", w>>, or empty.      *)
Empty == <<"e">>
Number(tok) == IF tok[1] = "n" THEN tok[2] ELSE 0
Letter(tok) == IF tok[1] = "c" THEN tok[2] ELSE ""
Garbled == -999   \* a number cut apart at the wrong place

(* What a decoder does with a token: <<"num", f>> and <<"pos", f>> store a    *)
(* number and a position, <<"mark", c>> wants the letter c, <<"word", w>> the *)
(* whole word w, <<"pick", f, values, else>> translates a letter.             *)
Num(f) == <<"num", f>>
Pos(f) == <<"pos", f>>
Mark(c) == <<"mark", c>>
Pick(f, values, else) == <<"pick", f, values, else>>
Skip == <<"skip">>

Keep == <<"keep">>
Fail == <<"fail">>
Else(v) == <<"else", v>>

FixMode == "N" :> "LOST" @@ "A" :> "GPSF" @@ "D" :> "DGPSF" @@ "E" :> "ESTM"
North(f) == Pick(f, "N" :> "N", Else("S"))
East(f) == Pick(f, "E" :> "E", Else("W"))
Flag(f) == Pick(f, "A" :> TRUE, Else(FALSE))

\* A decoder: what it does with its tokens, and the fields decode() does not
\* reset before.  Tokens no case reads are left out.
Gga ==
  [tokens |-> <<Num("time"), Pos("m_lat_deg"), North("m_lat_dir"), Pos("m_lon_deg"),
               East("m_lon_dir"), <<"fix">>, Num("m_num_sats"), Num("m_hdop"), Num("m_alt"),
               Skip, Num("m_geos"), Skip, Num("m_dgps_age"), Num("m_dgps_station")>>,
   kept |-> {}]

Gsa ==
  [tokens |-> <<Pick("smm", "A" :> "Auto", Else("Manual")),
               Pick("mm", "1" :> "No" @@ "2" :> "Two" @@ "3" :> "Three", Keep),
               Num("sused1"), Num("sused2"), Num("sused3"), Num("sused4"), Num("sused5"),
               Num("sused6"), Num("sused7"), Num("sused8"), Num("sused9"), Num("sused10"),
               Num("sused11"), Num("sused12"), Num("pdop"), Num("hdop"), Num("vdop")>>,
   kept |-> {}]

Rmc ==
  [tokens |-> <<Num("time"), Flag("m_v"), Pos("m_lat_deg"), North("m_lat_dir"),
               Pos("m_lon_deg"), East("m_lon_dir"), Num("m_vel"), Num("m_crs"), Num("date"),
               Num("m_crs_var"), East("m_crs_var_dir"), Pick("fs", FixMode, Keep)>>,
   kept |-> {"m_v"}]

Vtg ==
  [tokens |-> <<Num("crs_t"), Mark("T"), Num("crs_m"), Mark("M"), Num("v_n"), Mark("N"),
               Num("v_k"), Mark("K"), Pick("fs", FixMode, Fail)>>,
   kept |-> {"fs"}]

Zda ==
  [tokens |-> <<Num("time"), Num("m_dy"), Num("m_mn"), Num("m_yr"), Num("m_lzh"), Num("m_lzm")>>,
   kept |-> {}]

Gll ==
  [tokens |-> <<Pos("lat"), North("lat_dir"), Pos("lon"), East("lon_dir"), Num("time"),
               Flag("available"), Pick("fs", FixMode, Keep)>>,
   kept |-> {"lat_dir", "lon_dir"}]

Hdt ==
  [tokens |-> <<Num("hdg"), Skip>>,
   kept |-> {}]

Hev ==
  [tokens |-> <<Num("hev"), Skip>>,
   kept |-> {}]

Rot ==
  [tokens |-> <<Num("rot"), Flag("available")>>,
   kept |-> {"available"}]

Hpr ==
  [tokens |-> <<Num("time"), Num("hdg"), Num("pitch"), Num("roll"),
               Pick("gyro", "N" :> FALSE, Else(TRUE))>>,
   kept |-> {}]

Mda ==
  [tokens |-> <<Num("iom"), Mark("I"), Num("bar"), Mark("B"), Num("temp_air"), Mark("C"),
               Num("temp_wtr"), Mark("C"), Num("hmdr"), Num("hmda"), Num("dpt"), Mark("C"),
               Num("dir_wnd_t"), Mark("T"), Num("dir_wnd_m"), Mark("M"), Num("wspd_kts"),
               Mark("N"), Num("wspd_mps"), Mark("M")>>,
   kept |-> {}]

Wmv ==
  [tokens |-> <<Num("wangl"), Pick("relative", "R" :> TRUE @@ "T" :> FALSE, Fail), Num("wspd"),
               Pick("spd_unit", "K" :> "kmph" @@ "M" :> "mps" @@ "N" :> "knots" @@ "S" :> "mph",
               Keep),
               Pick("valid", "A" :> TRUE @@ "V" :> FALSE, Fail)>>,
   kept |-> {}]

Xdr ==
  [tokens |-> <<Mark("A"), Num("pitch"), Mark("D"), <<"word", "PITCH">>, Mark("A"), Num("roll"),
               Mark("D"), <<"word", "ROLL">>>>,
   kept |-> {}]

Dbt ==
  [tokens |-> <<Num("dfe"), Mark("f"), Num("dm"), Mark("M"), Num("dfa"), Mark("F")>>,
   kept |-> {}]

Abk ==
  [tokens |-> <<Pick("m_rch", "A" :> "CHA" @@ "B" :> "CHB", Keep), Num("m_mmsi"), Num("m_msg_id"),
               Num("m_seq"), Num("m_stat")>>,
   kept |-> {"m_rch", "m_mmsi", "m_msg_id", "m_seq", "m_stat"}]

Kinds == {"GGA", "GSA", "RMC", "VTG", "ZDA", "GLL", "HDT", "HEV",
          "ROT", "HPR", "MDA", "WMV", "XDR", "DBT", "ABK"}
Decoder(k) ==
  CASE k = "GGA" -> Gga [] k = "GSA" -> Gsa [] k = "RMC" -> Rmc [] k = "VTG" -> Vtg
    [] k = "ZDA" -> Zda [] k = "GLL" -> Gll [] k = "HDT" -> Hdt [] k = "HEV" -> Hev
    [] k = "ROT" -> Rot [] k = "HPR" -> Hpr [] k = "MDA" -> Mda [] k = "WMV" -> Wmv
    [] k = "XDR" -> Xdr [] k = "DBT" -> Dbt [] k = "ABK" -> Abk

\* GSV, below, has a decoder of another form.
RulesOf(k) == IF k \in Kinds THEN Decoder(k).tokens ELSE <<>>

FieldsOf(k) ==
  LET stores == SelectSeq(RulesOf(k), LAMBDA r : r[1] \in {"num", "pos", "pick"})
  IN  {stores[i][2] : i \in DOMAIN stores}
      \union (IF k = "GGA" THEN {"m_fix_status"} ELSE {})

(* The assignments at the head of decode().                                    *)
Start(f) ==
  CASE f = "fs" -> "LOST"
    [] f \in {"m_lon_dir", "lon_dir", "m_crs_var_dir"} -> "E"
    [] f \in {"m_lat_dir", "lat_dir"} -> "N" [] f = "m_rch" -> "NA"
    [] f = "smm" -> "Auto" [] f = "mm" -> "No" [] f = "spd_unit" -> "kmph"
    [] f \in {"available", "gyro", "relative", "valid", "m_v"} -> FALSE
    [] OTHER -> 0

KeptOver(k) == Decoder(k).kept

\* GGA mixes the two directions up, so that a position without them is
\* reported as one in the south and west.
Defaults(k) ==
  [f \in FieldsOf(k) \ KeptOver(k) |->
     IF k = "GGA" /\ f = "m_lon_dir" THEN "N"
     ELSE IF k = "GGA" /\ f = "m_lat_dir" THEN "E" ELSE Start(f)]

(* The effect of one rule on the object o: [ok, o].                           *)
Store(o, f, v) == [ok |-> TRUE, o |-> [o EXCEPT ![f] = v]]
Apply(rule, tok, ends, o) ==
  LET w == Letter(tok)
      v == Number(tok)
  IN  CASE rule[1] = "num" -> Store(o, rule[2], v)
        [] rule[1] = "pos" -> Store(o, rule[2], IF v < 0 THEN Garbled ELSE v)
        [] rule[1] = "mark" -> [ok |-> w = rule[2], o |-> o]
           \* the last token ends in the checksum, and the whole of it is compared
        [] rule[1] = "word" -> [ok |-> w = rule[2] /\ ~ends, o |-> o]
        [] rule[1] = "pick" ->
             IF w \in DOMAIN rule[3] THEN Store(o, rule[2], rule[3][w])
             ELSE IF rule[4] = <<"keep">> THEN [ok |-> TRUE, o |-> o]
             ELSE IF rule[4] = <<"fail">> THEN [ok |-> FALSE, o |-> o]
             ELSE Store(o, rule[2], rule[4][2])
           \* no break behind the fix status: the satellites get its number
        [] rule[1] = "fix" -> [ok |-> TRUE, o |-> [o EXCEPT !.m_fix_status = v, !.m_num_sats = v]]
        [] rule[1] = "skip" -> [ok |-> TRUE, o |-> o]

(* The loop of dec().  parstrcpy() returns -1 for the last token, so that the *)
(* loop stays there and reads it again for every parameter the sentence       *)
(* lacks.  Empty tokens but the last are passed over, save by DBT.            *)
\* (Dec_NoneEmpty, faulty: empty tokens are read like others.)
Dec_NoneEmpty(k, toks, o) ==
  LET rules == RulesOf(k)
      Step(st, i) ==
        IF ~st.ok THEN st
        ELSE Apply(rules[i], IF i >= Len(toks) THEN Last(toks) ELSE toks[i], i >= Len(toks), st.o)
  IN  FoldLeft(Step, [ok |-> TRUE, o |-> o], [i \in DOMAIN rules |-> i])

Dec(k, toks, o) ==
  LET rules == RulesOf(k)
      Step(st, i) ==
        LET last == i >= Len(toks)
            tok == IF last THEN Last(toks) ELSE toks[i]
        IN  IF ~st.ok \/ (tok = Empty /\ ~last /\ k # "DBT") THEN st
            ELSE Apply(rules[i], tok, last, st.o)
  IN  FoldLeft(Step, [ok |-> TRUE, o |-> o], [i \in DOMAIN rules |-> i])

(* GSV: four satellites in each sentence, fewer in the last.  A satellite is  *)
(* done when its signal strength comes: without one, the next overwrites it.  *)
GsvFields == {"ns", "nsats_usable", "si", "sat"}
NoSat == [id |-> 0, el |-> 0, az |-> 0, sn |-> 0]
NoSats == [i \in 1..4 |-> NoSat]
GsvPart == <<"id", "el", "az", "sn">>

DecGsv(toks, o) ==
  LET Index(tok) == IF Number(tok) \in 0..4 THEN Number(tok) ELSE 0
      Left(n, si) == IF n - (si - 1) * 4 > 4 THEN 4 ELSE n - (si - 1) * 4
      Step(st, i) ==
        LET last == i >= Len(toks)
            tok == IF last THEN Last(toks) ELSE toks[i]
            f == GsvPart[((i - 4) % 4) + 1]
        IN  IF i >= st.npar \/ (tok = Empty /\ ~last) THEN st
            ELSE CASE i = 1 -> [st EXCEPT !.o.ns = Index(tok)]
                   [] i = 2 -> [st EXCEPT !.o.si = Index(tok)]
                   [] i = 3 -> [st EXCEPT !.o.nsats_usable = Number(tok),
                                          !.npar = Left(Number(tok), st.o.si) * 4 + 4]
                   [] OTHER -> [st EXCEPT !.o.sat[st.isat][f] = Number(tok),
                                          !.isat = IF f = "sn" THEN @ + 1 ELSE @]
      end == FoldLeft(Step, [o |-> o, npar |-> 20, isat |-> 1], [i \in 1..19 |-> i])
  IN  [ok |-> TRUE, o |-> end.o]

(* encode(): the tokens written for an object, <<>> for a kind without one.   *)
N(v) == <<"n", v>>
C(w) == <<"c", w>>
FixLetter(fs) == CHOOSE w \in DOMAIN FixMode : FixMode[w] = fs

\* Hemispheres by the sign of the degrees, which decoding never makes negative.
EncodeGga(o) ==
  LET lat == IF o.m_lat_deg > 0 THEN <<N(o.m_lat_deg), C("N")>> ELSE <<N(-o.m_lat_deg), C("S")>>
      lon == IF o.m_lon_deg > 0 THEN <<N(o.m_lon_deg), C("E")>> ELSE <<N(o.m_lon_deg), C("W")>>
      head == <<N(o.time)>> \o lat \o lon \o
              <<N(o.m_fix_status), N(o.m_num_sats), N(o.m_hdop)>>
      dgps == IF o.m_fix_status = 2 THEN <<N(o.m_dgps_age), N(o.m_dgps_station)>>
              ELSE <<Empty, Empty>>
  \* a dilution of 10.0 or more (in tenths) does not fit its buffer, and the
  \* sentence ends there
  IN  IF o.m_hdop >= 100 THEN head
      ELSE head \o <<N(o.m_alt), C("M"), N(o.m_geos), C("M")>> \o dgps

EncodeVtg_CoursesSwapped(o) ==   \* faulty
  <<N(o.crs_m), C("T"), N(o.crs_t), C("M"), N(o.v_n), C("N"), N(o.v_k), C("K"),
    C(FixLetter(o.fs))>>
EncodeVtg(o) == <<N(o.crs_t), C("T"), N(o.crs_m), C("M"), N(o.v_n), C("N"), N(o.v_k), C("K"),
                  C(FixLetter(o.fs))>>

\* The sentence ends in two asterisks, and its checksum is of what is before.
EncodeZda(o) == <<N(o.time), N(o.m_dy), N(o.m_mn), N(o.m_yr), N(o.m_lzh), N(o.m_lzm)>>

\* A southern latitude, which is stored without a sign, is written negative.
EncodeGll(o) ==
  LET lat == IF o.lat_dir = "N" THEN <<N(o.lat), C("N")>> ELSE <<N(-o.lat), C("S")>>
      lon == IF o.lon_dir = "E" THEN <<N(o.lon), C("E")>> ELSE <<N(o.lon), C("W")>>
  IN  lat \o lon \o <<N(o.time), C(IF o.available THEN "A" ELSE "V"), C(FixLetter(o.fs))>>

EncodeHpr(o) == <<N(o.time), N(o.hdg), N(o.pitch), N(o.roll), C(IF o.gyro THEN "G" ELSE "N")>>

Encode(k, o) ==
  CASE k = "GGA" -> EncodeGga(o) [] k = "VTG" -> EncodeVtg(o) [] k = "ZDA" -> EncodeZda(o)
    [] k = "GLL" -> EncodeGll(o) [] k = "HPR" -> EncodeHpr(o) [] OTHER -> <<>>

(* What the report makes of a position.                                       *)
Signed(v, dir, plus) == IF dir = plus THEN v ELSE -v
Reported(k, o) ==
  CASE k \in {"GGA", "RMC"} ->
         [latitude |-> Signed(o.m_lat_deg, o.m_lat_dir, "N"),
          longitude |-> Signed(o.m_lon_deg, o.m_lon_dir, "E")] @@ o
    [] k = "GLL" -> [latitude |-> Signed(o.lat, o.lat_dir, "N"),
                     longitude |-> Signed(o.lon, o.lon_dir, "E")] @@ o
    [] OTHER -> o

(* c_nmea_dec::add_nmea0183_decoder() and add_psat_decoder(): kinds unknown   *)
(* or present are refused.                                                    *)
AddDecoder(k) ==
  /\ nmea0183_objs' = IF k \in Kinds \union {"GSV"} /\ k \notin Range(nmea0183_objs)
                      THEN Append(nmea0183_objs, k) ELSE nmea0183_objs
  /\ UNCHANGED <<dat, report, taken>>

(* c_nmea_dec::decode(): the checksum, the decoder of the kind, its reset and *)
(* its loop.  A sentence refused on the way leaves the fields read before it. *)
Reset_Nothing(k) == [f \in {} |-> 0]   \* faulty
Reset(k) == IF k = "GSV" THEN [ns |-> 0, nsats_usable |-> 0, sat |-> NoSats] ELSE Defaults(k)

DecodeSentence(k, sum, toks) ==
  LET start == Reset(k) @@ dat[k]
      end == IF k = "GSV" THEN DecGsv(toks, start) ELSE Dec(k, toks, start)
  IN  IF ~sum \/ k \notin Range(nmea0183_objs)
      THEN /\ report' = <<"NULL">>
           /\ UNCHANGED <<nmea0183_objs, dat, taken>>
      ELSE /\ dat' = [dat EXCEPT ![k] = end.o]
           /\ report' = IF end.ok THEN <<k, Reported(k, end.o)>> ELSE <<"NULL">>
           /\ taken' = toks
           /\ UNCHANGED nmea0183_objs

\* A new decoder object.  (c_vtg's constructor leaves out fs, which only a
\* sentence with more tokens than a VTG has could report.)
Unset(k) ==
  IF k = "GSV" THEN [ns |-> 0, nsats_usable |-> 0, si |-> 0, sat |-> NoSats]
  ELSE [f \in FieldsOf(k) |-> Start(f)]

NmeaInit ==
  /\ nmea0183_objs = <<>>
  /\ dat = [k \in Kinds \union {"GSV"} |-> Unset(k)]
  /\ report = <<"NULL">>
  /\ taken = <<>>

\* The objects of different kinds share nothing: TLC looks at one at a time.
NmeaNext ==
  \/ nmea0183_objs = <<>> /\ \E k \in Kinds \union {"GSV", "XXX"} : AddDecoder(k)
  \/ \E k \in Range(nmea0183_objs) :
       \/ DecodeSentence(k, FALSE, <<>>)
       \/ \E toks \in Sentences(k, RulesOf(k)) :
            /\ taken \in {<<>>, toks} \union Earlier(k, RulesOf(k))
            /\ DecodeSentence(k, TRUE, toks)

-----------------------------------------------------------------------------
(* Whatever was decoded before, the report of a sentence of full length holds *)
(* what its own tokens say, each field from the token at its own place, and   *)
(* the default where that is empty.  (Not so for the fields in KeptOver, nor  *)
(* for GGA's satellites, which the fix status stands in for: see the README.) *)
ReportIsOfThisSentence ==
  LET k == report[1]
      rules == RulesOf(k)
  IN  k \in Kinds /\ Len(taken) >= Len(rules) =>
      \A i \in DOMAIN rules :
        LET rule == rules[i]
            tok == taken[i]
            f == rule[2]
        IN  /\ rule[1] \in {"num", "pos"} =>
                 report[2][f] = IF tok # Empty THEN Number(tok)
                                ELSE IF f = "m_num_sats" THEN Number(taken[6])
                                ELSE IF f \in KeptOver(k) THEN report[2][f] ELSE 0
            /\ rule[1] = "pick" /\ tok # Empty /\ Letter(tok) \in DOMAIN rule[3] =>
                 report[2][f] = rule[3][Letter(tok)]
            /\ rule[1] = "pick" /\ tok = Empty /\ i < Len(taken) /\ f \notin KeptOver(k) =>
                 report[2][f] = Defaults(k)[f]
            /\ rule[1] = "mark" /\ tok # Empty => Letter(tok) = rule[2]

(* The satellites of a GSV sentence that has its index and every signal       *)
(* strength are those of its tokens, and the places behind them are empty.    *)
SatellitesInOrder ==
  report[1] = "GSV" =>
    LET n == (Len(taken) - 3) \div 4
        told == Number(taken[3]) - (Number(taken[2]) - 1) * 4
    IN  taken[2] # Empty /\ (told = n \/ (told > n /\ n = 4)) /\ (\A i \in 1..n : taken[4 * i + 3] # Empty) =>
          \A i \in 1..4 : report[2].sat[i] =
            IF i <= n THEN [id |-> Number(taken[4 * i]), el |-> Number(taken[4 * i + 1]),
                            az |-> Number(taken[4 * i + 2]), sn |-> Number(taken[4 * i + 3])]
            ELSE NoSat

(* encode() writes what decode() reads back as the same fields: for positions *)
(* in the north, for GGA in the north and east, and a dilution below 10.      *)
Encodable(k, o) ==
  CASE k = "GGA" -> o.m_lat_deg > 0 /\ o.m_lon_deg > 0 /\ o.m_lat_dir = "N" /\ o.m_lon_dir = "E"
                    /\ o.m_hdop < 100
    [] k = "GLL" -> o.lat_dir = "N"
    [] OTHER -> TRUE
WhatIsWritten(k, o) ==
  IF k = "GGA" /\ o.m_fix_status # 2 THEN [o EXCEPT !.m_dgps_age = 0, !.m_dgps_station = 0] ELSE o
EncodeRoundTrip ==
  LET k == report[1]
  IN  k \in {"GGA", "VTG", "ZDA", "GLL", "HPR"} /\ Encodable(k, dat[k]) =>
        Dec(k, Encode(k, dat[k]), Defaults(k) @@ dat[k]) = [ok |-> TRUE, o |-> WhatIsWritten(k, dat[k])]

(* A sentence's report is its own, whatever came before and whoever wrote it. *)
SentencesAreReported == ReportIsOfThisSentence /\ SatellitesInOrder /\ EncodeRoundTrip
=============================================================================
