------------------------------ MODULE MCDecoders ------------------------------
(* The decoders for TLC.  They share no state, so a behaviour is about one of *)
(* them (kind) and the others stay as they were constructed.                  *)
EXTENDS AisMessages, VdmDecoder, SequencesExt

VARIABLES kind, bin, given, nmeas,
          nmea0183_objs, dat, report, taken

binVars == <<bin, given, nmeas>>
sentVars == <<nmea0183_objs, dat, report, taken>>

(* Payloads: those of src/test/test_nmea.cpp, dearmored, and for each type a  *)
(* message with one bit set, for each bit it has.  The array behind the end   *)
(* holds 63, what a longer payload may have left there.                       *)
PayloadOf(s) == [n |-> Len(s), dat |-> [i \in 0..80 |-> IF i < Len(s) THEN s[i + 1] ELSE 63]]

TestVector(t) ==
  CASE t = 1 -> <<1,3,61,15,45,60,32,62,2,11,0,54,10,44,20,32,63,37,29,1,37,1,19,42,0,6,9,20>>
    [] t = 4 -> <<4,0,0,36,43,44,49,61,49,36,7,38,20,34,14,3,54,25,46,58,6,14,49,0,0,0,0,0>>
    [] t = 5 -> <<5,8,63,60,8,37,49,40,47,15,15,58,2,1,40,7,35,13,10,2,2,0,5,8,12,62,0,5,24,60,
                  56,0,0,0,0,0,0,0,1,5,14,8,31,17,11,0,59,51,45,33,8,8,2,3,53,20,53,3,51,32,0,
                  0,0,0,0,0,0,0,0,0,0>>
    [] t = 6 -> <<6,14,50,34,0,6,0,0,38,10,19,0,14,44,41,4,32,1,0,6,32,0,0>>
    [] t = 8 -> <<8,14,48,8,54,51,32,0,23,52,58,13,12,48,22,25,0,20,6,15,15,63,62,52,22,34,0,6>>
    [] t = 18 -> <<18,6,19,44,19,53,0,60,3,40,60,42,41,3,5,46,16,38,9,46,41,24,49,7,51,32,0,6>>
    [] t = 19 -> <<19,8,61,10,8,19,16,60,7,16,36,54,23,19,27,46,53,6,32,55,40,45,6,30,40,10,38,
                   41,0,28,2,26,11,0,6,24,38,5,0,26,38,15,35,50,18,32,28,3,1,1,34,32>>
    [] t = 24 -> <<24,1,43,2,11,57,20,36,49,50,51,52,53,54,55,3,1,12,12,19,9,7,0,40,4,3,12,1>>

\* another ship's message of the same type, its fields all zero
Silent(t) == [i \in 1..Len(TestVector(t)) |-> IF i = 1 THEN t ELSE IF i = 3 THEN 5 ELSE 0]

OneBit(t, b) ==
  PayloadOf([i \in 1..Len(TestVector(t)) |->
               IF i = 1 THEN t ELSE IF i = b \div 6 + 1 THEN 2^(5 - (b % 6)) ELSE 0])

VectorsOf(t) ==
  {PayloadOf(TestVector(t)), PayloadOf(Silent(t))}
  \union (IF t = 6 THEN {PayloadOf(Append(TestVector(t), 0))} ELSE {})   \* a multiple of four
PayloadsOf(t) == VectorsOf(t) \union {OneBit(t, b) : b \in 6..(6 * Len(TestVector(t)) - 1)}

(* Binary messages: each field's bits one by one, the ends of its range and,  *)
(* of a position, negative ones.                                              *)
FieldWidth == [id |-> 8, sog |-> 10, cog |-> 12, dist |-> 10, bear |-> 12, sec |-> 6,
               lon |-> 28, lat |-> 27]
Samples(f) ==
  {0} \union {2^b : b \in 0..(FieldWidth[f] - (IF f \in {"lon", "lat"} THEN 2 ELSE 1))}
  \union (IF f = "cog" THEN {3600, 3601} ELSE IF f = "lon" THEN {-1, -78600000}
          ELSE IF f = "lat" THEN {-1, -21351960} ELSE {2^FieldWidth[f] - 1})
PvcInputsOf(fs) ==
  UNION {{[g \in fs |-> IF g = f THEN x ELSE IF f = "id" THEN 0 ELSE 1] : x \in Samples(f)} : f \in fs}

Letters == <<65, 66, 32, 95, 64, 49, 63, 90>>
StringsOf == {[i \in 1..n |-> Letters[((i * i) % 8) + 1]] : n \in {0, 1, 2, 3, 4, 5, 48, 49, 58, 59, 62, 119}}
HexesOf == {[i \in 1..n |-> (i * 7) % 16] : n \in {1, 2, 7, 87, 88}} \union {<<1, 10, 16, 2>>}
BinsOf == {[i \in 1..n |-> (i \div 3) % 2] : n \in {1, 7, 8, 9}}

Ais == INSTANCE AisBinary
            WITH Blank <- {0, 255}, PvcInputs <- PvcInputsOf, Strings <- StringsOf,
                 Hexes <- HexesOf, Bins <- BinsOf

\* Fields of a message received are its bits and its ship's, and the sentences of
\* a message sent carry the bits of its arguments (AisMessages, AisBinary).
AisBitsSurvive == MessagesAreTheirBits /\ Ais!BitsSurvive

(* Messages in several sentences: two that use the same id one after the      *)
(* other, one of a type without a decoder, and a short one.                   *)
MessagesOf ==
  {[name |-> "a", type |-> 5, seq |-> 1, of |-> 2], [name |-> "b", type |-> 5, seq |-> 1, of |-> 3],
   [name |-> "c", type |-> 17, seq |-> 2, of |-> 2], [name |-> "d", type |-> 1, seq |-> 0, of |-> 1]}

CreatableOf == 1..8 \union {18, 19, 24}

(* NMEA sentences: three full ones of each kind, and the same with one        *)
(* token empty or wrong, cut short, or longer; GSV with one to five           *)
(* satellites in view.                                                        *)
Alphabet == <<"A", "N", "D", "E", "1", "2", "3", "R", "T", "K", "M", "S", "V", "B">>
Token(rule, i, n) ==
  CASE rule[1] \in {"num", "pos"} -> <<"n", IF n = 1 THEN 10 + i ELSE 100 * n + i>>
    [] rule[1] = "fix" -> <<"n", n>>
    [] rule[1] \in {"mark", "word"} -> <<"c", rule[2]>>
    [] rule[1] = "pick" -> LET ws == SelectSeq(Alphabet, LAMBDA w : w \in DOMAIN rule[3])
                           IN  <<"c", IF n <= Len(ws) THEN ws[n] ELSE "Q">>
    [] rule[1] = "skip" -> <<"c", "M">>

GsvSentence(n, si, sat) ==
  <<<<"n", 2>>, <<"n", si>>, <<"n", n>>>> \o [i \in 1..(4 * sat) |-> <<"n", 10 * n + i>>]

FullOf(k, rules) ==
  IF k = "GSV"
  THEN {GsvSentence(x[1], x[2], x[3]) :
          x \in {<<1, 1, 1>>, <<4, 1, 4>>, <<5, 1, 4>>, <<5, 2, 1>>, <<8, 2, 4>>}}
  ELSE {[i \in DOMAIN rules |-> Token(rules[i], i, n)] : n \in 1..3}

SentencesOf(k, rules) ==
  LET full == FullOf(k, rules)
  IN  full \union UNION {{[t EXCEPT ![i] = <<"e">>] : i \in DOMAIN t} : t \in full}
      \union {Front(t) : t \in full} \union {Append(t, <<"c", "Q">>) : t \in full}
      \union (IF k = "GSV" THEN {}
              ELSE UNION {{[t EXCEPT ![i] = <<"c", "Q">>] : i \in DOMAIN t} : t \in full})

Sent == INSTANCE NmeaSentences WITH Sentences <- SentencesOf, Earlier <- FullOf

\* A report holds what its own sentence says, whatever came before (NmeaSentences,
\* the decode() of each sentence).
SentencesAreReported == Sent!SentencesAreReported

decoderVars == <<msgVars, binVars, vdmVars, sentVars>>
\* Only the decoder the behaviour is about is there.
DecodersInit ==
  /\ IF kind = "messages" THEN MsgInit ELSE obj = <<>> /\ last = <<>>
  /\ IF kind = "binary" THEN Ais!BinInit ELSE bin = <<>> /\ given = <<"none">> /\ nmeas = <<>>
  /\ VdmInit
  /\ IF kind = "sentences" THEN Sent!NmeaInit
     ELSE nmea0183_objs = <<>> /\ dat = <<>> /\ report = <<"NULL">> /\ taken = <<>>

DecoderKinds == {"messages", "binary", "fragments", "sentences"}
DecodersNext ==
  \/ kind = "messages" /\ MsgNext /\ UNCHANGED <<binVars, vdmVars, sentVars>>
  \/ kind = "binary" /\ Ais!BinNext /\ UNCHANGED <<msgVars, vdmVars, sentVars>>
  \/ kind = "fragments" /\ VdmNext /\ UNCHANGED <<msgVars, binVars, sentVars>>
  \/ kind = "sentences" /\ Sent!NmeaNext /\ UNCHANGED <<msgVars, binVars, vdmVars>>

=============================================================================
