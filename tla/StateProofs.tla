------------------------------ MODULE StateProofs ------------------------------
(***************************************************************************)
(* Proofs about the ship's state and the engine's (StateChannel,           *)
(* EngineState): through concurrent writers, the log and its replay a      *)
(* datum stays next to its time, what is new is logged, and a replay comes *)
(* to show the last record, for all groups and bounds.  And about the      *)
(* samplers (StateSampler): a sample is of its time, for all sizes, delays *)
(* and sensors.  And about the radar image (RadarImage): what thinning     *)
(* leaves of the echoes, for all numbers of lines, beams, thresholds and   *)
(* echoes.                                                                 *)
(***************************************************************************)
EXTENDS EngineState, StateSampler, RadarImage, SequenceTheorems, WellFoundedInduction, TLAPS

Datum == [t : Int, n : Int]
Call == [of : SUBSET groups, t : Nat \ {0}]
Record == [t : Int, data : [groups -> Datum]]

StateTypeOK ==
  /\ groups \subseteq AllGroups
  /\ cur \in [groups -> Datum] /\ fed \in [groups -> Datum] /\ ecef \in Datum
  /\ f \in [groups -> Datum]
  /\ st_pf \in Seq(Record) /\ st_rd \in 0..Len(st_pf) /\ st_tfile \in Int
  /\ st_eof \in BOOLEAN /\ logging \in Int /\ st_replay \in BOOLEAN
  /\ buffer \in [at : 0..3, n : Int, t : Int]
  /\ now \in Nat
  /\ st_given \in Seq(Call)

\* IsWhole, of the calls gv.
Among(gv, g, d) ==
  d.n \in {0, Garbage} \/ (d.n \in DOMAIN gv /\ g \in gv[d.n].of /\ d.t = gv[d.n].t)

\* Where the set_ functions leave the data (cur, ecef, fed): whole, and x, y, z
\* those of the position.
GoodData(gv, s) ==
  /\ s.cur \in [groups -> Datum] /\ s.fed \in [groups -> Datum] /\ s.ecef \in Datum
  /\ \A g \in groups : Among(gv, g, s.cur[g]) /\ (g = "pos" => s.ecef = s.cur[g])

\* A datum of a logged group is none, or was given.
Known(d) == d.n # Garbage /\ (d.n = 0 => d = None)

BufferWasGiven ==
  buffer.at > 0 => buffer.n \in DOMAIN st_given /\ st_given[buffer.n] = [of |-> groups, t |-> buffer.t]
DataAreWhole ==
  /\ GoodData(st_given, StateData)
  /\ \A g \in groups : Among(st_given, g, f[g]) /\ (~st_replay => f[g].n = Garbage)
  /\ \A i \in DOMAIN st_pf : \A g \in groups : Among(st_given, g, st_pf[i].data[g])
LoggedAreKnown ==
  \A g \in groups \cap Logged :
    /\ ~st_replay => Known(cur[g])
    /\ \A i \in DOMAIN st_pf : Known(st_pf[i].data[g])

\* The times write compares with are those of the last record.
LogTimesAreWritten ==
  ~st_replay => \A g \in groups \cap Logged :
                  f[g].t = IF st_pf = <<>> THEN 0 ELSE st_pf[Len(st_pf)].data[g].t
ReplayFollowsLog ==
  /\ ~st_replay => st_rd = 0 /\ ~st_eof /\ now > 0
  /\ st_replay => logging = 0 /\ buffer.at = 0 /\ st_pf # <<>>
  /\ st_rd > 0 => f = st_pf[st_rd].data
  /\ st_eof => st_rd = Len(st_pf)

StateInv ==
  /\ StateTypeOK /\ BufferWasGiven /\ DataAreWhole /\ LoggedAreKnown
  /\ LogTimesAreWritten /\ ReplayFollowsLog
-------------------------------------------------------------------------------
(* What a set_ function does to the data.                                  *)

LEMMA AmongMore ==
  ASSUME NEW gs, NEW gv \in Seq([of : SUBSET gs, t : Nat \ {0}]),
         NEW c \in [of : SUBSET gs, t : Nat \ {0}], NEW g, NEW d, Among(gv, g, d)
  PROVE  Among(Append(gv, c), g, d)
<1>1. \A i \in 1..Len(gv) : i \in 1..Len(Append(gv, c)) /\ Append(gv, c)[i] = gv[i]
  OBVIOUS
<1>2. DOMAIN gv = 1..Len(gv) /\ DOMAIN Append(gv, c) = 1..Len(Append(gv, c))
  OBVIOUS
<1> QED
  BY <1>1, <1>2 DEF Among

LEMMA GoodMore ==
  ASSUME NEW gv \in Seq(Call), NEW c \in Call, NEW s, GoodData(gv, s)
  PROVE  GoodData(Append(gv, c), s)
BY AmongMore DEF GoodData, Call

LEMMA SetIsGood ==
  ASSUME NEW gv, NEW s, GoodData(gv, s), NEW g \in groups, NEW d \in Datum, Among(gv, g, d)
  PROVE  /\ GoodData(gv, Set(s, g, d))
         /\ \A h \in groups : h # g => Set(s, g, d).cur[h] = s.cur[h]
         /\ Set(s, g, d).cur[g].t = d.t
         /\ Set(s, g, d).cur[g] \in {s.cur[g], d}
<1>1. CASE g \in Timed /\ s.cur[g].t = d.t
  BY <1>1 DEF Set, GoodData
<1>2. CASE ~(g \in Timed /\ s.cur[g].t = d.t)
  <2> DEFINE r == [cur |-> [s.cur EXCEPT ![g] = d],
                   ecef |-> IF g = "pos" THEN d ELSE s.ecef,
                   fed |-> [s.fed EXCEPT ![g] = [t |-> d.t, n |-> IF g = "att" THEN s.cur[g].n ELSE d.n]]]
  <2>1. Set(s, g, d) = r
    BY <1>2 DEF Set, Taken
  <2>2. s.cur \in [groups -> Datum] /\ s.fed \in [groups -> Datum] /\ s.ecef \in Datum
    BY DEF GoodData
  <2>3. r.cur \in [groups -> Datum] /\ r.ecef \in Datum
    BY <2>2
  <2>4. [t |-> d.t, n |-> IF g = "att" THEN s.cur[g].n ELSE d.n] \in Datum
    BY <2>2 DEF Datum
  <2>5. r.fed \in [groups -> Datum]
    BY <2>2, <2>4
  <2>6. \A h \in groups : r.cur[h] = IF h = g THEN d ELSE s.cur[h]
    BY <2>2
  <2>7. \A h \in groups : Among(gv, h, r.cur[h]) /\ (h = "pos" => r.ecef = r.cur[h])
    BY <2>6 DEF GoodData
  <2> QED
    BY <2>1, <2>3, <2>5, <2>6, <2>7 DEF GoodData
<1> QED
  BY <1>1, <1>2

LEMMA HandOnIsGood ==
  ASSUME StateTypeOK, NEW s, GoodData(st_given, s), NEW g,
         \A h \in groups : Among(st_given, h, f[h])
  PROVE  /\ GoodData(st_given, HandOn(s, g))
         /\ \A h \in groups : h # g => HandOn(s, g).cur[h] = s.cur[h]
         /\ g \in groups \cap Replayable /\ f[g].t < now /\ s.cur[g] = cur[g]
              => HandOn(s, g).cur[g].t = f[g].t
<1>1. CASE g \in groups /\ Due(g)
  <2>1. f[g] \in Datum
    BY <1>1 DEF StateTypeOK
  <2> QED
    BY <1>1, <2>1, SetIsGood DEF HandOn
<1>2. CASE ~(g \in groups /\ Due(g))
  BY <1>2 DEF HandOn, Due
<1> QED
  BY <1>1, <1>2

\* All that is due is handed on.
LEMMA HandAllOnIsGood ==
  ASSUME StateTypeOK, DataAreWhole
  PROVE  /\ GoodData(st_given, HandAllOn)
         /\ \A g \in groups \cap Replayable : f[g].t < now => HandAllOn.cur[g].t = f[g].t
<1> DEFINE s0 == StateData
           s1 == HandOn(s0, "pos")
           s2 == HandOn(s1, "alt")
           s3 == HandOn(s2, "att")
           s4 == HandOn(s3, "vel")
           s5 == HandOn(s4, "dp")
<1>0. GoodData(st_given, s0) /\ (\A h \in groups : Among(st_given, h, f[h])) /\ s0.cur = cur
  BY DEF DataAreWhole, StateData
<1> DEFINE Keeps(r, s, g) == \A h \in groups : h # g => r.cur[h] = s.cur[h]
           HasIt(r, s, g) == g \in groups \cap Replayable /\ f[g].t < now /\ s.cur[g] = cur[g]
                               => r.cur[g].t = f[g].t
<1> HIDE DEF s0
<1>1. GoodData(st_given, s1) /\ Keeps(s1, s0, "pos") /\ HasIt(s1, s0, "pos")
  BY <1>0, HandOnIsGood
<1> HIDE DEF s1
<1>2. GoodData(st_given, s2) /\ Keeps(s2, s1, "alt") /\ HasIt(s2, s1, "alt")
  BY <1>0, <1>1, HandOnIsGood
<1> HIDE DEF s2
<1>3. GoodData(st_given, s3) /\ Keeps(s3, s2, "att") /\ HasIt(s3, s2, "att")
  BY <1>0, <1>2, HandOnIsGood
<1> HIDE DEF s3
<1>4. GoodData(st_given, s4) /\ Keeps(s4, s3, "vel") /\ HasIt(s4, s3, "vel")
  BY <1>0, <1>3, HandOnIsGood
<1> HIDE DEF s4
<1>5. GoodData(st_given, s5) /\ Keeps(s5, s4, "dp") /\ HasIt(s5, s4, "dp")
  BY <1>0, <1>4, HandOnIsGood
<1>6. HandAllOn = s5
  BY DEF HandAllOn, s0, s1, s2, s3, s4
<1> HIDE DEF s5
<1>7. ASSUME NEW g \in groups \cap Replayable, f[g].t < now PROVE s5.cur[g].t = f[g].t
  <2>1. g \in {"pos", "alt", "att", "vel", "dp"}
    BY DEF Replayable, Logged
  <2> QED
    BY <1>0, <1>1, <1>2, <1>3, <1>4, <1>5, <1>7, <2>1
<1> QED
  BY <1>5, <1>6, <1>7
-------------------------------------------------------------------------------
(* The invariant.                                                          *)

\* The constructor's values.
LEMMA FreshIs ==
  ASSUME StateAssumption, NEW gs, gs \subseteq AllGroups, NEW c \in Memory(gs, Fresh)
  PROVE  /\ c \in [gs -> Datum] /\ \A g \in gs : c[g].n \in {0, Garbage}
         /\ \A g \in gs : g \in Logged => c[g] = None
<1>1. ASSUME NEW g \in gs, NEW d \in Fresh(g)
      PROVE  d \in Datum /\ d.n \in {0, Garbage} /\ (g \in Logged => d = None)
  <2>1. CASE g \in {"alt", "wx"}
    <3>1. PICK t \in {0, MaxNow + 1} : d = [t |-> t, n |-> Garbage]
      BY <1>1, <2>1 DEF Fresh
    <3> QED
      BY <2>1, <3>1 DEF StateAssumption, Datum, Garbage, Logged
  <2>2. CASE g \notin {"alt", "wx"}
    <3>1. d = None
      BY <1>1, <2>2 DEF Fresh
    <3> QED
      BY <3>1 DEF None, Datum
  <2> QED
    BY <2>1, <2>2
<1>2. \A g \in gs : c[g] \in Fresh(g)
  BY DEF Memory
<1>3. c = [g \in gs |-> c[g]]
  BY DEF Memory
<1> QED
  BY <1>1, <1>2, <1>3

LEMMA FreshLogIs ==
  ASSUME StateAssumption, NEW gs, gs \subseteq AllGroups, NEW c \in Memory(gs, FreshLog)
  PROVE  /\ c \in [gs -> Datum] /\ \A g \in gs : c[g].n = Garbage
         /\ \A g \in gs : g \in Logged => c[g].t = 0
<1>1. ASSUME NEW g \in gs, NEW d \in FreshLog(g)
      PROVE  d \in Datum /\ d.n = Garbage /\ (g \in Logged => d.t = 0)
  <2>1. PICK t \in {0, MaxNow + 1} : d = [t |-> t, n |-> Garbage] /\ (g \in Logged => t = 0)
    BY <1>1 DEF FreshLog
  <2> QED
    BY <2>1 DEF StateAssumption, Datum, Garbage
<1>2. \A g \in gs : c[g] \in FreshLog(g)
  BY DEF Memory
<1>3. c = [g \in gs |-> c[g]]
  BY DEF Memory
<1> QED
  BY <1>1, <1>2, <1>3

LEMMA StateInitInv ==
  ASSUME StateAssumption, StateInit
  PROVE  StateInv
<1>1. groups \subseteq AllGroups
  BY DEF StateAssumption, StateInit
<1>2. /\ cur \in [groups -> Datum] /\ \A g \in groups : cur[g].n \in {0, Garbage}
      /\ \A g \in groups : g \in Logged => cur[g] = None
  BY <1>1, FreshIs, Zenon DEF StateInit
<1>3. /\ f \in [groups -> Datum] /\ \A g \in groups : f[g].n = Garbage
      /\ \A g \in groups : g \in Logged => f[g].t = 0
  BY <1>1, FreshLogIs, Zenon DEF StateInit
<1>4. None \in Datum /\ NoBuffer \in [at : 0..3, n : Int, t : Int] /\ NoBuffer.at = 0
  BY DEF None, Datum, NoBuffer
<1>5. StateTypeOK
  <2>1. fed \in [groups -> Datum] /\ ecef \in Datum
    BY <1>4 DEF StateInit
  <2>2. st_pf \in Seq(Record) /\ Len(st_pf) = 0 /\ st_given \in Seq(Call)
    BY DEF StateInit
  <2>3. buffer \in [at : 0..3, n : Int, t : Int]
    BY <1>4 DEF StateInit
  <2>4. /\ st_rd = 0 /\ st_tfile = 0 /\ now = 1
        /\ st_eof = FALSE /\ logging = 0 /\ st_replay = FALSE
    BY Zenon DEF StateInit
  <2>5. st_rd \in 0..Len(st_pf) /\ st_tfile \in Int /\ now \in Nat
    BY <2>2, <2>4
  <2> QED
    BY <1>1, <1>2, <1>3, <2>1, <2>2, <2>3, <2>4, <2>5, Zenon DEF StateTypeOK
<1>6. DataAreWhole
  <2>1. "pos" \in groups => cur["pos"] = None
    BY <1>2 DEF Logged
  <2> QED
    BY <1>2, <1>3, <1>4, <1>5, <2>1 DEF DataAreWhole, GoodData, Among, StateInit, StateData, StateTypeOK
<1>7. Known(None)
  BY DEF Known, None, Garbage
<1>8. LoggedAreKnown
  BY <1>2, <1>7 DEF LoggedAreKnown, StateInit
<1> QED
  BY <1>3, <1>4, <1>5, <1>6, <1>8
     DEF StateInv, BufferWasGiven, LogTimesAreWritten, ReplayFollowsLog, StateInit

\* The data after a set_ function or write_buf, whose call is in st_given'.
LEMMA BecomesGood ==
  ASSUME NEW s, StateBecomes(s), groups' = groups, GoodData(st_given', s)
  PROVE  /\ cur' \in [groups -> Datum] /\ fed' \in [groups -> Datum] /\ ecef' \in Datum
         /\ GoodData(st_given, StateData)'
BY DEF StateBecomes, GoodData, StateData

\* What the actions leave alone that change the data only.
LEMMA OthersStay ==
  ASSUME StateInv, NEW c, c \in Call \/ UNCHANGED st_given,
         st_given' = Append(st_given, c) \/ UNCHANGED st_given,
         UNCHANGED <<groups, f, st_pf, st_rd, st_tfile, st_eof, logging, now, st_replay>>
  PROVE  /\ st_given' \in Seq(Call)
         /\ \A g \in groups : Among(st_given', g, f[g])
         /\ \A i \in DOMAIN st_pf : \A g \in groups : Among(st_given', g, st_pf[i].data[g])
         /\ LogTimesAreWritten'
<1>1. LogTimesAreWritten'
  BY DEF StateInv, LogTimesAreWritten
<1>2. CASE UNCHANGED st_given
  BY <1>1, <1>2 DEF StateInv, DataAreWhole, StateTypeOK
<1>3. CASE c \in Call /\ st_given' = Append(st_given, c)
  <2>1. st_given \in Seq(Call)
    BY DEF StateInv, StateTypeOK
  <2>2. \A g, d : Among(st_given, g, d) => Among(st_given', g, d)
    BY <1>3, <2>1, AmongMore, Zenon DEF Call
  <2> QED
    BY <1>1, <1>3, <2>1, <2>2 DEF StateInv, DataAreWhole
<1> QED
  BY <1>2, <1>3

\* A datum of the call that is being made.
LEMMA NewIsAmong ==
  ASSUME NEW gv \in Seq(Call), NEW c \in Call, NEW g \in c.of
  PROVE  Among(Append(gv, c), g, [t |-> c.t, n |-> Len(gv) + 1])
BY DEF Among, Call

LEMMA SetStateInv ==
  ASSUME StateInv, set_state
  PROVE  StateInv'
<1> USE DEF StateInv
<1>1. PICK g \in groups, t \in {now, now - 1} \ {0} :
        StateBecomes(Set(StateData, g, NewData(t))) /\ Give({g}, t)
  BY DEF set_state
<1> DEFINE c == [of |-> {g}, t |-> t]
<1>2. c \in Call /\ st_given \in Seq(Call) /\ NewData(t) \in Datum
  <2>1. t \in Nat \ {0} /\ st_given \in Seq(Call)
    BY DEF StateTypeOK, ReplayFollowsLog, set_state
  <2> QED
    BY <2>1 DEF Call, NewData, Datum
<1>3. st_given' = Append(st_given, c)
  BY <1>1 DEF Give
<1>4. Among(st_given', g, NewData(t))
  BY <1>2, <1>3, NewIsAmong DEF NewData
<1>5. GoodData(st_given', StateData)
  BY <1>2, <1>3, GoodMore DEF DataAreWhole
<1>6. /\ GoodData(st_given', Set(StateData, g, NewData(t)))
      /\ \A h \in groups : h # g => Set(StateData, g, NewData(t)).cur[h] = cur[h]
      /\ Set(StateData, g, NewData(t)).cur[g] \in {cur[g], NewData(t)}
  BY <1>2, <1>4, <1>5, SetIsGood DEF StateData
<1> HIDE DEF c
<1>7. /\ st_given' \in Seq(Call)
      /\ \A h \in groups : Among(st_given', h, f[h])
      /\ \A i \in DOMAIN st_pf : \A h \in groups : Among(st_given', h, st_pf[i].data[h])
      /\ LogTimesAreWritten'
  BY <1>2, <1>3, OthersStay DEF set_state
<1>8. /\ cur' \in [groups -> Datum] /\ fed' \in [groups -> Datum] /\ ecef' \in Datum
      /\ GoodData(st_given, StateData)'
  BY <1>1, <1>6, BecomesGood DEF set_state
<1>9. StateTypeOK'
  BY <1>7, <1>8 DEF StateTypeOK, set_state, Record, Call
<1>10. DataAreWhole'
  BY <1>7, <1>8 DEF DataAreWhole, set_state
<1>11. LoggedAreKnown'
  <2>1. Known(NewData(t))
    BY <1>2 DEF Known, NewData, Garbage, Datum
  <2>2. \A h \in groups : cur'[h] \in {cur[h], NewData(t)}
    BY <1>1, <1>6 DEF StateBecomes
  <2> QED
    BY <2>1, <2>2 DEF LoggedAreKnown, set_state
<1>12. BufferWasGiven'
  BY <1>2, <1>3 DEF BufferWasGiven, set_state, StateTypeOK
<1>13. ReplayFollowsLog'
  BY DEF ReplayFollowsLog, set_state
<1> QED
  BY <1>7, <1>9, <1>10, <1>11, <1>12, <1>13

LEMMA WriteStateBufInv ==
  ASSUME StateInv, WriteStateBuf
  PROVE  StateInv'
<1> USE DEF StateInv
<1>1. PICK t \in {now, now - 1} \ {0} :
        buffer' = [at |-> 1, n |-> NewData(t).n, t |-> t] /\ Give(groups, t)
  BY DEF WriteStateBuf
<1> DEFINE c == [of |-> groups, t |-> t]
<1>2. c \in Call /\ st_given \in Seq(Call) /\ NewData(t).n = Len(st_given) + 1
  BY DEF StateTypeOK, ReplayFollowsLog, WriteStateBuf, Call, NewData
<1>3. st_given' = Append(st_given, c)
  BY <1>1 DEF Give
<1>4. GoodData(st_given', StateData)
  BY <1>2, <1>3, GoodMore DEF DataAreWhole
<1>5. Len(st_given') = Len(st_given) + 1 /\ st_given'[Len(st_given) + 1] = c
  BY <1>2, <1>3
<1>6. BufferWasGiven'
  BY <1>1, <1>2, <1>5 DEF BufferWasGiven, WriteStateBuf
<1> HIDE DEF c
<1>7. /\ st_given' \in Seq(Call)
      /\ \A h \in groups : Among(st_given', h, f[h])
      /\ \A i \in DOMAIN st_pf : \A h \in groups : Among(st_given', h, st_pf[i].data[h])
      /\ LogTimesAreWritten'
  BY <1>2, <1>3, OthersStay DEF WriteStateBuf
<1>8. buffer' \in [at : 0..3, n : Int, t : Int]
  BY <1>1, <1>2 DEF StateTypeOK
<1>9. StateTypeOK'
  BY <1>7, <1>8 DEF StateTypeOK, WriteStateBuf, Record, Call
<1>10. DataAreWhole'
  BY <1>4, <1>7 DEF DataAreWhole, GoodData, StateData, WriteStateBuf
<1>11. LoggedAreKnown' /\ ReplayFollowsLog'
  BY DEF LoggedAreKnown, ReplayFollowsLog, WriteStateBuf
<1> QED
  BY <1>6, <1>7, <1>9, <1>10, <1>11

LEMMA WriteStateBufStepInv ==
  ASSUME StateInv, WriteStateBufStep
  PROVE  StateInv'
<1> USE DEF StateInv
<1>1. Buffered \in Datum /\ Known(Buffered) /\ \A g \in groups : Among(st_given, g, Buffered)
  BY SMTT(30) DEF WriteStateBufStep, StateTypeOK, BufferWasGiven, Buffered, Datum, Known, Garbage, Among
<1>2. GoodData(st_given, StateData) /\ UNCHANGED <<groups, st_given>>
  BY DEF DataAreWhole, WriteStateBufStep
<1>3. /\ GoodData(st_given, StateData)'
      /\ cur' \in [groups -> Datum] /\ fed' \in [groups -> Datum] /\ ecef' \in Datum
      /\ \A g \in groups : cur'[g] \in {cur[g], Buffered}
  <2>1. ASSUME NEW g, SetFromBuffer(g) PROVE <1>3
    <3>1. CASE g \in groups
      <4>1. /\ GoodData(st_given', Set(StateData, g, Buffered))
            /\ \A h \in groups : h # g => Set(StateData, g, Buffered).cur[h] = cur[h]
            /\ Set(StateData, g, Buffered).cur[g] \in {cur[g], Buffered}
        BY <1>1, <1>2, <3>1, SetIsGood DEF StateData
      <4> QED
        BY <1>2, <2>1, <3>1, <4>1, BecomesGood DEF SetFromBuffer, StateBecomes
    <3>2. CASE g \notin groups
      BY <1>2, <2>1, <3>2, BecomesGood DEF SetFromBuffer, StateBecomes, StateData
    <3> QED
      BY <3>1, <3>2
  <2>2. CASE SetRest
    <3>1. /\ cur' \in [groups -> Datum] /\ fed' \in [groups -> Datum] /\ ecef' \in Datum
          /\ \A g \in groups : cur'[g] \in {cur[g], Buffered}
      BY <1>1, <2>2 DEF SetRest, StateTypeOK
    <3>2. "pos" \in groups => ecef' = cur'["pos"]
      BY <2>2 DEF SetRest
    <3> QED
      BY <1>1, <1>2, <3>1, <3>2 DEF GoodData, StateData
  <2> QED
    BY <2>1, <2>2 DEF WriteStateBufStep
<1>4. /\ buffer' \in [at : 0..3, n : Int, t : Int]
      /\ buffer'.at > 0 => buffer.at > 0 /\ buffer'.n = buffer.n /\ buffer'.t = buffer.t
  <2>1. buffer \in [at : 0..3, n : Int, t : Int]
    BY DEF StateTypeOK
  <2>2. \/ buffer.at = 1 /\ buffer' = [buffer EXCEPT !.at = 2]
        \/ buffer.at = 2 /\ buffer' = [buffer EXCEPT !.at = 3]
        \/ buffer' = NoBuffer
    BY DEF WriteStateBufStep
  <2> HIDE DEF StateInv
  <2> QED
    BY <2>1, <2>2 DEF NoBuffer
<1>5. StateTypeOK'
  BY <1>3, <1>4 DEF StateTypeOK, WriteStateBufStep, Record, Call
<1>6. DataAreWhole'
  BY <1>3 DEF DataAreWhole, WriteStateBufStep
<1>7. LoggedAreKnown'
  BY <1>1, <1>3 DEF LoggedAreKnown, WriteStateBufStep
<1>8. BufferWasGiven'
  BY <1>2, <1>4 DEF BufferWasGiven
<1>9. LogTimesAreWritten' /\ ReplayFollowsLog'
  BY DEF LogTimesAreWritten, ReplayFollowsLog, WriteStateBufStep
<1> QED
  BY <1>5, <1>6, <1>7, <1>8, <1>9

LEMMA WriteStateInv ==
  ASSUME StateInv, write_state
  PROVE  StateInv'
<1> USE DEF StateInv
<1> DEFINE r == [t |-> logging, data |-> cur]
<1>1. r \in Record /\ st_pf \in Seq(Record) /\ st_pf' = Append(st_pf, r)
  BY DEF StateTypeOK, Record, write_state
<1>2. /\ Len(st_pf') = Len(st_pf) + 1 /\ st_pf' \in Seq(Record) /\ st_pf' # <<>>
      /\ st_pf'[Len(st_pf) + 1] = r
      /\ \A i \in DOMAIN st_pf : st_pf'[i] = st_pf[i]
      /\ DOMAIN st_pf' = DOMAIN st_pf \union {Len(st_pf) + 1}
  BY <1>1
<1> HIDE DEF r
<1>3. r.data = cur /\ r.t = logging
  BY DEF r
<1>4. /\ f' \in [groups -> Datum]
      /\ \A g \in groups : f'[g].n = f[g].n /\ f'[g].t = IF g = "alt" THEN f[g].t ELSE cur[g].t
  BY DEF write_state, StateTypeOK, Datum
<1>5. StateTypeOK'
  <2>1. st_rd' \in 0..Len(st_pf') /\ st_tfile' \in Int
    BY <1>2 DEF StateTypeOK, write_state
  <2>2. st_given' \in Seq([of : SUBSET groups', t : Nat \ {0}]) /\ Record' = Record
    BY DEF StateTypeOK, write_state, Call, Record
  <2> QED
    BY <1>2, <1>4, <2>1, <2>2 DEF StateTypeOK, write_state, Call
<1>6. DataAreWhole'
  <2>1. \A g \in groups : Among(st_given, g, f'[g])
    BY <1>4 DEF DataAreWhole, ReplayFollowsLog, write_state, Among
  <2> QED
    BY <1>2, <1>3, <1>4, <2>1 DEF DataAreWhole, GoodData, StateData, write_state
<1>7. LoggedAreKnown'
  BY <1>2, <1>3 DEF LoggedAreKnown, ReplayFollowsLog, write_state
<1>8. BufferWasGiven'
  BY DEF BufferWasGiven, write_state
<1>9. LogTimesAreWritten'
  BY <1>2, <1>3, <1>4 DEF LogTimesAreWritten, Logged, write_state
<1>10. ReplayFollowsLog'
  BY DEF ReplayFollowsLog, write_state
<1> QED
  BY <1>5, <1>6, <1>7, <1>8, <1>9, <1>10

LEMMA StartStateReplayInv ==
  ASSUME StateAssumption, StateInv, StartStateReplay
  PROVE  StateInv'
<1> USE DEF StateInv
<1>1. groups \subseteq AllGroups /\ UNCHANGED <<groups, st_pf, st_rd, st_eof, buffer, logging, st_given>>
  BY DEF StateTypeOK, StartStateReplay
<1>2. /\ cur' \in [groups -> Datum] /\ \A g \in groups : cur'[g].n \in {0, Garbage}
      /\ \A g \in groups : g \in Logged => cur'[g] = None
  BY <1>1, FreshIs, Zenon DEF StartStateReplay
<1>3. f' \in [groups -> Datum] /\ \A g \in groups : f'[g].n = Garbage
  <2>1. f' \in Memory(groups, FreshLog)
    BY Zenon DEF StartStateReplay
  <2> QED
    BY <1>1, <2>1, FreshLogIs, Zenon
<1>4. /\ ecef' = None /\ fed' = [g \in groups |-> None] /\ st_replay' = TRUE /\ now' = 0
      /\ st_tfile' = 0 /\ ~st_replay /\ logging = 0 /\ buffer.at = 0 /\ st_pf # <<>>
  BY Zenon DEF StartStateReplay
<1>5. None \in Datum
  BY DEF None, Datum
<1>6. StateTypeOK'
  <2>1. fed' \in [groups -> Datum] /\ ecef' \in Datum
    BY <1>4, <1>5
  <2>2. st_tfile' \in Int /\ now' \in Nat
    BY <1>4
  <2> QED
    BY <1>1, <1>2, <1>3, <1>4, <2>1, <2>2 DEF StateTypeOK, Call, Record
<1>7. DataAreWhole'
  <2>1. fed' \in [groups -> Datum]
    BY <1>4, <1>5
  <2>2. "pos" \in groups => cur'["pos"] = None
    BY <1>2 DEF Logged
  <2>3. GoodData(st_given, StateData)'
    BY <1>1, <1>2, <1>4, <1>5, <2>1, <2>2 DEF GoodData, StateData, Among
  <2> QED
    BY <1>1, <1>3, <1>4, <2>3 DEF DataAreWhole, Among
<1>8. LoggedAreKnown' /\ BufferWasGiven' /\ LogTimesAreWritten'
  BY <1>1, <1>4 DEF LoggedAreKnown, BufferWasGiven, LogTimesAreWritten
<1>9. ReplayFollowsLog'
  BY <1>1, <1>4 DEF ReplayFollowsLog
<1> QED
  BY <1>6, <1>7, <1>8, <1>9

LEMMA RecordsAre ==
  ASSUME StateTypeOK
  PROVE  \A i \in 1..Len(st_pf) : st_pf[i].t \in Int /\ st_pf[i].data \in [groups -> Datum]
<1>1. \A i \in 1..Len(st_pf) : st_pf[i] \in Record
  BY DEF StateTypeOK
<1> QED
  BY <1>1 DEF Record

LEMMA ReadStateInv ==
  ASSUME StateInv, read_state
  PROVE  StateInv'
<1> USE DEF StateInv
<1>1. /\ UNCHANGED <<groups, st_pf, buffer, logging, now, st_given, st_replay>>
      /\ st_replay /\ StateBecomes(HandAllOn)
  BY DEF read_state
<1>2. /\ cur' \in [groups -> Datum] /\ fed' \in [groups -> Datum] /\ ecef' \in Datum
      /\ GoodData(st_given, StateData)'
  BY <1>1, HandAllOnIsGood, BecomesGood
<1>3. /\ f' = f \/ \E k \in 1..Len(st_pf) : f' = st_pf[k].data
      /\ st_tfile' \in Int /\ st_eof' \in BOOLEAN /\ st_rd' \in 0..Len(st_pf)
      /\ st_rd' > 0 => f' = st_pf[st_rd'].data
      /\ st_eof' => st_rd' = Len(st_pf)
  <2>1. CASE st_eof
    BY <2>1 DEF read_state, StateTypeOK, ReplayFollowsLog
  <2>2. CASE ~st_eof
    <3>1. PICK k \in StateAhead :
            /\ st_rd' = k
            /\ f' = IF k > st_rd THEN st_pf[k].data ELSE f
            /\ st_tfile' = IF k > st_rd THEN st_pf[k].t ELSE st_tfile
            /\ st_eof' = (k = Len(st_pf) /\ st_tfile' <= now)
      BY <2>2 DEF read_state
    <3>2. k \in st_rd..Len(st_pf) /\ st_rd \in 0..Len(st_pf) /\ Len(st_pf) \in Nat
      BY DEF StateAhead, StateTypeOK
    <3>3. \A i \in 1..Len(st_pf) : st_pf[i].t \in Int
      BY RecordsAre
    <3> QED
      BY <3>1, <3>2, <3>3 DEF StateTypeOK, ReplayFollowsLog
  <2> QED
    BY <2>1, <2>2
<1>4. /\ f' \in [groups -> Datum]
      /\ \A g \in groups : Among(st_given, g, f'[g])
  <2>1. \A k \in 1..Len(st_pf) : st_pf[k].data \in [groups -> Datum]
    BY RecordsAre
  <2> QED
    BY <1>3, <2>1 DEF StateTypeOK, DataAreWhole
<1>5. StateTypeOK'
  BY <1>1, <1>2, <1>3, <1>4 DEF StateTypeOK, Call, Record
<1>6. DataAreWhole'
  BY <1>1, <1>2, <1>4 DEF DataAreWhole
<1>7. LoggedAreKnown' /\ BufferWasGiven' /\ LogTimesAreWritten'
  BY <1>1 DEF LoggedAreKnown, BufferWasGiven, LogTimesAreWritten
<1>8. ReplayFollowsLog'
  BY <1>1, <1>3 DEF ReplayFollowsLog
<1> QED
  BY <1>5, <1>6, <1>7, <1>8

LEMMA StateNextInv ==
  ASSUME StateAssumption, StateInv, [StateNext]_stateVars
  PROVE  StateInv'
<1>1. CASE set_state
  BY <1>1, SetStateInv
<1>2. CASE WriteStateBuf
  BY <1>2, WriteStateBufInv
<1>3. CASE WriteStateBufStep
  BY <1>3, WriteStateBufStepInv
<1>4. CASE WriteStateTest
  BY <1>4 DEF WriteStateTest, StateInv, StateTypeOK, BufferWasGiven, DataAreWhole, GoodData, StateData,
              LoggedAreKnown, LogTimesAreWritten, ReplayFollowsLog, Call, Record
<1>5. CASE write_state
  BY <1>5, WriteStateInv
<1>6. CASE StateTick
  BY <1>6 DEF StateTick, StateInv, StateTypeOK, BufferWasGiven, DataAreWhole, GoodData, StateData,
              LoggedAreKnown, LogTimesAreWritten, ReplayFollowsLog, Call, Record
<1>7. CASE StartStateReplay
  BY <1>7, StartStateReplayInv
<1>8. CASE read_state
  BY <1>8, ReadStateInv
<1>9. CASE UNCHANGED stateVars
  BY <1>9 DEF stateVars, StateInv, StateTypeOK, BufferWasGiven, DataAreWhole, GoodData, StateData,
              LoggedAreKnown, LogTimesAreWritten, ReplayFollowsLog, Call, Record
<1> QED
  BY <1>1, <1>2, <1>3, <1>4, <1>5, <1>6, <1>7, <1>8, <1>9 DEF StateNext
-------------------------------------------------------------------------------
(* What the channel promises.                                              *)

LEMMA InvIsWhole ==
  ASSUME StateInv
  PROVE  NothingTorn
BY DEF StateInv, DataAreWhole, GoodData, StateData, NothingTorn, IsWhole, WasGiven, Among

LEMMA InvNewsIsLogged ==
  ASSUME StateInv
  PROVE  NewsIsLogged
<1> USE DEF StateInv
<1> SUFFICES ASSUME ~st_replay, StateSkips, NEW g \in groups \cap Logged, cur[g] # None, Newest(g)
             PROVE  \E i \in DOMAIN st_pf : st_pf[i].data[g] = cur[g]
  BY DEF NewsIsLogged
<1>1. cur[g] \in Datum /\ f[g] \in Datum
  BY DEF StateTypeOK
<1>2. cur[g].t <= f[g].t
  BY <1>1 DEF StateSkips, IsNews, Datum
<1>3. \A d : Among(st_given, g, d) /\ Known(d) /\ d # None =>
               d.n \in DOMAIN st_given /\ g \in st_given[d.n].of /\ d.t = st_given[d.n].t
  BY DEF Among, Known
<1>4. /\ cur[g].n \in DOMAIN st_given /\ g \in st_given[cur[g].n].of
      /\ cur[g].t = st_given[cur[g].n].t
  BY <1>3 DEF DataAreWhole, GoodData, StateData, LoggedAreKnown
<1>5. \A n \in DOMAIN st_given : st_given[n].t \in Nat \ {0}
  <2>1. \A n \in DOMAIN st_given : st_given[n] \in Call
    BY DEF StateTypeOK
  <2> QED
    BY <2>1 DEF Call
<1>6. f[g].t = IF st_pf = <<>> THEN 0 ELSE st_pf[Len(st_pf)].data[g].t
  BY DEF LogTimesAreWritten
<1>7. st_pf # <<>>
  BY <1>2, <1>4, <1>5, <1>6
<1> DEFINE i == Len(st_pf)
           d == st_pf[i].data[g]
<1>8. i \in DOMAIN st_pf /\ d \in Datum
  <2>1. i \in 1..Len(st_pf) /\ DOMAIN st_pf = 1..Len(st_pf)
    BY <1>7 DEF StateTypeOK
  <2> QED
    BY <2>1, RecordsAre
<1>9. cur[g].t <= d.t /\ Among(st_given, g, d) /\ Known(d)
  BY <1>2, <1>6, <1>7, <1>8 DEF DataAreWhole, LoggedAreKnown
<1> HIDE DEF d, i
<1>10. d # None
  BY <1>4, <1>5, <1>9 DEF None
<1>11. d.n \in DOMAIN st_given /\ g \in st_given[d.n].of /\ d.t = st_given[d.n].t
  BY <1>3, <1>9, <1>10
<1>12. d.n = cur[g].n
  BY <1>1, <1>4, <1>5, <1>8, <1>9, <1>11 DEF Newest, Datum
<1>13. d = cur[g]
  BY <1>1, <1>4, <1>8, <1>11, <1>12 DEF Datum
<1> QED
  BY <1>8, <1>13 DEF d

LEMMA InvReplayReachesEnd ==
  ASSUME StateInv, read_state, st_eof, NEW g \in groups \cap Replayable,
         st_pf[Len(st_pf)].data[g].t < now
  PROVE  cur'[g].t = st_pf[Len(st_pf)].data[g].t
<1> USE DEF StateInv
<1>1. f = st_pf[Len(st_pf)].data
  BY DEF ReplayFollowsLog, read_state, StateTypeOK
<1>2. HandAllOn.cur[g].t = f[g].t
  BY <1>1, HandAllOnIsGood
<1> QED
  BY <1>1, <1>2 DEF read_state, StateBecomes

\* A datum and its time were given together, in the channel, in its log and in
\* x, y, z; what write finds logged is the newest; and a replay's read after the
\* end of the log shows the last record (ch_state's set_, write_buf, write, read).
THEOREM StateImplementsLog == StateSpec => StateIsLogged
<1>1. StateInit => StateInv
  BY StateInitInv, StateAssumption
<1>2. StateInv /\ [StateNext]_stateVars => StateInv'
  BY StateNextInv, StateAssumption
<1>3. StateInv => NothingTorn /\ NewsIsLogged
  BY InvIsWhole, InvNewsIsLogged
<1>4. StateInv /\ [StateNext]_stateVars =>
        [read_state /\ st_eof =>
           \A g \in groups \cap Replayable :
             LET d == st_pf[Len(st_pf)].data[g] IN d.t < now => cur'[g].t = d.t]_stateVars
  BY InvReplayReachesEnd
<1> QED
  BY <1>1, <1>2, <1>3, <1>4, PTL DEF StateSpec, StateIsLogged, ReplayReachesEnd
-------------------------------------------------------------------------------
(* The engine's data.                                                      *)

EngineRecord == [t : Int, data : [EngineGroups -> Datum]]

EngineTypeOK ==
  /\ eng_cur \in [EngineGroups -> Datum] /\ eng_t \in Int
  /\ eng_f \in [EngineGroups -> Datum] /\ eng_tf \in Int
  /\ eng_pf \in Seq(EngineRecord) /\ eng_rd \in 0..Len(eng_pf) /\ eng_eof \in BOOLEAN
  /\ eng_logging \in Int /\ eng_now \in Int /\ eng_replay \in BOOLEAN
  /\ eng_given \in Seq([t : Int])

\* t is the time of the last call, and every datum came in a call.
TimeIsTheLast ==
  ~eng_replay =>
    /\ eng_given # <<>> => eng_t = eng_given[Len(eng_given)].t
    /\ \A g \in EngineGroups : eng_cur[g].n # Garbage =>
         eng_cur[g].n \in DOMAIN eng_given /\ eng_cur[g].t = eng_given[eng_cur[g].n].t
EngineReplayFollowsLog ==
  /\ ~eng_replay => eng_rd = 0 /\ ~eng_eof
  /\ eng_replay => eng_logging = 0 /\ eng_pf # <<>>
  /\ eng_rd > 0 => eng_f = eng_pf[eng_rd].data
  /\ eng_eof => eng_rd = Len(eng_pf)

EngineInv == EngineTypeOK /\ TimeIsTheLast /\ EngineReplayFollowsLog

LEMMA UnsetsAre ==
  ASSUME StateAssumption, NEW c \in Unsets
  PROVE  c \in [EngineGroups -> Datum] /\ \A g \in EngineGroups : c[g].n = Garbage
<1>1. PICK x \in {0, MaxNow + 1} : c = [g \in EngineGroups |-> [t |-> x, n |-> Garbage]]
  BY DEF Unsets, EngineUnset
<1>2. [t |-> x, n |-> Garbage] \in Datum
  BY DEF StateAssumption, Datum, Garbage
<1> QED
  BY <1>1, <1>2

LEMMA EngineRecordsAre ==
  ASSUME EngineTypeOK
  PROVE  \A i \in 1..Len(eng_pf) :
           eng_pf[i].t \in Int /\ eng_pf[i].data \in [EngineGroups -> Datum]
<1>1. \A i \in 1..Len(eng_pf) : eng_pf[i] \in EngineRecord
  BY DEF EngineTypeOK
<1> QED
  BY <1>1 DEF EngineRecord

LEMMA HandOnEngineKeeps ==
  ASSUME EngineTypeOK, NEW s, s.cur \in [EngineGroups -> Datum], s.t \in Int, NEW g
  PROVE  /\ HandOnEngine(s, g).cur \in [EngineGroups -> Datum] /\ HandOnEngine(s, g).t \in Int
         /\ \A h \in EngineGroups : h # g => HandOnEngine(s, g).cur[h] = s.cur[h]
         /\ g \in EngineGroups /\ eng_f[g].t <= eng_now => HandOnEngine(s, g).cur[g] = eng_f[g]
<1>1. CASE g \in EngineGroups /\ EngineDue(g)
  <2>1. eng_f[g] \in Datum /\ eng_f[g].t \in Int
    BY <1>1 DEF EngineTypeOK, Datum
  <2> DEFINE d == eng_f[g]
  <2> HIDE DEF d
  <2>2. HandOnEngine(s, g) = [cur |-> [s.cur EXCEPT ![g] = d], t |-> d.t]
    BY <1>1 DEF HandOnEngine, PutEngine, EngineTimeOf, d
  <2> QED
    BY <1>1, <2>1, <2>2 DEF d
<1>2. CASE ~(g \in EngineGroups /\ EngineDue(g))
  BY <1>2 DEF HandOnEngine, EngineDue
<1> QED
  BY <1>1, <1>2

LEMMA HandAllOnEngineIs ==
  ASSUME EngineTypeOK, EngineAssumption
  PROVE  /\ HandAllOnEngine.cur \in [EngineGroups -> Datum] /\ HandAllOnEngine.t \in Int
         /\ \A g \in EngineGroups : eng_f[g].t <= eng_now => HandAllOnEngine.cur[g] = eng_f[g]
<1> DEFINE s0 == EngineData
           s1 == HandOnEngine(s0, "rapid")
           s2 == HandOnEngine(s1, "dyn")
           s3 == HandOnEngine(s2, "tran")
           s4 == HandOnEngine(s3, "trip")
           Typed(s) == s.cur \in [EngineGroups -> Datum] /\ s.t \in Int
           Hands(r, s, g) ==
             /\ \A h \in EngineGroups : h # g => r.cur[h] = s.cur[h]
             /\ g \in EngineGroups /\ eng_f[g].t <= eng_now => r.cur[g] = eng_f[g]
<1>0. Typed(s0)
  BY DEF EngineTypeOK, EngineData
<1> HIDE DEF s0
<1>1. Typed(s1) /\ Hands(s1, s0, "rapid")
  BY <1>0, HandOnEngineKeeps
<1> HIDE DEF s1
<1>2. Typed(s2) /\ Hands(s2, s1, "dyn")
  BY <1>1, HandOnEngineKeeps
<1> HIDE DEF s2
<1>3. Typed(s3) /\ Hands(s3, s2, "tran")
  BY <1>2, HandOnEngineKeeps
<1> HIDE DEF s3
<1>4. Typed(s4) /\ Hands(s4, s3, "trip")
  BY <1>3, HandOnEngineKeeps
<1>5. HandAllOnEngine = s4
  BY DEF HandAllOnEngine, s0, s1, s2, s3
<1> HIDE DEF s4
<1>6. \A g \in EngineGroups : eng_f[g].t <= eng_now => s4.cur[g] = eng_f[g]
  BY <1>1, <1>2, <1>3, <1>4 DEF EngineAssumption
<1> QED
  BY <1>4, <1>5, <1>6

LEMMA EngineInitInv ==
  ASSUME StateAssumption, EngineInit
  PROVE  EngineInv
<1>1. /\ eng_cur \in [EngineGroups -> Datum] /\ \A g \in EngineGroups : eng_cur[g].n = Garbage
      /\ eng_f \in [EngineGroups -> Datum]
  BY UnsetsAre DEF EngineInit
<1>2. eng_pf \in Seq(EngineRecord) /\ Len(eng_pf) = 0 /\ eng_given \in Seq([t : Int])
  BY DEF EngineInit
<1>3. eng_t \in Int
  BY DEF EngineInit, StateAssumption
<1>4. EngineTypeOK
  <2>1. /\ eng_tf = 0 /\ eng_rd = 0 /\ eng_eof = FALSE /\ eng_logging = 0 /\ eng_now = 1
        /\ eng_replay = FALSE
    BY Zenon DEF EngineInit
  <2>2. eng_rd \in 0..Len(eng_pf) /\ eng_tf \in Int /\ eng_logging \in Int /\ eng_now \in Int
    BY <1>2, <2>1
  <2> QED
    BY <1>1, <1>2, <1>3, <2>1, <2>2, Zenon DEF EngineTypeOK
<1> QED
  BY <1>1, <1>4 DEF EngineInv, TimeIsTheLast, EngineReplayFollowsLog, EngineInit

\* A call's data come last.
LEMMA CallExtends ==
  ASSUME EngineInv, NEW x \in Int, NEW d \in Datum,
         d.t = x, d.n = Len(eng_given) + 1, ~eng_replay,
         eng_cur' \in [EngineGroups -> Datum],
         \A g \in EngineGroups : eng_cur'[g] \in {eng_cur[g], d},
         eng_t' = x, eng_given' = Append(eng_given, [t |-> x]),
         UNCHANGED <<eng_f, eng_tf, eng_pf, eng_rd, eng_eof, eng_logging, eng_now, eng_replay>>
  PROVE  EngineInv'
<1>1. eng_given \in Seq([t : Int])
  BY DEF EngineInv, EngineTypeOK
<1>2. /\ eng_given' \in Seq([t : Int]) /\ Len(eng_given') = Len(eng_given) + 1
      /\ eng_given'[Len(eng_given) + 1].t = x /\ DOMAIN eng_given' = 1..(Len(eng_given) + 1)
      /\ \A i \in DOMAIN eng_given : eng_given'[i] = eng_given[i] /\ i \in DOMAIN eng_given'
  BY <1>1
<1>3. EngineTypeOK'
  BY <1>2 DEF EngineInv, EngineTypeOK
<1>4. TimeIsTheLast'
  BY <1>1, <1>2 DEF EngineInv, TimeIsTheLast
<1> QED
  BY <1>3, <1>4 DEF EngineInv, EngineReplayFollowsLog

LEMMA ReadEngineInv ==
  ASSUME EngineAssumption, EngineInv, read_engine
  PROVE  EngineInv'
<1> USE DEF EngineInv
<1>1. /\ UNCHANGED <<eng_pf, eng_logging, eng_now, eng_given, eng_replay>> /\ eng_replay
      /\ eng_cur' \in [EngineGroups -> Datum] /\ eng_t' \in Int
  BY HandAllOnEngineIs DEF read_engine, EngineBecomes
<1>2. /\ eng_f' \in [EngineGroups -> Datum] /\ eng_tf' \in Int
      /\ eng_eof' \in BOOLEAN /\ eng_rd' \in 0..Len(eng_pf)
      /\ eng_rd' > 0 => eng_f' = eng_pf[eng_rd'].data
      /\ eng_eof' => eng_rd' = Len(eng_pf)
  <2>1. CASE eng_eof
    BY <2>1 DEF read_engine, EngineTypeOK, EngineReplayFollowsLog
  <2>2. CASE ~eng_eof
    <3>1. PICK k \in EngineAhead :
            /\ eng_rd' = k
            /\ eng_f' = IF k > eng_rd THEN eng_pf[k].data ELSE eng_f
            /\ eng_tf' = IF k > eng_rd THEN eng_pf[k].t ELSE eng_tf
            /\ eng_eof' = (k = Len(eng_pf) /\ eng_tf' <= eng_now)
      BY <2>2 DEF read_engine
    <3>2. k \in eng_rd..Len(eng_pf) /\ eng_rd \in 0..Len(eng_pf) /\ Len(eng_pf) \in Nat
      BY DEF EngineAhead, EngineTypeOK
    <3>3. /\ eng_f \in [EngineGroups -> Datum] /\ eng_tf \in Int
          /\ eng_rd > 0 => eng_f = eng_pf[eng_rd].data
      BY DEF EngineTypeOK, EngineReplayFollowsLog
    <3>6. eng_eof' \in BOOLEAN /\ (eng_eof' => k = Len(eng_pf))
      BY <3>1, Zenon
    <3>4. CASE k > eng_rd
      <4>1. eng_pf[k].t \in Int /\ eng_pf[k].data \in [EngineGroups -> Datum]
        BY <3>2, <3>4, EngineRecordsAre
      <4> QED
        BY <3>1, <3>2, <3>4, <3>6, <4>1
    <3>5. CASE ~(k > eng_rd)
      <4>1. k = eng_rd
        BY <3>2, <3>5
      <4> QED
        BY <3>1, <3>2, <3>3, <3>5, <3>6, <4>1
    <3> QED
      BY <3>4, <3>5
  <2> QED
    BY <2>1, <2>2
<1>3. EngineTypeOK'
  BY <1>1, <1>2 DEF EngineTypeOK
<1> QED
  BY <1>1, <1>2, <1>3 DEF TimeIsTheLast, EngineReplayFollowsLog

LEMMA EngineNextInv ==
  ASSUME StateAssumption, EngineAssumption, EngineInv, [EngineNext]_engineVars
  PROVE  EngineInv'
<1> USE DEF EngineInv
<1>1. CASE set_engine
  <2>1. PICK g \in EngineGroups, x \in {eng_now, eng_now - 1} \ {0} :
          /\ eng_cur' = [eng_cur EXCEPT ![g] = NewEngineData(x)] /\ eng_t' = x
          /\ eng_given' = Append(eng_given, [t |-> x])
    BY <1>1 DEF set_engine, EngineBecomes, PutEngine, EngineData, EngineTimeOf, GiveEngine, NewEngineData
  <2>2. x \in Int /\ NewEngineData(x) \in Datum /\ NewEngineData(x).n = Len(eng_given) + 1
        /\ NewEngineData(x).t = x
    BY DEF EngineTypeOK, NewEngineData, Datum
  <2> DEFINE d == NewEngineData(x)
  <2> HIDE DEF d
  <2>4. eng_cur' \in [EngineGroups -> Datum] /\ \A h \in EngineGroups : eng_cur'[h] \in {eng_cur[h], d}
    BY <2>1, <2>2 DEF EngineTypeOK, d
  <2>5. d \in Datum /\ d.t = x /\ d.n = Len(eng_given) + 1
    BY <2>2 DEF d
  <2> QED
    BY <1>1, <2>1, <2>2, <2>4, <2>5, CallExtends DEF set_engine
<1>2. CASE write_engine_buf
  <2>1. PICK x \in {eng_now, eng_now - 1} \ {0} :
          /\ eng_cur' = [g \in EngineGroups |-> NewEngineData(x)] /\ eng_t' = x
          /\ eng_given' = Append(eng_given, [t |-> x])
    BY <1>2 DEF write_engine_buf, GiveEngine
  <2>2. x \in Int /\ NewEngineData(x) \in Datum /\ NewEngineData(x).n = Len(eng_given) + 1
        /\ NewEngineData(x).t = x
    BY DEF EngineTypeOK, NewEngineData, Datum
  <2> QED
    BY <1>2, <2>1, <2>2, CallExtends DEF write_engine_buf
<1>3. CASE WriteEngineTest
  BY <1>3 DEF WriteEngineTest, EngineTypeOK, TimeIsTheLast, EngineReplayFollowsLog
<1>4. CASE write_engine
  <2> DEFINE r == [t |-> eng_logging, data |-> eng_cur]
  <2>1. r \in EngineRecord /\ eng_pf \in Seq(EngineRecord) /\ eng_pf' = Append(eng_pf, r)
    BY <1>4 DEF EngineTypeOK, EngineRecord, write_engine
  <2>2. Len(eng_pf') = Len(eng_pf) + 1 /\ eng_pf' \in Seq(EngineRecord) /\ eng_pf' # <<>>
    BY <2>1
  <2>3. eng_rd' \in 0..Len(eng_pf')
    BY <1>4, <2>2 DEF EngineTypeOK, write_engine
  <2> QED
    BY <1>4, <2>2, <2>3 DEF write_engine, EngineTypeOK, TimeIsTheLast, EngineReplayFollowsLog
<1>5. CASE EngineTick
  BY <1>5 DEF EngineTick, EngineTypeOK, TimeIsTheLast, EngineReplayFollowsLog
<1>6. CASE StartEngineReplay
  <2>1. eng_cur' \in [EngineGroups -> Datum] /\ eng_f' \in [EngineGroups -> Datum]
    BY <1>6, UnsetsAre DEF StartEngineReplay
  <2>2. eng_t' \in Int
    BY <1>6 DEF StartEngineReplay, StateAssumption
  <2> QED
    BY <1>6, <2>1, <2>2 DEF StartEngineReplay, EngineTypeOK, TimeIsTheLast, EngineReplayFollowsLog
<1>7. CASE read_engine
  BY <1>7, ReadEngineInv
<1>8. CASE UNCHANGED engineVars
  BY <1>8 DEF engineVars, EngineTypeOK, TimeIsTheLast, EngineReplayFollowsLog
<1> QED
  BY <1>1, <1>2, <1>3, <1>4, <1>5, <1>6, <1>7, <1>8 DEF EngineNext

LEMMA InvEngineNewsIsLogged ==
  ASSUME EngineInv
  PROVE  EngineNewsIsLogged
<1> USE DEF EngineInv
<1> SUFFICES ASSUME ~eng_replay, EngineSkips, InOrder, NEW g \in EngineGroups, eng_cur[g].n # Garbage
             PROVE  eng_cur[g].t <= eng_tf
  BY DEF EngineNewsIsLogged
<1>1. eng_cur[g].n \in DOMAIN eng_given /\ eng_cur[g].t = eng_given[eng_cur[g].n].t
  BY DEF TimeIsTheLast
<1>2. eng_given \in Seq([t : Int]) /\ eng_tf \in Int /\ eng_t \in Int
  BY DEF EngineTypeOK
<1>3. /\ Len(eng_given) \in DOMAIN eng_given /\ eng_cur[g].n <= Len(eng_given)
      /\ eng_cur[g].n \in Int /\ eng_t = eng_given[Len(eng_given)].t
  BY <1>1, <1>2 DEF TimeIsTheLast
<1>4. eng_cur[g].t \in Int
  BY DEF EngineTypeOK, Datum
<1>5. eng_cur[g].t <= eng_t
  <2>1. CASE eng_cur[g].n = Len(eng_given)
    BY <1>1, <1>2, <1>3, <2>1
  <2>2. CASE eng_cur[g].n < Len(eng_given)
    BY <1>1, <1>2, <1>3, <1>4, <2>2 DEF InOrder
  <2> QED
    BY <1>2, <1>3, <2>1, <2>2
<1> QED
  BY <1>2, <1>4, <1>5 DEF EngineSkips

LEMMA InvEngineReplayReachesEnd ==
  ASSUME EngineInv, EngineAssumption, read_engine, eng_eof, NEW g \in EngineGroups,
         eng_pf[Len(eng_pf)].data[g].t <= eng_now
  PROVE  eng_cur'[g] = eng_pf[Len(eng_pf)].data[g]
<1> USE DEF EngineInv
<1>1. eng_f = eng_pf[Len(eng_pf)].data
  BY DEF EngineReplayFollowsLog, read_engine, EngineTypeOK
<1>2. HandAllOnEngine.cur[g] = eng_f[g]
  BY <1>1, HandAllOnEngineIs
<1> QED
  BY <1>1, <1>2 DEF read_engine, EngineBecomes

\* With data in the order of their times write passes over none that is later
\* than the log, and a replay's read after the end of the log shows the last
\* record whose time has come (ch_eng_state's set_, write_buf, write, read).
THEOREM EngineImplementsLog == EngineSpec => EngineIsLogged
<1>1. EngineInit => EngineInv
  BY EngineInitInv, StateAssumption
<1>2. EngineInv /\ [EngineNext]_engineVars => EngineInv'
  BY EngineNextInv, StateAssumption, EngineAssumption
<1>3. EngineInv => EngineNewsIsLogged
  BY InvEngineNewsIsLogged
<1>4. EngineInv /\ [EngineNext]_engineVars =>
        [read_engine /\ eng_eof =>
           \A g \in EngineGroups :
             LET d == eng_pf[Len(eng_pf)].data[g] IN d.t <= eng_now => eng_cur'[g] = d]_engineVars
  BY InvEngineReplayReachesEnd, EngineAssumption
<1> QED
  BY <1>1, <1>2, <1>3, <1>4, PTL DEF EngineSpec, EngineIsLogged, EngineReplayReachesEnd

\* Both channels, each by its own steps (ch_state, ch_eng_state).
THEOREM StatesStayLogged == StateSpec /\ EngineSpec => StatesAreLogged
BY StateImplementsLog, EngineImplementsLog DEF StatesAreLogged
-------------------------------------------------------------------------------
(* The samplers (StateSampler).                                            *)
\* The least of a set of numbers is one of them.
LEMMA LeastIs ==
  ASSUME NEW T, T \subseteq Nat, T # {}
  PROVE  Min(T) \in T /\ \A n \in T : Min(T) <= n
<1>1. PICK m \in T : \A n \in T : ~ (<<n, m>> \in OpToRel(<, Nat))
  BY NatLessThanWellFounded, WFMin, Zenon
<1>2. ASSUME NEW n \in T PROVE m <= n
  <2>1. ~(n < m)
    BY <1>1, Zenon DEF OpToRel
  <2> QED
    BY <2>1
<1>3. \E x \in T : \A n \in T : x <= n
  BY <1>2
<1> QED
  BY <1>3, Zenon DEF Min

\* The slot k behind the tail, without the modulus.
Behind(tail, k) == IF k <= tail THEN tail - k ELSE tail - k + SizeBuf
After(tail) == IF tail + 1 = SizeBuf THEN 0 ELSE tail + 1

\* What the sampler's slots are, and their neighbours.
LEMMA SizesAre == SizeBuf \in Nat /\ SizeBuf >= 3 /\ Slots = 0..(SizeBuf - 1)
BY SamplerAssumption DEF Slots

LEMMA BehindIs ==
  ASSUME NEW tail, tail \in Slots, NEW k, k \in 1..SizeBuf
  PROVE  (tail - k) % SizeBuf = Behind(tail, k) /\ Behind(tail, k) \in Slots
BY SizesAre, SMT DEF Behind

LEMMA AfterIs ==
  ASSUME NEW tail, tail \in Slots
  PROVE  (tail + 1) % SizeBuf = After(tail) /\ After(tail) \in Slots
BY SizesAre, SMT DEF After

LEMMA BehindAfter ==
  ASSUME NEW tail, tail \in Slots
  PROVE  /\ Behind(After(tail), 1) = tail /\ Behind(tail, SizeBuf) = tail
         /\ Behind(After(tail), SizeBuf) = After(tail)
         /\ \A k \in 1..(SizeBuf - 1) : Behind(After(tail), k + 1) = Behind(tail, k) /\ Behind(tail, k) # tail
         /\ \A j, k \in 1..SizeBuf : j # k => Behind(tail, j) # Behind(tail, k)
BY SizesAre DEF Behind, After

\* The k-th newest of a ring's times.
At(q, k) == q.t[Behind(q.tail, k)]

RingType == [t : [Slots -> Int], tail : Slots, num : 0..SizeBuf, tmax : Int, tmin : Int]
\* A ring holds times that do not rise from the newest, and -1 where it has none.
GoodRing(q) ==
  /\ q \in RingType
  /\ q.num < SizeBuf => q.tail = q.num
  /\ \A k \in 1..SizeBuf : IF k <= q.num THEN At(q, k) \in Nat ELSE At(q, k) = -1
  /\ \A j, k \in 1..q.num : j < k => At(q, k) <= At(q, j)
  /\ IF q.num = 0 THEN q.tmax = -1 /\ q.tmin = -1
     ELSE q.tmax = At(q, 1) /\ q.tmin = At(q, q.num)

\* Two values of one time in the ring of sensor s are known to be there.
TwinsKnown(q, s, twins) ==
  \A k \in 1..SizeBuf : k + 1 <= q.num /\ At(q, k + 1) = At(q, k) => <<s, At(q, k)>> \in twins

\* An empty ring is good, and an add_ function keeps a ring so.
LEMMA EmptyIsGood == GoodRing(EmptyRing)
<1>1. \A k \in 1..SizeBuf : Behind(0, k) \in Slots
  BY SizesAre DEF Behind
<1> QED
  BY <1>1, SizesAre DEF EmptyRing, GoodRing, RingType, At

LEMMA AppendedIsGood ==
  ASSUME NEW q, GoodRing(q), NEW t, t \in Nat, t >= q.tmax
  PROVE  /\ GoodRing(Appended(q, t))
         /\ \A s, twins : TwinsKnown(q, s, twins) /\ (t = q.tmax => <<s, t>> \in twins)
              => TwinsKnown(Appended(q, t), s, twins)
<1> DEFINE p == Appended(q, t)
           ts == [q.t EXCEPT ![q.tail] = t]
<1>1. q \in RingType /\ q.tail \in Slots /\ q.num \in 0..SizeBuf /\ q.t \in [Slots -> Int]
  BY DEF GoodRing, RingType
<1>2. ts \in [Slots -> Int] /\ ts[q.tail] = t /\ \A i \in Slots : i # q.tail => ts[i] = q.t[i]
  BY <1>1
<1> HIDE DEF ts
<1>3. /\ p.t = ts /\ p.tail = After(q.tail) /\ p.tmax = t
      /\ p.num = (IF q.num = SizeBuf THEN q.num ELSE q.num + 1)
      /\ p.tmin = (IF q.num = SizeBuf THEN ts[After(q.tail)] ELSE ts[0])
      /\ p = [t |-> ts, tail |-> p.tail, num |-> p.num, tmax |-> p.tmax, tmin |-> p.tmin]
  BY <1>1, AfterIs DEF Appended, Oldest, ts
<1> HIDE DEF p
<1>4. After(q.tail) \in Slots /\ 0 \in Slots
  BY <1>1, AfterIs, SizesAre
<1>5. p \in RingType
  <2>1. p.num \in 0..SizeBuf /\ p.tmax \in Int /\ p.tail \in Slots /\ p.tmin \in Int
    <3>1. p.num \in 0..SizeBuf
      BY <1>1, <1>3, SizesAre
    <3>2. ts[0] \in Int /\ ts[After(q.tail)] \in Int
      BY <1>2, <1>4
    <3> QED
      BY <1>3, <1>4, <3>1, <3>2
  <2> QED
    BY <1>2, <1>3, <2>1 DEF RingType
<1>6. At(p, 1) = t /\ \A k \in 1..(SizeBuf - 1) : At(p, k + 1) = At(q, k)
  <2>1. ASSUME NEW k \in 1..(SizeBuf - 1)
        PROVE  At(p, k + 1) = At(q, k)
    <3>1. k \in 1..SizeBuf
      BY SizesAre
    <3>2. Behind(q.tail, k) \in Slots
      BY <1>1, <3>1, BehindIs
    <3>3. Behind(After(q.tail), k + 1) = Behind(q.tail, k) /\ Behind(q.tail, k) # q.tail
      BY <1>1, BehindAfter
    <3> QED
      BY <1>2, <1>3, <3>2, <3>3 DEF At
  <2> QED
    BY <1>1, <1>2, <1>3, <2>1, BehindAfter DEF At
<1>7. \A k \in 1..SizeBuf : IF k <= p.num THEN At(p, k) \in Nat ELSE At(p, k) = -1
  <2> SUFFICES ASSUME NEW k \in 1..SizeBuf
               PROVE  IF k <= p.num THEN At(p, k) \in Nat ELSE At(p, k) = -1
    OBVIOUS
  <2>1. CASE k = 1
    BY <1>1, <1>3, <1>6, <2>1, SizesAre
  <2>2. CASE k # 1
    <3>1. k - 1 \in 1..(SizeBuf - 1) /\ (k - 1) + 1 = k /\ k - 1 \in 1..SizeBuf
      BY <2>2, SizesAre
    <3>2. At(p, k) = At(q, k - 1)
      BY <1>6, <3>1
    <3>3. k <= p.num <=> k - 1 <= q.num
      BY <1>1, <1>3, SizesAre
    <3> QED
      BY <3>1, <3>2, <3>3 DEF GoodRing
  <2> QED
    BY <2>1, <2>2
<1>8. \A j, k \in 1..p.num : j < k => At(p, k) <= At(p, j)
  <2> SUFFICES ASSUME NEW j \in 1..p.num, NEW k \in 1..p.num, j < k
               PROVE  At(p, k) <= At(p, j)
    OBVIOUS
  <2>1. /\ k - 1 \in 1..(SizeBuf - 1) /\ (k - 1) + 1 = k /\ k - 1 \in 1..q.num
    BY <1>1, <1>3, SizesAre
  <2>2. At(p, k) = At(q, k - 1) /\ q.num # 0
    BY <1>1, <1>6, <2>1
  <2>3. CASE j = 1
    <3>1. At(q, k - 1) <= q.tmax
      BY <1>1, <2>1, <2>2, SizesAre, SMTT(30) DEF GoodRing, RingType
    <3> QED
      <4>1. q.tmax \in Int /\ At(q, k - 1) \in Int
        BY <1>1, <2>1, SizesAre DEF GoodRing, RingType
      <4> QED
        BY <1>6, <2>2, <2>3, <3>1, <4>1
  <2>4. CASE j # 1
    <3>1. j - 1 \in 1..(SizeBuf - 1) /\ (j - 1) + 1 = j /\ j - 1 \in 1..q.num /\ j - 1 < k - 1
      BY <1>1, <1>3, <2>4, SizesAre, SMTT(30)
    <3>2. At(p, j) = At(q, j - 1)
      BY <1>6, <3>1
    <3> QED
      BY <2>1, <2>2, <3>1, <3>2 DEF GoodRing
  <2> QED
    BY <2>3, <2>4
<1>9. p.num # 0 /\ p.tmax = At(p, 1) /\ (p.num < SizeBuf => p.tail = p.num)
  BY <1>1, <1>3, <1>6, SizesAre DEF GoodRing, After
<1>10. p.tmin = At(p, p.num)
  <2>1. CASE q.num = SizeBuf
    BY <1>1, <1>3, <2>1, BehindAfter DEF At
  <2>2. CASE q.num # SizeBuf
    <3>1. Behind(After(q.tail), q.num + 1) = 0
      BY <1>1, <2>2, SizesAre DEF GoodRing, Behind, After
    <3> QED
      BY <1>1, <1>3, <2>2, <3>1 DEF At
  <2> QED
    BY <2>1, <2>2
<1>11. ASSUME NEW s, NEW twins, TwinsKnown(q, s, twins), t = q.tmax => <<s, t>> \in twins
       PROVE  TwinsKnown(p, s, twins)
  <2> SUFFICES ASSUME NEW k \in 1..SizeBuf, k + 1 <= p.num, At(p, k + 1) = At(p, k)
               PROVE  <<s, At(p, k)>> \in twins
    BY DEF TwinsKnown
  <2>1. k \in 1..(SizeBuf - 1) /\ k \in 1..SizeBuf /\ k <= q.num /\ q.num # 0
    BY <1>1, <1>3, SizesAre
  <2>2. At(p, k + 1) = At(q, k)
    BY <1>6, <2>1
  <2>3. CASE k = 1
    BY <1>6, <1>11, <2>1, <2>2, <2>3 DEF GoodRing
  <2>4. CASE k # 1
    <3>1. k - 1 \in 1..(SizeBuf - 1) /\ (k - 1) + 1 = k /\ k - 1 \in 1..SizeBuf /\ (k - 1) + 1 <= q.num
      BY <2>1, <2>4, SizesAre
    <3>2. At(p, k) = At(q, k - 1)
      BY <1>6, <3>1
    <3> QED
      BY <1>11, <2>2, <3>1, <3>2 DEF TwinsKnown
  <2> QED
    BY <2>3, <2>4
<1> QED
  BY <1>5, <1>7, <1>8, <1>9, <1>10, <1>11 DEF GoodRing, p

\* Around a time that its ring spans, find_sample_index finds two values next to
\* each other between which it lies, or which are both of it.
LEMMA FindIs ==
  ASSUME NEW q, GoodRing(q), NEW t, t \in Nat, is_samplable(q, t)
  PROVE  \E k \in 1..(SizeBuf - 1) :
           /\ k \in 1..SizeBuf /\ k + 1 \in 1..SizeBuf /\ k <= q.num
           /\ find_sample_index(q, t) = <<Behind(q.tail, k + 1), Behind(q.tail, k)>>
           /\ At(q, k) \in Nat /\ At(q, k + 1) \in Int
           /\ At(q, k + 1) <= t /\ t <= At(q, k)
           /\ At(q, k + 1) = At(q, k) => k + 1 <= q.num
           /\ At(q, k + 1) = -1 => At(q, k) = t
<1> DEFINE fits == {k \in 1..(SizeBuf - 1) : q.t[Back(q, k + 1)] <= t /\ q.t[Back(q, k)] >= t}
<1>1. /\ q \in RingType /\ q.tail \in Slots /\ q.num \in 0..SizeBuf /\ q.t \in [Slots -> Int]
      /\ q.tmax \in Int /\ q.tmin \in Int
  BY DEF GoodRing, RingType
<1>2. q.num # 0 /\ q.tmax = At(q, 1) /\ q.tmin = At(q, q.num)
  BY DEF GoodRing, is_samplable
<1>3. \A k \in 1..SizeBuf : IF k <= q.num THEN At(q, k) \in Nat ELSE At(q, k) = -1
  BY DEF GoodRing
<1>19. \A k \in 1..SizeBuf : q.t[Back(q, k)] = At(q, k)
  BY <1>1, BehindIs DEF Back, At
<1>4. \A k \in 1..SizeBuf : At(q, k) \in Int
  BY <1>3
<1>5. q.tmin <= t /\ t <= q.tmax
  BY DEF is_samplable
<1>6. 1 \in 1..SizeBuf /\ SizeBuf \in 1..SizeBuf
  BY SizesAre
<1>7. ~(q.t[Back(q, 1)] < t)
  BY <1>1, <1>2, <1>5, <1>6, <1>19
<1>8. q.t[q.tail] = At(q, SizeBuf)
  BY <1>1, BehindAfter DEF At
<1>9. At(q, SizeBuf) <= t
  BY <1>1, <1>2, <1>3, <1>5, <1>6
<1>10. fits # {}
  <2> DEFINE T == {k \in 1..SizeBuf : At(q, k) <= t}
  <2>1. T # {} /\ T \subseteq Nat
    BY <1>6, <1>9
  <2>2. Min(T) \in T /\ \A n \in T : Min(T) <= n
    BY <2>1, LeastIs
  <2>3. PICK n \in 1..SizeBuf : At(q, n) <= t /\ \A j \in 1..SizeBuf : At(q, j) <= t => n <= j
    BY <2>2
  <2>4. CASE n = 1
    <3>1. 1 \in 1..(SizeBuf - 1) /\ 2 \in 1..SizeBuf
      BY SizesAre
    <3>2. At(q, 1) = t
      BY <1>2, <1>4, <1>5, <1>6, <2>3, <2>4
    <3>3. At(q, 2) <= t
      <4>1. CASE 2 <= q.num
        <5>1. 1 \in 1..q.num /\ 2 \in 1..q.num /\ 1 < 2
          BY <1>1, <3>1, <4>1, SizesAre
        <5>2. At(q, 2) <= At(q, 1)
          BY <5>1 DEF GoodRing
        <5> QED
          BY <1>4, <1>6, <3>1, <3>2, <5>2
      <4>2. CASE ~(2 <= q.num)
        BY <1>3, <3>1, <4>2
      <4> QED
        BY <4>1, <4>2
    <3> QED
      <4>1. q.t[Back(q, 1)] = At(q, 1) /\ q.t[Back(q, 1 + 1)] = At(q, 2)
        BY <1>6, <1>19, <3>1
      <4>2. 1 \in fits
        BY <3>1, <3>2, <3>3, <4>1
      <4> QED
        BY <4>2
  <2>5. CASE n # 1
    <3>1. n - 1 \in 1..(SizeBuf - 1) /\ n - 1 \in 1..SizeBuf /\ (n - 1) + 1 = n
      BY <2>5, SizesAre
    <3>2. At(q, n - 1) >= t
      BY <1>4, <2>3, <3>1
    <3> QED
      <4>1. q.t[Back(q, n - 1)] = At(q, n - 1) /\ q.t[Back(q, (n - 1) + 1)] = At(q, n)
        BY <1>19, <3>1
      <4>2. n - 1 \in fits
        BY <2>3, <3>1, <3>2, <4>1
      <4> QED
        BY <4>2
  <2> QED
    BY <2>4, <2>5
<1>11. Min(fits) \in fits
  <2>1. fits \subseteq Nat
    OBVIOUS
  <2> HIDE DEF fits
  <2> QED
    BY <1>10, <2>1, LeastIs
<1> DEFINE m == Min(fits)
<1>12. find_sample_index(q, t) = <<Back(q, m + 1), Back(q, m)>>
  BY <1>1, <1>4, <1>6, <1>7, <1>8, <1>9, <1>10 DEF find_sample_index
<1>13. m \in 1..(SizeBuf - 1) /\ q.t[Back(q, m + 1)] <= t /\ q.t[Back(q, m)] >= t
  BY <1>11
<1> HIDE DEF m
<1>14. m \in 1..SizeBuf /\ m + 1 \in 1..SizeBuf
  BY <1>13, SizesAre
<1>15. At(q, m + 1) <= t /\ t <= At(q, m) /\ At(q, m) \in Int /\ At(q, m + 1) \in Int
  BY <1>4, <1>13, <1>14, <1>19
<1>16. m <= q.num /\ At(q, m) \in Nat
  BY <1>3, <1>14, <1>15
<1>17. /\ At(q, m + 1) = At(q, m) => m + 1 <= q.num
       /\ At(q, m + 1) = -1 => At(q, m) = t
  <2>1. CASE m + 1 <= q.num
    BY <1>3, <1>14, <2>1
  <2>2. CASE ~(m + 1 <= q.num)
    <3>1. m = q.num /\ At(q, m + 1) = -1
      BY <1>1, <1>3, <1>14, <1>16, <2>2
    <3> QED
      BY <1>2, <1>5, <1>15, <1>16, <3>1
  <2> QED
    BY <2>1, <2>2
<1>18. Back(q, m) = Behind(q.tail, m) /\ Back(q, m + 1) = Behind(q.tail, m + 1)
  BY <1>1, <1>14, BehindIs DEF Back
<1> QED
  BY <1>12, <1>13, <1>14, <1>15, <1>16, <1>17, <1>18

LEMMA WeightsMeet ==
  ASSUME NEW a \in Int, NEW b \in Int, NEW t \in Int
  PROVE  a * (b - t) + b * (t - a) = t * (b - a)
OBVIOUS

\* An interpolated value is of the time it was asked for, or 0 / 0 if the ring
\* has two values of that time.
OfTime(v, s, t, twins) == \/ v[2] > 0 /\ v[1] = t * v[2]
                          \/ v = Undefined /\ <<s, t>> \in twins
LEMMA InterpolateIs ==
  ASSUME NEW q, GoodRing(q), NEW t, t \in Nat, is_samplable(q, t),
         NEW s, NEW twins, TwinsKnown(q, s, twins)
  PROVE  OfTime(Interpolate(q, t), s, t, twins)
<1>1. PICK k \in 1..(SizeBuf - 1) :
           /\ k \in 1..SizeBuf /\ k + 1 \in 1..SizeBuf /\ k <= q.num
           /\ find_sample_index(q, t) = <<Behind(q.tail, k + 1), Behind(q.tail, k)>>
           /\ At(q, k) \in Nat /\ At(q, k + 1) \in Int
           /\ At(q, k + 1) <= t /\ t <= At(q, k)
           /\ At(q, k + 1) = At(q, k) => k + 1 <= q.num
           /\ At(q, k + 1) = -1 => At(q, k) = t
  BY FindIs
<1> DEFINE i == Behind(q.tail, k + 1)
           j == Behind(q.tail, k)
           ta == q.t[i]
           tb == q.t[j]
<1>2. i \in Slots /\ j \in Slots
  BY <1>1, BehindIs DEF GoodRing, RingType
<1>3. ta = At(q, k + 1) /\ tb = At(q, k)
  BY DEF At
<1>4. /\ find_sample_index(q, t) = <<i, j>> /\ ta \in Int /\ tb \in Nat /\ ta <= t /\ t <= tb
      /\ ta = -1 => tb = t
      /\ ta = tb => <<s, t>> \in twins
  <2>1. ASSUME ta = tb PROVE <<s, t>> \in twins
    <3>1. At(q, k + 1) = At(q, k) /\ At(q, k) = t
      BY <1>1, <1>3, <2>1
    <3> QED
      BY <1>1, <3>1 DEF TwinsKnown
  <2> QED
    BY <1>1, <1>3, <2>1
<1> HIDE DEF i, j
<1>5. Interpolate(q, t) = <<ValueIn(q, i) * (tb - t) + ValueIn(q, j) * (t - ta), tb - ta>>
  BY <1>2, <1>4 DEF Interpolate
<1>6. ValueIn(q, j) = tb /\ ValueIn(q, i) = (IF ta = -1 THEN 0 ELSE ta)
  BY <1>4 DEF ValueIn
<1> HIDE DEF ta, tb
<1>7. ValueIn(q, i) * (tb - t) + ValueIn(q, j) * (t - ta) = t * (tb - ta)
  <2>1. CASE ta = -1
    <3>1. ValueIn(q, i) * (tb - t) = 0
      BY <1>4, <1>6, <2>1
    <3>2. ValueIn(q, j) * (t - ta) = t * (tb - ta)
      BY <1>4, <1>6, <2>1
    <3>3. t * (tb - ta) \in Int
      BY <1>4
    <3> QED
      BY <3>1, <3>2, <3>3
  <2>2. CASE ta # -1
    BY <1>4, <1>6, <2>2, WeightsMeet
  <2> QED
    BY <2>1, <2>2
<1>8. CASE ta < tb
  <2>1. tb - ta > 0
    BY <1>4, <1>8
  <2> QED
    BY <1>5, <1>7, <2>1 DEF OfTime
<1>9. CASE ta = tb
  <2>1. tb - ta = 0 /\ t * (tb - ta) = 0
    BY <1>4, <1>9
  <2> QED
    BY <1>4, <1>5, <1>7, <1>9, <2>1 DEF OfTime, Undefined
<1> QED
  BY <1>4, <1>8, <1>9

\* A held value is not later than the time it was asked for.
LEMMA HeldIs ==
  ASSUME NEW q, GoodRing(q), NEW t, t \in Nat
  PROVE  HeldValue(q, t) # Undefined => HeldValue(q, t)[1] <= t
<1> DEFINE fits == {k \in 1..(SizeBuf - 1) : q.t[Back(q, k + 1)] <= t /\ q.t[Back(q, k)] >= t}
           p == find_sample_index(q, t)
<1>1. q.tail \in Slots /\ q.t \in [Slots -> Int] /\ -1 \notin Slots
  BY SizesAre DEF GoodRing, RingType
<1>2. \A k \in 1..SizeBuf : Back(q, k) \in Slots
  BY <1>1, BehindIs DEF Back
<1>3. ASSUME p[1] \in Slots PROVE q.t[p[1]] <= t
  <2>1. 1 \in 1..SizeBuf
    BY SizesAre
  <2>2. CASE q.t[Back(q, 1)] < t
    BY <1>1, <1>2, <2>1, <2>2 DEF find_sample_index
  <2>3. CASE ~(q.t[Back(q, 1)] < t)
    <3>1. fits # {} /\ p = <<Back(q, Min(fits) + 1), Back(q, Min(fits))>>
      BY <1>1, <1>3, <2>3 DEF find_sample_index
    <3>2. Min(fits) \in fits
      BY <3>1, LeastIs
    <3> QED
      BY <3>1, <3>2
  <2> QED
    BY <2>2, <2>3
<1> HIDE DEF p
<1>4. CASE p[1] \in Slots
  <2>1. HeldValue(q, t) = <<ValueIn(q, p[1]), 1>>
    BY <1>4 DEF HeldValue, p
  <2> QED
    BY <1>1, <1>3, <1>4, <2>1 DEF ValueIn
<1>5. CASE p[1] \notin Slots
  BY <1>5 DEF HeldValue, p
<1> QED
  BY <1>4, <1>5

\* A sample is of its time.
FitsItsTime(y, r) ==
  /\ y = [t |-> y.t, val |-> y.val, rate |-> y.rate, accel |-> y.accel]
  /\ y.t \in Nat
  /\ \A s \in sensors \cap Interpolated[r] :
       OfTime(y.val[s], s, TimeOf(s, y.t), twice)
  /\ \A s \in sensors \cap Held[r] : y.val[s] # Undefined => y.val[s][1] <= y.t
  /\ Around(y.rate, y.t) /\ Around(y.accel, y.t)

\* The k-th newest sample.
Nth(x, k) == x.slot[Behind(x.tail, k)]

\* A sampler's slots, from the newest back, hold samples of decreasing times,
\* each one its time's, the newest the sampler's; and the rate of one that has
\* a successor reaches past its time.
GoodSampler(x, r) ==
  /\ x = [slot |-> x.slot, tail |-> x.tail, num |-> x.num, t |-> x.t]
  /\ x.slot = [i \in Slots |-> x.slot[i]]
  /\ x.tail \in Slots /\ x.num \in Nat /\ x.t \in Int /\ x.t >= -1
  /\ \A k \in 1..SizeBuf : k <= x.num =>
       /\ FitsItsTime(Nth(x, k), r)
       /\ Nth(x, k).t <= x.t
       /\ k = 1 => Nth(x, k).t = x.t
       /\ r = "10hz" /\ k > 1 /\ Nth(x, k).rate # <<>> => Nth(x, k).t < Nth(x, k).rate[2]
  /\ x.num = 1 => Nth(x, 1).rate = <<>>
  /\ \A k \in 1..(SizeBuf - 1) : k + 1 <= x.num => Nth(x, k + 1).t < Nth(x, k).t

\* An empty sampler is good.
LEMMA StartsGood ==
  ASSUME NEW t \in Int, t >= -1, NEW r
  PROVE  GoodSampler(EmptySampler(t), r)
BY SizesAre DEF GoodSampler, EmptySampler

\* The differences of a new sample, and of the one before it.
LEMMA RatesAre ==
  ASSUME NEW slot, slot = [i \in Slots |-> slot[i]], NEW ip, ip \in Slots, NEW num, num \in Nat, num >= 1,
         slot[ip] = [t |-> slot[ip].t, val |-> slot[ip].val, rate |-> <<>>, accel |-> <<>>],
         NEW i0, i0 = Behind(ip, 1), NEW in, in = Behind(ip, 2),
         num > 2 => slot[i0] = [t |-> slot[i0].t, val |-> slot[i0].val,
                                rate |-> slot[i0].rate, accel |-> slot[i0].accel],
         NEW out, out = Rates10hz(slot, ip, num)
  PROVE  /\ i0 \in Slots /\ in \in Slots /\ ip # i0 /\ ip # in /\ i0 # in
         /\ out = [i \in Slots |-> out[i]]
         /\ \A i \in Slots : i # ip /\ i # i0 => out[i] = slot[i]
         /\ out[ip] = [t |-> slot[ip].t, val |-> slot[ip].val, rate |-> out[ip].rate,
                       accel |-> out[ip].accel]
         /\ num = 1 => out[ip].rate = <<>> /\ out[ip].accel = <<>>
         /\ num > 1 => /\ out[ip].rate = <<slot[i0].t, slot[ip].t>>
                       /\ out[ip].accel = <<slot[IF num > 2 THEN in ELSE i0].t, slot[ip].t>>
         /\ num <= 2 => out[i0] = slot[i0]
         /\ num > 2 => out[i0] = [t |-> slot[i0].t, val |-> slot[i0].val,
                                  rate |-> <<slot[in].t, slot[ip].t>>, accel |-> slot[i0].accel]
<1>1. 1 \in 1..SizeBuf /\ 2 \in 1..SizeBuf /\ SizeBuf \in 1..SizeBuf /\ SizeBuf # 1 /\ SizeBuf # 2
  BY SizesAre
<1>2. i0 \in Slots /\ in \in Slots /\ i0 = (ip - 1) % SizeBuf /\ in = (ip - 2) % SizeBuf
  BY <1>1, BehindIs
<1>3. ip # i0 /\ ip # in /\ i0 # in
  BY <1>1, BehindAfter
<1>4. out = [i \in Slots |->
         IF i = ip /\ num > 1
         THEN [slot[i] EXCEPT !.rate = <<slot[i0].t, slot[ip].t>>,
                              !.accel = <<slot[IF num > 2 THEN in ELSE i0].t, slot[ip].t>>]
         ELSE IF i = i0 /\ num > 2 THEN [slot[i] EXCEPT !.rate = <<slot[in].t, slot[ip].t>>]
         ELSE slot[i]]
  BY <1>2 DEF Rates10hz
<1>5. out = [i \in Slots |-> out[i]] /\ \A i \in Slots : i # ip /\ i # i0 => out[i] = slot[i]
  BY <1>4
<1>6. num <= 2 => out[i0] = slot[i0]
  <2>1. CASE ~(num > 2)
    BY <1>2, <1>3, <1>4, <2>1, Zenon
  <2> QED
    BY <2>1
<1>7. num > 2 => out[i0] = [t |-> slot[i0].t, val |-> slot[i0].val,
                            rate |-> <<slot[in].t, slot[ip].t>>, accel |-> slot[i0].accel]
  BY <1>2, <1>3, <1>4
<1>8. num = 1 => out[ip] = slot[ip]
  BY <1>2, <1>3, <1>4
<1>9. num > 1 => out[ip] = [t |-> slot[ip].t, val |-> slot[ip].val, rate |-> <<slot[i0].t, slot[ip].t>>,
                            accel |-> <<slot[IF num > 2 THEN in ELSE i0].t, slot[ip].t>>]
  BY <1>2, <1>3, <1>4
<1> QED
  BY <1>2, <1>3, <1>5, <1>6, <1>7, <1>8, <1>9

\* The sensors' rings are good, and the times are.
RingsOK ==
  /\ tatt_delay \in Nat
  /\ DOMAIN ring = sensors /\ ring = [s \in sensors |-> ring[s]]
  /\ \A s \in sensors : GoodRing(ring[s]) /\ TwinsKnown(ring[s], s, twice)

\* What is sampled from good rings fits the time it is sampled for.
LEMMA FreshFits ==
  ASSUME RingsOK, NEW r, r \in Rates, NEW t, t \in Nat, Samplable(ring, r, t)
  PROVE  FitsItsTime([t |-> t, val |-> Sampled(ring, r, t), rate |-> <<>>, accel |-> <<>>], r)
<1> DEFINE v == Sampled(ring, r, t)
<1>1. \A s \in sensors \cap Interpolated[r] : v[s] = Interpolate(ring[s], TimeOf(s, t))
  BY DEF Sampled, Interpolated, Held, Rates
<1>2. \A s \in sensors \cap Held[r] : v[s] = HeldValue(ring[s], t)
  BY DEF Sampled
<1>3. ASSUME NEW s \in sensors \cap Interpolated[r]
      PROVE  OfTime(v[s], s, TimeOf(s, t), twice)
  <2>1. /\ TimeOf(s, t) \in Nat /\ GoodRing(ring[s]) /\ is_samplable(ring[s], TimeOf(s, t))
        /\ TwinsKnown(ring[s], s, twice)
    BY DEF TimeOf, RingsOK, Samplable
  <2> QED
    BY <1>1, <2>1, InterpolateIs
<1>4. ASSUME NEW s \in sensors \cap Held[r]
      PROVE  v[s] # Undefined => v[s][1] <= t
  BY <1>2, HeldIs DEF RingsOK
<1> HIDE DEF v
<1>5. FitsItsTime([t |-> t, val |-> v, rate |-> <<>>, accel |-> <<>>], r)
  BY <1>3, <1>4 DEF FitsItsTime, Around
<1> QED
  BY <1>5 DEF v

\* A turn of the loop keeps a sampler good.
LEMMA SampleIsGood ==
  ASSUME RingsOK, NEW r, r \in Rates, NEW x, GoodSampler(x, r),
         NEW t, t \in Nat, t > x.t, Samplable(ring, r, t)
  PROVE  GoodSampler(Sample(x, ring, r, t), r)
<1> DEFINE z == Sample(x, ring, r, t)
           fresh == [t |-> t, val |-> Sampled(ring, r, t), rate |-> <<>>, accel |-> <<>>]
           slot == [x.slot EXCEPT ![x.tail] = fresh]
           ip == x.tail
           i0 == Behind(x.tail, 1)
           in == Behind(x.tail, 2)
           out == z.slot
<1>1. /\ x.tail \in Slots /\ x.num \in Nat /\ x.t \in Int
      /\ x.slot = [i \in Slots |-> x.slot[i]]
  BY DEF GoodSampler
<1>2. /\ z = [slot |-> out, tail |-> After(ip), num |-> x.num + 1, t |-> t]
      /\ out = IF r = "10hz" THEN Rates10hz(slot, ip, x.num + 1) ELSE slot
  BY <1>1, AfterIs DEF Sample, TimeTaken
<1>3. z.tail = After(ip) /\ z.num = x.num + 1 /\ z.t = t /\ After(ip) \in Slots
  BY <1>1, <1>2, AfterIs
<1> HIDE DEF z
<1>4. FitsItsTime(fresh, r)
  BY FreshFits
<1>5. /\ fresh.t = t /\ fresh.rate = <<>> /\ fresh.accel = <<>>
      /\ fresh = [t |-> fresh.t, val |-> fresh.val, rate |-> <<>>, accel |-> <<>>]
  OBVIOUS
<1> HIDE DEF fresh
<1>6. /\ slot = [i \in Slots |-> slot[i]] /\ slot[ip] = fresh
      /\ \A i \in Slots : i # ip => slot[i] = x.slot[i]
  BY <1>1
<1> HIDE DEF slot
<1>7. 1 \in 1..SizeBuf /\ 2 \in 1..SizeBuf /\ i0 \in Slots /\ in \in Slots /\ ip # i0 /\ ip # in /\ i0 # in
  <2>1. /\ 1 \in 1..SizeBuf /\ 2 \in 1..SizeBuf /\ SizeBuf \in 1..SizeBuf /\ SizeBuf # 1 /\ SizeBuf # 2
    BY SizesAre
  <2> QED
    BY <1>1, <2>1, BehindIs, BehindAfter
\* What the sampler has before this turn, by age.
<1>8. ASSUME NEW k \in 1..SizeBuf, k <= x.num
      PROVE  /\ FitsItsTime(Nth(x, k), r) /\ Nth(x, k).t <= x.t
             /\ r = "10hz" /\ k > 1 /\ Nth(x, k).rate # <<>> => Nth(x, k).t < Nth(x, k).rate[2]
  BY <1>8 DEF GoodSampler
<1>9. \A k \in 1..(SizeBuf - 1) : k + 1 <= x.num => Nth(x, k + 1).t < Nth(x, k).t
  BY DEF GoodSampler
<1>10. x.num >= 1 => /\ FitsItsTime(x.slot[i0], r) /\ x.slot[i0].t <= x.t
                     /\ x.slot[i0].t \in Nat
                     /\ x.slot[i0] = [t |-> x.slot[i0].t, val |-> x.slot[i0].val,
                                      rate |-> x.slot[i0].rate, accel |-> x.slot[i0].accel]
  BY <1>1, <1>7, <1>8 DEF Nth, FitsItsTime
<1>11. x.num >= 2 => x.slot[in].t < x.slot[i0].t /\ x.slot[in].t \in Nat
  <2>1. 1 \in 1..(SizeBuf - 1) /\ 1 + 1 = 2
    BY SizesAre
  <2>2. x.num >= 2 => Nth(x, 2).t < Nth(x, 1).t
    BY <1>1, <1>9, <2>1
  <2>3. x.num >= 2 => Nth(x, 2).t \in Nat
    BY <1>1, <1>7, <1>8 DEF FitsItsTime
  <2> QED
    BY <2>2, <2>3 DEF Nth
\* What it has after it.
<1>12. /\ out = [i \in Slots |-> out[i]]
       /\ out[ip] = [t |-> t, val |-> fresh.val, rate |-> out[ip].rate, accel |-> out[ip].accel]
       /\ Around(out[ip].rate, t) /\ Around(out[ip].accel, t)
       /\ x.num = 0 => out[ip].rate = <<>>
       /\ \A i \in Slots : i # ip /\ i # i0 => out[i] = x.slot[i]
       /\ \/ out[i0] = x.slot[i0] /\ (r # "10hz" \/ x.num < 2)
          \/ /\ x.num >= 2
             /\ out[i0] = [t |-> x.slot[i0].t, val |-> x.slot[i0].val,
                           rate |-> <<x.slot[in].t, t>>, accel |-> x.slot[i0].accel]
  <2>1. CASE r # "10hz"
    <3>1. out = slot
      BY <1>2, <2>1
    <3>2. Around(fresh.rate, t) /\ Around(fresh.accel, t)
      BY <1>5 DEF Around
    <3> HIDE DEF out, ip, i0
    <3>3. out[ip] = fresh /\ out[i0] = x.slot[i0]
      BY <1>6, <1>7, <3>1
    <3>4. out[ip] = [t |-> t, val |-> fresh.val, rate |-> out[ip].rate, accel |-> out[ip].accel]
      BY <1>5, <3>3
    <3>5. out[ip].rate = <<>> /\ Around(out[ip].rate, t) /\ Around(out[ip].accel, t)
      BY <1>5, <3>2, <3>3
    <3>6. out = [i \in Slots |-> out[i]] /\ \A i \in Slots : i # ip => out[i] = x.slot[i]
      BY <1>6, <3>1
    <3> QED
      BY <2>1, <3>3, <3>4, <3>5, <3>6
  <2>2. CASE r = "10hz"
    <3>1. out = Rates10hz(slot, ip, x.num + 1)
      BY <1>2, <2>2
    <3>2. slot[i0] = x.slot[i0] /\ slot[in] = x.slot[in] /\ slot[ip] = fresh
      BY <1>6, <1>7
    <3>3. x.num + 1 \in Nat /\ x.num + 1 >= 1 /\ (x.num + 1 > 2 <=> x.num >= 2)
          /\ (x.num + 1 > 1 <=> x.num >= 1) /\ (x.num + 1 <= 2 <=> ~(x.num >= 2))
          /\ (x.num + 1 = 1 <=> ~(x.num >= 1))
      BY <1>1
    <3>4. slot[ip] = [t |-> slot[ip].t, val |-> slot[ip].val, rate |-> <<>>, accel |-> <<>>]
      BY <1>5, <3>2
    <3>5. x.num + 1 > 2 => slot[i0] = [t |-> slot[i0].t, val |-> slot[i0].val,
                                rate |-> slot[i0].rate, accel |-> slot[i0].accel]
      BY <1>1, <1>10, <3>2
    <3> DEFINE n == x.num + 1
    <3>6. /\ out = [i \in Slots |-> out[i]]
          /\ \A i \in Slots : i # ip /\ i # i0 => out[i] = slot[i]
          /\ out[ip] = [t |-> slot[ip].t, val |-> slot[ip].val, rate |-> out[ip].rate,
                       accel |-> out[ip].accel]
          /\ n = 1 => out[ip].rate = <<>> /\ out[ip].accel = <<>>
          /\ n > 1 => /\ out[ip].rate = <<slot[i0].t, slot[ip].t>>
                       /\ out[ip].accel = <<slot[IF n > 2 THEN in ELSE i0].t, slot[ip].t>>
          /\ n <= 2 => out[i0] = slot[i0]
          /\ n > 2 => out[i0] = [t |-> slot[i0].t, val |-> slot[i0].val,
                                  rate |-> <<slot[in].t, slot[ip].t>>, accel |-> slot[i0].accel]
      <4>1. ip \in Slots /\ i0 = Behind(ip, 1) /\ in = Behind(ip, 2) /\ n \in Nat /\ n >= 1
        BY <1>1, <3>3
      <4> HIDE DEF n, out, i0, in, ip
      <4> QED
        BY <1>6, <3>1, <3>4, <3>5, <4>1, RatesAre, SMTT(30) DEF n
    <3>7. out[ip].t = t /\ out[ip].val = fresh.val
      BY <1>5, <3>2, <3>6
    <3> HIDE DEF out, ip, i0, in
    <3>8. Around(out[ip].rate, t) /\ Around(out[ip].accel, t)
      <4>1. CASE n = 1
        BY <3>6, <4>1 DEF Around
      <4>2. CASE n > 1
        <5>1. x.num >= 1 /\ x.slot[i0].t < t /\ slot[i0].t = x.slot[i0].t /\ slot[ip].t = t
          BY <1>1, <1>5, <1>10, <3>2, <3>3, <4>2
        <5>2. out[ip].rate = <<slot[i0].t, t>> /\ Around(<<slot[i0].t, t>>, t)
          <6>1. out[ip].rate = <<slot[i0].t, slot[ip].t>>
            BY <3>6, <4>2
          <6>2. x.slot[i0].t \in Nat
            BY <1>10, <5>1
          <6> QED
            BY <5>1, <6>1, <6>2 DEF Around
        <5>3. n > 2 => slot[in].t < t
          BY <1>1, <1>10, <1>11, <3>2, <3>3, <5>1
        <5>4. Around(<<slot[IF n > 2 THEN in ELSE i0].t, t>>, t)
          BY <5>1, <5>3 DEF Around
        <5> QED
          BY <3>6, <4>2, <5>1, <5>2, <5>4
      <4> QED
        BY <1>1, <4>1, <4>2
    <3>9. \A i \in Slots : i # ip /\ i # i0 => out[i] = x.slot[i]
      BY <1>6, <3>6
    <3>10. \/ out[i0] = x.slot[i0] /\ x.num < 2
           \/ /\ x.num >= 2
              /\ out[i0] = [t |-> x.slot[i0].t, val |-> x.slot[i0].val,
                           rate |-> <<x.slot[in].t, t>>, accel |-> x.slot[i0].accel]
      <4>1. CASE x.num >= 2
        BY <1>5, <3>2, <3>3, <3>6, <4>1
      <4>2. CASE ~(x.num >= 2)
        BY <1>1, <3>2, <3>3, <3>6, <4>2
      <4> QED
        BY <4>1, <4>2
    <3>11. x.num = 0 => out[ip].rate = <<>>
      BY <3>3, <3>6
    <3> QED
      BY <3>6, <3>7, <3>8, <3>9, <3>10, <3>11
  <2> QED
    BY <2>1, <2>2
<1>13. Nth(z, 1) = out[ip] /\ \A k \in 1..(SizeBuf - 1) : Nth(z, k + 1) = out[Behind(ip, k)]
  BY <1>1, <1>3, BehindAfter DEF Nth
<1>14. FitsItsTime(Nth(z, 1), r) /\ Nth(z, 1).t = t
  BY <1>4, <1>5, <1>12, <1>13 DEF FitsItsTime
\* An older sample is what it was, but for the rate of the one before the new.
<1>15. ASSUME NEW k \in 1..(SizeBuf - 1), k <= x.num
       PROVE  /\ FitsItsTime(Nth(z, k + 1), r) /\ Nth(z, k + 1).t = Nth(x, k).t
              /\ Nth(x, k).t <= x.t
              /\ r = "10hz" /\ Nth(z, k + 1).rate # <<>> => Nth(z, k + 1).t < Nth(z, k + 1).rate[2]
  <2>1. k \in 1..SizeBuf /\ Behind(ip, k) \in Slots /\ Behind(ip, k) # ip
    <3>1. k \in 1..SizeBuf
      BY SizesAre
    <3>2. Behind(ip, k) \in Slots
      BY <1>1, <3>1, BehindIs
    <3>3. Behind(ip, k) # ip
      BY <1>1, BehindAfter
    <3> QED
      BY <3>1, <3>2, <3>3
  <2>2. FitsItsTime(Nth(x, k), r) /\ Nth(x, k).t <= x.t /\ Nth(x, k) = x.slot[Behind(ip, k)]
    BY <1>8, <1>15, <2>1 DEF Nth
  <2>3. Nth(z, k + 1) = out[Behind(ip, k)]
    BY <1>13
  <2>4. CASE k # 1
    <3>1. Behind(ip, k) # i0 /\ k > 1
      BY <1>1, <1>7, <2>1, <2>4, BehindAfter
    <3>2. Nth(z, k + 1) = Nth(x, k)
      BY <1>12, <2>1, <2>2, <2>3, <3>1
    <3> QED
      BY <1>8, <1>15, <2>1, <2>2, <3>1, <3>2
  <2>5. CASE k = 1
    <3>1. x.num >= 1 /\ Nth(z, k + 1) = out[i0] /\ Nth(x, k) = x.slot[i0]
      BY <1>1, <1>15, <2>2, <2>3, <2>5
    <3>2. CASE out[i0] = x.slot[i0] /\ (r # "10hz" \/ x.num < 2)
      <4>1. x.num < 2 => x.slot[i0].rate = <<>>
        BY <1>1, <2>5, <3>1 DEF GoodSampler
      <4> QED
        BY <2>2, <3>1, <3>2, <4>1
    <3>3. CASE /\ x.num >= 2
               /\ out[i0] = [t |-> x.slot[i0].t, val |-> x.slot[i0].val,
                             rate |-> <<x.slot[in].t, t>>, accel |-> x.slot[i0].accel]
      <4>1. out[i0].rate = <<x.slot[in].t, t>> /\ out[i0].t = x.slot[i0].t
            /\ out[i0].val = x.slot[i0].val /\ out[i0].accel = x.slot[i0].accel
            /\ out[i0] = [t |-> out[i0].t, val |-> out[i0].val, rate |-> out[i0].rate,
                          accel |-> out[i0].accel]
        BY <3>3
      <4>2. x.slot[in].t < x.slot[i0].t /\ x.slot[i0].t < t
        BY <1>1, <1>10, <1>11, <3>1, <3>3
      <4>3. Around(out[i0].rate, out[i0].t)
        BY <1>10, <1>11, <3>1, <3>3, <4>1, <4>2 DEF Around
      <4>4. FitsItsTime(out[i0], r)
        BY <1>10, <3>1, <4>1, <4>3 DEF FitsItsTime
      <4> QED
        BY <2>2, <3>1, <4>1, <4>2, <4>4
    <3> QED
      BY <1>12, <3>2, <3>3
  <2> QED
    BY <2>4, <2>5
<1>16. ASSUME NEW k \in 1..SizeBuf, k <= z.num
       PROVE  /\ FitsItsTime(Nth(z, k), r)
              /\ Nth(z, k).t <= z.t
              /\ k = 1 => Nth(z, k).t = z.t
              /\ r = "10hz" /\ k > 1 /\ Nth(z, k).rate # <<>> => Nth(z, k).t < Nth(z, k).rate[2]
  <2>1. CASE k = 1
    BY <1>3, <1>14, <2>1
  <2>2. CASE k # 1
    <3> DEFINE j == k - 1
    <3>1. j \in 1..(SizeBuf - 1) /\ j <= x.num /\ k = j + 1
      BY <1>1, <1>3, <1>16, <2>2, SizesAre
    <3> HIDE DEF j
    <3>2. Nth(x, j).t <= x.t /\ Nth(x, j).t \in Nat
      <4>1. j \in 1..SizeBuf
        BY <3>1, SizesAre
      <4> QED
        BY <1>8, <3>1, <4>1 DEF FitsItsTime
    <3>3. Nth(x, j).t <= t
      BY <1>1, <3>2
    <3> QED
      BY <1>3, <1>15, <2>2, <3>1, <3>3
  <2> QED
    BY <2>1, <2>2
<1>17. ASSUME NEW k \in 1..(SizeBuf - 1), k + 1 <= z.num
       PROVE  Nth(z, k + 1).t < Nth(z, k).t
  <2>1. k <= x.num /\ k \in 1..SizeBuf
    BY <1>1, <1>3, <1>17, SizesAre
  <2>2. Nth(z, k + 1).t = Nth(x, k).t /\ Nth(x, k).t <= x.t /\ Nth(x, k).t \in Nat
    BY <1>8, <1>15, <2>1 DEF FitsItsTime
  <2>3. CASE k = 1
    BY <1>1, <1>14, <2>2, <2>3
  <2>4. CASE k # 1
    <3> DEFINE j == k - 1
    <3>1. j \in 1..(SizeBuf - 1) /\ j <= x.num /\ j + 1 = k /\ j + 1 <= x.num
      BY <1>1, <2>1, <2>4, SizesAre
    <3> HIDE DEF j
    <3>2. Nth(z, k).t = Nth(x, j).t
      BY <1>15, <3>1
    <3>3. Nth(x, k).t < Nth(x, j).t
      BY <1>9, <3>1
    <3> QED
      BY <2>2, <3>2, <3>3
  <2> QED
    BY <2>3, <2>4
<1>18. z.num = 1 => Nth(z, 1).rate = <<>>
  BY <1>1, <1>3, <1>12, <1>13
<1>19. z = [slot |-> out, tail |-> z.tail, num |-> z.num, t |-> z.t] /\ t >= -1
  BY <1>2, <1>3
<1>20. z.tail \in Slots /\ z.num \in Nat /\ z.t \in Int /\ z.t >= -1
  BY <1>1, <1>3
<1> HIDE DEF ip, i0, in
<1>21. out = [i \in Slots |-> out[i]]
  BY <1>12
<1> QED
  BY <1>16, <1>17, <1>18, <1>19, <1>20, <1>21 DEF GoodSampler, z

\* The inductive invariant of SamplesFitTheirTime.
SamplerInv ==
  /\ RingsOK /\ sampling \in Rates \union {"none"}
  /\ smp = [r \in Rates |-> smp[r]]
  /\ \A r \in Rates : GoodSampler(smp[r], r)

\* It holds at the start, every step keeps it, and it is as strong as asked.
LEMMA SamplerStarts == SamplerInit => SamplerInv
<1> SUFFICES ASSUME SamplerInit PROVE SamplerInv
  OBVIOUS
<1>1. RingsOK
  <2>1. \A s \in sensors : TwinsKnown(EmptyRing, s, twice)
    BY SizesAre DEF TwinsKnown, EmptyRing
  <2> QED
    BY <2>1, SamplerAssumption, EmptyIsGood DEF SamplerInit, RingsOK
<1>2. smp = [r \in Rates |-> EmptySampler(-1)]
  BY DEF SamplerInit
<1>3. \A r \in Rates : GoodSampler(EmptySampler(-1), r)
  BY StartsGood
<1> QED
  BY <1>1, <1>2, <1>3 DEF SamplerInv, SamplerInit

\* The samplers stay good when they and the sensors stay as they are, or take
\* values that are good.
LEMMA StaysSampled ==
  ASSUME UNCHANGED <<sensors, tatt_delay>>, twice \subseteq twice', RingsOK',
         sampling' \in Rates \union {"none"},
         NEW next, smp' = [r \in Rates |-> next[r]],
         \A r \in Rates : GoodSampler(next[r], r)
  PROVE  SamplerInv'
<1>1. \A r \in Rates : smp'[r] = next[r]
  OBVIOUS
<1>2. ASSUME NEW r \in Rates PROVE GoodSampler(smp[r], r)'
  <2> DEFINE x == next[r]
  <2>1. GoodSampler(x, r)
    OBVIOUS
  <2>2. smp'[r] = x
    BY <1>1
  <2> HIDE DEF x
  <2>3. ASSUME NEW k \in 1..SizeBuf, k <= x.num
        PROVE  FitsItsTime(Nth(smp[r], k), r)'
    <3>1. FitsItsTime(Nth(x, k), r)
      BY <2>1, <2>3 DEF GoodSampler
    <3>2. Nth(smp[r], k)' = Nth(x, k)
      BY <2>2 DEF Nth, Behind
    <3> DEFINE y == Nth(x, k)
    <3> HIDE DEF y
    <3>3. FitsItsTime(y, r)
      BY <3>1 DEF y
    <3>4. Nth(smp[r], k)' = y
      BY <3>2 DEF y
    <3> QED
      BY <3>3, <3>4 DEF FitsItsTime, TimeOf, Around, OfTime
  <2> QED
    BY <2>1, <2>2, <2>3, ZenonT(30) DEF GoodSampler, Nth, Behind
<1>3. smp' = [r \in Rates |-> smp'[r]]
  BY <1>1
<1> QED
  BY <1>2, <1>3 DEF SamplerInv

LEMMA SamplerKeeps == SamplerInv /\ [SamplerNext]_samplerVars => SamplerInv'
<1> SUFFICES ASSUME SamplerInv, [SamplerNext]_samplerVars PROVE SamplerInv'
  OBVIOUS
<1>1. /\ RingsOK /\ sampling \in Rates \union {"none"} /\ smp = [r \in Rates |-> smp[r]]
      /\ \A r \in Rates : GoodSampler(smp[r], r) /\ smp[r].t \in Int /\ smp[r].t >= -1
  BY DEF SamplerInv, GoodSampler
<1>2. tatt_delay \in Nat /\ ring = [s \in sensors |-> ring[s]]
      /\ \A s \in sensors : GoodRing(ring[s]) /\ TwinsKnown(ring[s], s, twice)
  BY <1>1 DEF RingsOK
<1>3. ASSUME NEW t \in 0..MaxSampled, NEW s, NEW r \in Rates, Add(s, r, t)
      PROVE  SamplerInv'
  <2>1. t \in Nat /\ s \in sensors /\ t >= ring[s].tmax /\ UNCHANGED <<sensors, tatt_delay, smp>>
        /\ ring' = [ring EXCEPT ![s] = Appended(ring[s], t)] /\ sampling' = r
    BY <1>3, SamplerAssumption DEF Add
  <2>2. twice \subseteq twice' /\ (t = ring[s].tmax => <<s, t>> \in twice')
    BY <1>3 DEF Add
  <2>4. \A z \in sensors : TwinsKnown(ring[z], z, twice')
    BY <1>2, <2>2 DEF TwinsKnown
  <2>5. GoodRing(Appended(ring[s], t)) /\ TwinsKnown(Appended(ring[s], t), s, twice')
    BY <1>2, <2>1, <2>2, <2>4, AppendedIsGood
  <2>3. RingsOK'
    <3> DEFINE q == Appended(ring[s], t)
    <3>1. GoodRing(q) /\ TwinsKnown(q, s, twice') /\ ring' = [ring EXCEPT ![s] = q]
      BY <2>1, <2>5
    <3> HIDE DEF q
    <3>2. /\ DOMAIN ring' = sensors /\ ring' = [z \in sensors |-> ring'[z]]
          /\ \A z \in sensors : ring'[z] = IF z = s THEN q ELSE ring[z]
      BY <1>2, <3>1
    <3>3. \A z \in sensors : GoodRing(ring'[z]) /\ TwinsKnown(ring'[z], z, twice')
      BY <1>2, <2>4, <3>1, <3>2
    <3> QED
      BY <1>2, <2>1, <3>2, <3>3 DEF RingsOK, GoodRing, RingType, At, TwinsKnown
  <2> QED
    BY <1>1, <2>1, <2>2, <2>3, StaysSampled
<1>4. ASSUME UNCHANGED <<sensors, tatt_delay, ring, twice>> PROVE RingsOK'
  BY <1>1, <1>4 DEF RingsOK, GoodRing, RingType, At, TwinsKnown
<1>5. ASSUME NEW t \in 0..MaxSampled, set_state_time(t) PROVE SamplerInv'
  <2> DEFINE next == [r \in Rates |-> EmptySampler(t + tatt_delay)]
  <2>1. t + tatt_delay \in Int /\ t + tatt_delay >= -1
    BY <1>2
  <2>2. \A r \in Rates : GoodSampler(next[r], r)
    BY <2>1, StartsGood
  <2>3. smp' = [r \in Rates |-> next[r]] /\ UNCHANGED <<sensors, tatt_delay, ring, sampling, twice>>
    BY <1>5 DEF set_state_time
  <2> HIDE DEF next
  <2> QED
    BY <1>1, <1>4, <2>2, <2>3, StaysSampled
<1>6. CASE clear_state
  <2> DEFINE next == [r \in Rates |-> EmptySampler(smp[r].t)]
  <2>1. \A r \in Rates : GoodSampler(next[r], r)
    BY <1>1, StartsGood
  <2>2. /\ smp' = [r \in Rates |-> next[r]] /\ UNCHANGED <<sensors, tatt_delay, sampling, twice>>
        /\ ring' = [s \in sensors |-> EmptyRing]
    BY <1>6 DEF clear_state
  <2>3. RingsOK'
    <3>1. DOMAIN ring' = sensors /\ \A s \in sensors : ring'[s] = EmptyRing
      BY <2>2
    <3>2. \A s \in sensors : GoodRing(ring'[s]) /\ TwinsKnown(ring'[s], s, twice)
      <4>1. \A s : TwinsKnown(EmptyRing, s, twice)
        BY SizesAre DEF TwinsKnown, EmptyRing
      <4> QED
        BY <3>1, <4>1, EmptyIsGood
    <3>3. ring' = [s \in sensors |-> ring'[s]]
      BY <2>2
    <3> QED
      BY <1>2, <2>2, <3>1, <3>2, <3>3 DEF RingsOK, GoodRing, RingType, At, TwinsKnown
  <2> HIDE DEF next
  <2> QED
    BY <1>1, <2>1, <2>2, <2>3, StaysSampled
<1>7. CASE sample_data
  <2> DEFINE p == sampling
  <2>1. PICK late \in Lateness :
          /\ Samplable(ring, p, NextTime(p, late))
          /\ smp' = [smp EXCEPT ![p] = Sample(smp[p], ring, p, NextTime(p, late))]
    BY <1>7 DEF sample_data
  <2>2. p \in Rates /\ late \in Nat /\ UNCHANGED <<sensors, tatt_delay, ring, sampling, twice>>
    BY <1>1, <1>7, SamplerAssumption DEF sample_data
  <2>3. NextTime(p, late) \in Nat /\ NextTime(p, late) > smp[p].t
    BY <1>1, <2>2 DEF NextTime, Dt
  <2> DEFINE n == Sample(smp[p], ring, p, NextTime(p, late))
             next == [r \in Rates |-> IF r = p THEN n ELSE smp[r]]
  <2>4. GoodSampler(n, p)
    BY <1>1, <2>1, <2>2, <2>3, SampleIsGood
  <2>5. smp' = [smp EXCEPT ![p] = n]
    BY <2>1
  <2> HIDE DEF n
  <2>6. \A r \in Rates : GoodSampler(next[r], r)
    BY <1>1, <2>4
  <2>7. smp' = [r \in Rates |-> next[r]]
    BY <1>1, <2>2, <2>5
  <2> HIDE DEF next
  <2> QED
    BY <1>1, <1>4, <2>2, <2>6, <2>7, StaysSampled
<1>8. CASE SamplingEnds
  <2>1. UNCHANGED <<sensors, tatt_delay, ring, smp, twice>> /\ sampling' = "none"
    BY <1>8 DEF SamplingEnds
  <2> QED
    BY <1>1, <1>4, <2>1, StaysSampled
<1>9. CASE UNCHANGED samplerVars
  <2>1. UNCHANGED <<sensors, tatt_delay, ring, smp, sampling, twice>>
    BY <1>9 DEF samplerVars
  <2> QED
    BY <1>1, <1>4, <2>1, StaysSampled
<1>10. ASSUME NEW t \in 0..MaxSampled,
              \/ add_engr(t) \/ add_engd(t) \/ add_position(t) \/ add_velocity(t) \/ add_attitude(t)
              \/ add_heave(t) \/ add_mda(t) \/ add_depth(t) \/ add_eng(t) \/ add_rud(t)
       PROVE  SamplerInv'
  <2>1. "10hz" \in Rates /\ "1hz" \in Rates
    BY DEF Rates
  <2> QED
    BY <1>3, <1>10, <2>1 DEF add_engr, add_engd, add_position, add_velocity, add_attitude,
         add_heave, add_mda, add_depth, add_eng, add_rud
<1> QED
  BY <1>5, <1>6, <1>7, <1>8, <1>9, <1>10 DEF SamplerNext

LEMMA SamplerSound == SamplerInv => SamplesFitTheirTime
<1> SUFFICES ASSUME SamplerInv PROVE SamplesFitTheirTime
  OBVIOUS
<1>1. \A r \in Rates : GoodSampler(smp[r], r)
  BY DEF SamplerInv
<1>2. 1 \in 1..SizeBuf /\ "10hz" \in Rates
  BY SizesAre DEF Rates
<1>3. ASSUME NEW r \in Rates, NEW i \in Live(r)
      PROVE  /\ FitsItsTime(smp[r].slot[i], r)
             /\ r = "10hz" /\ smp[r].slot[i].rate # <<>> /\ smp[r].slot[i].t # get_time(r)
                  => smp[r].slot[i].t < smp[r].slot[i].rate[2]
  <2> DEFINE x == smp[r]
  <2>1. PICK k \in 1..SizeBuf : k <= x.num /\ i = (x.tail - k) % SizeBuf
    BY DEF Live
  <2>2. GoodSampler(x, r)
    BY <1>1
  <2>3. x.tail \in Slots /\ x.num \in Nat
    BY <2>2 DEF GoodSampler
  <2>4. i = Behind(x.tail, k) /\ x.slot[i] = Nth(x, k)
    BY <2>1, <2>3, BehindIs DEF Nth
  <2>5. x.num > 0 /\ get_time(r) = x.t
    BY <2>1, <2>3 DEF get_time
  <2> HIDE DEF x
  <2>6. /\ FitsItsTime(Nth(x, k), r)
        /\ k = 1 => Nth(x, k).t = x.t
        /\ r = "10hz" /\ k > 1 /\ Nth(x, k).rate # <<>> => Nth(x, k).t < Nth(x, k).rate[2]
    BY <2>1, <2>2 DEF GoodSampler
  <2>7. x.slot[i].t # x.t => k > 1
    BY <2>4, <2>6
  <2>8. FitsItsTime(x.slot[i], r)
        /\ (r = "10hz" /\ x.slot[i].rate # <<>> /\ x.slot[i].t # x.t => x.slot[i].t < x.slot[i].rate[2])
    BY <2>4, <2>6, <2>7
  <2> QED
    BY <2>5, <2>8 DEF x
<1>4. SampleIsOfItsTime
  BY <1>3 DEF SampleIsOfItsTime, FitsItsTime, OfTime
<1>5. HeldIsNotFuture
  BY <1>2, <1>3 DEF HeldIsNotFuture, FitsItsTime
<1>6. NewestIsAtItsTime
  <2> SUFFICES ASSUME NEW r \in Rates, smp[r].num > 0 PROVE get_data(r).t = get_time(r)
    BY DEF NewestIsAtItsTime
  <2> DEFINE x == smp[r]
  <2>1. GoodSampler(x, r) /\ x.tail \in Slots /\ x.num \in Nat
    BY <1>1 DEF GoodSampler
  <2>2. get_data(r) = Nth(x, 1)
    BY <1>2, <2>1, BehindIs DEF get_data, Nth
  <2>3. get_time(r) = x.t /\ x.num > 0
    BY DEF get_time
  <2> HIDE DEF x
  <2> QED
    BY <1>2, <2>1, <2>2, <2>3 DEF GoodSampler
<1>7. RatesAroundSample
  BY <1>2, <1>3 DEF RatesAroundSample, FitsItsTime
<1> QED
  BY <1>4, <1>5, <1>6, <1>7 DEF SamplesFitTheirTime

\* Values, rates and stamps of the samples are of the samples' times, through
\* rings that wrap, delays, restarts and any interleaving of the sensors, and a
\* value is 0 / 0 only where its sensor was given two values of its time
\* (c_aws1_state::sample_10hz_data, c_aws1_state_sampler::sample_10hz_data).
THEOREM SamplesStayTimed == SamplerSpec => []SamplesFitTheirTime
<1>1. SamplerInit => SamplerInv
  BY SamplerStarts
<1>2. SamplerInv /\ [SamplerNext]_samplerVars => SamplerInv'
  BY SamplerKeeps
<1>3. SamplerInv => SamplesFitTheirTime
  BY SamplerSound
<1> QED
  BY <1>1, <1>2, <1>3, PTL DEF SamplerSpec
-------------------------------------------------------------------------------
(* The radar image (RadarImage).                                           *)
\* How far bearing c lies ahead of b, and the bearing k lines from b.
Off(c, b) == IF c >= b THEN c - b ELSE c - b + Spokes
Turned(b, k) == IF b + k >= Spokes THEN b + k - Spokes ELSE IF b + k < 0 THEN b + k + Spokes ELSE b + k

\* The energy of the last k + 2 spokes, of those there are, and that of the last.
LastAt(e, n, k, r) == IF n > k + 1 THEN e[n - k - 1][r] ELSE IF n = 0 THEN 0 ELSE e[1][r]
LastOf(e, k, r) == LastAt(e, Len(e), k, r)
ShareAt(e, n, r) == IF n = 0 THEN 0 ELSE e[n][r]
LastShare(e, r) == ShareAt(e, Len(e), r)

\* Spokes since the one of recent_spoke[i].
Age(i) == Len(recent_spoke) - i

Image == [Bearings -> [Pixels -> Nat]]
RadarTypeOK ==
  /\ spoke_count \in Nat /\ bearing \in Bearings
  /\ recent_spoke \in Seq(Bearings)
  /\ Len(recent_spoke) = IF spoke_count < Overwrap THEN spoke_count ELSE Overwrap
RadarTyped(ln, num, e, fin) ==
  /\ ln \in Image /\ num \in [Bearings -> Nat] /\ fin \subseteq Bearings
  /\ e \in Seq([Pixels -> Nat]) /\ Len(e) <= 2 * Overwrap + 1 /\ Len(e) <= spoke_count
\* The last spokes lie one or two lines apart, and their lines have their number
\* but before a change of range and in the first calls.
RecentAre(num, e) ==
  \A i \in DOMAIN recent_spoke :
    /\ Off(bearing, recent_spoke[i]) \in Age(i)..(2 * Age(i))
    /\ \A j \in DOMAIN recent_spoke : Age(j) < Age(i) => Off(bearing, recent_spoke[j]) < Off(bearing, recent_spoke[i])
    /\ num[recent_spoke[i]] \in {0, spoke_count - 1 - Age(i)}
    /\ num[recent_spoke[i]] = 0 => Len(e) <= Age(i) \/ spoke_count - Age(i) <= Overwrap
\* Nor is a line's number later than the antenna can have been there.
NumbersAreOld(num) ==
  \A c \in Bearings :
    num[c] = 0 \/ (num[c] < spoke_count /\ Off(bearing, c) <= 2 * (spoke_count - 1 - num[c]))
SumsFall(e) == \A i, j \in DOMAIN e : i <= j => \A r \in Pixels : e[j][r] <= e[i][r]
\* A line of the last spokes has energy of its own spoke, the one before and those
\* after; a line ahead of them that of the last spoke.
RecentHold(ln, e) ==
  \A i \in DOMAIN recent_spoke : spoke_count - 1 - Age(i) >= Overwrap + 2 =>
    \A r \in Pixels : ln[recent_spoke[i]][r] <= LastOf(e, Age(i), r)
AheadHold(ln, e) ==
  spoke_count >= Overwrap + 2 =>
    \A c \in Bearings : Off(c, bearing) \in 1..Overwrap => \A r \in Pixels : ln[c][r] <= LastShare(e, r)
\* As long as the antenna has not come round nothing lies further ahead.
RestIsDark(ln, e) ==
  Len(e) <= 2 * Overwrap \/ spoke_count <= 2 * Overwrap + 1 =>
    \A c \in Bearings :
      Off(c, bearing) > Overwrap /\ Off(c, bearing) <= Spokes + 1 - 2 * Len(e) - Overwrap
      => \A r \in Pixels : ln[c][r] = 0
FinishedAre(ln, fin) ==
  /\ Len(recent_spoke) < Overwrap => fin = {}
  /\ \A b \in fin : \A r, q \in Pixels : ln[b][r] # 0 /\ ln[b][q] # 0 => r = q
RadarOK(ln, num, e, fin) ==
  /\ RadarTyped(ln, num, e, fin) /\ RecentAre(num, e) /\ NumbersAreOld(num) /\ SumsFall(e)
  /\ RecentHold(ln, e) /\ AheadHold(ln, e) /\ RestIsDark(ln, e) /\ FinishedAre(ln, fin)
RadarInv == /\ RadarTypeOK /\ RadarOK(lines, number, energy, finished)
            /\ spoke_count > 0 => Len(energy) > 0

LEMMA RadarSizes ==
  /\ Overwrap \in Nat /\ Overwrap >= 2 /\ Spokes \in Nat /\ Spokes > 6 * Overwrap + 1
  /\ Len0 \in Nat /\ Vth \in 1..255 /\ MaxSpokes \in Nat /\ Bearings = 0..(Spokes - 1)
BY RadarAssumption DEF Bearings

\* The modulus.
LEMMA TurnedIs ==
  ASSUME NEW b \in Bearings, NEW k \in Int, -Spokes <= k, k <= Spokes
  PROVE  (b + k) % Spokes = Turned(b, k) /\ Turned(b, k) \in Bearings
BY RadarSizes DEF Turned

LEMMA OffIs ==
  ASSUME NEW b \in Bearings, NEW c \in Bearings
  PROVE  /\ (b - c) % Spokes = Off(b, c) /\ Off(b, c) \in 0..(Spokes - 1)
         /\ Off(b, c) = 0 <=> b = c
BY RadarSizes DEF Off

LEMMA ReachIs ==
  ASSUME NEW b \in Bearings
  PROVE  /\ Reach(b) \subseteq Bearings
         /\ \A c \in Bearings : c \in Reach(b) <=> Off(c, b) <= Overwrap \/ Off(b, c) <= Overwrap
<1>1. Reach(b) \subseteq Bearings /\ \A c \in Reach(b) : Off(c, b) <= Overwrap \/ Off(b, c) <= Overwrap
  <2> SUFFICES ASSUME NEW k \in (-Overwrap)..Overwrap
               PROVE  LET c == (b + k) % Spokes
                      IN  c \in Bearings /\ (Off(c, b) <= Overwrap \/ Off(b, c) <= Overwrap)
    BY DEF Reach
  <2>1. k \in Int /\ -Spokes <= k /\ k <= Spokes
    BY RadarSizes
  <2>2. (b + k) % Spokes = Turned(b, k) /\ Turned(b, k) \in Bearings
    BY <2>1, TurnedIs, Zenon
  <2>3. Off(Turned(b, k), b) <= Overwrap \/ Off(b, Turned(b, k)) <= Overwrap
    BY RadarSizes DEF Turned, Off
  <2> QED
    BY <2>2, <2>3
<1>2. ASSUME NEW c \in Bearings, Off(c, b) <= Overwrap PROVE c \in Reach(b)
  <2>1. Off(c, b) \in (-Overwrap)..Overwrap /\ Turned(b, Off(c, b)) = c
    BY <1>2, RadarSizes DEF Off, Turned
  <2>2. Off(c, b) \in Int /\ -Spokes <= Off(c, b) /\ Off(c, b) <= Spokes
    BY <2>1, RadarSizes
  <2>3. (b + Off(c, b)) % Spokes = c
    BY <2>1, <2>2, TurnedIs, Zenon
  <2> QED
    BY <2>1, <2>3 DEF Reach
<1>3. ASSUME NEW c \in Bearings, Off(b, c) <= Overwrap PROVE c \in Reach(b)
  <2>1. -Off(b, c) \in (-Overwrap)..Overwrap /\ Turned(b, -Off(b, c)) = c
    BY <1>3, RadarSizes DEF Off, Turned
  <2>2. -Off(b, c) \in Int /\ -Spokes <= -Off(b, c) /\ -Off(b, c) <= Spokes
    BY <2>1, RadarSizes
  <2>3. (b + (-Off(b, c))) % Spokes = c
    BY <2>1, <2>2, TurnedIs, Zenon
  <2> QED
    BY <2>1, <2>3 DEF Reach
<1> QED
  BY <1>1, <1>2, <1>3

\* The spread.
LEMMA ShareIs == ASSUME NEW data, data \in [Pixels -> Nat] PROVE Share(data) \in [Pixels -> Nat]
<1>1. ASSUME NEW x \in Nat PROVE x \div (2 * Overwrap + 1) \in Nat
  BY RadarSizes
<1> QED
  BY <1>1 DEF Share

LEMMA RenewedIs ==
  ASSUME NEW old \in Nat, NEW share \in Nat, NEW isOld \in BOOLEAN
  PROVE  /\ Renewed(old, share, isOld) \in Nat /\ Renewed(old, share, isOld) <= old + share
         /\ isOld => Renewed(old, share, isOld) = share
<1>1. Min({255, old + share}) \in {255, old + share} /\ Min({255, old + share}) <= old + share
  BY LeastIs, {255, old + share} \subseteq Nat
<1> QED
  BY <1>1 DEF Renewed

LEMMA SpreadIs ==
  ASSUME NEW ln \in Image, NEW num \in [Bearings -> Nat], NEW b \in Bearings,
         NEW data \in [Pixels -> Nat], spoke_count \in Nat
  PROVE  /\ Spread(ln, num, b, data) \in Image
         /\ \A c \in Bearings :
              /\ c \notin Reach(b) => Spread(ln, num, b, data)[c] = ln[c]
              /\ \A r \in Pixels :
                   /\ Spread(ln, num, b, data)[c][r] <= ln[c][r] + Share(data)[r]
                   /\ c \in Reach(b) /\ Apart(spoke_count, num[c])
                      => Spread(ln, num, b, data)[c][r] = Share(data)[r]
<1>1. Share(data) \in [Pixels -> Nat]
  BY ShareIs
<1>2. \A c \in Bearings : \A r \in Pixels :
        LET v == Renewed(ln[c][r], Share(data)[r], Apart(spoke_count, num[c]))
        IN  v \in Nat /\ v <= ln[c][r] + Share(data)[r] /\ (Apart(spoke_count, num[c]) => v = Share(data)[r])
  <2> SUFFICES ASSUME NEW c \in Bearings, NEW r \in Pixels
               PROVE  LET v == Renewed(ln[c][r], Share(data)[r], Apart(spoke_count, num[c]))
                      IN  v \in Nat /\ v <= ln[c][r] + Share(data)[r]
                          /\ (Apart(spoke_count, num[c]) => v = Share(data)[r])
    OBVIOUS
  <2>1. ln[c][r] \in Nat /\ Share(data)[r] \in Nat /\ Apart(spoke_count, num[c]) \in BOOLEAN
    BY <1>1 DEF Image, Apart
  <2> QED
    BY <2>1, RenewedIs
<1>3. \A c \in Bearings : \A r \in Pixels : ln[c][r] \in Nat /\ Share(data)[r] \in Nat
  BY <1>1 DEF Image
<1> QED
  BY <1>2, <1>3 DEF Spread, Image

\* A blob that ends before line l0 is bright and of no earlier turn.
LEMMA BlobIs ==
  ASSUME NEW ln \in Image, NEW num \in [Bearings -> Nat], NEW l0 \in (-1)..(Spokes - 1), NEW nf \in Nat,
         NEW r \in Pixels
  PROVE  /\ BlobWidth(ln, num, l0, nf, r) \in 0..Spokes
         /\ \A c \in Bearings :
              /\ (l0 - c) % Spokes \in 0..(Spokes - 1) /\ (l0 \in Bearings => ((l0 - c) % Spokes = 0 <=> c = l0))
              /\ (l0 - c) % Spokes \in 1..BlobWidth(ln, num, l0, nf, r)
                 => ~Apart(nf, num[c]) /\ ln[c][r] >= Vth
<1> DEFINE Stops(d) == LET c == (l0 - d - 1) % Spokes IN Apart(nf, num[c]) \/ ln[c][r] < Vth
           T == {Spokes} \union {d \in 0..(Spokes - 1) : Stops(d)}
<1>1. T \subseteq Nat /\ T # {} /\ Spokes \in T
  BY RadarSizes
<1>2. BlobWidth(ln, num, l0, nf, r) = Min(T)
  BY DEF BlobWidth
<1>3. Min(T) \in 0..Spokes /\ \A d \in 0..(Spokes - 1) : d < Min(T) => ~Stops(d)
  <2>1. \A d \in 0..(Spokes - 1) : Stops(d) => d \in T
    OBVIOUS
  <2> HIDE DEF T, Stops
  <2>2. Min(T) \in T /\ \A n \in T : Min(T) <= n
    BY <1>1, LeastIs
  <2>3. Min(T) \in Nat /\ Min(T) <= Spokes
    BY <1>1, <2>2
  <2>4. ASSUME NEW d \in 0..(Spokes - 1), d < Min(T), Stops(d) PROVE FALSE
    <3>1. d \in T
      BY <2>1, <2>4
    <3> QED
      BY <2>2, <2>3, <2>4, <3>1
  <2> QED
    BY <2>3, <2>4, RadarSizes
<1>4. ASSUME NEW c \in Bearings
      PROVE  LET d == (l0 - c) % Spokes
             IN d \in 0..(Spokes - 1) /\ (l0 \in Bearings => (d = 0 <=> c = l0)) /\ (d >= 1 => (l0 - (d - 1) - 1) % Spokes = c)
  <2>1. CASE l0 = -1
    <3>1. (l0 - c) % Spokes = Spokes - 1 - c
      BY <2>1, RadarSizes
    <3>2. l0 - (Spokes - 1 - c - 1) - 1 = c - Spokes /\ (c - Spokes) % Spokes = c
      BY <2>1, RadarSizes
    <3>3. ASSUME NEW d, d = Spokes - 1 - c
          PROVE  d \in 0..(Spokes - 1) /\ l0 \notin Bearings /\ (d >= 1 => (l0 - (d - 1) - 1) % Spokes = c)
      <4>1. d \in 0..(Spokes - 1) /\ l0 \notin Bearings
        BY <3>3, <2>1, RadarSizes
      <4>2. CASE d = 0
        BY <4>1, <4>2
      <4>3. CASE d # 0
        BY <3>2, <3>3, <4>1, <4>3, <2>1, RadarSizes
      <4> QED
        BY <4>1, <4>2, <4>3
    <3> QED
      BY <3>1, <3>3, Zenon
  <2>2. CASE l0 \in Bearings
    <3>1. (l0 - c) % Spokes = Off(l0, c) /\ Off(l0, c) \in 0..(Spokes - 1) /\ (Off(l0, c) = 0 <=> c = l0)
      BY <2>2, OffIs
    <3>2. Off(l0, c) \in Int /\ Turned(l0, -Off(l0, c)) = c
      BY <2>2, RadarSizes DEF Off, Turned
    <3>3. /\ l0 - (Off(l0, c) - 1) - 1 = l0 + (-Off(l0, c))
          /\ -Off(l0, c) \in Int /\ -Spokes <= -Off(l0, c) /\ -Off(l0, c) <= Spokes
      <4>1. ASSUME NEW k, k \in 0..(Spokes - 1), l0 \in Int
            PROVE  /\ l0 - (k - 1) - 1 = l0 + (-k) /\ -k \in Int /\ -Spokes <= -k /\ -k <= Spokes
        BY <4>1, RadarSizes
      <4> QED
        BY <3>1, <4>1, <2>2, RadarSizes
    <3>4. (l0 + (-Off(l0, c))) % Spokes = c
      BY <2>2, <3>2, <3>3, TurnedIs, Zenon
    <3> QED
      BY <3>1, <3>3, <3>4
  <2> QED
    BY <2>1, <2>2, RadarSizes
<1>5. ASSUME NEW c \in Bearings, (l0 - c) % Spokes \in 1..Min(T)
      PROVE  ~Apart(nf, num[c]) /\ ln[c][r] >= Vth
  <2> DEFINE d == (l0 - c) % Spokes
  <2>1. d \in 0..(Spokes - 1) /\ d \in 1..Min(T) /\ (d >= 1 => (l0 - (d - 1) - 1) % Spokes = c)
    BY <1>4, <1>5
  <2>2. ~Stops(d - 1) /\ (l0 - (d - 1) - 1) % Spokes = c
    <3> HIDE DEF d, T, Stops
    <3> QED
      BY <1>3, <2>1, RadarSizes
  <2>3. ln[c][r] \in Nat
    BY DEF Image
  <2>4. ~(Apart(nf, num[c]) \/ ln[c][r] < Vth)
    BY <2>2
  <2> HIDE DEF d, T, Stops
  <2>5. ~Apart(nf, num[c]) /\ ~(ln[c][r] < Vth)
    BY <2>4, Zenon
  <2>6. ln[c][r] >= Vth
    <3>1. ASSUME NEW v \in Nat, ~(v < Vth)
          PROVE  v >= Vth
      BY <3>1, RadarSizes
    <3> QED
      BY <2>3, <2>5, <3>1, Zenon
  <2> QED
    BY <2>5, <2>6, Zenon
<1> QED
  BY <1>2, <1>3, <1>4, <1>5

\* What the suppression leaves of a line: less, or the light of a blob it was in.
LEMMA SuppressedIs ==
  ASSUME NEW ln \in Image, NEW num \in [Bearings -> Nat], NEW l0 \in (-1)..(Spokes - 1), NEW nf \in Nat,
         NEW first
  PROVE  /\ Suppressed(ln, num, l0, nf, first) \in Image
         /\ \A c \in Bearings, r \in Pixels :
              LET v == Suppressed(ln, num, l0, nf, first)[c][r]
              IN  /\ c = l0 => v = IF r = first THEN ln[c][r] ELSE 0
                  /\ \/ v \in {ln[c][r], 0}
                     \/ /\ v = 255 /\ ln[c][r] >= Vth
                        /\ \A g \in Bearings : l0 \in Bearings /\ g # l0 /\ (Apart(nf, num[g]) \/ ln[g][r] < Vth)
                                               => (l0 - c) % Spokes < (l0 - g) % Spokes
<1>1. ASSUME NEW c \in Bearings, NEW r \in Pixels
      PROVE  LET v == Suppressed(ln, num, l0, nf, first)[c][r]
                 l == BlobWidth(ln, num, l0, nf, r)
                 d == (l0 - c) % Spokes
             IN  v = IF c = l0 THEN IF r = first THEN ln[c][r] ELSE 0
                     ELSE IF r # first /\ d \in 1..l THEN IF Lit(l, d) THEN 255 ELSE 0
                     ELSE ln[c][r]
  BY DEF Suppressed, Kept
<1>2. \A c \in Bearings : ln[c] \in [Pixels -> Nat] /\ \A r \in Pixels : ln[c][r] \in Nat
  BY DEF Image
<1>3. Suppressed(ln, num, l0, nf, first) \in Image
  BY <1>1, <1>2 DEF Suppressed, Image
<1>4. ASSUME NEW c \in Bearings, NEW r \in Pixels, c # l0,
             r # first, (l0 - c) % Spokes \in 1..BlobWidth(ln, num, l0, nf, r)
      PROVE  /\ ln[c][r] >= Vth
             /\ \A g \in Bearings : l0 \in Bearings /\ g # l0 /\ (Apart(nf, num[g]) \/ ln[g][r] < Vth)
                                    => (l0 - c) % Spokes < (l0 - g) % Spokes
  <2>1. ln[c][r] >= Vth
    BY <1>4, BlobIs
  <2>2. ASSUME NEW g \in Bearings, l0 \in Bearings, g # l0, Apart(nf, num[g]) \/ ln[g][r] < Vth
        PROVE  (l0 - c) % Spokes < (l0 - g) % Spokes
    <3>1. /\ (l0 - g) % Spokes \in 0..(Spokes - 1) /\ (l0 - g) % Spokes # 0
          /\ (l0 - c) % Spokes \in 0..(Spokes - 1) /\ BlobWidth(ln, num, l0, nf, r) \in 0..Spokes
          /\ ~ (ln[g][r] < Vth /\ ln[g][r] >= Vth)
      <4>1. ln[g][r] \in Nat
        BY <2>2, <1>2
      <4>2. ~ (ln[g][r] < Vth /\ ln[g][r] >= Vth)
        BY <4>1, RadarSizes
      <4>3. (l0 - g) % Spokes \in 0..(Spokes - 1) /\ ((l0 - g) % Spokes = 0 <=> g = l0)
        BY <2>2, BlobIs
      <4>4. (l0 - c) % Spokes \in 0..(Spokes - 1) /\ BlobWidth(ln, num, l0, nf, r) \in 0..Spokes
        BY BlobIs
      <4> QED
        BY <2>2, <4>2, <4>3, <4>4
    <3>2. (l0 - g) % Spokes \notin 1..BlobWidth(ln, num, l0, nf, r)
      BY <2>2, <3>1, BlobIs
    <3>3. ASSUME NEW w, w \in 0..Spokes, NEW x, x \in 1..w,
                 NEW y, y \in 0..(Spokes - 1), y # 0, y \notin 1..w
          PROVE  x < y
      BY <3>3, RadarSizes
    <3> QED
      BY <1>4, <3>1, <3>2, <3>3, Zenon
  <2> QED
    BY <2>1, <2>2
<1> QED
  BY <1>1, <1>2, <1>3, <1>4

\* A spoke at b, after lines ln, numbers num, energy e and the lines fin finished,
\* that a change of range may have reset.
Stepped(ln, num, e, fin, b, data) ==
  LET num1 == [num EXCEPT ![b] = spoke_count]
      ln1 == Spread(ln, num1, b, data)
  IN  /\ bearing' = b /\ spoke_count' = spoke_count + 1
      /\ recent_spoke' = Append(IF Len(recent_spoke) = Overwrap THEN Tail(recent_spoke) ELSE recent_spoke, b)
      /\ energy' = IF Len(Poured(e, data)) > 2 * Overwrap + 1 THEN Tail(Poured(e, data)) ELSE Poured(e, data)
      /\ \/ /\ Len(recent_spoke) = Overwrap
            /\ lines' = Suppressed(ln1, num1, recent_spoke[1], num1[recent_spoke[1]], Return(ln1[recent_spoke[1]]))
            /\ number' = num1 /\ finished' = (fin \ Reach(b)) \union {recent_spoke[1]}
         \/ /\ Len(recent_spoke) # Overwrap
            /\ \E nf \in Nat, first \in Nat : lines' = Suppressed(ln1, num1, -1, nf, first)
            /\ number' \in [Bearings -> Nat]
            /\ \A c \in Bearings : number'[c] \in {0, num1[c]}
            /\ finished' = fin \ Reach(b)

LEMMA ResetIsOK ==
  ASSUME RadarInv
  PROVE  RadarOK(Blank, [c \in Bearings |-> 0], <<>>, {})
<1>1. Blank \in Image /\ \A c \in Bearings, r \in Pixels : Blank[c][r] = 0
  BY DEF Blank, Image
<1>2. RadarTyped(Blank, [c \in Bearings |-> 0], <<>>, {})
  BY <1>1, RadarSizes DEF RadarTyped, RadarInv, RadarTypeOK
<1>3. \A i \in DOMAIN recent_spoke : recent_spoke[i] \in Bearings /\ Age(i) \in Nat
  BY DEF RadarInv, RadarTypeOK, Age
<1>4. RecentAre([c \in Bearings |-> 0], <<>>)
  BY <1>3 DEF RecentAre, RadarInv, RadarOK
<1>5. RecentHold(Blank, <<>>)
  <2>1. \A k \in Nat, r \in Pixels : LastOf(<<>>, k, r) = 0
    BY DEF LastOf, LastAt
  <2> QED
    BY <1>1, <1>3, <2>1 DEF RecentHold
<1>6. AheadHold(Blank, <<>>)
  BY <1>1 DEF AheadHold, LastShare, ShareAt
<1>7. RestIsDark(Blank, <<>>) /\ FinishedAre(Blank, {})
  BY <1>1 DEF RestIsDark, FinishedAre
<1>8. NumbersAreOld([c \in Bearings |-> 0]) /\ SumsFall(<<>>)
  BY DEF NumbersAreOld, SumsFall
<1> QED
  BY <1>2, <1>4, <1>5, <1>6, <1>7, <1>8 DEF RadarOK

LEMMA StepIs ==
  ASSUME RadarInv, RadarNext
  PROVE  \E ln, num, e, fin, b, data :
           /\ RadarOK(ln, num, e, fin) /\ Stepped(ln, num, e, fin, b, data)
           /\ b \in {Turned(bearing, 1), Turned(bearing, 2)} /\ data \in [Pixels -> Nat]
           /\ m_range' = m_range => ln = lines /\ fin = finished
<1>1. PICK lost \in 0..1, range \in 1..2, data \in Echoes :
        set_spoke((bearing + 1 + lost) % Spokes, data, range)
  BY DEF RadarNext
<1>2. data \in [Pixels -> Nat]
  <2>1. data \in [Pixels -> 0..255]
    BY RadarAssumption DEF Pixels
  <2> QED
    BY <2>1
<1> DEFINE b == (bearing + 1 + lost) % Spokes
           anew == range # m_range
           ln == IF anew THEN Blank ELSE lines
           num == IF anew THEN [c \in Bearings |-> 0] ELSE number
           e == IF anew THEN <<>> ELSE energy
           fin == IF anew THEN {} ELSE finished
<1>3. b \in {Turned(bearing, 1), Turned(bearing, 2)}
  <2>1. bearing \in Bearings
    BY DEF RadarInv, RadarTypeOK
  <2>2. (bearing + 1) % Spokes = Turned(bearing, 1) /\ (bearing + 2) % Spokes = Turned(bearing, 2)
    BY <2>1, RadarSizes DEF Turned
  <2>3. bearing + 1 + lost = bearing + 1 \/ bearing + 1 + lost = bearing + 2
    BY <2>1, RadarSizes
  <2> QED
    BY <2>2, <2>3
<1>4. RadarOK(ln, num, e, fin)
  BY ResetIsOK DEF RadarInv
<1>5. m_range' = m_range => ln = lines /\ fin = finished
  BY <1>1 DEF set_spoke
<1>6. Stepped(ln, num, e, fin, b, data)
  <2> DEFINE num1 == [num EXCEPT ![b] = spoke_count]
             ln1 == Spread(ln, num1, b, data)
  <2>1. /\ bearing' = b /\ spoke_count' = spoke_count + 1
        /\ recent_spoke' = Append(IF Len(recent_spoke) = Overwrap THEN Tail(recent_spoke) ELSE recent_spoke, b)
        /\ energy' = IF Len(Poured(e, data)) > 2 * Overwrap + 1 THEN Tail(Poured(e, data)) ELSE Poured(e, data)
    BY <1>1 DEF set_spoke
  <2>2. CASE Len(recent_spoke) = Overwrap
    <3>1. /\ lines' = Suppressed(ln1, num1, Head(recent_spoke), num1[Head(recent_spoke)], Return(ln1[Head(recent_spoke)]))
          /\ number' = num1 /\ finished' = (fin \ Reach(b)) \union {Head(recent_spoke)}
      BY <1>1, <2>2 DEF set_spoke
    <3>2. Head(recent_spoke) = recent_spoke[1]
      BY <2>2, RadarSizes DEF RadarInv, RadarTypeOK
    <3> QED
      BY <2>1, <2>2, <3>1, <3>2 DEF Stepped
  <2>3. CASE Len(recent_spoke) # Overwrap
    <3>1. /\ \E nf \in {0, MaxSpokes + Overwrap + 1}, first \in 1..(Len0 + 1) :
               lines' = Suppressed(ln1, num1, -1, nf, first)
          /\ \E z \in SUBSET {c \in Bearings : num1[c] # 0} :
               number' = [c \in Bearings |-> IF c \in z THEN 0 ELSE num1[c]]
          /\ finished' = fin \ Reach(b)
      BY <1>1, <2>3 DEF set_spoke
    <3>2. {0, MaxSpokes + Overwrap + 1} \subseteq Nat /\ 1..(Len0 + 1) \subseteq Nat
      BY RadarSizes
    <3>3. num1 \in [Bearings -> Nat]
      BY <1>4 DEF RadarOK, RadarTyped, RadarInv, RadarTypeOK
    <3>4. number' \in [Bearings -> Nat] /\ \A c \in Bearings : number'[c] \in {0, num1[c]}
      BY <3>1, <3>3
    <3> QED
      BY <2>1, <2>3, <3>1, <3>2, <3>4 DEF Stepped
  <2> QED
    BY <2>2, <2>3
<1> HIDE DEF ln, num, e, fin, b
<1> QED
  BY <1>2, <1>3, <1>4, <1>5, <1>6, Zenon

\* The energy of the last spokes with one more: e becomes e1, for the loss of c.
Pours(e, n, e1, m, c, share) ==
  /\ n \in Nat /\ m \in Nat /\ c \in {0, 1} /\ m = n + 1 - c /\ m >= 1 /\ (c = 1 => n = 2 * Overwrap + 1)
  /\ e \in [1..n -> [Pixels -> Nat]] /\ e1 \in [1..m -> [Pixels -> Nat]] /\ SumsFall(e)
  /\ share \in [Pixels -> Nat] /\ e1[m] = share
  /\ \A i \in 1..(m - 1) : \A r \in Pixels : e1[i][r] = e[i + c][r] + share[r]
LEMMA PouredOn ==
  ASSUME NEW e, NEW n, NEW e1, NEW m, NEW c, NEW share, Pours(e, n, e1, m, c, share)
  PROVE  /\ SumsFall(e1)
         /\ \A r \in Pixels :
              /\ ShareAt(e1, m, r) = share[r]
              /\ ShareAt(e, n, r) + share[r] <= LastAt(e1, m, 0, r)
              /\ \A k \in 0..(Overwrap - 2) : LastAt(e, n, k, r) + share[r] <= LastAt(e1, m, k + 1, r)
<1> USE DEF Pours
<1>1. \A i \in 1..(m - 1) : i + c \in 1..n
  OBVIOUS
<1>2. \A i \in 1..n, r \in Pixels : e[i][r] \in Nat
  OBVIOUS
<1>3. SumsFall(e1)
  <2> SUFFICES ASSUME NEW i \in 1..m, NEW j \in 1..m, i <= j, NEW r \in Pixels
               PROVE  e1[j][r] <= e1[i][r]
    BY DEF SumsFall
  <2>0. share[r] \in Nat /\ e1[j][r] \in Nat
    OBVIOUS
  <2>1. CASE i = j
    BY <2>0, <2>1
  <2>2. CASE i < j /\ j = m
    <3>1. i \in 1..(m - 1)
      BY <2>2
    <3>2. e1[i][r] = e[i + c][r] + share[r] /\ e[i + c][r] \in Nat
      BY <1>1, <1>2, <3>1
    <3> QED
      BY <2>0, <2>2, <3>2
  <2>3. CASE i < j /\ j < m
    <3>1. i \in 1..(m - 1) /\ j \in 1..(m - 1)
      BY <2>3
    <3>2. /\ e1[i][r] = e[i + c][r] + share[r] /\ e1[j][r] = e[j + c][r] + share[r]
          /\ i + c \in 1..n /\ j + c \in 1..n /\ e[i + c][r] \in Nat /\ e[j + c][r] \in Nat
      BY <1>1, <1>2, <3>1
    <3>3. i + c <= j + c /\ DOMAIN e = 1..n
      BY <2>3
    <3>4. e[j + c][r] <= e[i + c][r]
      BY <3>2, <3>3 DEF SumsFall
    <3> QED
      BY <2>0, <3>2, <3>4
  <2> QED
    BY <2>1, <2>2, <2>3
<1>4. ASSUME NEW r \in Pixels
      PROVE  /\ ShareAt(e1, m, r) = share[r]
             /\ ShareAt(e, n, r) + share[r] <= LastAt(e1, m, 0, r)
             /\ \A k \in 0..(Overwrap - 2) : LastAt(e, n, k, r) + share[r] <= LastAt(e1, m, k + 1, r)
  <2>0. share[r] \in Nat
    OBVIOUS
  <2>1. ShareAt(e1, m, r) = share[r]
    BY DEF ShareAt
  <2>2. ASSUME NEW i \in 1..(m - 1) PROVE e1[i][r] = e[i + c][r] + share[r] /\ e[i + c][r] \in Nat
    BY <1>1, <1>2, <2>2
  <2>3. CASE n = 0
    <3>1. c = 0 /\ m = 1
      BY <2>3, RadarSizes
    <3>2. ShareAt(e, n, r) = 0 /\ \A k \in Nat : LastAt(e, n, k, r) = 0 /\ LastAt(e1, m, k, r) = share[r]
      BY <2>3, <3>1 DEF ShareAt, LastAt
    <3> QED
      BY <2>0, <2>1, <3>2, RadarSizes
  <2>4. CASE n > 0
    <3>0. m > 1
      BY <2>4, RadarSizes
    <3>1. ShareAt(e, n, r) + share[r] <= LastAt(e1, m, 0, r)
      <4>1. LastAt(e1, m, 0, r) = e1[m - 1][r] /\ ShareAt(e, n, r) = e[n][r]
        BY <2>4, <3>0 DEF LastAt, ShareAt
      <4>2. m - 1 \in 1..(m - 1) /\ m - 1 + c = n
        BY <3>0
      <4> QED
        BY <2>0, <2>2, <4>1, <4>2
    <3>2. ASSUME NEW k \in 0..(Overwrap - 2) PROVE LastAt(e, n, k, r) + share[r] <= LastAt(e1, m, k + 1, r)
      <4>1. CASE n > k + 1
        <5>1. m > k + 2
          BY <4>1, RadarSizes
        <5>2. LastAt(e, n, k, r) = e[n - k - 1][r] /\ LastAt(e1, m, k + 1, r) = e1[m - k - 2][r]
          BY <4>1, <5>1, RadarSizes DEF LastAt
        <5>3. m - k - 2 \in 1..(m - 1) /\ m - k - 2 + c = n - k - 1
          BY <5>1, RadarSizes
        <5> QED
          BY <2>0, <2>2, <5>2, <5>3
      <4>2. CASE n <= k + 1
        <5>1. c = 0 /\ ~(m > k + 2)
          BY <4>2, RadarSizes
        <5>2. LastAt(e, n, k, r) = e[1][r] /\ LastAt(e1, m, k + 1, r) = e1[1][r]
          BY <4>2, <2>4, <5>1, <3>0, RadarSizes DEF LastAt
        <5>3. 1 \in 1..(m - 1)
          BY <3>0
        <5> QED
          BY <2>0, <2>2, <5>1, <5>2, <5>3
      <4> QED
        BY <4>1, <4>2, RadarSizes
    <3> QED
      BY <2>1, <3>1, <3>2
  <2> QED
    BY <2>3, <2>4
<1> QED
  BY <1>3, <1>4

LEMMA PouredAre ==
  ASSUME NEW e \in Seq([Pixels -> Nat]), NEW data \in [Pixels -> Nat]
  PROVE  /\ Poured(e, data) \in Seq([Pixels -> Nat]) /\ Len(Poured(e, data)) = Len(e) + 1
         /\ Poured(e, data)[Len(e) + 1] = Share(data)
         /\ \A i \in 1..Len(e), r \in Pixels : Poured(e, data)[i][r] = e[i][r] + Share(data)[r]
<1> DEFINE q == [i \in DOMAIN e |-> [r \in Pixels |-> e[i][r] + Share(data)[r]]]
<1>1. Share(data) \in [Pixels -> Nat]
  BY ShareIs
<1>2. Len(e) \in Nat /\ DOMAIN e = 1..Len(e) /\ e \in [1..Len(e) -> [Pixels -> Nat]]
  BY LenProperties
<1>3. q \in [1..Len(e) -> [Pixels -> Nat]] /\ \A i \in 1..Len(e), r \in Pixels : q[i][r] = e[i][r] + Share(data)[r]
  BY <1>1, <1>2
<1>4. Poured(e, data) = Append(q, Share(data))
  BY DEF Poured
<1> HIDE DEF q
<1>5. q \in Seq([Pixels -> Nat]) /\ Len(q) = Len(e)
  <2>1. q \in Seq([Pixels -> Nat])
    <3>1. q \in UNION {[1..n -> [Pixels -> Nat]] : n \in Nat}
      BY <1>2, <1>3
    <3>2. Seq([Pixels -> Nat]) = UNION {[1..n -> [Pixels -> Nat]] : n \in Nat}
      BY SeqDef, Zenon
    <3> QED
      BY <3>1, <3>2, Zenon
  <2>2. Len(q) \in Nat /\ DOMAIN q = 1..Len(q)
    BY <2>1, LenProperties
  <2>3. DOMAIN q = 1..Len(e)
    BY <1>3, Zenon
  <2>4. ASSUME NEW a \in Nat, NEW b \in Nat, 1..a = 1..b PROVE a = b
    BY <2>4
  <2> QED
    BY <1>2, <2>1, <2>2, <2>3, <2>4, Zenon
<1>6. /\ Append(q, Share(data)) \in Seq([Pixels -> Nat]) /\ Len(Append(q, Share(data))) = Len(e) + 1
      /\ Append(q, Share(data))[Len(e) + 1] = Share(data)
      /\ \A i \in 1..Len(e) : Append(q, Share(data))[i] = q[i]
  BY <1>1, <1>2, <1>5, AppendProperties
<1> QED
  BY <1>3, <1>4, <1>6

LEMMA PouredIs ==
  ASSUME NEW e \in Seq([Pixels -> Nat]), Len(e) <= 2 * Overwrap + 1, SumsFall(e), NEW data \in [Pixels -> Nat]
  PROVE  LET e1 == IF Len(Poured(e, data)) > 2 * Overwrap + 1 THEN Tail(Poured(e, data)) ELSE Poured(e, data)
         IN  /\ e1 \in Seq([Pixels -> Nat]) /\ Len(e1) <= 2 * Overwrap + 1 /\ SumsFall(e1)
             /\ Len(e1) = (IF Len(e) = 2 * Overwrap + 1 THEN Len(e) ELSE Len(e) + 1)
             /\ \A r \in Pixels :
                  /\ LastShare(e1, r) = Share(data)[r]
                  /\ LastShare(e, r) + Share(data)[r] <= LastOf(e1, 0, r)
                  /\ \A k \in 0..(Overwrap - 2) : LastOf(e, k, r) + Share(data)[r] <= LastOf(e1, k + 1, r)
<1> DEFINE n == Len(e)
           p == Poured(e, data)
           share == Share(data)
<1>1. share \in [Pixels -> Nat]
  BY ShareIs
<1>2. n \in Nat /\ e \in [1..n -> [Pixels -> Nat]]
  BY LenProperties
<1>3. /\ p \in Seq([Pixels -> Nat]) /\ Len(p) = n + 1 /\ p[n + 1] = share
      /\ \A i \in 1..n, r \in Pixels : p[i][r] = e[i][r] + share[r]
  BY PouredAre
<1> DEFINE e1 == IF Len(p) > 2 * Overwrap + 1 THEN Tail(p) ELSE p
           m == Len(e1)
<1>4. n <= 2 * Overwrap + 1
  OBVIOUS
<1>5. \E c \in {0, 1} : /\ e1 \in Seq([Pixels -> Nat]) /\ m = n + 1 - c
                        /\ \A i \in 1..m : e1[i] = p[i + c]
                        /\ c = 1 <=> n = 2 * Overwrap + 1
  <2> HIDE DEF p, n
  <2>1. CASE n = 2 * Overwrap + 1
    <3>1. e1 = Tail(p) /\ p # <<>>
      BY <1>2, <1>3, <2>1, RadarSizes
    <3> HIDE DEF e1
    <3>2. Tail(p) \in Seq([Pixels -> Nat]) /\ Len(Tail(p)) = Len(p) - 1 /\ \A i \in 1..Len(Tail(p)) : Tail(p)[i] = p[i + 1]
      BY <1>3, <3>1, HeadTailProperties
    <3>3. m = n + 1 - 1 /\ e1 \in Seq([Pixels -> Nat]) /\ \A i \in 1..m : e1[i] = p[i + 1]
      BY <1>2, <1>3, <3>1, <3>2
    <3> HIDE DEF m
    <3> QED
      BY <2>1, <3>3
  <2>2. CASE n # 2 * Overwrap + 1
    <3>1. ~(n + 1 > 2 * Overwrap + 1)
      BY <1>2, <1>4, <2>2, RadarSizes
    <3>2. e1 = p
      BY <1>3, <3>1
    <3>3. \A i \in 1..Len(p) : i + 0 = i
      OBVIOUS
    <3> HIDE DEF e1
    <3>4. m = n + 1 - 0 /\ e1 \in Seq([Pixels -> Nat]) /\ \A i \in 1..m : e1[i] = p[i + 0]
      BY <1>2, <1>3, <3>2, <3>3
    <3> HIDE DEF m
    <3> QED
      BY <2>2, <3>4
  <2> QED
    BY <2>1, <2>2
<1>6. (e1 \in Seq([Pixels -> Nat]) => e1 \in [1..m -> [Pixels -> Nat]] /\ m \in Nat)
  BY LenProperties
<1> HIDE DEF n, p, share, e1, m
<1>7. PICK c \in {0, 1} : /\ e1 \in Seq([Pixels -> Nat]) /\ m = n + 1 - c
                          /\ \A i \in 1..m : e1[i] = p[i + c]
                          /\ c = 1 <=> n = 2 * Overwrap + 1
  BY <1>5
<1>8. m >= 1 /\ m \in Nat /\ m <= 2 * Overwrap + 1 /\ m = (IF n = 2 * Overwrap + 1 THEN n ELSE n + 1)
  BY <1>2, <1>4, <1>6, <1>7, RadarSizes
<1>9. e1[m] = share
  <2>1. m \in 1..m /\ m + c = n + 1
    BY <1>2, <1>7, <1>8
  <2> QED
    BY <1>3, <1>7, <2>1
<1>10. \A i \in 1..(m - 1) : \A r \in Pixels : e1[i][r] = e[i + c][r] + share[r]
  <2>1. \A i \in 1..(m - 1) : i \in 1..m /\ i + c \in 1..n
    BY <1>2, <1>7, <1>8
  <2> QED
    BY <1>3, <1>7, <2>1
<1>11. e1 \in [1..m -> [Pixels -> Nat]]
  BY <1>6, <1>7
<1>12. /\ SumsFall(e1)
       /\ \A r \in Pixels :
            /\ ShareAt(e1, m, r) = share[r]
            /\ ShareAt(e, n, r) + share[r] <= LastAt(e1, m, 0, r)
            /\ \A k \in 0..(Overwrap - 2) : LastAt(e, n, k, r) + share[r] <= LastAt(e1, m, k + 1, r)
  <2>1. Pours(e, n, e1, m, c, share)
    BY <1>1, <1>2, <1>7, <1>8, <1>9, <1>10, <1>11, Zenon DEF Pours
  <2> QED
    BY <2>1, PouredOn, Zenon
<1> QED
  BY <1>7, <1>8, <1>12, Zenon DEF LastOf, LastShare, n, p, share, e1, m

Step(ln, num, e, fin, b, data) ==
  /\ RadarTypeOK /\ RadarOK(ln, num, e, fin)
  /\ b \in {Turned(bearing, 1), Turned(bearing, 2)} /\ data \in [Pixels -> Nat]
  /\ Stepped(ln, num, e, fin, b, data)

\* Where line c lies when the antenna has turned to b by s.
Moves(b, s, c) ==
  /\ s \in {1, 2}
  /\ Off(b, c) \in 0..(Spokes - 1) /\ Off(c, b) \in 0..(Spokes - 1)
  /\ Off(bearing, c) \in 0..(Spokes - 1) /\ Off(c, bearing) \in 0..(Spokes - 1)
  /\ Off(b, c) <= Off(bearing, c) + s
  /\ Off(bearing, c) + s < Spokes => Off(b, c) = Off(bearing, c) + s
  /\ Off(c, b) + s < Spokes => Off(c, bearing) = Off(c, b) + s
  /\ Off(b, c) = 0 <=> c = b
  /\ Off(b, c) = 0 <=> Off(c, b) = 0
  /\ Off(b, c) # 0 => Off(c, b) = Spokes - Off(b, c)
  /\ Off(c, bearing) # 0 => Off(bearing, c) = Spokes - Off(c, bearing)

LEMMA MovedIs ==
  ASSUME NEW ln, NEW num, NEW e, NEW fin, NEW b, NEW data, Step(ln, num, e, fin, b, data)
  PROVE  /\ b \in Bearings /\ bearing' = b /\ bearing \in Bearings /\ spoke_count \in Nat
         /\ spoke_count' = spoke_count + 1
         /\ \E s \in {1, 2} : \A c \in Bearings : Moves(b, s, c)
<1>1. bearing \in Bearings /\ spoke_count \in Nat /\ bearing' = b /\ spoke_count' = spoke_count + 1
  BY DEF Step, RadarTypeOK, Stepped
<1>2. PICK s \in {1, 2} : b = Turned(bearing, s)
  BY DEF Step
<1>3. b \in Bearings
  BY <1>1, <1>2, RadarSizes DEF Turned
<1>4. ASSUME NEW c \in Bearings PROVE Moves(b, s, c)
  BY <1>1, <1>2, <1>3, RadarSizes DEF Moves, Turned, Off
<1> QED
  BY <1>1, <1>3, <1>4

\* The last spokes are those before, a spoke older, and the new one.
LEMMA RecentsShift ==
  ASSUME NEW ln, NEW num, NEW e, NEW fin, NEW b, NEW data, Step(ln, num, e, fin, b, data)
  PROVE  /\ RadarTypeOK'
         /\ \A i \in DOMAIN recent_spoke :
              recent_spoke[i] \in Bearings /\ Age(i) \in 0..(Overwrap - 1) /\ Age(i) < spoke_count
         /\ Len(recent_spoke) = Overwrap <=> spoke_count >= Overwrap
         /\ Len(recent_spoke) = Overwrap =>
              /\ 1 \in DOMAIN recent_spoke /\ Age(1) = Overwrap - 1
         /\ \A i \in DOMAIN recent_spoke' :
              \/ recent_spoke'[i] = b /\ Age(i)' = 0
              \/ \E j \in DOMAIN recent_spoke :
                   /\ recent_spoke'[i] = recent_spoke[j] /\ Age(i)' = Age(j) + 1
                   /\ Len(recent_spoke) = Overwrap => j > 1 /\ Age(j) <= Overwrap - 2
<1> DEFINE n == Len(recent_spoke)
           rest == IF n = Overwrap THEN Tail(recent_spoke) ELSE recent_spoke
           c == IF n = Overwrap THEN 1 ELSE 0
<1>1. recent_spoke \in Seq(Bearings) /\ n \in Nat /\ n = (IF spoke_count < Overwrap THEN spoke_count ELSE Overwrap)
      /\ recent_spoke' = Append(rest, b) /\ spoke_count \in Nat /\ spoke_count' = spoke_count + 1 /\ bearing' = b
      /\ DOMAIN recent_spoke = 1..n /\ \A i \in 1..n : recent_spoke[i] \in Bearings
  BY DEF Step, RadarTypeOK, Stepped
<1>2. b \in Bearings
  BY MovedIs
<1>3. rest \in Seq(Bearings) /\ Len(rest) = n - c /\ \A i \in 1..(n - c) : rest[i] = recent_spoke[i + c]
  <2>1. CASE n = Overwrap
    <3>1. recent_spoke # <<>>
      BY <1>1, <2>1, RadarSizes
    <3>2. Tail(recent_spoke) \in Seq(Bearings) /\ Len(Tail(recent_spoke)) = n - 1
          /\ \A i \in 1..Len(Tail(recent_spoke)) : Tail(recent_spoke)[i] = recent_spoke[i + 1]
      BY <1>1, <3>1, HeadTailProperties
    <3> QED
      BY <2>1, <3>2
  <2>2. CASE n # Overwrap
    BY <1>1, <2>2
  <2> QED
    BY <2>1, <2>2
<1>0. n - c \in Nat /\ c \in {0, 1} /\ (n = Overwrap => c = 1)
  BY <1>1, RadarSizes
<1> HIDE DEF rest, c
<1>4. /\ recent_spoke' \in Seq(Bearings) /\ Len(recent_spoke') = n - c + 1
      /\ \A i \in 1..(n - c) : recent_spoke'[i] = recent_spoke[i + c]
      /\ recent_spoke'[n - c + 1] = b
  <2>1. /\ Append(rest, b) \in Seq(Bearings) /\ Len(Append(rest, b)) = Len(rest) + 1
        /\ \A i \in 1..Len(rest) : Append(rest, b)[i] = rest[i]
        /\ Append(rest, b)[Len(rest) + 1] = b
    BY <1>2, <1>3, AppendProperties
  <2> QED
    BY <1>1, <1>3, <2>1
<1>5. Len(recent_spoke') = IF spoke_count' < Overwrap THEN spoke_count' ELSE Overwrap
  BY <1>1, <1>4, RadarSizes DEF c
<1>6. RadarTypeOK'
  BY <1>1, <1>2, <1>4, <1>5 DEF RadarTypeOK
<1>7. \A i \in 1..n : recent_spoke[i] \in Bearings /\ Age(i) \in 0..(Overwrap - 1) /\ Age(i) < spoke_count
  BY <1>1, RadarSizes DEF Age
<1>8. n = Overwrap <=> spoke_count >= Overwrap
  BY <1>1, RadarSizes
<1>9. n = Overwrap => 1 \in 1..n /\ Age(1) = Overwrap - 1
  BY RadarSizes DEF Age
<1>10. ASSUME NEW i \in DOMAIN recent_spoke'
       PROVE  \/ recent_spoke'[i] = b /\ Age(i)' = 0
              \/ \E j \in 1..n :
                   /\ recent_spoke'[i] = recent_spoke[j] /\ Age(i)' = Age(j) + 1
                   /\ n = Overwrap => j > 1 /\ Age(j) <= Overwrap - 2
  <2>0. DOMAIN recent_spoke' = 1..(n - c + 1) /\ Age(i)' = (n - c + 1) - i
    <3>1. Len(recent_spoke') = n - c + 1
      BY <1>4
    <3>2. DOMAIN recent_spoke' = 1..Len(recent_spoke')
      BY <1>4
    <3>3. DOMAIN recent_spoke' = 1..(n - c + 1)
      <4> HIDE DEF n
      <4> QED
        BY <3>1, <3>2, Zenon
    <3>4. Age(i)' = (n - c + 1) - i
      <4> HIDE DEF n
      <4> QED
        BY <3>1 DEF Age
    <3> QED
      BY <3>3, <3>4, Zenon
  <2>1. i \in 1..(n - c + 1) /\ n \in Nat
    BY <1>1, <1>10, <2>0, Zenon
  <2>2. CASE i = n - c + 1
    <3>1. Age(i)' = 0
      <4> HIDE DEF n
      <4> QED
        BY <1>0, <2>0, <2>1, <2>2
    <3> QED
      BY <1>4, <2>2, <3>1, Zenon
  <2>3. CASE i # n - c + 1
    <3>0. Age(i + c) = n - (i + c)
      BY DEF Age
    <3> HIDE DEF n
    <3>1. i \in 1..(n - c) /\ i + c \in 1..n /\ n - (i + c) \in Int
      BY <1>0, <2>1, <2>3
    <3>2. (n - c + 1) - i = (n - (i + c)) + 1
      BY <1>0, <2>1
    <3>3. recent_spoke'[i] = recent_spoke[i + c] /\ Age(i)' = Age(i + c) + 1
      BY <1>4, <2>0, <3>0, <3>1, <3>2, Zenon
    <3>4. n = Overwrap => i + c > 1 /\ n - (i + c) <= Overwrap - 2
      BY <1>0, <3>1, RadarSizes
    <3> QED
      BY <3>0, <3>1, <3>3, <3>4, Zenon
  <2> QED
    BY <2>2, <2>3
<1> QED
  BY <1>1, <1>6, <1>7, <1>8, <1>9, <1>10

\* What the suppression may light lies behind the line it starts from: a line
\* ahead of the beam is of an earlier turn, or dark.
GapIs(ln1, num1, b, l0, g) ==
  /\ g \in Bearings /\ Off(g, b) = Overwrap + 1 /\ g # l0
  /\ \A r \in Pixels : Apart(num1[l0], num1[g]) \/ ln1[g][r] < Vth

LEMMA GapAhead ==
  ASSUME NEW ln, NEW num, NEW e, NEW fin, NEW b, NEW data, Step(ln, num, e, fin, b, data),
         Len(recent_spoke) = Overwrap
  PROVE  LET num1 == [num EXCEPT ![b] = spoke_count]
         IN  \E g : GapIs(Spread(ln, num1, b, data), num1, b, recent_spoke[1], g)
<1> DEFINE num1 == [num EXCEPT ![b] = spoke_count]
           ln1 == Spread(ln, num1, b, data)
           l0 == recent_spoke[1]
           g == Turned(b, Overwrap + 1)
           n == spoke_count
<1>1. /\ n \in Nat /\ n >= Overwrap /\ b \in Bearings /\ bearing \in Bearings
      /\ l0 \in Bearings /\ 1 \in DOMAIN recent_spoke /\ Age(1) = Overwrap - 1
  BY RecentsShift, MovedIs
<1>2. /\ ln \in Image /\ num \in [Bearings -> Nat] /\ data \in [Pixels -> Nat] /\ Len(e) \in Nat /\ Len(e) <= n
      /\ RecentAre(num, e) /\ NumbersAreOld(num) /\ RestIsDark(ln, e)
  <2>1. RadarOK(ln, num, e, fin) /\ data \in [Pixels -> Nat]
    BY DEF Step
  <2>2. e \in Seq([Pixels -> Nat]) /\ Len(e) <= n
    BY <2>1 DEF RadarOK, RadarTyped
  <2>3. Len(e) \in Nat
    BY <2>2, LenProperties
  <2> QED
    BY <2>1, <2>2, <2>3 DEF RadarOK, RadarTyped
<1>3. g \in Bearings /\ Off(g, b) = Overwrap + 1
  BY <1>1, RadarSizes DEF Turned, Off
<1> HIDE DEF g, n
<1>4. PICK s \in {1, 2} : \A c \in Bearings : Moves(b, s, c)
  BY MovedIs
<1>5. /\ Off(bearing, l0) \in 0..(2 * Overwrap - 2) /\ num[l0] \in {0, n - Overwrap}
      /\ num[l0] = 0 => Len(e) <= Overwrap - 1 \/ n <= 2 * Overwrap - 1
  <2>1. /\ Off(bearing, l0) \in Age(1)..(2 * Age(1)) /\ num[l0] \in {0, n - 1 - Age(1)}
        /\ num[l0] = 0 => Len(e) <= Age(1) \/ n - Age(1) <= Overwrap
    BY <1>1, <1>2, Zenon DEF RecentAre, n
  <2> HIDE DEF l0
  <2>2. /\ Off(bearing, l0) \in (Overwrap - 1)..(2 * (Overwrap - 1)) /\ num[l0] \in {0, n - 1 - (Overwrap - 1)}
        /\ num[l0] = 0 => Len(e) <= Overwrap - 1 \/ n - (Overwrap - 1) <= Overwrap
    BY <1>1, <2>1, Zenon
  <2> QED
    BY <1>1, <2>2, RadarSizes
<1>6. /\ Off(g, bearing) = Overwrap + 1 + s /\ Off(bearing, g) = Spokes - (Overwrap + 1 + s) /\ Off(b, g) > Overwrap
      /\ g # b /\ l0 # b /\ g # l0
  <2> HIDE DEF l0
  <2>0. s \in {1, 2}
    BY <1>4
  <2>1. Moves(b, s, g) /\ Moves(b, s, l0)
    BY <1>1, <1>3, <1>4, Zenon
  <2>2. /\ Off(bearing, l0) \in Nat /\ Off(bearing, l0) <= 2 * Overwrap - 2
        /\ Off(g, b) = Overwrap + 1
    BY <1>3, <1>5, RadarSizes
  <2>3. Off(b, g) = Spokes - (Overwrap + 1) /\ g # b /\ Off(g, bearing) = Overwrap + 1 + s
        /\ Off(bearing, g) = Spokes - (Overwrap + 1 + s)
    <3>1. /\ Off(g, b) + s < Spokes => Off(g, bearing) = Off(g, b) + s
          /\ Off(b, g) = 0 <=> g = b
          /\ Off(b, g) = 0 <=> Off(g, b) = 0
          /\ Off(b, g) # 0 => Off(g, b) = Spokes - Off(b, g)
          /\ Off(g, bearing) # 0 => Off(bearing, g) = Spokes - Off(g, bearing)
          /\ Off(b, g) \in Int /\ Off(bearing, g) \in Int
      BY <2>1 DEF Moves
    <3>2. Off(g, b) + s < Spokes /\ Off(g, b) # 0
      BY <2>0, <2>2, RadarSizes
    <3>3. Off(g, bearing) = Overwrap + 1 + s /\ Overwrap + 1 + s # 0 /\ g # b
      BY <2>0, <2>2, <3>1, <3>2, RadarSizes
    <3>4. Off(b, g) = Spokes - (Overwrap + 1)
      BY <2>2, <3>1, <3>2, RadarSizes
    <3>5. Off(bearing, g) = Spokes - (Overwrap + 1 + s)
      BY <3>1, <3>3, Zenon
    <3> QED
      BY <3>3, <3>4, <3>5
  <2>4. Off(b, l0) = Off(bearing, l0) + s /\ l0 # b /\ Off(b, l0) <= 2 * Overwrap
    <3>1. Off(bearing, l0) + s < Spokes => Off(b, l0) = Off(bearing, l0) + s
      BY <2>1, Zenon DEF Moves
    <3>2. Off(b, l0) = 0 <=> l0 = b
      BY <2>1, Zenon DEF Moves
    <3>3. Off(b, l0) = Off(bearing, l0) + s /\ Off(b, l0) <= 2 * Overwrap /\ Off(b, l0) # 0
      BY <2>0, <2>2, <3>1, RadarSizes
    <3> QED
      BY <3>2, <3>3, Zenon
  <2>5. Off(b, g) # Off(b, l0) /\ Off(b, g) > Overwrap
    BY <2>1, <2>3, <2>4, RadarSizes DEF Moves
  <2> QED
    BY <2>3, <2>4, <2>5
<1>7. num1[g] = num[g] /\ num1[l0] = num[l0] /\ num1 \in [Bearings -> Nat]
  <2> HIDE DEF l0
  <2> QED
    BY <1>1, <1>2, <1>3, <1>6 DEF n
<1>8. ln1[g] = ln[g]
  <2>1. ~(Off(g, b) <= Overwrap \/ Off(b, g) <= Overwrap)
    <3>1. Moves(b, s, g)
      BY <1>3, <1>4, Zenon
    <3> QED
      BY <1>3, <1>6, <3>1, RadarSizes DEF Moves
  <2>2. g \notin Reach(b)
    BY <1>1, <1>3, <2>1, ReachIs, Zenon
  <2> HIDE DEF num1
  <2>3. spoke_count \in Nat
    BY <1>1 DEF n
  <2>4. \A c \in Bearings : c \notin Reach(b) => Spread(ln, num1, b, data)[c] = ln[c]
    <3>1. b \in Bearings /\ ln \in Image /\ num1 \in [Bearings -> Nat] /\ data \in [Pixels -> Nat]
      BY <1>1, <1>2, <1>7, Zenon
    <3> QED
      BY <2>3, <3>1, SpreadIs
  <2> QED
    BY <1>3, <2>2, <2>4, Zenon
<1>9. ASSUME NEW r \in Pixels PROVE Apart(num[l0], num[g]) \/ ln[g][r] < Vth
  <2>0. num[g] \in Nat /\ num[l0] \in Nat
    BY <1>1, <1>2, <1>3
  <2>1. CASE num[g] # 0
    <3>1. num[g] < n /\ Off(bearing, g) <= 2 * (n - 1 - num[g])
      BY <1>2, <1>3, <2>1 DEF NumbersAreOld, n
    <3>2. num[l0] < num[g] \/ num[l0] - num[g] > Overwrap
      <4> HIDE DEF l0
      <4>1. Spokes - (Overwrap + 1 + s) <= 2 * (n - 1 - num[g])
        BY <1>6, <3>1
      <4>2. n - Overwrap - num[g] > Overwrap
        BY <1>1, <2>0, <3>1, <4>1, RadarSizes
      <4> QED
        BY <1>5, <2>0, <2>1, <4>2, RadarSizes
    <3> QED
      BY <3>2 DEF Apart
  <2>2. CASE num[g] = 0 /\ num[l0] = n - Overwrap /\ n > 2 * Overwrap
    BY <1>1, <2>2, RadarSizes DEF Apart
  <2>3. CASE num[g] = 0 /\ ~(num[l0] = n - Overwrap /\ n > 2 * Overwrap)
    <3>1. Len(e) <= 2 * Overwrap
      BY <1>1, <1>2, <1>5, <2>3, RadarSizes
    <3>2. Off(g, bearing) > Overwrap /\ Off(g, bearing) <= Spokes + 1 - 2 * Len(e) - Overwrap
      BY <1>2, <1>6, <3>1, RadarSizes
    <3>3. ln[g][r] = 0
      BY <1>2, <1>3, <3>1, <3>2, Zenon DEF RestIsDark
    <3> QED
      BY <3>3, RadarSizes
  <2> QED
    BY <2>1, <2>2, <2>3
<1>10. GapIs(ln1, num1, b, l0, g)
  <2> HIDE DEF num1, ln1, l0
  <2> QED
    BY <1>3, <1>6, <1>7, <1>8, <1>9, Zenon DEF GapIs
<1> QED
  BY <1>10

\* The lines and numbers after a spoke.
LinesAre(ln, num, b, share) ==
  /\ lines' \in Image /\ number' \in [Bearings -> Nat]
  /\ \A c \in Bearings : number'[c] \in {0, IF c = b THEN spoke_count ELSE num[c]}
  /\ \A c \in Bearings, r \in Pixels : c \notin Reach(b) /\ lines'[c][r] # 0 => ln[c][r] # 0
  /\ Len(recent_spoke) = Overwrap =>
       /\ \A c \in Bearings : number'[c] = IF c = b THEN spoke_count ELSE num[c]
       /\ \A r, q \in Pixels : lines'[recent_spoke[1]][r] # 0 /\ lines'[recent_spoke[1]][q] # 0 => r = q
       /\ \A c \in Bearings, r \in Pixels :
            Off(b, c) < Off(b, recent_spoke[1]) \/ Off(c, b) <= Overwrap =>
              /\ lines'[c][r] <= ln[c][r] + share[r]
              /\ c \in Reach(b) /\ c # b /\ Apart(spoke_count, num[c]) => lines'[c][r] <= share[r]

LEMMA LinesStay ==
  ASSUME NEW ln, NEW num, NEW e, NEW fin, NEW b, NEW data, Step(ln, num, e, fin, b, data)
  PROVE  LinesAre(ln, num, b, Share(data))
<1> DEFINE num1 == [num EXCEPT ![b] = spoke_count]
           ln1 == Spread(ln, num1, b, data)
           share == Share(data)
           front == recent_spoke[1]
<1>1. /\ spoke_count \in Nat /\ b \in Bearings /\ (Len(recent_spoke) = Overwrap => front \in Bearings)
  BY RecentsShift, MovedIs
<1>2. /\ ln \in Image /\ num \in [Bearings -> Nat] /\ data \in [Pixels -> Nat] /\ share \in [Pixels -> Nat]
  <2>1. RadarOK(ln, num, e, fin) /\ data \in [Pixels -> Nat]
    BY DEF Step
  <2> QED
    BY <2>1, ShareIs DEF RadarOK, RadarTyped
<1>3. num1 \in [Bearings -> Nat] /\ \A c \in Bearings : num1[c] = IF c = b THEN spoke_count ELSE num[c]
  BY <1>1, <1>2
<1>4. Stepped(ln, num, e, fin, b, data)
  BY DEF Step
<1>5. /\ number' \in [Bearings -> Nat] /\ \A c \in Bearings : number'[c] \in {0, num1[c]}
      /\ Len(recent_spoke) = Overwrap => number' = num1
  <2> HIDE DEF num1
  <2> QED
    BY <1>3, <1>4 DEF Stepped, num1
<1>6. \E first : \E l0 \in (-1)..(Spokes - 1), nf \in Nat :
         /\ lines' = Suppressed(ln1, num1, l0, nf, first)
         /\ Len(recent_spoke) = Overwrap => l0 = front /\ nf = num1[front]
  <2>1. CASE Len(recent_spoke) = Overwrap
    <3>1. lines' = Suppressed(ln1, num1, front, num1[front], Return(ln1[front]))
      BY <1>4, <2>1 DEF Stepped
    <3>2. front \in (-1)..(Spokes - 1) /\ num1[front] \in Nat
      BY <1>1, <1>3, <2>1, RadarSizes
    <3> HIDE DEF front, num1, ln1
    <3> QED
      BY <3>1, <3>2, Zenon
  <2>2. CASE Len(recent_spoke) # Overwrap
    <3>1. \E nf \in Nat, first \in Nat : lines' = Suppressed(ln1, num1, -1, nf, first)
      BY <1>4, <2>2 DEF Stepped
    <3>2. -1 \in (-1)..(Spokes - 1)
      BY RadarSizes
    <3> HIDE DEF front, num1, ln1
    <3> QED
      BY <2>2, <3>1, <3>2, Zenon
  <2> QED
    BY <2>1, <2>2
<1> HIDE DEF num1, ln1, share, front
<1>7. /\ ln1 \in Image
      /\ \A c \in Bearings :
           /\ c \notin Reach(b) => ln1[c] = ln[c]
           /\ \A r \in Pixels :
                /\ ln1[c][r] <= ln[c][r] + share[r]
                /\ c \in Reach(b) /\ Apart(spoke_count, num1[c]) => ln1[c][r] = share[r]
  BY <1>1, <1>2, <1>3, SpreadIs DEF ln1, share
<1>7a. PICK first : \E l0 \in (-1)..(Spokes - 1), nf \in Nat :
         /\ lines' = Suppressed(ln1, num1, l0, nf, first)
         /\ Len(recent_spoke) = Overwrap => l0 = front /\ nf = num1[front]
  BY <1>6, Zenon
<1>8. PICK l0 \in (-1)..(Spokes - 1), nf \in Nat :
         /\ lines' = Suppressed(ln1, num1, l0, nf, first)
         /\ Len(recent_spoke) = Overwrap => l0 = front /\ nf = num1[front]
  BY <1>7a, Zenon
<1>9. /\ lines' \in Image
      /\ \A c \in Bearings, r \in Pixels :
           /\ c = l0 => lines'[c][r] = IF r = first THEN ln1[c][r] ELSE 0
           /\ \/ lines'[c][r] \in {ln1[c][r], 0}
              \/ /\ lines'[c][r] = 255 /\ ln1[c][r] >= Vth
                 /\ \A g \in Bearings : l0 \in Bearings /\ g # l0 /\ (Apart(nf, num1[g]) \/ ln1[g][r] < Vth)
                                        => (l0 - c) % Spokes < (l0 - g) % Spokes
  BY <1>3, <1>7, <1>8, SuppressedIs
<1>10. \A c \in Bearings, r \in Pixels : ln1[c][r] \in Nat /\ ln[c][r] \in Nat /\ share[r] \in Nat
  BY <1>2, <1>7 DEF Image
<1>11. ASSUME NEW c \in Bearings, NEW r \in Pixels, c \notin Reach(b), lines'[c][r] # 0 PROVE ln[c][r] # 0
  <2>1. ln1[c][r] # 0
    BY <1>9, <1>10, <1>11, RadarSizes
  <2> QED
    BY <1>7, <1>11, <2>1
<1>12. ASSUME Len(recent_spoke) = Overwrap, NEW c \in Bearings, NEW r \in Pixels,
              Off(b, c) < Off(b, front) \/ Off(c, b) <= Overwrap
       PROVE  lines'[c][r] <= ln1[c][r]
  <2>1. PICK g : GapIs(ln1, num1, b, front, g)
    BY <1>12, GapAhead DEF ln1, num1, front
  <2>2. l0 = front /\ nf = num1[front] /\ front \in Bearings
    BY <1>1, <1>8, <1>12
  <2>3. g \in Bearings /\ g # front /\ Off(g, b) = Overwrap + 1 /\ (Apart(nf, num1[g]) \/ ln1[g][r] < Vth)
    BY <2>1, <2>2, Zenon DEF GapIs
  <2>4. ~((front - c) % Spokes < (front - g) % Spokes)
    <3>1. (front - c) % Spokes = Off(front, c) /\ (front - g) % Spokes = Off(front, g)
      BY <2>2, <2>3, OffIs, Zenon
    <3>2. Off(b, front) <= 2 * Overwrap /\ Off(b, front) >= 1
      <4>1. PICK s \in {1, 2} : \A d \in Bearings : Moves(b, s, d)
        BY MovedIs, Zenon
      <4>2. Moves(b, s, front) /\ s \in {1, 2}
        BY <2>2, <4>1
      <4>3. Off(bearing, front) <= 2 * (Overwrap - 1) /\ Off(bearing, front) >= Overwrap - 1
        <5>1. RecentAre(num, e)
          BY DEF Step, RadarOK
        <5>2. 1 \in DOMAIN recent_spoke /\ Age(1) = Overwrap - 1
          BY <1>12, RecentsShift
        <5>3. Off(bearing, front) \in (Overwrap - 1)..(2 * (Overwrap - 1))
          BY <5>1, <5>2 DEF RecentAre, front
        <5> QED
          BY <5>3, RadarSizes
      <4>4. Off(bearing, front) \in Nat /\ (Off(bearing, front) + s < Spokes => Off(b, front) = Off(bearing, front) + s)
        BY <4>2 DEF Moves
      <4> QED
        BY <4>2, <4>3, <4>4, RadarSizes
    <3>3. ~(Off(front, c) < Off(front, g))
      <4> DEFINE F == front
      <4>1. F \in Bearings
        BY <2>2
      <4> HIDE DEF F
      <4>2. /\ Off(b, c) < Off(b, F) \/ Off(c, b) <= Overwrap
            /\ Off(b, F) <= 2 * Overwrap /\ Off(b, F) >= 1
        BY <1>12, <3>2 DEF F
      <4>3. ~(Off(F, c) < Off(F, g))
        BY <1>1, <2>3, <4>1, <4>2, RadarSizes DEF Off
      <4> QED
        BY <4>3 DEF F
    <3> QED
      BY <3>1, <3>3
  <2>5. lines'[c][r] \in {ln1[c][r], 0}
    BY <1>9, <2>2, <2>3, <2>4
  <2> QED
    BY <1>10, <2>5
<1>13. \A c \in Bearings, r \in Pixels :
         Len(recent_spoke) = Overwrap /\ (Off(b, c) < Off(b, front) \/ Off(c, b) <= Overwrap) =>
              /\ lines'[c][r] <= ln[c][r] + share[r]
              /\ c \in Reach(b) /\ c # b /\ Apart(spoke_count, num[c]) => lines'[c][r] <= share[r]
  <2> SUFFICES ASSUME NEW c \in Bearings, NEW r \in Pixels, Len(recent_spoke) = Overwrap,
                      Off(b, c) < Off(b, front) \/ Off(c, b) <= Overwrap
               PROVE  /\ lines'[c][r] <= ln[c][r] + share[r]
                      /\ c \in Reach(b) /\ c # b /\ Apart(spoke_count, num[c]) => lines'[c][r] <= share[r]
    OBVIOUS
  <2>1. lines'[c][r] <= ln1[c][r] /\ lines'[c][r] \in Nat
    BY <1>9, <1>12 DEF Image
  <2>2. ln1[c][r] <= ln[c][r] + share[r] /\ ln1[c][r] \in Nat /\ ln[c][r] \in Nat /\ share[r] \in Nat
    BY <1>7, <1>10
  <2>3. c # b => num1[c] = num[c]
    BY <1>3
  <2>4. c \in Reach(b) /\ c # b /\ Apart(spoke_count, num[c]) => ln1[c][r] = share[r]
    BY <1>7, <2>3
  <2> QED
    BY <2>1, <2>2, <2>4
<1>14. \A r, q \in Pixels :
         Len(recent_spoke) = Overwrap /\ lines'[front][r] # 0 /\ lines'[front][q] # 0 => r = q
  BY <1>1, <1>8, <1>9
<1>15. \A c \in Bearings : number'[c] \in {0, IF c = b THEN spoke_count ELSE num[c]}
  BY <1>3, <1>5
<1>16. Len(recent_spoke) = Overwrap => \A c \in Bearings : number'[c] = IF c = b THEN spoke_count ELSE num[c]
  BY <1>3, <1>5
<1>17. Len(recent_spoke) = Overwrap =>
       /\ \A c \in Bearings : number'[c] = IF c = b THEN spoke_count ELSE num[c]
       /\ \A r, q \in Pixels : lines'[front][r] # 0 /\ lines'[front][q] # 0 => r = q
       /\ \A c \in Bearings, r \in Pixels :
            Off(b, c) < Off(b, front) \/ Off(c, b) <= Overwrap =>
              /\ lines'[c][r] <= ln[c][r] + share[r]
              /\ c \in Reach(b) /\ c # b /\ Apart(spoke_count, num[c]) => lines'[c][r] <= share[r]
  BY <1>13, <1>14, <1>16, Zenon
<1>18. \A c \in Bearings, r \in Pixels : c \notin Reach(b) /\ lines'[c][r] # 0 => ln[c][r] # 0
  BY <1>11, Zenon
<1> QED
  BY <1>5, <1>9, <1>15, <1>17, <1>18 DEF LinesAre, share, front

\* The energy after a spoke.
EnergyIs(e, share) ==
  /\ share \in [Pixels -> Nat]
  /\ energy' \in Seq([Pixels -> Nat]) /\ Len(energy') <= 2 * Overwrap + 1 /\ SumsFall(energy')
  /\ Len(energy') = (IF Len(e) = 2 * Overwrap + 1 THEN Len(e) ELSE Len(e) + 1)
  /\ \A r \in Pixels :
       /\ LastShare(energy', r) = share[r]
       /\ LastShare(e, r) + share[r] <= LastOf(energy', 0, r)
       /\ \A k \in 0..(Overwrap - 2) : LastOf(e, k, r) + share[r] <= LastOf(energy', k + 1, r)

LEMMA EnergyStays ==
  ASSUME NEW ln, NEW num, NEW e, NEW fin, NEW b, NEW data, Step(ln, num, e, fin, b, data)
  PROVE  EnergyIs(e, Share(data)) /\ e \in Seq([Pixels -> Nat]) /\ Len(e) \in Nat
         /\ Len(e) <= 2 * Overwrap + 1 /\ Len(e) <= spoke_count
<1>1. e \in Seq([Pixels -> Nat]) /\ Len(e) <= 2 * Overwrap + 1 /\ Len(e) <= spoke_count
      /\ SumsFall(e) /\ data \in [Pixels -> Nat]
  BY DEF Step, RadarOK, RadarTyped
<1>2. Len(e) \in Nat
  BY <1>1, LenProperties
<1>3. energy' = IF Len(Poured(e, data)) > 2 * Overwrap + 1 THEN Tail(Poured(e, data)) ELSE Poured(e, data)
  BY DEF Step, Stepped
<1>4. Share(data) \in [Pixels -> Nat]
  BY <1>1, ShareIs
<1> QED
  BY <1>1, <1>2, <1>3, <1>4, PouredIs, Zenon DEF EnergyIs

LEMMA RecentsStay ==
  ASSUME NEW ln, NEW num, NEW e, NEW fin, NEW b, NEW data, Step(ln, num, e, fin, b, data)
  PROVE  RecentAre(number, energy)'
<1>0. /\ b \in Bearings /\ bearing' = b /\ spoke_count \in Nat /\ spoke_count' = spoke_count + 1
      /\ \A i \in DOMAIN recent_spoke :
           recent_spoke[i] \in Bearings /\ Age(i) \in 0..(Overwrap - 1) /\ Age(i) < spoke_count
      /\ Len(recent_spoke) = Overwrap <=> spoke_count >= Overwrap
      /\ \A i \in DOMAIN recent_spoke' :
           \/ recent_spoke'[i] = b /\ Age(i)' = 0
           \/ \E j \in DOMAIN recent_spoke : recent_spoke'[i] = recent_spoke[j] /\ Age(i)' = Age(j) + 1
  <2>1. b \in Bearings /\ bearing' = b /\ spoke_count \in Nat /\ spoke_count' = spoke_count + 1
    BY MovedIs, Zenon
  <2>2. /\ \A i \in DOMAIN recent_spoke :
             recent_spoke[i] \in Bearings /\ Age(i) \in 0..(Overwrap - 1) /\ Age(i) < spoke_count
        /\ Len(recent_spoke) = Overwrap <=> spoke_count >= Overwrap
    BY RecentsShift, Zenon
  <2>3. \A i \in DOMAIN recent_spoke' :
           \/ recent_spoke'[i] = b /\ Age(i)' = 0
           \/ \E j \in DOMAIN recent_spoke : recent_spoke'[i] = recent_spoke[j] /\ Age(i)' = Age(j) + 1
    BY RecentsShift, Zenon
  <2> QED
    BY <2>1, <2>2, <2>3
<1>1. PICK s \in {1, 2} : \A d \in Bearings : Moves(b, s, d)
  BY MovedIs, Zenon
<1>2. /\ number' \in [Bearings -> Nat]
      /\ \A c \in Bearings : number'[c] \in {0, IF c = b THEN spoke_count ELSE num[c]}
      /\ Len(recent_spoke) = Overwrap => \A c \in Bearings : number'[c] = IF c = b THEN spoke_count ELSE num[c]
  <2>1. LinesAre(ln, num, b, Share(data))
    BY LinesStay, Zenon
  <2> QED
    BY <2>1 DEF LinesAre
<1>3. Len(energy') \in Nat /\ Len(e) \in Nat /\ Len(energy') <= Len(e) + 1
  <2>1. Len(energy') = (IF Len(e) = 2 * Overwrap + 1 THEN Len(e) ELSE Len(e) + 1) /\ Len(e) \in Nat
    BY EnergyStays, Zenon DEF EnergyIs
  <2> QED
    BY <2>1
<1>4. RecentAre(num, e)
  BY DEF Step, RadarOK
\* A spoke of before.
<1>5. ASSUME NEW i \in DOMAIN recent_spoke', NEW j \in DOMAIN recent_spoke,
             recent_spoke'[i] = recent_spoke[j], Age(i)' = Age(j) + 1
      PROVE  /\ Off(b, recent_spoke[j]) \in Age(i)'..(2 * Age(i)')
             /\ Off(b, recent_spoke[j]) = Off(bearing, recent_spoke[j]) + s /\ Off(b, recent_spoke[j]) >= 1
             /\ number'[recent_spoke[j]] \in {0, spoke_count' - 1 - Age(i)'}
             /\ number'[recent_spoke[j]] = 0 => Len(energy') <= Age(i)' \/ spoke_count' - Age(i)' <= Overwrap
  <2> DEFINE c == recent_spoke[j]
             a == Age(j)
  <2>1. /\ Off(bearing, c) \in a..(2 * a) /\ num[c] \in {0, spoke_count - 1 - a}
        /\ num[c] = 0 => Len(e) <= a \/ spoke_count - a <= Overwrap
    BY <1>4, Zenon DEF RecentAre
  <2>2. c \in Bearings /\ a \in Nat /\ a <= Overwrap - 1 /\ a < spoke_count
    BY <1>0, RadarSizes
  <2>3. Moves(b, s, c) /\ s \in {1, 2}
    BY <1>1, <2>2
  <2> HIDE DEF c, a
  <2>4. Off(bearing, c) \in Nat /\ a <= Off(bearing, c) /\ Off(bearing, c) <= 2 * a /\ Off(bearing, c) + s < Spokes
    BY <2>1, <2>2, <2>3, RadarSizes
  <2>5. Off(b, c) = Off(bearing, c) + s /\ (Off(b, c) = 0 <=> c = b)
    BY <2>3, <2>4, Zenon DEF Moves
  <2>6. Off(b, c) \in (a + 1)..(2 * (a + 1)) /\ Off(b, c) >= 1 /\ c # b
    BY <2>2, <2>3, <2>4, <2>5
  <2>7. number'[c] \in {0, num[c]} /\ (Len(recent_spoke) = Overwrap => number'[c] = num[c])
    BY <1>2, <2>2, <2>6
  <2>8. number'[c] \in {0, spoke_count' - 1 - (a + 1)}
    <3>1. spoke_count' - 1 - (a + 1) = spoke_count - 1 - a
      BY <1>0, <2>2
    <3> QED
      BY <2>1, <2>7, <3>1
  <2>9. ASSUME number'[c] = 0 PROVE Len(energy') <= a + 1 \/ spoke_count' - (a + 1) <= Overwrap
    <3>1. CASE Len(recent_spoke) = Overwrap
      <4>1. Len(e) <= a \/ spoke_count - a <= Overwrap
        BY <2>1, <2>7, <2>9, <3>1
      <4> QED
        BY <1>0, <1>3, <2>2, <4>1, RadarSizes
    <3>2. CASE Len(recent_spoke) # Overwrap
      BY <1>0, <2>2, <3>2, RadarSizes
    <3> QED
      BY <3>1, <3>2
  <2> QED
    BY <1>5, <2>5, <2>6, <2>8, <2>9, Zenon DEF c, a
\* The new spoke.
<1>6. ASSUME NEW i \in DOMAIN recent_spoke', recent_spoke'[i] = b, Age(i)' = 0
      PROVE  /\ Off(b, b) = 0 /\ Off(b, b) \in Age(i)'..(2 * Age(i)')
             /\ number'[b] \in {0, spoke_count' - 1 - Age(i)'}
             /\ number'[b] = 0 => Len(energy') <= Age(i)' \/ spoke_count' - Age(i)' <= Overwrap
  <2>1. Off(b, b) = 0
    BY <1>0, OffIs, Zenon
  <2>2. number'[b] \in {0, spoke_count} /\ (Len(recent_spoke) = Overwrap => number'[b] = spoke_count)
    BY <1>0, <1>2
  <2>3. number'[b] = 0 => spoke_count' <= Overwrap
    BY <1>0, <2>2, RadarSizes
  <2> QED
    BY <1>0, <1>6, <2>1, <2>2, <2>3
<1>7. ASSUME NEW i \in DOMAIN recent_spoke', NEW k \in DOMAIN recent_spoke', Age(k)' < Age(i)'
      PROVE  Off(b, recent_spoke'[k]) < Off(b, recent_spoke'[i])
  <2>1. PICK j \in DOMAIN recent_spoke : recent_spoke'[i] = recent_spoke[j] /\ Age(i)' = Age(j) + 1
    <3>1. CASE recent_spoke'[i] = b /\ Age(i)' = 0
      <4>1. Age(k)' = 0 \/ \E j \in DOMAIN recent_spoke : Age(k)' = Age(j) + 1
        BY <1>0, Zenon
      <4>2. Age(k)' \in Nat
        BY <1>0, <4>1
      <4> QED
        BY <1>7, <3>1, <4>2
    <3> QED
      BY <1>0, <3>1, Zenon
  <2>2. Off(b, recent_spoke[j]) = Off(bearing, recent_spoke[j]) + s /\ Off(b, recent_spoke[j]) >= 1
    BY <1>5, <2>1
  <2>3. CASE recent_spoke'[k] = b /\ Age(k)' = 0
    <3>1. Off(b, b) = 0
      BY <1>0, OffIs, Zenon
    <3>2. Off(bearing, recent_spoke[j]) \in Nat /\ s \in {1, 2}
      <4>1. Moves(b, s, recent_spoke[j])
        BY <1>0, <1>1
      <4> QED
        BY <4>1, RadarSizes DEF Moves
    <3> QED
      BY <2>1, <2>2, <2>3, <3>1, <3>2
  <2>4. ASSUME NEW h \in DOMAIN recent_spoke, recent_spoke'[k] = recent_spoke[h], Age(k)' = Age(h) + 1
        PROVE  Off(b, recent_spoke'[k]) < Off(b, recent_spoke'[i])
    <3>1. Off(b, recent_spoke[h]) = Off(bearing, recent_spoke[h]) + s
      BY <1>5, <2>4
    <3>2. Age(h) < Age(j)
      BY <1>0, <1>7, <2>1, <2>4
    <3>3. Off(bearing, recent_spoke[h]) < Off(bearing, recent_spoke[j])
      BY <1>4, <3>2 DEF RecentAre
    <3>4. Off(bearing, recent_spoke[j]) \in Nat /\ Off(bearing, recent_spoke[h]) \in Nat /\ s \in {1, 2}
      <4>1. Moves(b, s, recent_spoke[j]) /\ Moves(b, s, recent_spoke[h])
        BY <1>0, <1>1
      <4> QED
        BY <1>1, <4>1, RadarSizes DEF Moves
    <3> QED
      BY <2>1, <2>2, <2>4, <3>1, <3>3, <3>4
  <2> QED
    BY <1>0, <2>3, <2>4, Zenon
<1>8. ASSUME NEW i \in DOMAIN recent_spoke'
      PROVE  /\ Off(bearing', recent_spoke'[i]) \in Age(i)'..(2 * Age(i)')
             /\ number'[recent_spoke'[i]] \in {0, spoke_count' - 1 - Age(i)'}
             /\ number'[recent_spoke'[i]] = 0 => Len(energy') <= Age(i)' \/ spoke_count' - Age(i)' <= Overwrap
  BY <1>0, <1>5, <1>6, Zenon
<1> QED
  BY <1>0, <1>7, <1>8, Zenon DEF RecentAre


LEMMA NumbersStay ==
  ASSUME NEW ln, NEW num, NEW e, NEW fin, NEW b, NEW data, Step(ln, num, e, fin, b, data)
  PROVE  NumbersAreOld(number)'
<1>0. b \in Bearings /\ bearing' = b /\ spoke_count \in Nat /\ spoke_count' = spoke_count + 1
  BY MovedIs, Zenon
<1>1. PICK s \in {1, 2} : \A d \in Bearings : Moves(b, s, d)
  BY MovedIs, Zenon
<1>2. \A c \in Bearings : number'[c] \in {0, IF c = b THEN spoke_count ELSE num[c]}
  <2>1. LinesAre(ln, num, b, Share(data))
    BY LinesStay, Zenon
  <2> QED
    BY <2>1 DEF LinesAre
<1>3. NumbersAreOld(num) /\ num \in [Bearings -> Nat]
  BY DEF Step, RadarOK, RadarTyped
<1>4. ASSUME NEW c \in Bearings, number'[c] # 0
      PROVE  number'[c] < spoke_count' /\ Off(bearing', c) <= 2 * (spoke_count' - 1 - number'[c])
  <2>1. CASE c = b
    <3>1. Off(b, b) = 0 /\ number'[c] = spoke_count
      BY <1>0, <1>2, <1>4, <2>1, OffIs
    <3> QED
      BY <1>0, <2>1, <3>1
  <2>2. CASE c # b
    <3>1. number'[c] = num[c] /\ num[c] \in Nat /\ num[c] < spoke_count /\ Off(bearing, c) <= 2 * (spoke_count - 1 - num[c])
      BY <1>2, <1>3, <1>4, <2>2 DEF NumbersAreOld
    <3>2. Off(b, c) <= Off(bearing, c) + s /\ Off(bearing, c) \in Nat /\ Off(b, c) \in Nat /\ s \in {1, 2}
      <4>1. Moves(b, s, c)
        BY <1>1
      <4> QED
        BY <4>1, RadarSizes DEF Moves
    <3> QED
      BY <1>0, <3>1, <3>2
  <2> QED
    BY <2>1, <2>2
<1> QED
  BY <1>4 DEF NumbersAreOld

LEMMA RecentHoldStays ==
  ASSUME NEW ln, NEW num, NEW e, NEW fin, NEW b, NEW data, Step(ln, num, e, fin, b, data)
  PROVE  RecentHold(lines, energy)'
<1> DEFINE share == Share(data)
<1>0. b \in Bearings /\ bearing' = b /\ spoke_count \in Nat /\ spoke_count' = spoke_count + 1
  BY MovedIs, Zenon
<1>1. PICK s \in {1, 2} : \A d \in Bearings : Moves(b, s, d)
  BY MovedIs, Zenon
<1>2. /\ RecentAre(num, e) /\ RecentHold(ln, e) /\ AheadHold(ln, e) /\ ln \in Image
  BY DEF Step, RadarOK, RadarTyped
<1>3. /\ share \in [Pixels -> Nat]
      /\ \A r \in Pixels :
           /\ LastShare(e, r) + share[r] <= LastOf(energy', 0, r)
           /\ \A k \in 0..(Overwrap - 2) : LastOf(e, k, r) + share[r] <= LastOf(energy', k + 1, r)
      /\ energy' \in Seq([Pixels -> Nat]) /\ e \in Seq([Pixels -> Nat])
  BY EnergyStays, Zenon DEF EnergyIs
<1>4. \A x \in Seq([Pixels -> Nat]), k \in Nat, r \in Pixels : LastOf(x, k, r) \in Nat /\ LastShare(x, r) \in Nat
  <2> SUFFICES ASSUME NEW x \in Seq([Pixels -> Nat]), NEW k \in Nat, NEW r \in Pixels
               PROVE  LastOf(x, k, r) \in Nat /\ LastShare(x, r) \in Nat
    OBVIOUS
  <2>1. Len(x) \in Nat /\ \A i \in 1..Len(x) : x[i][r] \in Nat
    OBVIOUS
  <2> QED
    BY <2>1 DEF LastOf, LastAt, LastShare, ShareAt
<1>5. Len(recent_spoke) = Overwrap =>
       \A c \in Bearings, r \in Pixels :
            Off(b, c) < Off(b, recent_spoke[1]) => lines'[c][r] <= ln[c][r] + share[r]
  BY LinesStay, Zenon DEF LinesAre
<1>6. lines' \in Image
  BY LinesStay, Zenon DEF LinesAre
<1> HIDE DEF share
<1> SUFFICES ASSUME NEW i \in DOMAIN recent_spoke', spoke_count' - 1 - Age(i)' >= Overwrap + 2, NEW r \in Pixels
             PROVE  lines'[recent_spoke'[i]][r] <= LastOf(energy', Age(i)', r)
  BY DEF RecentHold
<1>7. /\ \A j \in DOMAIN recent_spoke :
           recent_spoke[j] \in Bearings /\ Age(j) \in 0..(Overwrap - 1) /\ Age(j) < spoke_count
      /\ Len(recent_spoke) = Overwrap <=> spoke_count >= Overwrap
      /\ Len(recent_spoke) = Overwrap => 1 \in DOMAIN recent_spoke /\ Age(1) = Overwrap - 1
  BY RecentsShift, Zenon
<1>8. \/ recent_spoke'[i] = b /\ Age(i)' = 0
      \/ \E j \in DOMAIN recent_spoke :
           /\ recent_spoke'[i] = recent_spoke[j] /\ Age(i)' = Age(j) + 1
           /\ Len(recent_spoke) = Overwrap => Age(j) <= Overwrap - 2
  BY RecentsShift, Zenon
<1>9. Len(recent_spoke) = Overwrap /\ spoke_count >= Overwrap + 2
  <2>1. Age(i)' \in Nat
    BY <1>7, <1>8
  <2> QED
    BY <1>0, <1>7, <2>1, RadarSizes
<1>10. /\ 1 \in DOMAIN recent_spoke /\ recent_spoke[1] \in Bearings
       /\ Off(bearing, recent_spoke[1]) \in Nat /\ Off(bearing, recent_spoke[1]) >= Overwrap - 1
       /\ Off(b, recent_spoke[1]) = Off(bearing, recent_spoke[1]) + s
  <2> DEFINE x == recent_spoke[1]
  <2>1. 1 \in DOMAIN recent_spoke /\ x \in Bearings /\ Off(bearing, x) \in (Overwrap - 1)..(2 * (Overwrap - 1))
    <3>1. 1 \in DOMAIN recent_spoke /\ Age(1) = Overwrap - 1 /\ x \in Bearings
      BY <1>7, <1>9
    <3>2. Off(bearing, x) \in Age(1)..(2 * Age(1))
      BY <1>2, <3>1, Zenon DEF RecentAre
    <3> QED
      BY <3>1, <3>2
  <2>2. Off(bearing, x) + s < Spokes => Off(b, x) = Off(bearing, x) + s
    BY <1>1, <2>1, Zenon DEF Moves
  <2> HIDE DEF x
  <2>3. Off(bearing, x) \in Nat /\ Off(bearing, x) >= Overwrap - 1 /\ Off(bearing, x) + s < Spokes
    BY <1>1, <2>1, RadarSizes
  <2> QED
    BY <2>1, <2>2, <2>3 DEF x
\* The new spoke: its line was ahead of the last.
<1>11. CASE recent_spoke'[i] = b /\ Age(i)' = 0
  <2>1. Off(b, b) = 0 /\ Off(b, b) < Off(b, recent_spoke[1])
    <3>1. Off(b, b) = 0
      BY <1>0, OffIs, Zenon
    <3>2. s \in {1, 2}
      BY <1>1
    <3> QED
      BY <1>10, <3>1, <3>2, RadarSizes
  <2>2. lines'[b][r] <= ln[b][r] + share[r]
    BY <1>0, <1>5, <1>9, <2>1
  <2>3. Off(b, bearing) \in 1..Overwrap
    <3>1. Moves(b, s, b)
      BY <1>0, <1>1
    <3>2. s \in {1, 2} /\ (Off(b, b) + s < Spokes => Off(b, bearing) = Off(b, b) + s)
      BY <3>1, Zenon DEF Moves
    <3> QED
      BY <2>1, <3>2, RadarSizes
  <2>4. ln[b][r] <= LastShare(e, r)
    BY <1>0, <1>2, <1>9, <2>3 DEF AheadHold
  <2>5. ln[b][r] \in Nat /\ LastShare(e, r) \in Nat /\ share[r] \in Nat /\ LastOf(energy', 0, r) \in Nat /\ lines'[b][r] \in Nat
    BY <1>0, <1>2, <1>3, <1>4, <1>6 DEF Image
  <2>6. LastShare(e, r) + share[r] <= LastOf(energy', 0, r)
    BY <1>3
  <2>7. lines'[b][r] <= LastOf(energy', 0, r)
    BY <2>2, <2>4, <2>5, <2>6
  <2> QED
    BY <1>11, <2>7, Zenon
<1>12. ASSUME NEW j \in DOMAIN recent_spoke,
              recent_spoke'[i] = recent_spoke[j], Age(i)' = Age(j) + 1, Age(j) <= Overwrap - 2
       PROVE  lines'[recent_spoke'[i]][r] <= LastOf(energy', Age(i)', r)
  <2> DEFINE c == recent_spoke[j]
             a == Age(j)
  <2>1. c \in Bearings /\ a \in 0..(Overwrap - 2) /\ a < Age(1)
    BY <1>7, <1>9, <1>12, RadarSizes
  <2>2. Off(bearing, c) < Off(bearing, recent_spoke[1])
    BY <1>2, <1>10, <2>1 DEF RecentAre
  <2>3. Moves(b, s, c)
    BY <1>1, <2>1
  <2>4. spoke_count - 1 - a >= Overwrap + 2
    BY <1>0, <1>12, <2>1
  <2>5. ln[c][r] <= LastOf(e, a, r)
    BY <1>2, <2>4 DEF RecentHold
  <2> HIDE DEF c, a
  <2>6. Off(b, c) < Off(b, recent_spoke[1])
    <3>1. Off(b, c) <= Off(bearing, c) + s /\ Off(b, c) \in Nat /\ Off(bearing, c) \in Nat /\ s \in {1, 2}
      BY <2>3, RadarSizes DEF Moves
    <3> QED
      BY <1>10, <2>2, <3>1
  <2>7. lines'[c][r] <= ln[c][r] + share[r]
    BY <1>5, <1>9, <2>1, <2>6
  <2>8. LastOf(e, a, r) + share[r] <= LastOf(energy', a + 1, r)
    BY <1>3, <2>1, Zenon
  <2>9. /\ ln[c][r] \in Nat /\ LastOf(e, a, r) \in Nat /\ share[r] \in Nat /\ LastOf(energy', a + 1, r) \in Nat
        /\ lines'[c][r] \in Nat
    <3>1. a \in Nat /\ a + 1 \in Nat
      BY <2>1
    <3> QED
      BY <1>2, <1>3, <1>4, <1>6, <2>1, <3>1 DEF Image
  <2>10. lines'[c][r] <= LastOf(energy', a + 1, r)
    BY <2>5, <2>7, <2>8, <2>9
  <2> QED
    BY <1>12, <2>10, Zenon DEF c, a
<1> QED
  BY <1>8, <1>9, <1>11, <1>12, Zenon


\* The lines ahead are begun anew: they are of an earlier turn.
LEMMA AheadStays ==
  ASSUME NEW ln, NEW num, NEW e, NEW fin, NEW b, NEW data, Step(ln, num, e, fin, b, data)
  PROVE  AheadHold(lines, energy)'
<1> DEFINE share == Share(data)
<1>0. b \in Bearings /\ bearing' = b /\ spoke_count \in Nat /\ spoke_count' = spoke_count + 1 /\ bearing \in Bearings
  BY MovedIs, Zenon
<1>1. PICK s \in {1, 2} : \A d \in Bearings : Moves(b, s, d)
  BY MovedIs, Zenon
<1>2. NumbersAreOld(num) /\ num \in [Bearings -> Nat]
  BY DEF Step, RadarOK, RadarTyped
<1>3. \A r \in Pixels : LastShare(energy', r) = share[r]
  BY EnergyStays, Zenon DEF EnergyIs
<1>4. LinesAre(ln, num, b, share)
  BY LinesStay, Zenon
<1> HIDE DEF share
<1>5. Len(recent_spoke) = Overwrap =>
         \A c \in Bearings, r \in Pixels :
            Off(c, b) <= Overwrap /\ c \in Reach(b) /\ c # b /\ Apart(spoke_count, num[c]) => lines'[c][r] <= share[r]
  BY <1>4 DEF LinesAre
<1>6. spoke_count' >= Overwrap + 2 => Len(recent_spoke) = Overwrap /\ spoke_count > Overwrap
  <2>1. Len(recent_spoke) = Overwrap <=> spoke_count >= Overwrap
    BY RecentsShift, Zenon
  <2> QED
    BY <1>0, <2>1, RadarSizes
<1>7. ASSUME spoke_count' >= Overwrap + 2, NEW c \in Bearings, Off(c, b) \in 1..Overwrap, NEW r \in Pixels
      PROVE  lines'[c][r] <= share[r]
  <2>0. spoke_count > Overwrap /\ Off(c, b) <= Overwrap /\ Off(c, b) >= 1 /\ Off(c, b) \in Nat
    BY <1>6, <1>7, RadarSizes
  <2>1. c \in Reach(b)
    BY <1>0, <1>7, ReachIs
  <2>2. Moves(b, s, c)
    BY <1>1
  <2>3. c # b
    BY <2>0, <2>2 DEF Moves
  <2>4. Off(bearing, c) = Spokes - (Off(c, b) + s) /\ s \in {1, 2}
    <3>1. s \in {1, 2} /\ (Off(c, b) + s < Spokes => Off(c, bearing) = Off(c, b) + s)
          /\ (Off(c, bearing) # 0 => Off(bearing, c) = Spokes - Off(c, bearing))
      BY <2>2 DEF Moves
    <3>2. Off(c, b) + s < Spokes /\ Off(c, b) + s # 0
      BY <2>0, <3>1, RadarSizes
    <3> QED
      BY <3>1, <3>2, Zenon
  <2>5. Apart(spoke_count, num[c])
    <3>1. num[c] \in Nat
      BY <1>2
    <3>2. CASE num[c] = 0
      BY <1>0, <2>0, <3>2, RadarSizes DEF Apart
    <3>3. CASE num[c] # 0
      <4>1. num[c] < spoke_count /\ Off(bearing, c) <= 2 * (spoke_count - 1 - num[c])
        BY <1>2, <3>3 DEF NumbersAreOld
      <4>2. Spokes - (Off(c, b) + s) <= 2 * (spoke_count - 1 - num[c]) /\ s \in {1, 2}
        BY <2>4, <4>1, Zenon
      <4>3. spoke_count - num[c] > Overwrap
        <5>1. ASSUME NEW m \in Nat, NEW x \in Nat, x <= Overwrap, NEW y \in {1, 2},
                     Spokes - (x + y) <= 2 * (spoke_count - 1 - m)
              PROVE  spoke_count - m > Overwrap
          BY <1>0, <5>1, RadarSizes
        <5> QED
          BY <2>0, <3>1, <4>2, <5>1, Zenon
      <4> QED
        BY <4>3 DEF Apart
    <3> QED
      BY <3>2, <3>3
  <2> QED
    BY <1>5, <1>6, <1>7, <2>0, <2>1, <2>3, <2>5
<1> QED
  BY <1>0, <1>3, <1>7, Zenon DEF AheadHold

LEMMA RestStays ==
  ASSUME NEW ln, NEW num, NEW e, NEW fin, NEW b, NEW data, Step(ln, num, e, fin, b, data)
  PROVE  RestIsDark(lines, energy)'
<1>0. b \in Bearings /\ bearing' = b /\ spoke_count \in Nat /\ spoke_count' = spoke_count + 1
  BY MovedIs, Zenon
<1>1. PICK s \in {1, 2} : \A d \in Bearings : Moves(b, s, d)
  BY MovedIs, Zenon
<1>2. RestIsDark(ln, e)
  BY DEF Step, RadarOK
<1>3. /\ Len(energy') = (IF Len(e) = 2 * Overwrap + 1 THEN Len(e) ELSE Len(e) + 1)
      /\ Len(e) \in Nat /\ Len(e) <= 2 * Overwrap + 1 /\ Len(e) <= spoke_count
  BY EnergyStays, Zenon DEF EnergyIs
<1>4. \A c \in Bearings, r \in Pixels : c \notin Reach(b) /\ lines'[c][r] # 0 => ln[c][r] # 0
  <2>1. LinesAre(ln, num, b, Share(data))
    BY LinesStay, Zenon
  <2> QED
    BY <2>1 DEF LinesAre
<1>5. ASSUME Len(energy') <= 2 * Overwrap \/ spoke_count' <= 2 * Overwrap + 1, NEW c \in Bearings,
             Off(c, b) > Overwrap, Off(c, b) <= Spokes + 1 - 2 * Len(energy') - Overwrap, NEW r \in Pixels
      PROVE  lines'[c][r] = 0
  <2>1. Len(energy') = Len(e) + 1 /\ Len(e) <= 2 * Overwrap
    BY <1>0, <1>3, <1>5, RadarSizes
  <2>2. Moves(b, s, c)
    BY <1>1
  <2>3. Off(c, b) \in Nat /\ Off(b, c) \in Nat /\ s \in {1, 2} /\ (Off(b, c) = 0 <=> Off(c, b) = 0)
        /\ (Off(b, c) # 0 => Off(c, b) = Spokes - Off(b, c))
        /\ (Off(c, b) + s < Spokes => Off(c, bearing) = Off(c, b) + s)
    BY <2>2, RadarSizes DEF Moves
  <2>4. Off(c, b) + 2 * (Len(e) + 1) + Overwrap <= Spokes + 1
    <3>1. Off(c, b) <= Spokes + 1 - 2 * (Len(e) + 1) - Overwrap
      BY <1>5, <2>1, Zenon
    <3>2. Off(c, b) \in Nat /\ Len(e) \in Nat
      BY <1>3, <2>3
    <3> QED
      BY <3>1, <3>2, RadarSizes
  <2>5. Off(b, c) > Overwrap /\ ~(Off(c, b) <= Overwrap)
    <3>1. Off(c, b) \in Nat /\ Len(e) \in Nat /\ Off(c, b) > Overwrap
      BY <1>3, <1>5, <2>3
    <3>2. Off(c, b) # 0 /\ ~(Off(c, b) <= Overwrap)
      BY <3>1, RadarSizes
    <3>3. Spokes - Off(b, c) = Off(c, b) /\ Off(b, c) \in Nat
      BY <2>3, <3>2, Zenon
    <3>4. Off(b, c) > Overwrap
      BY <2>4, <3>1, <3>3, RadarSizes
    <3> QED
      BY <3>2, <3>4
  <2>6. c \notin Reach(b)
    <3>1. ~(Off(b, c) <= Overwrap)
      <4>1. Off(b, c) \in Nat
        BY <2>3, Zenon
      <4> QED
        BY <2>5, <4>1, RadarSizes
    <3> QED
      BY <1>0, <2>5, <3>1, ReachIs, Zenon
  <2>7. Off(c, bearing) = Off(c, b) + s
    <3>1. Off(c, b) \in Nat /\ Len(e) \in Nat /\ s \in {1, 2}
      BY <1>3, <2>3
    <3>2. Off(c, b) + s < Spokes
      BY <2>4, <3>1, RadarSizes
    <3> QED
      BY <2>3, <3>2, Zenon
  <2>8. Off(c, bearing) > Overwrap /\ Off(c, bearing) <= Spokes + 1 - 2 * Len(e) - Overwrap
    <3>1. Off(c, b) \in Nat /\ Len(e) \in Nat /\ s \in {1, 2} /\ Off(c, b) > Overwrap
      BY <1>3, <1>5, <2>3
    <3>2. Off(c, b) + s > Overwrap
      BY <3>1, RadarSizes
    <3>3. Off(c, b) + s <= Spokes + 1 - 2 * Len(e) - Overwrap
      BY <2>4, <3>1, RadarSizes
    <3> QED
      BY <2>7, <3>2, <3>3
  <2>9. ln[c][r] = 0
    BY <1>2, <2>1, <2>8, Zenon DEF RestIsDark
  <2> QED
    BY <1>4, <2>6, <2>9
<1> QED
  BY <1>0, <1>5, Zenon DEF RestIsDark

LEMMA RadarStays ==
  ASSUME NEW ln, NEW num, NEW e, NEW fin, NEW b, NEW data, Step(ln, num, e, fin, b, data)
  PROVE  RadarInv'
<1>0. b \in Bearings /\ spoke_count \in Nat /\ spoke_count' = spoke_count + 1
  BY MovedIs, Zenon
<1>1. /\ lines' \in Image /\ number' \in [Bearings -> Nat]
      /\ \A c \in Bearings, r \in Pixels : c \notin Reach(b) /\ lines'[c][r] # 0 => ln[c][r] # 0
      /\ Len(recent_spoke) = Overwrap =>
           \A r, q \in Pixels : lines'[recent_spoke[1]][r] # 0 /\ lines'[recent_spoke[1]][q] # 0 => r = q
  <2>1. LinesAre(ln, num, b, Share(data))
    BY LinesStay, Zenon
  <2> QED
    BY <2>1 DEF LinesAre
<1>2. /\ energy' \in Seq([Pixels -> Nat]) /\ Len(energy') <= 2 * Overwrap + 1 /\ SumsFall(energy')
      /\ Len(energy') <= spoke_count' /\ Len(energy') > 0
  <2>1. /\ energy' \in Seq([Pixels -> Nat]) /\ Len(energy') <= 2 * Overwrap + 1 /\ SumsFall(energy')
        /\ Len(energy') = (IF Len(e) = 2 * Overwrap + 1 THEN Len(e) ELSE Len(e) + 1) /\ Len(e) \in Nat
        /\ Len(e) <= spoke_count
    BY EnergyStays, Zenon DEF EnergyIs
  <2> QED
    BY <1>0, <2>1, RadarSizes
<1>3. /\ fin \subseteq Bearings /\ FinishedAre(ln, fin)
      /\ \/ /\ Len(recent_spoke) = Overwrap /\ finished' = (fin \ Reach(b)) \union {recent_spoke[1]}
         \/ /\ Len(recent_spoke) # Overwrap /\ finished' = fin \ Reach(b)
  <2>1. RadarOK(ln, num, e, fin) /\ Stepped(ln, num, e, fin, b, data)
    BY DEF Step
  <2> QED
    BY <2>1 DEF RadarOK, RadarTyped, Stepped
<1>4. RadarTypeOK' /\ (Len(recent_spoke) = Overwrap => recent_spoke[1] \in Bearings)
      /\ (Len(recent_spoke) = Overwrap <=> spoke_count >= Overwrap)
  <2>1. RadarTypeOK' /\ (Len(recent_spoke) = Overwrap <=> spoke_count >= Overwrap)
    BY RecentsShift, Zenon
  <2>2. Len(recent_spoke) = Overwrap => recent_spoke[1] \in Bearings
    BY RecentsShift, Zenon
  <2> QED
    BY <2>1, <2>2
<1>5. RadarTyped(lines, number, energy, finished)'
  <2>1. finished' \subseteq Bearings
    BY <1>3, <1>4
  <2> QED
    BY <1>1, <1>2, <2>1 DEF RadarTyped
<1>6. FinishedAre(lines, finished)'
  <2>1. ASSUME Len(recent_spoke') < Overwrap PROVE finished' = {}
    <3>1. Len(recent_spoke') = IF spoke_count' < Overwrap THEN spoke_count' ELSE Overwrap
      BY <1>4 DEF RadarTypeOK
    <3>2. spoke_count < Overwrap
      BY <1>0, <2>1, <3>1, RadarSizes
    <3>3. Len(recent_spoke) = spoke_count
      BY <3>2 DEF Step, RadarTypeOK
    <3>4. Len(recent_spoke) < Overwrap /\ Len(recent_spoke) # Overwrap
      BY <1>0, <3>2, <3>3, RadarSizes
    <3>5. fin = {}
      BY <1>3, <3>4 DEF FinishedAre
    <3> QED
      BY <1>3, <3>4, <3>5
  <2>2. ASSUME NEW c \in finished', NEW r \in Pixels, NEW q \in Pixels, lines'[c][r] # 0, lines'[c][q] # 0
        PROVE  r = q
    <3>1. CASE c \in fin \ Reach(b)
      <4>1. c \in Bearings /\ c \notin Reach(b)
        BY <1>3, <3>1
      <4>2. ln[c][r] # 0 /\ ln[c][q] # 0
        BY <1>1, <2>2, <4>1
      <4> QED
        BY <1>3, <3>1, <4>2 DEF FinishedAre
    <3>2. CASE c \notin fin \ Reach(b)
      BY <1>1, <1>3, <2>2, <3>2
    <3> QED
      BY <3>1, <3>2
  <2> QED
    BY <2>1, <2>2 DEF FinishedAre
<1>7. /\ RecentAre(number, energy)' /\ NumbersAreOld(number)' /\ RecentHold(lines, energy)'
      /\ AheadHold(lines, energy)' /\ RestIsDark(lines, energy)'
  BY RecentsStay, NumbersStay, RecentHoldStays, AheadStays, RestStays, Zenon
<1> QED
  BY <1>2, <1>4, <1>5, <1>6, <1>7 DEF RadarInv, RadarOK, SumsFall


\* A line cleared as the side of a blob lies next to one that is lit.
LEMMA OffTurned ==
  ASSUME NEW p \in Bearings, NEW c \in Bearings, NEW k \in (-Overwrap)..Overwrap,
         Off(p, c) + k >= 1, Off(p, c) + k < Spokes
  PROVE  /\ (c - k) % Spokes \in Bearings /\ (p - ((c - k) % Spokes)) % Spokes = Off(p, c) + k
         /\ (c - k) % Spokes # p
<1>1. -k \in Int /\ -Spokes <= -k /\ -k <= Spokes /\ c - k = c + (-k)
  BY RadarSizes
<1>2. (c - k) % Spokes = Turned(c, -k) /\ Turned(c, -k) \in Bearings
  BY <1>1, TurnedIs, Zenon
<1>3. Off(p, Turned(c, -k)) = Off(p, c) + k
  BY RadarSizes DEF Off, Turned
<1>4. (p - Turned(c, -k)) % Spokes = Off(p, Turned(c, -k)) /\ (Off(p, Turned(c, -k)) = 0 <=> p = Turned(c, -k))
  BY <1>2, OffIs, Zenon
<1>5. Off(p, Turned(c, -k)) # 0
  BY <1>3
<1> QED
  BY <1>2, <1>3, <1>4, <1>5

LEMMA SideIsLit ==
  ASSUME NEW l \in 0..Spokes, NEW d \in 1..l, d < Spokes, ~Lit(l, d)
  PROVE  \E x \in 1..l : Lit(l, x) /\ x < Spokes /\ x # d /\ x - d \in (-Overwrap)..Overwrap
<1> DEFINE h == l \div 2
           zero == Min({h, Overwrap})
<1>1. h \in Nat /\ 2 * h <= l /\ l <= 2 * h + 1
  BY RadarSizes
<1>2. zero \in {h, Overwrap} /\ zero <= h /\ zero <= Overwrap
  <2> HIDE DEF h
  <2>1. {h, Overwrap} \subseteq Nat /\ {h, Overwrap} # {}
    BY <1>1, RadarSizes
  <2> QED
    BY <2>1, LeastIs
<1> HIDE DEF h, zero
<1>3. zero \in Nat /\ 2 * zero <= l
  BY <1>1, <1>2, RadarSizes
<1>4. \A x \in 1..l : Lit(l, x) <=> x >= 1 + zero /\ (x < l - zero + 1 \/ l = 2 * zero)
  BY DEF Lit, zero, h
<1>5. CASE d <= zero
  <2>1. zero + 1 \in 1..l /\ zero + 1 < Spokes /\ zero + 1 # d /\ (zero + 1) - d \in (-Overwrap)..Overwrap
    BY <1>2, <1>3, <1>5, RadarSizes
  <2>2. zero + 1 < l - zero + 1 \/ l = 2 * zero
    BY <1>3
  <2>3. Lit(l, zero + 1)
    BY <1>3, <1>4, <2>1, <2>2
  <2> QED
    BY <2>1, <2>3
<1>6. CASE d > zero
  <2>1. d >= l - zero + 1 /\ l # 2 * zero
    BY <1>3, <1>4, <1>6
  <2>2. l - zero \in 1..l /\ l - zero < Spokes /\ l - zero # d /\ (l - zero) - d \in (-Overwrap)..Overwrap
    BY <1>2, <1>3, <2>1, RadarSizes
  <2>3. l - zero >= 1 + zero /\ l - zero < l - zero + 1
    BY <1>3, <2>1
  <2>4. Lit(l, l - zero)
    BY <1>4, <2>2, <2>3
  <2> QED
    BY <2>2, <2>4
<1> QED
  BY <1>3, <1>5, <1>6

LEMMA EchoStays ==
  ASSUME NEW num, NEW e, NEW b, NEW data, Step(lines, num, e, finished, b, data),
         NEW c \in finished \ Reach(b), NEW r \in Pixels, lines[c][r] >= Vth, lines'[c][r] = 0
  PROVE  \E d \in 1..Overwrap : lines'[(c - d) % Spokes][r] = 255 \/ lines'[(c + d) % Spokes][r] = 255
<1> DEFINE num1 == [num EXCEPT ![b] = spoke_count]
           ln1 == Spread(lines, num1, b, data)
           front == recent_spoke[1]
           first == Return(ln1[front])
           l == BlobWidth(ln1, num1, front, num1[front], r)
           d == (front - c) % Spokes
<1>1. /\ spoke_count \in Nat /\ b \in Bearings /\ (Len(recent_spoke) = Overwrap => front \in Bearings)
  BY RecentsShift, MovedIs
<1>2. /\ lines \in Image /\ num \in [Bearings -> Nat] /\ data \in [Pixels -> Nat] /\ finished \subseteq Bearings
      /\ FinishedAre(lines, finished)
  BY DEF Step, RadarOK, RadarTyped
<1>3. Len(recent_spoke) = Overwrap /\ front \in Bearings /\ c \in Bearings
  <2>1. ~(Len(recent_spoke) < Overwrap)
    BY <1>2 DEF FinishedAre
  <2>2. Len(recent_spoke) = IF spoke_count < Overwrap THEN spoke_count ELSE Overwrap
    BY DEF Step, RadarTypeOK
  <2> QED
    BY <1>1, <1>2, <2>1, <2>2, RadarSizes
<1>4. num1 \in [Bearings -> Nat]
  BY <1>1, <1>2
<1>5. lines' = Suppressed(ln1, num1, front, num1[front], first)
  BY <1>3 DEF Step, Stepped
<1> HIDE DEF num1, ln1, first, front
<1>6. ln1 \in Image /\ ln1[c] = lines[c]
  BY <1>1, <1>2, <1>3, <1>4, SpreadIs DEF ln1
<1>7. l \in 0..Spokes /\ d \in 0..(Spokes - 1) /\ (d = 0 <=> c = front)
  <2>1. front \in (-1)..(Spokes - 1) /\ num1[front] \in Nat
    BY <1>3, <1>4, RadarSizes
  <2> QED
    BY <1>3, <1>4, <1>6, <2>1, BlobIs
<1>8. ASSUME NEW g \in Bearings
      PROVE  lines'[g][r] = IF g = front THEN IF r = first THEN ln1[g][r] ELSE 0
                            ELSE IF r # first /\ (front - g) % Spokes \in 1..l
                            THEN IF Lit(l, (front - g) % Spokes) THEN 255 ELSE 0
                            ELSE ln1[g][r]
  BY <1>5 DEF Suppressed, Kept
<1>9. ln1[c][r] >= Vth /\ ln1[c][r] # 0 /\ lines[c][r] \in Nat
  <2>1. lines[c][r] \in Nat
    BY <1>2, <1>3 DEF Image
  <2>2. ln1[c][r] = lines[c][r]
    BY <1>6, Zenon
  <2>3. ln1[c][r] >= Vth
    BY <2>2, Zenon
  <2>4. ASSUME NEW v \in Nat, v >= Vth PROVE v # 0
    BY <2>4, RadarSizes
  <2> QED
    BY <2>1, <2>2, <2>3, <2>4, Zenon
\* A finished line has one return.
<1>10. c # front
  <2> SUFFICES ASSUME c = front PROVE FALSE
    OBVIOUS
  <2>1. r # first
    BY <1>3, <1>8, <1>9
  <2> DEFINE T == {Len0 + 1} \union {q \in Pixels : ln1[front][q] >= Vth}
  <2>2. T \subseteq Nat /\ r \in T /\ first = Min(T)
    BY <1>9, RadarSizes DEF first, Return, Pixels
  <2>3. Min(T) \in T /\ Min(T) <= r
    <3> HIDE DEF T
    <3> QED
      BY <2>2, LeastIs
  <2>4. first \in Pixels /\ ln1[front][first] >= Vth
    <3>1. r <= Len0 /\ r \in Nat
      BY RadarSizes DEF Pixels
    <3> QED
      BY <2>2, <2>3, <3>1, RadarSizes
  <2>5. lines[c][first] # 0
    <3>1. lines[c][first] \in Nat
      BY <1>2, <1>3, <2>4 DEF Image
    <3> QED
      BY <1>6, <2>4, <3>1, RadarSizes
  <2>6. lines[c][r] # 0
    BY <1>6, <1>9
  <2> QED
    BY <1>2, <2>1, <2>4, <2>5, <2>6 DEF FinishedAre
<1>11. r # first /\ d \in 1..l /\ ~Lit(l, d) /\ d < Spokes
  BY <1>3, <1>7, <1>8, <1>9, <1>10, RadarSizes
<1> HIDE DEF l
<1>12. PICK x \in 1..l : Lit(l, x) /\ x < Spokes /\ x # d /\ x - d \in (-Overwrap)..Overwrap
  <2> HIDE DEF d
  <2> QED
    BY <1>7, <1>11, SideIsLit, Zenon
<1>13. Off(front, c) = d
  BY <1>3, OffIs, Zenon
<1> DEFINE k == x - d
           g == (c - k) % Spokes
<1>14. g \in Bearings /\ (front - g) % Spokes = x /\ g # front
  <2>1. k \in (-Overwrap)..Overwrap /\ Off(front, c) + k >= 1 /\ Off(front, c) + k < Spokes /\ Off(front, c) + k = x
    <3> HIDE DEF d
    <3> QED
      BY <1>7, <1>12, <1>13, RadarSizes
  <2> HIDE DEF k
  <2>2. g \in Bearings /\ (front - g) % Spokes = Off(front, c) + k /\ g # front
    BY <1>3, <2>1, OffTurned, Zenon
  <2> QED
    BY <2>1, <2>2, Zenon
<1>15. lines'[g][r] = 255
  <2> HIDE DEF g
  <2> QED
    BY <1>8, <1>11, <1>12, <1>14
<1> HIDE DEF d
<1>16. CASE x < d
  <2>1. d - x \in 1..Overwrap /\ c - k = c + (d - x)
    BY <1>3, <1>7, <1>12, <1>16, RadarSizes
  <2> QED
    BY <1>15, <2>1
<1>17. CASE x > d
  <2>1. k \in 1..Overwrap
    BY <1>7, <1>12, <1>17, RadarSizes
  <2> QED
    BY <1>15, <2>1
<1> QED
  BY <1>7, <1>12, <1>16, <1>17

LEMMA RadarInitInv == RadarInit => RadarInv
<1> SUFFICES ASSUME RadarInit PROVE RadarInv
  OBVIOUS
<1> USE DEF RadarInit
<1>1. Blank \in Image /\ \A c \in Bearings, r \in Pixels : Blank[c][r] = 0
  BY DEF Blank, Image
<1>2. RadarTypeOK
  <2>1. PICK s \in Starts : bearing = (s - 1) % Spokes
    OBVIOUS
  <2>2. bearing \in Bearings
    <3>1. s \in 0..(Spokes - 1)
      BY RadarAssumption
    <3> QED
      BY <2>1, <3>1, RadarSizes
  <2> QED
    BY <2>2, RadarSizes DEF RadarTypeOK
<1>3. RadarTyped(lines, number, energy, finished)
  BY <1>1, RadarSizes DEF RadarTyped
<1>4. RecentAre(number, energy) /\ RecentHold(lines, energy) /\ NumbersAreOld(number) /\ SumsFall(energy)
  BY DEF RecentAre, RecentHold, NumbersAreOld, SumsFall
<1>5. AheadHold(lines, energy)
  BY RadarSizes DEF AheadHold
<1>6. RestIsDark(lines, energy) /\ FinishedAre(lines, finished)
  BY <1>1 DEF RestIsDark, FinishedAre
<1> QED
  BY <1>2, <1>3, <1>4, <1>5, <1>6 DEF RadarInv, RadarOK

LEMMA RadarStep == RadarInv /\ [RadarNext]_radarVars => RadarInv'
<1>1. ASSUME RadarInv, RadarNext PROVE RadarInv'
  <2>1. PICK ln, num, e, fin, b, data :
           /\ RadarOK(ln, num, e, fin) /\ Stepped(ln, num, e, fin, b, data)
           /\ b \in {Turned(bearing, 1), Turned(bearing, 2)} /\ data \in [Pixels -> Nat]
    BY <1>1, StepIs, Zenon
  <2>2. Step(ln, num, e, fin, b, data)
    BY <1>1, <2>1, Zenon DEF Step, RadarInv
  <2> QED
    BY <2>2, RadarStays, Zenon
<1>2. ASSUME RadarInv, UNCHANGED radarVars PROVE RadarInv'
  BY <1>2 DEF radarVars, RadarInv, RadarTypeOK, RadarOK, RadarTyped, RecentAre, Age, NumbersAreOld, SumsFall,
     RecentHold, AheadHold, RestIsDark, FinishedAre
<1> QED
  BY <1>1, <1>2

LEMMA RadarHolds == RadarInv => ThinnedBehindBeam /\ NoStaleEnergy
<1> SUFFICES ASSUME RadarInv PROVE ThinnedBehindBeam /\ NoStaleEnergy
  OBVIOUS
<1>1. /\ FinishedAre(lines, finished) /\ RecentHold(lines, energy) /\ SumsFall(energy)
      /\ lines \in Image /\ energy \in Seq([Pixels -> Nat]) /\ spoke_count \in Nat
      /\ spoke_count > 0 => Len(energy) > 0
  BY DEF RadarInv, RadarTypeOK, RadarOK, RadarTyped
<1>2. ThinnedBehindBeam
  BY <1>1 DEF FinishedAre, ThinnedBehindBeam
<1>3. ASSUME NEW i \in DOMAIN recent_spoke, NEW r \in Pixels, spoke_count > 2 * Overwrap + 1
      PROVE  lines[recent_spoke[i]][r] <= energy[1][r]
  <2>1. recent_spoke[i] \in Bearings /\ Age(i) \in 0..(Overwrap - 1)
    BY RadarSizes DEF RadarInv, RadarTypeOK, Age
  <2>2. lines[recent_spoke[i]][r] <= LastOf(energy, Age(i), r)
    <3>1. spoke_count - 1 - Age(i) >= Overwrap + 2
      BY <1>1, <1>3, <2>1, RadarSizes
    <3> QED
      BY <1>1, <3>1 DEF RecentHold
  <2> DEFINE a == Age(i)
             n == Len(energy)
  <2>3. n \in Nat /\ n > 0 /\ DOMAIN energy = 1..n /\ energy \in [1..n -> [Pixels -> Nat]]
    BY <1>1, <1>3, RadarSizes
  <2> HIDE DEF a, n
  <2>4. LastOf(energy, a, r) = IF n > a + 1 THEN energy[n - a - 1][r] ELSE energy[1][r]
    BY <2>3 DEF LastOf, LastAt, n
  <2>5. LastOf(energy, a, r) <= energy[1][r] /\ LastOf(energy, a, r) \in Nat
    <3>1. a \in Nat
      BY <2>1 DEF a
    <3>2. CASE n > a + 1
      <4>1. 1 \in 1..n /\ n - a - 1 \in 1..n /\ 1 <= n - a - 1
        BY <2>3, <3>1, <3>2
      <4> QED
        BY <1>1, <2>3, <2>4, <3>2, <4>1 DEF SumsFall
    <3>3. CASE ~(n > a + 1)
      BY <2>3, <2>4, <3>3
    <3> QED
      BY <3>2, <3>3
  <2>6. lines[recent_spoke[i]][r] \in Nat /\ energy[1][r] \in Nat
    BY <1>1, <2>1, <2>3 DEF Image
  <2> QED
    BY <2>2, <2>5, <2>6 DEF a
<1> QED
  BY <1>2, <1>3 DEF NoStaleEnergy

\* What set_spoke leaves behind the beam shows one return per line, what it cuts
\* out of a blob there leaves the blob's middle lit, and the lines in the beam hold
\* no energy but of the last spokes.
THEOREM EchoesStay == RadarSpec => EchoesAreKept
<1> DEFINE EchoesMove == m_range' = m_range =>
       \A b \in finished \ Reach(bearing') : \A r \in Pixels :
         lines[b][r] >= Vth /\ lines'[b][r] = 0 =>
           \E d \in 1..Overwrap : lines'[(b - d) % Spokes][r] = 255
                                  \/ lines'[(b + d) % Spokes][r] = 255
<1>1. RadarInv /\ [RadarNext]_radarVars => [EchoesMove]_radarVars
  <2>1. ASSUME RadarInv, RadarNext, m_range' = m_range,
               NEW c \in finished \ Reach(bearing'), NEW r \in Pixels, lines[c][r] >= Vth, lines'[c][r] = 0
        PROVE  \E d \in 1..Overwrap : lines'[(c - d) % Spokes][r] = 255
                                      \/ lines'[(c + d) % Spokes][r] = 255
    <3>1. PICK ln, num, e, fin, b, data :
             /\ RadarOK(ln, num, e, fin) /\ Stepped(ln, num, e, fin, b, data)
             /\ b \in {Turned(bearing, 1), Turned(bearing, 2)} /\ data \in [Pixels -> Nat]
             /\ ln = lines /\ fin = finished
      BY <2>1, StepIs, Zenon
    <3>2. RadarOK(lines, num, e, finished) /\ Stepped(lines, num, e, finished, b, data)
      BY <3>1, Zenon
    <3>3. Step(lines, num, e, finished, b, data)
      BY <2>1, <3>1, <3>2, Zenon DEF Step, RadarInv
    <3>4. c \in finished \ Reach(b)
      BY <2>1, <3>2, Zenon DEF Stepped
    <3> QED
      BY <2>1, <3>3, <3>4, EchoStays
  <2>2. RadarInv /\ RadarNext => EchoesMove
    BY <2>1
  <2> HIDE DEF EchoesMove
  <2> QED
    BY <2>2
<1>2. RadarInit => RadarInv
  BY RadarInitInv
<1>3. RadarInv /\ [RadarNext]_radarVars => RadarInv'
  BY RadarStep
<1>4. RadarInv => ThinnedBehindBeam /\ NoStaleEnergy
  BY RadarHolds
<1>5. RadarSpec => [](ThinnedBehindBeam /\ NoStaleEnergy)
  BY <1>2, <1>3, <1>4, PTL DEF RadarSpec
<1>6. RadarSpec => [][EchoesMove]_radarVars
  BY <1>1, <1>2, <1>3, PTL DEF RadarSpec
<1>7. RadarSpec => EchoSurvives
  BY <1>6 DEF EchoSurvives
<1> QED
  BY <1>5, <1>7, PTL DEF EchoesAreKept
===============================================================================
