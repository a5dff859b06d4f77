----------------------------- MODULE VdmDecoder ------------------------------
(* Reassembly of AIS messages that come in several sentences (c_vdm_dec).     *)
(* Sentences of several messages interleave, and some are lost on their way   *)
(* (the receiver's line, a bad checksum).                                     *)
EXTENDS Integers, Sequences, SequencesExt

CONSTANTS
  Messages,  \* the messages sent: [name, type, seq, of], of sentences with id seq
  Creatable, \* the types create_vdm_dat() knows
  MaxTmp     \* incomplete messages kept, 10 in the code

VARIABLES
  m_tmp,    \* the incomplete messages: [fcounts, fnumber, seqmsgid, payload]
  m_pool,   \* how many buffers wait for reuse
  created,  \* how many buffers there are
  vdm_objs, \* the types with a decoder
  gone,     \* how many sentences of each message have come or been lost
  lost,     \* the sentences that were lost, <<message, number>>
  freed,    \* the incomplete messages given up
  handed    \* the payloads handed to a decoder

vdmVars == <<m_tmp, m_pool, created, vdm_objs, gone, lost, freed, handed>>

VdmSizes == MaxTmp \in Nat /\ \A m \in Messages : m.of \in Nat \ {0}

ASSUME VdmAssumption == VdmSizes

Number(m) == gone[m] + 1

\* The receiver gives an id to a new message when the last one with it is out.
MayCome(m) ==
  /\ gone[m] < m.of
  /\ gone[m] = 0 => \A o \in Messages : o.seq = m.seq => gone[o] \in {0, o.of}

Whole(m) == [k \in 1..m.of |-> <<m, k>>]

AddVdmDat(type) ==
  /\ vdm_objs' = vdm_objs \union ({type} \intersect Creatable)
  /\ UNCHANGED <<m_tmp, m_pool, created, gone, lost, freed, handed>>

Lose(m) ==
  /\ MayCome(m)
  /\ lost' = lost \union {<<m, Number(m)>>}
  /\ gone' = [gone EXCEPT ![m] = @ + 1]
  /\ UNCHANGED <<m_tmp, m_pool, created, vdm_objs, freed, handed>>

\* dec_payload(): the type is the first sextet's.
DecPayload(pl) == handed' = IF pl[1][1].type \in vdm_objs THEN handed \union {pl} ELSE handed

\* The tail of decode(): complete messages are decoded and their buffer freed,
\* others kept; the oldest goes when there are too many.
\* (Faulty: a buffer that is done with is not put back; a message is complete
\* when its second sentence has come.)
Finish_LosesBuffer(ppl, rest, pool) ==
  IF ppl.fcounts = ppl.fnumber
  THEN DecPayload(ppl.payload) /\ m_tmp' = rest /\ m_pool' = pool /\ UNCHANGED freed
  ELSE m_tmp' = Append(rest, ppl) /\ m_pool' = pool /\ UNCHANGED <<freed, handed>>
Finish_AtTwo(ppl, rest, pool) ==
  IF ppl.fnumber = 2 \/ ppl.fcounts = 1
  THEN DecPayload(ppl.payload) /\ m_tmp' = rest /\ m_pool' = pool + 1 /\ UNCHANGED freed
  ELSE m_tmp' = Append(rest, ppl) /\ m_pool' = pool /\ UNCHANGED <<freed, handed>>

Finish(ppl, rest, pool) ==
  IF ppl.fcounts = ppl.fnumber
  THEN /\ DecPayload(ppl.payload)
       /\ m_tmp' = rest
       /\ m_pool' = pool + 1
       /\ UNCHANGED freed
  ELSE /\ IF Len(rest) + 1 > MaxTmp
          THEN /\ m_tmp' = Tail(Append(rest, ppl))
               /\ m_pool' = pool + 1
               /\ freed' = freed \union {Head(Append(rest, ppl)).payload}
          ELSE m_tmp' = Append(rest, ppl) /\ m_pool' = pool /\ UNCHANGED freed
       /\ UNCHANGED handed

\* decode() of a first sentence: a buffer from the pool, or a new one.
DecodeFirst(m) ==
  /\ MayCome(m)
  /\ Number(m) = 1
  /\ created' = IF m_pool = 0 THEN created + 1 ELSE created
  /\ Finish([fcounts |-> m.of, fnumber |-> 1, seqmsgid |-> m.seq, payload |-> <<<<m, 1>>>>],
            m_tmp, IF m_pool = 0 THEN 0 ELSE m_pool - 1)
  /\ gone' = [gone EXCEPT ![m] = 1]
  /\ UNCHANGED <<vdm_objs, lost>>

\* decode() of a later one, which the incomplete message at i takes, or none.
Extend(m, i) ==
  /\ MayCome(m)
  /\ Number(m) > 1
  /\ IF i = 0
     THEN UNCHANGED <<m_tmp, m_pool, freed, handed>>
     ELSE Finish([m_tmp[i] EXCEPT !.fnumber = Number(m),
                                  !.payload = Append(@, <<m, Number(m)>>)],
                 RemoveAt(m_tmp, i), m_pool)
  /\ gone' = [gone EXCEPT ![m] = @ + 1]
  /\ UNCHANGED <<created, vdm_objs, lost>>

\* Faulty: the oldest takes it whatever its id; only the newest is looked at.
DecodeNext_Oldest(m) == Extend(m, IF m_tmp = <<>> THEN 0 ELSE 1)
DecodeNext_NewestOnly(m) ==
  Extend(m, IF m_tmp # <<>> /\ Last(m_tmp).seqmsgid = m.seq THEN Len(m_tmp) ELSE 0)

\* The first incomplete message of the same id, whichever sentence that waits for.
DecodeNext(m) == Extend(m, SelectInSeq(m_tmp, LAMBDA p : p.seqmsgid = m.seq))

VdmInit ==
  /\ m_tmp = <<>> /\ m_pool = 0 /\ created = 0 /\ vdm_objs = {}
  /\ gone = [m \in Messages |-> 0]
  /\ lost = {} /\ freed = {} /\ handed = {}

VdmNext ==
  \E m \in Messages : Lose(m) \/ DecodeFirst(m) \/ DecodeNext(m) \/ AddVdmDat(m.type)

VdmSpec == VdmInit /\ [][VdmNext]_vdmVars

-----------------------------------------------------------------------------
(* A payload handed to a decoder is a whole message, its sentences in order,  *)
(* unless a sentence with that id was lost.                                   *)
NothingMixed ==
  \A pl \in handed :
    \/ \E m \in Messages : pl = Whole(m)
    \/ \E l \in lost : l[1].seq = pl[1][1].seq

(* Whatever is lost, every payload decoded starts with a first sentence, goes *)
(* on with sentences of the same id, and ends with as many as it announced.   *)
PayloadsFitTogether ==
  \A pl \in handed :
    /\ pl[1][2] = 1
    /\ \A i \in DOMAIN pl : pl[i][1].seq = pl[1][1].seq
    /\ pl[Len(pl)][2] = pl[1][1].of

(* A message of which every sentence arrived is decoded, once its type has a  *)
(* decoder: unless a sentence of its id was lost, or it was given up for want *)
(* of room.                                                                   *)
ArrivedIsDecoded ==
  [][\A m \in Messages :
       gone'[m] = m.of /\ gone[m] # m.of /\ m.type \in vdm_objs
       /\ ~(\E l \in lost' : l[1].seq = m.seq) /\ ~(\E pl \in freed : pl[1][1] = m)
       => Whole(m) \in handed']_vdmVars

(* Every buffer is in the pool or holds an incomplete message, and there is   *)
(* never more than one buffer beyond those incomplete messages may take.      *)
BuffersBounded ==
  /\ created = m_pool + Len(m_tmp)
  /\ created <= MaxTmp + 1
  /\ Len(m_tmp) <= MaxTmp

(* Sentences of several messages that use the same ids, some of them lost,    *)
(* become the messages that arrived and no others, within the buffers' bound. *)
MessagesArriveWhole ==
  /\ [](NothingMixed /\ PayloadsFitTogether /\ BuffersBounded)
  /\ ArrivedIsDecoded
=============================================================================
