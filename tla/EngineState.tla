------------------------------ MODULE EngineState ------------------------------
(* ch_eng_state (ch_state.hpp, ch_state.cpp): four groups of engine data, each*)
(* with a time, the time t of the group set last, and the channel's log.  A   *)
(* datum is its time and the number of the call that brought it.  The ship's  *)
(* state is next to it in the source and here.                                *)
EXTENDS StateChannel

CONSTANT EngineGroups    \* the groups a behaviour is about

ASSUME EngineAssumption == EngineGroups \subseteq {"rapid", "dyn", "tran", "trip"}

VARIABLES eng_cur, eng_t,        \* the data, and the time of the last set
          eng_f, eng_tf,         \* the record read from the log, the log's time
          eng_pf, eng_rd, eng_eof,
          eng_logging,           \* the write under way: the time it was called with, or 0
          eng_now, eng_given, eng_replay

engineVars == <<eng_cur, eng_t, eng_f, eng_tf, eng_pf, eng_rd, eng_eof, eng_logging, eng_now,
                eng_given, eng_replay>>

\* The constructor sets no time but tf.
EngineUnset(x) == [g \in EngineGroups |-> [t |-> x, n |-> Garbage]]
Unsets == {EngineUnset(0), EngineUnset(MaxNow + 1)}
EngineInit ==
  /\ eng_cur \in Unsets /\ eng_f \in Unsets /\ eng_t \in {0, MaxNow + 1} /\ eng_tf = 0
  /\ eng_pf = <<>> /\ eng_rd = 0 /\ eng_eof = FALSE /\ eng_logging = 0
  /\ eng_now = 1 /\ eng_given = <<>> /\ eng_replay = FALSE
-------------------------------------------------------------------------------
(* set_rapid, set_dynamic, set_tran, set_trip.                                *)
\* A bug: of the four, set_tran does not set t.
EngineTimeOf_NotTran(old, g, d) == IF g = "tran" THEN old ELSE d.t
EngineTimeOf(old, g, d) == d.t

EngineData == [cur |-> eng_cur, t |-> eng_t]
PutEngine(s, g, d) == [cur |-> [s.cur EXCEPT ![g] = d], t |-> EngineTimeOf(s.t, g, d)]
EngineBecomes(s) == eng_cur' = s.cur /\ eng_t' = s.t

NewEngineData(x) == [t |-> x, n |-> Len(eng_given) + 1]
GiveEngine(x) == eng_given' = Append(eng_given, [t |-> x])

set_engine ==
  /\ ~eng_replay /\ Len(eng_given) < MaxGiven
  /\ \E g \in EngineGroups, x \in {eng_now, eng_now - 1} \ {0} :
       EngineBecomes(PutEngine(EngineData, g, NewEngineData(x))) /\ GiveEngine(x)
  /\ UNCHANGED <<eng_f, eng_tf, eng_pf, eng_rd, eng_eof, eng_logging, eng_now, eng_replay>>

\* write_buf sets everything at once, t to the time in the buffer.
write_engine_buf ==
  /\ ~eng_replay /\ Len(eng_given) < MaxGiven
  /\ \E x \in {eng_now, eng_now - 1} \ {0} :
       eng_cur' = [g \in EngineGroups |-> NewEngineData(x)] /\ eng_t' = x /\ GiveEngine(x)
  /\ UNCHANGED <<eng_f, eng_tf, eng_pf, eng_rd, eng_eof, eng_logging, eng_now, eng_replay>>

(* write: t and tf are compared, and tf set to the time of the call, before   *)
(* read_buf locks.                                                            *)
EngineSkips == eng_t <= eng_tf
WriteEngineTest ==
  /\ ~eng_replay /\ eng_logging = 0 /\ Len(eng_pf) < MaxRecords
  /\ IF EngineSkips THEN UNCHANGED <<eng_tf, eng_logging>>
     ELSE eng_tf' = eng_now /\ eng_logging' = eng_now
  /\ UNCHANGED <<eng_cur, eng_t, eng_f, eng_pf, eng_rd, eng_eof, eng_now, eng_given, eng_replay>>
write_engine ==
  /\ eng_logging # 0 /\ eng_logging' = 0
  /\ eng_pf' = Append(eng_pf, [t |-> eng_logging, data |-> eng_cur])
  /\ UNCHANGED <<eng_cur, eng_t, eng_f, eng_tf, eng_rd, eng_eof, eng_now, eng_given, eng_replay>>

EngineTick ==
  /\ eng_now < MaxNow /\ eng_now' = eng_now + 1
  /\ UNCHANGED <<eng_cur, eng_t, eng_f, eng_tf, eng_pf, eng_rd, eng_eof, eng_logging, eng_given,
                 eng_replay>>

StartEngineReplay ==
  /\ ~eng_replay /\ eng_logging = 0 /\ eng_pf # <<>>
  /\ eng_replay' = TRUE /\ eng_now' = 0
  /\ eng_cur' \in Unsets /\ eng_f' \in Unsets /\ eng_t' \in {0, MaxNow + 1} /\ eng_tf' = 0
  /\ UNCHANGED <<eng_pf, eng_rd, eng_eof, eng_logging, eng_given>>

(* read hands on what was read before, whenever its time has come, and reads  *)
(* to the first record that lies ahead.  At the end of the file the buffer    *)
(* still holds the last record, which is taken once more.                     *)
\* A bug: a datum of this very moment is not handed on.
EngineDue_Past(g) == eng_f[g].t < eng_now
EngineDue(g) == eng_f[g].t <= eng_now
HandOnEngine(s, g) ==
  IF g \in EngineGroups /\ EngineDue(g) THEN PutEngine(s, g, eng_f[g]) ELSE s
HandAllOnEngine ==
  HandOnEngine(HandOnEngine(HandOnEngine(HandOnEngine(EngineData, "rapid"), "dyn"), "tran"), "trip")

EngineAhead ==
  {i \in eng_rd..Len(eng_pf) : (IF i = eng_rd THEN eng_tf ELSE eng_pf[i].t) > eng_now}
    \union {Len(eng_pf)}

read_engine ==
  /\ eng_replay
  /\ EngineBecomes(HandAllOnEngine)
  /\ IF eng_eof THEN UNCHANGED <<eng_f, eng_tf, eng_rd, eng_eof>>
     ELSE \E k \in EngineAhead :
            /\ \A i \in EngineAhead : k <= i
            /\ eng_rd' = k
            /\ eng_f' = IF k > eng_rd THEN eng_pf[k].data ELSE eng_f
            /\ eng_tf' = IF k > eng_rd THEN eng_pf[k].t ELSE eng_tf
            /\ eng_eof' = (k = Len(eng_pf) /\ eng_tf' <= eng_now)
  /\ UNCHANGED <<eng_pf, eng_logging, eng_now, eng_given, eng_replay>>

EngineNext ==
  \/ set_engine \/ write_engine_buf \/ WriteEngineTest \/ write_engine
  \/ EngineTick \/ StartEngineReplay \/ read_engine

EngineSpec == EngineInit /\ [][EngineNext]_engineVars
-------------------------------------------------------------------------------
\* All data came in the order of their times, each later than the one before.
InOrder ==
  \A i, j \in DOMAIN eng_given : i < j => eng_given[i].t < eng_given[j].t

(* If the data come in the order of their times, write finds nothing to do    *)
(* only if none is later than the log's time.                                 *)
EngineNewsIsLogged ==
  ~eng_replay /\ eng_logging = 0 /\ EngineSkips /\ InOrder =>
    \A g \in EngineGroups : eng_cur[g].n # Garbage => eng_cur[g].t <= eng_tf

(* A replay comes to show the last record: a read after the one that has found*)
(* the end of the log hands on all data whose time has come.                  *)
EngineReplayReachesEnd ==
  [][read_engine /\ eng_eof =>
       \A g \in EngineGroups :
         LET d == eng_pf[Len(eng_pf)].data[g] IN d.t <= eng_now => eng_cur'[g] = d]_engineVars

EngineIsLogged == []EngineNewsIsLogged /\ EngineReplayReachesEnd

(* The ship's and the engine's data keep their times, are logged when they are*)
(* new and replayed to the last record.                                       *)
StatesAreLogged == StateIsLogged /\ EngineIsLogged
=============================================================================
