----------------------------- MODULE StateChannel -----------------------------
(* ch_state (ch_state.hpp, ch_state.cpp): the ship's position, altitude,      *)
(* attitude, velocity, depth and weather, each with the time of its sensor,   *)
(* and the channel's log.  The set_ functions lock, write_buf locks three     *)
(* times, write tests whether there is anything new before it locks.          *)
(*                                                                            *)
(* A datum is its time and the number of the set_ or write_buf call that      *)
(* brought it, so that parts of different data do not look alike.             *)
EXTENDS Integers, Sequences, FiniteSetsExt

CONSTANTS GroupSets,   \* the data a behaviour is about
          MaxNow, MaxGiven, MaxRecords   \* bounds: the clock, the calls, the log

AllGroups == {"pos", "alt", "att", "vel", "dp", "wx"}

ASSUME StateAssumption ==
  /\ \A gs \in GroupSets : gs \subseteq AllGroups
  /\ MaxNow \in Nat /\ MaxGiven \in Nat /\ MaxRecords \in Nat

VARIABLES groups,
          cur,      \* the data
          ecef,     \* the position x, y, z and R were computed from
          fed,      \* what the sampler was last given
          f,        \* the data of the log: times written or record read
          st_tfile, st_pf, st_rd, st_eof,
          buffer,   \* write_buf's argument and how far it has come
          logging,  \* the write that has passed its test: the time it was called with, or 0
          now,
          st_given, \* the calls: the data they brought and the time of these
          st_replay

stateVars == <<groups, cur, ecef, fed, f, st_tfile, st_pf, st_rd, st_eof, buffer, logging, now,
               st_given, st_replay>>

Timed == {"pos", "att", "vel"}           \* an equal time is taken for a repetition
Logged == {"dp", "vel", "att", "pos"}    \* write asks for these (and taltf)
Replayable == Logged \union {"alt"}      \* read hands these on

Garbage == -1
None == [t |-> 0, n |-> 0]
\* The constructor leaves the times of altitude and weather, and all values
\* from the log, uninitialised.
Fresh(g) == IF g \in {"alt", "wx"} THEN {[t |-> t, n |-> Garbage] : t \in {0, MaxNow + 1}} ELSE {None}
FreshLog(g) == {[t |-> t, n |-> Garbage] : t \in IF g \in Logged THEN {0} ELSE {0, MaxNow + 1}}
\* The functions on groups with a value of Held(g) for each g.
Memory(gs, Held(_)) ==
  {c \in [gs -> UNION {Held(g) : g \in gs}] : \A g \in gs : c[g] \in Held(g)}
NoBuffer == [at |-> 0, n |-> 0, t |-> 0]

StateInit ==
  /\ groups \in GroupSets
  /\ cur \in Memory(groups, Fresh)
  /\ ecef = None /\ fed = [g \in groups |-> None]
  /\ f \in Memory(groups, FreshLog)
  /\ st_tfile = 0 /\ st_pf = <<>> /\ st_rd = 0 /\ st_eof = FALSE
  /\ buffer = NoBuffer /\ logging = 0
  /\ now = 1 /\ st_given = <<>> /\ st_replay = FALSE
-------------------------------------------------------------------------------
(* set_attitude, set_position, set_velocity, set_alt, set_depth, set_weather, *)
(* as functions of what they change.  The sampler gets the attitude that was  *)
(* there before, at the new one's time.                                       *)
\* A bug: of a datum that comes late only the time is taken.
Taken_TimeOnly(old, d) == [t |-> d.t, n |-> IF d.t < old.t THEN old.n ELSE d.n]
Taken(old, d) == d

Set(s, g, d) ==
  IF g \in Timed /\ s.cur[g].t = d.t THEN s
  ELSE [cur |-> [s.cur EXCEPT ![g] = Taken(@, d)],
        ecef |-> IF g = "pos" THEN Taken(s.cur[g], d) ELSE s.ecef,
        fed |-> [s.fed EXCEPT ![g] = [t |-> d.t, n |-> IF g = "att" THEN s.cur[g].n ELSE d.n]]]
StateData == [cur |-> cur, ecef |-> ecef, fed |-> fed]
StateBecomes(s) == cur' = s.cur /\ ecef' = s.ecef /\ fed' = s.fed

NewData(t) == [t |-> t, n |-> Len(st_given) + 1]
Give(gs, t) == st_given' = Append(st_given, [of |-> gs, t |-> t])

\* A sensor's datum, of now or of a moment ago.
set_state ==
  /\ ~st_replay /\ Len(st_given) < MaxGiven
  /\ \E g \in groups, t \in {now, now - 1} \ {0} :
       StateBecomes(Set(StateData, g, NewData(t))) /\ Give({g}, t)
  /\ UNCHANGED <<groups, f, st_tfile, st_pf, st_rd, st_eof, buffer, logging, now, st_replay>>

(* write_buf: set_attitude, set_velocity, and the rest under a lock of its own *)
(* and without telling the sampler; ecef comes in the buffer.                  *)
WriteStateBuf ==
  /\ ~st_replay /\ buffer.at = 0 /\ Len(st_given) < MaxGiven
  /\ \E t \in {now, now - 1} \ {0} :
       /\ buffer' = [at |-> 1, n |-> NewData(t).n, t |-> t]
       /\ Give(groups, t)
  /\ UNCHANGED <<groups, cur, ecef, fed, f, st_tfile, st_pf, st_rd, st_eof, logging, now, st_replay>>

Buffered == [t |-> buffer.t, n |-> buffer.n]
SetFromBuffer(g) == StateBecomes(IF g \in groups THEN Set(StateData, g, Buffered) ELSE StateData)
SetRest ==
  /\ cur' = [g \in groups |-> IF g \in {"att", "vel"} THEN cur[g] ELSE Buffered]
  /\ ecef' = IF "pos" \in groups THEN Buffered ELSE ecef
  /\ UNCHANGED fed
WriteStateBufStep ==
  /\ \/ buffer.at = 1 /\ SetFromBuffer("att") /\ buffer' = [buffer EXCEPT !.at = 2]
     \/ buffer.at = 2 /\ SetFromBuffer("vel") /\ buffer' = [buffer EXCEPT !.at = 3]
     \/ buffer.at = 3 /\ SetRest /\ buffer' = NoBuffer
  /\ UNCHANGED <<groups, f, st_tfile, st_pf, st_rd, st_eof, logging, now, st_given, st_replay>>
-------------------------------------------------------------------------------
(* write.  The weather alone is no reason to write, and the altitude's time in*)
(* the log is never set.                                                      *)
\* A bug: a new velocity is not asked for.
IsNews_NotVelocity(g) == g \in (Logged \ {"vel"}) \union {"alt"} /\ cur[g].t > f[g].t
IsNews(g) == g \in Logged \union {"alt"} /\ cur[g].t > f[g].t

StateSkips == \A g \in groups : ~IsNews(g)
WriteStateTest ==
  /\ ~st_replay /\ logging = 0 /\ Len(st_pf) < MaxRecords
  /\ logging' = IF StateSkips THEN 0 ELSE now
  /\ UNCHANGED <<groups, cur, ecef, fed, f, st_tfile, st_pf, st_rd, st_eof, buffer, now, st_given, st_replay>>
write_state ==
  /\ logging # 0 /\ logging' = 0
  /\ st_pf' = Append(st_pf, [t |-> logging, data |-> cur])
  /\ f' = [g \in groups |-> IF g = "alt" THEN f[g] ELSE [f[g] EXCEPT !.t = cur[g].t]]
  /\ st_tfile' = logging
  /\ UNCHANGED <<groups, cur, ecef, fed, st_rd, st_eof, buffer, now, st_given, st_replay>>

StateTick ==
  /\ now < MaxNow /\ now' = now + 1
  /\ UNCHANGED <<groups, cur, ecef, fed, f, st_tfile, st_pf, st_rd, st_eof, buffer, logging, st_given, st_replay>>

\* The channel of another run, fed by the log, at the log's beginning.
StartStateReplay ==
  /\ ~st_replay /\ logging = 0 /\ buffer.at = 0 /\ st_pf # <<>>
  /\ st_replay' = TRUE /\ now' = 0
  /\ cur' \in Memory(groups, Fresh)
  /\ ecef' = None /\ fed' = [g \in groups |-> None]
  /\ f' \in Memory(groups, FreshLog) /\ st_tfile' = 0
  /\ UNCHANGED <<groups, st_pf, st_rd, st_eof, buffer, logging, st_given>>

(* read hands on what an earlier call has read, if its time has come, and then*)
(* reads on to the first record that lies ahead; what it reads over is lost.  *)
\* A bug: a datum that is older than the one shown is not handed on.
Due_OnlyNewer(g) == g \in Replayable /\ f[g].t < now /\ f[g].t > cur[g].t
Due(g) == g \in Replayable /\ f[g].t < now /\ f[g].t # cur[g].t
HandOn(s, g) == IF g \in groups /\ Due(g) THEN Set(s, g, f[g]) ELSE s
HandAllOn == HandOn(HandOn(HandOn(HandOn(HandOn(StateData, "pos"), "alt"), "att"), "vel"), "dp")

StateAhead ==
  {i \in st_rd..Len(st_pf) : (IF i = st_rd THEN st_tfile ELSE st_pf[i].t) > now} \union {Len(st_pf)}

read_state ==
  /\ st_replay
  /\ StateBecomes(HandAllOn)
  /\ IF st_eof THEN UNCHANGED <<f, st_tfile, st_rd, st_eof>>
     ELSE \E k \in StateAhead :
            /\ \A i \in StateAhead : k <= i
            /\ st_rd' = k
            /\ f' = IF k > st_rd THEN st_pf[k].data ELSE f
            /\ st_tfile' = IF k > st_rd THEN st_pf[k].t ELSE st_tfile
            /\ st_eof' = (k = Len(st_pf) /\ st_tfile' <= now)
  /\ UNCHANGED <<groups, st_pf, buffer, logging, now, st_given, st_replay>>

StateNext ==
  \/ set_state \/ WriteStateBuf \/ WriteStateBufStep \/ WriteStateTest \/ write_state
  \/ StateTick \/ StartStateReplay \/ read_state

StateSpec == StateInit /\ [][StateNext]_stateVars
-------------------------------------------------------------------------------
\* A datum as it was given, or none.
WasGiven(g, d) == d.n \in DOMAIN st_given /\ g \in st_given[d.n].of /\ d.t = st_given[d.n].t
IsWhole(g, d) == d.n \in {0, Garbage} \/ WasGiven(g, d)

(* A time and the values next to it were given together, in the channel, in   *)
(* its log, and in x, y, z, also between the locks of write_buf.              *)
NothingTorn ==
  \A g \in groups : /\ IsWhole(g, cur[g]) /\ \A i \in DOMAIN st_pf : IsWhole(g, st_pf[i].data[g])
                    /\ g = "pos" => ecef = cur[g]

\* The datum is the newest of all that were given.
Newest(g) == \A i \in DOMAIN st_given : g \in st_given[i].of /\ i # cur[g].n => st_given[i].t < cur[g].t

(* write finds nothing to do only if the current position, attitude, velocity *)
(* and depth are in the log, where they are the newest that were given.       *)
NewsIsLogged ==
  ~st_replay /\ logging = 0 /\ StateSkips =>
    \A g \in groups \cap Logged :
      cur[g] # None /\ Newest(g) => \E i \in DOMAIN st_pf : st_pf[i].data[g] = cur[g]

(* A replay comes to show the last record: a read after the one that has found*)
(* the end of the log hands on all but the weather.                           *)
ReplayReachesEnd ==
  [][read_state /\ st_eof =>
       \A g \in groups \cap Replayable :
         LET d == st_pf[Len(st_pf)].data[g] IN d.t < now => cur'[g].t = d.t]_stateVars

(* Through concurrent writers, the log and its replay a state stays the one   *)
(* that was given last.                                                       *)
StateIsLogged == [](NothingTorn /\ NewsIsLogged) /\ ReplayReachesEnd
=============================================================================
