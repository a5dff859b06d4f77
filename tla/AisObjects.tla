------------------------------ MODULE AisObjects ------------------------------
(* ch_ais_obj of ch_obj.hpp: the ships heard of by AIS, by their MMSI; a list *)
(* of the updated ones for the reader of the channel's buffer; a cursor shared*)
(* by all methods; and the channel's log.  Methods lock the channel, but a    *)
(* reader that walks the objects takes the lock itself and holds it over its  *)
(* calls.  A report is its number.  Its time is that of its caller's cycle, or*)
(* the one another process gave it: several reports share one, and one may be *)
(* older than those before it.                                                *)
EXTENDS ObjectData, Sequences

CONSTANTS Ships,        \* the MMSIs
          MaxMmsi,      \* the largest there is
          Stamps,       \* the times of reports
          MaxReports    \* bound: the number of reports pushed

ASSUME ShipsAssumption ==
  /\ Ships \subseteq 1..MaxMmsi /\ MaxMmsi \in Nat /\ MaxReports \in Nat
  /\ Stamps \subseteq Nat \ {0}

VARIABLES objs,      \* the map: c_ais_obj by MMSI
          ais_itr,   \* the cursor: an MMSI or NoObject
          updates,   \* pointers to updated objects: report that created it and MMSI
          ais_tfile, ais_pf, ais_pos,   \* the log: its time, its records, the read position
          held, seen,  \* who holds the lock over several steps; what a walk has visited
          reading,   \* read's end time and the record in its variable
          reports,   \* the reports so far: [mmsi, far, late], late if the log's time
                     \* had reached the report's when it came
          owed,      \* ships with a report the buffer's reader has not had
          ais_replay   \* the channel is filled from its log

objsVars == <<objs, ais_itr, updates, ais_tfile, ais_pf, ais_pos, held, seen, reading, reports, owed,
              ais_replay>>

NoShip == 0                     \* the MMSI of a c_ais_obj nothing was read into
NoObject == MaxMmsi + 1         \* objs.end()
Cut == MaxReports + 1           \* a position whose double was written as a float
Pointer(m) == <<objs[m].born, m>>
Limits == UNION {{t, t + 1} : t \in Stamps}
IsLastReport(i, m) ==
  /\ i \in DOMAIN reports /\ reports[i].mmsi = m
  /\ \A j \in DOMAIN reports : j > i => reports[j].mmsi # m

\* A sequence of all members of S in their order, the first of them and the last.
Enumerates(s, S) ==
  /\ {s[i] : i \in DOMAIN s} = S
  /\ \A i, j \in DOMAIN s : i < j => s[i] < s[j]
Enumerations(S) == {s \in [1..Cardinality(S) -> S] : Enumerates(s, S)}
Firsts(S) == IF S = {} THEN {NoObject} ELSE {k \in S : \A j \in S : k <= j}
Lasts(S) == {k \in S : \A j \in S : j <= k}

\* A bug: the flags are added to those of the report before, and the
\* coordinates computed from that stay valid.
KeepsFlags(o, t, n, p) ==
  LET plain == [o EXCEPT !.m_t = t, !.m_dtype = @ \union {"AIS", "ATTD"}, !.from["ATTD"] = n]
  IN  set_vel_blh(set_pos_blh(plain, p), n)

(* c_ais_obj::update, and set for a new one: all flags are assigned anew.  The*)
(* data are of report n at time t, the position of p.                         *)
update(o, t, n, p) ==
  LET plain == [o EXCEPT !.m_t = t, !.m_dtype = {"AIS", "ATTD"}, !.from["ATTD"] = n]
  IN  reset_rel(reset_ecef(set_vel_blh(set_pos_blh(plain, p), n)))

NewAis(born, t, n, p) ==
  update([m_dtype |-> {}, from |-> NewObject.from, born |-> born, m_t |-> 0], t, n, p)

ObjsInit ==
  /\ objs = <<>> /\ ais_itr = NoObject /\ updates = <<>>
  /\ ais_tfile = 0 /\ ais_pf = <<>> /\ ais_pos = 0
  /\ held = "free" /\ seen = <<>> /\ reading = [until |-> 0, t |-> 0, mmsi |-> NoShip, of |-> Unset]
  /\ reports = <<>> /\ owed = {} /\ ais_replay = FALSE
-------------------------------------------------------------------------------
\* A bug: an object that is known already is not listed.
ListsNewOnly(m) == m \notin DOMAIN objs
Lists(m) == TRUE

\* The object o of MMSI m, new or not, comes last in the list of updates.
Enter(m, o) ==
  /\ objs' = [k \in DOMAIN objs \union {m} |-> IF k = m THEN o ELSE objs[k]]
  /\ updates' = IF Lists(m) THEN Append(updates, <<o.born, m>>) ELSE updates
  /\ ais_itr' = IF m \in DOMAIN objs THEN m ELSE NoObject
  /\ owed' = owed \union {m}

(* push, and write_buf, which takes the report from the channel's buffer.     *)
\* A heading above 360 is replaced by the course, which does not matter here.
TakeReport(m, far, t) ==
  LET n == Len(reports) + 1
  IN  /\ reports' = Append(reports, [mmsi |-> m, far |-> far, late |-> t <= ais_tfile])
      /\ Enter(m, set_ecef_from_blh(IF m \in DOMAIN objs THEN update(objs[m], t, n, n)
                                    ELSE NewAis(n, t, n, n)))

\* A bug: push does not lock the channel.
PushUnlocked ==
  /\ ~ais_replay /\ Len(reports) < MaxReports
  /\ \E m \in Ships, far \in BOOLEAN, t \in Stamps : TakeReport(m, far, t)
  /\ UNCHANGED <<ais_tfile, ais_pf, ais_pos, held, seen, reading, ais_replay>>

push_ais ==
  /\ ~ais_replay /\ held = "free" /\ Len(reports) < MaxReports
  /\ \E m \in Ships, far \in BOOLEAN, t \in Stamps : TakeReport(m, far, t)
  /\ UNCHANGED <<ais_tfile, ais_pf, ais_pos, held, seen, reading, ais_replay>>

reset_updates ==
  /\ held = "free"
  /\ updates' = <<>> /\ owed' = {}
  /\ UNCHANGED <<objs, ais_itr, ais_tfile, ais_pf, ais_pos, held, seen, reading, reports, ais_replay>>

Located(o) ==
  set_pos_bd_from_rel(set_vel_rel_from_blh(set_vel_ecef_from_blh(set_pos_rel_from_ecef(o))))

update_rel_pos_and_vel ==
  /\ held = "free"
  /\ objs' = [m \in DOMAIN objs |-> Located(objs[m])] /\ ais_itr' = NoObject
  /\ UNCHANGED <<updates, ais_tfile, ais_pf, ais_pos, held, seen, reading, reports, owed, ais_replay>>

calc_all_tdcpa ==
  /\ held = "free"
  /\ objs' = [m \in DOMAIN objs |-> calc_tdcpa(objs[m])] /\ ais_itr' = NoObject
  /\ UNCHANGED <<updates, ais_tfile, ais_pf, ais_pos, held, seen, reading, reports, owed, ais_replay>>

(* set_track gives the object of an index tracking id 0 and all others -1 (ids *)
(* nothing here looks at).  It moves the cursor like the others but does not  *)
(* lock: callers hold the lock for it.                                        *)
set_track ==
  /\ held = "free" /\ ais_itr' = NoObject
  /\ UNCHANGED <<objs, updates, ais_tfile, ais_pf, ais_pos, held, seen, reading, reports, owed, ais_replay>>

(* The loop of remove_out and remove_old: the objects to remove leave the map *)
(* and the list of updates, and the cursor moves on past each.                *)
\* A bug: the cursor moves on twice, and the object after a removed one stays.
RemovedAndSkipped(ms) ==
  {m \in ms : \A k \in ms : k < m => \E j \in DOMAIN objs : k < j /\ j < m}
Removed(ms) == ms

\* A bug: a removed object stays in the list of updates.
StillListed(gone) == DOMAIN updates
Listed(gone) == {i \in DOMAIN updates : updates[i] \notin {Pointer(m) : m \in gone}}

RemoveShips(ms) ==
  LET gone == Removed(ms)
  IN  /\ objs' = [m \in DOMAIN objs \ gone |-> objs[m]]
      /\ \E is \in Enumerations(Listed(gone)) : updates' = [k \in DOMAIN is |-> updates[is[k]]]
      /\ owed' = owed \ gone
      /\ ais_itr' = NoObject
      /\ UNCHANGED <<ais_tfile, ais_pf, ais_pos, held, seen, reading, reports, ais_replay>>

\* It uses the relative position without asking whether it is there: one
\* not computed yet is at the own ship, one of an earlier report counts, and a
\* cut position lies at 0 N 0 E.
OutOfRange(o) ==
  LET s == o.from["POS_REL"]
  IN  s = Cut \/ (s \in DOMAIN reports /\ reports[s].far)
remove_out == held = "free" /\ RemoveShips({m \in DOMAIN objs : OutOfRange(objs[m])})

remove_old ==
  /\ held = "free"
  /\ \E told \in Limits : RemoveShips({m \in DOMAIN objs : objs[m].m_t < told})

(* read_buf hands out the first updated object, as it is now (zeros if there  *)
(* is none).                                                                  *)
read_update ==
  /\ held = "free" /\ updates # <<>>
  /\ updates' = Tail(updates)
  /\ owed' = owed \ {updates[1][2]}
  /\ UNCHANGED <<objs, ais_itr, ais_tfile, ais_pf, ais_pos, held, seen, reading, reports, ais_replay>>
-------------------------------------------------------------------------------
(* A reader's walk: lock, begin, and next or prev until is_end, unlock.       *)
LockAndBegin ==
  /\ held = "free"
  /\ held' = "walk" /\ seen' = <<>> /\ ais_itr' \in Firsts(DOMAIN objs)
  /\ UNCHANGED <<objs, updates, ais_tfile, ais_pf, ais_pos, reading, reports, owed, ais_replay>>

next ==
  /\ held = "walk" /\ ais_itr # NoObject
  /\ seen' = Append(seen, ais_itr) /\ ais_itr' \in Firsts({k \in DOMAIN objs : k > ais_itr})
  /\ UNCHANGED <<objs, updates, ais_tfile, ais_pf, ais_pos, held, reading, reports, owed, ais_replay>>

prev ==
  /\ held = "walk" /\ ais_itr' \in Lasts({k \in DOMAIN objs : k < ais_itr})
  /\ seen' = SubSeq(seen, 1, Len(seen) - 1)
  /\ UNCHANGED <<objs, updates, ais_tfile, ais_pf, ais_pos, held, reading, reports, owed, ais_replay>>

Unlock ==
  /\ held = "walk" /\ held' = "free" /\ seen' = <<>>
  /\ UNCHANGED <<objs, ais_itr, updates, ais_tfile, ais_pf, ais_pos, reading, reports, owed, ais_replay>>
-------------------------------------------------------------------------------
(* write logs the objects newer than the log, in the order of their MMSIs: not*)
(* one of the time that the log has reached.  A position is written as the    *)
(* first half of its double.  A record is marked with its report.             *)
\* A bug: the log's time moves with each object, and an object behind one
\* with a newer report is not logged.
Overtaken == {m \in DOMAIN objs : /\ objs[m].m_t > ais_tfile
                                  /\ \A k \in DOMAIN objs : k < m => objs[k].m_t < objs[m].m_t}
ToLog == {m \in DOMAIN objs : objs[m].m_t > ais_tfile}

write_ais ==
  /\ held = "free" /\ ~ais_replay
  /\ \E ms \in Enumerations(ToLog) :
       ais_pf' = ais_pf \o [i \in DOMAIN ms |-> [t |-> objs[ms[i]].m_t, mmsi |-> ms[i],
                                               of |-> objs[ms[i]].from["ATTD"]]]
  /\ ais_tfile' \in Lasts({ais_tfile} \union {objs[m].m_t : m \in ToLog})
  /\ ais_itr' = NoObject
  /\ UNCHANGED <<objs, updates, ais_pos, held, seen, reading, reports, owed, ais_replay>>

\* The channel of another run, fed by the log.
StartAisReplay ==
  /\ ~ais_replay /\ held = "free" /\ ais_pf # <<>>
  /\ ais_replay' = TRUE /\ objs' = <<>> /\ updates' = <<>> /\ ais_itr' = NoObject
  /\ ais_tfile' = 0 /\ reports' = <<>> /\ owed' = {}
  /\ UNCHANGED <<ais_pf, ais_pos, held, seen, reading>>

(* read locks and takes records until one is not before its end time, or the  *)
(* file's end has been met.                                                   *)
read_ais ==
  /\ ais_replay /\ held = "free"
  /\ held' = "read"
  /\ \E tcur \in Limits : reading' = [until |-> tcur, t |-> 0, mmsi |-> NoShip, of |-> Unset]
  /\ UNCHANGED <<objs, ais_itr, updates, ais_tfile, ais_pf, ais_pos, seen, reports, owed, ais_replay>>

(* One record.  An object that is known is updated from itself (the record's  *)
(* variable is hidden by the object's).  Reading on at the end of the file    *)
(* leaves the variable as it was: the last record of this call, or an object  *)
(* without an MMSI.                                                           *)
ReadsOn == ais_tfile < reading.until /\ ais_pos <= Len(ais_pf)
ReadRecord ==
  /\ held = "read" /\ ReadsOn
  /\ reading' = IF ais_pos = Len(ais_pf) THEN reading
                ELSE [reading EXCEPT !.t = ais_pf[ais_pos + 1].t, !.mmsi = ais_pf[ais_pos + 1].mmsi,
                                     !.of = ais_pf[ais_pos + 1].of]
  /\ ais_pos' = ais_pos + 1 /\ ais_tfile' = reading'.t
  /\ LET m == reading'.mmsi
     IN  Enter(m, set_ecef_from_blh(
                    IF m \in DOMAIN objs
                    THEN update(objs[m], objs[m].m_t, objs[m].from["ATTD"], objs[m].from["POS_BLH"])
                    ELSE NewAis(ais_pos', reading'.t, reading'.of, Cut)))
  /\ UNCHANGED <<ais_pf, held, seen, reports, ais_replay>>

ReadEnds ==
  /\ held = "read" /\ ~ReadsOn
  /\ held' = "free" /\ reading' = [until |-> 0, t |-> 0, mmsi |-> NoShip, of |-> Unset]
  /\ UNCHANGED <<objs, ais_itr, updates, ais_tfile, ais_pf, ais_pos, seen, reports, owed, ais_replay>>

ObjsNext ==
  \/ push_ais \/ reset_updates \/ read_update
  \/ update_rel_pos_and_vel \/ calc_all_tdcpa \/ set_track
  \/ remove_out \/ remove_old
  \/ LockAndBegin \/ next \/ prev \/ Unlock
  \/ write_ais \/ StartAisReplay \/ read_ais \/ ReadRecord \/ ReadEnds

ObjsSpec == ObjsInit /\ [][ObjsNext]_objsVars
-------------------------------------------------------------------------------
(* Every coordinate an object says it has was computed from the last report   *)
(* of its ship, whatever was called between two reports: a relative position, *)
(* a bearing or a closest approach never outlives the report it came from.    *)
CoordinatesOfLastReport ==
  ~ais_replay =>
    \A m \in DOMAIN objs : \A d \in objs[m].m_dtype \ {"AIS"} : IsLastReport(objs[m].from[d], m)

(* The cursor and the list of updates hold no pointer to a deleted object.    *)
NoDeadPointer ==
  /\ ais_itr \in DOMAIN objs \union {NoObject}
  /\ \A i \in DOMAIN updates : updates[i][2] \in DOMAIN objs /\ updates[i] = Pointer(updates[i][2])

(* A ship with a report that read_buf has not handed out is in the list of    *)
(* updates, unless the list was reset or the ship removed.                    *)
NoUpdateLost == owed \subseteq {updates[i][2] : i \in DOMAIN updates}

(* A reader that holds the lock and walks to the end visits every object once.*)
WalkIsComplete == held = "walk" /\ ais_itr = NoObject => Enumerates(seen, DOMAIN objs)

(* If every relative position is of the last report, remove_out leaves the    *)
(* ships in range and no others.                                              *)
RemovesTheDistant ==
  [][remove_out /\ (\A m \in DOMAIN objs : "POS_REL" \in objs[m].m_dtype) /\ ~ais_replay
       => DOMAIN objs' = {m \in DOMAIN objs : \A i \in DOMAIN reports :
                                                IsLastReport(i, m) => ~reports[i].far}]_objsVars

(* After every write the log holds each ship's last report, in whatever order *)
(* ships and times came, but for one that came when the log had its time      *)
(* already: another ship's of the same cycle, or an older one.                *)
LogIsComplete ==
  [][write_ais => \A m \in DOMAIN objs : \A n \in DOMAIN reports :
       IsLastReport(n, m) /\ ~reports[n].late =>
         \E i \in DOMAIN ais_pf' : ais_pf'[i].mmsi = m /\ ais_pf'[i].of = n]_objsVars

(* Through updates, walks, removals and the log the channel shows of each ship*)
(* its last report.                                                           *)
ShipsAreTracked ==
  /\ [](CoordinatesOfLastReport /\ NoDeadPointer /\ NoUpdateLost /\ WalkIsComplete)
  /\ RemovesTheDistant /\ LogIsComplete

(* Objects hold what was computed for them, of their ships' last reports.     *)
ObjectsAreTracked == []FlaggedIsComputed /\ ShipsAreTracked
=============================================================================
