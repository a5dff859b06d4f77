------------------------------- MODULE LogFiles -------------------------------
(* c_log of aws_log.hpp: records with a time go to files, a new one when the  *)
(* old would grow too large, named by the time of their first record; a replay*)
(* starts in the file its time asks for and goes on from file to file.  A     *)
(* record is its time and its size in the file, which write asks to be more   *)
(* than 0; what a crash left of a record keeps its time or only a part of it. *)
EXTENDS Integers, Sequences, FiniteSets, Functions

CONSTANTS MaxTime, Sizes, size_max

ASSUME LogAssumption == MaxTime \in Nat /\ Sizes \subseteq Nat \ {0}

VARIABLES files,                         \* the directory: records by a file's time
          stub,                          \* files that end with a part of a time: the whole one
          ofile, total_size, last_write, \* the writer; last_write: its current_timestamp
          logClock,
          logged,                        \* what write took and no crash took or cut
          replaying, start, first, time_stamps, \* the reader, the time and file of its first read
          opening, search,               \* where in its first read it is; imin, imax and i of its loop
          index, timestamp, ifile, at, eof,   \* at: times read from ifile so far
          delivered

writerVars == <<files, stub, ofile, total_size, last_write, logged>>
readerVars == <<index, timestamp, ifile, at, eof>>
replayVars == <<replaying, start, first, time_stamps, opening, search, readerVars, delivered>>
logVars == <<writerVars, logClock, replayVars>>

NoFile == 0
Torn == 0   \* the size of a record that a crash has cut behind its time
Halfway(imin, imax) == [imin |-> imin, imax |-> imax, i |-> imin + ((imax - imin) \div 2)]

LogInit ==
  /\ files = [s \in {} |-> <<>>] /\ stub = [s \in {} |-> 0] /\ ofile = NoFile /\ total_size = 0 /\ last_write = -1
  /\ logClock = 1 /\ logged = <<>>
  /\ replaying = FALSE /\ start = -1 /\ first = NoFile /\ time_stamps = <<>>
  /\ opening = "idle" /\ search = Halfway(0, 0)
  /\ index = -1 /\ timestamp = -1 /\ ifile = NoFile /\ at = 0 /\ eof = FALSE
  /\ delivered = <<>>
-------------------------------------------------------------------------------
\* A bug: the file is named by the record before.
NamedByLast(t) == last_write
FileName(t) == t

\* The directory with a file as it is written to.
WithFile(name, records) == [s \in DOMAIN files \union {name} |-> IF s = name THEN records ELSE files[s]]

(* write, with times that increase (open_new_write_file truncates: a second   *)
(* file of the same time would replace the first).                            *)
write ==
  /\ ~replaying
  /\ \E t \in logClock..MaxTime, n \in Sizes :
       LET rec == [t |-> t, n |-> n]
           fresh == ofile = NoFile \/ total_size + n > size_max
       IN  /\ t >= last_write
           /\ ofile' = IF fresh THEN FileName(t) ELSE ofile
           /\ files' = WithFile(ofile', IF fresh THEN <<rec>> ELSE Append(files[ofile], rec))
           /\ total_size' = IF fresh THEN n ELSE total_size + n
           /\ last_write' = t /\ logClock' = t + 1
           /\ logged' = Append(logged, rec)
  /\ UNCHANGED <<stub, replayVars>>

(* destroy leaves an empty file that marks the end.                           *)
destroy ==
  /\ ~replaying /\ ofile # NoFile
  /\ files' = IF last_write > 0 THEN WithFile(last_write + 1, <<>>) ELSE files
  /\ ofile' = NoFile /\ last_write' = -1
  /\ UNCHANGED <<stub, total_size, logClock, logged, replayVars>>

(* A crash loses what the stream had not written yet, which ends anywhere: of *)
(* the first record lost the file may hold the time and not all of the rest,  *)
(* or a part of the time.                                                     *)
LogCrash ==
  /\ ~replaying /\ ofile # NoFile
  /\ \E k \in 0..Len(files[ofile]) :
       LET kept == SubSeq(files[ofile], 1, k)
           cut == files[ofile][k + 1]
       IN  /\ logged' = SubSeq(logged, 1, Len(logged) - (Len(files[ofile]) - k))
           /\ \/ files' = WithFile(ofile, kept) /\ UNCHANGED stub
              \/ /\ k < Len(files[ofile])
                 /\ files' = WithFile(ofile, Append(kept, [cut EXCEPT !.n = Torn])) /\ UNCHANGED stub
              \/ /\ k < Len(files[ofile])
                 /\ files' = WithFile(ofile, kept)
                 /\ stub' = [s \in DOMAIN stub \union {ofile} |-> IF s = ofile THEN cut.t ELSE stub[s]]
  /\ ofile' = NoFile /\ last_write' = -1 /\ total_size' = 0
  /\ UNCHANGED <<logClock, replayVars>>
-------------------------------------------------------------------------------
\* init in read mode lists the files and sorts their times.
init ==
  /\ ~replaying /\ ofile = NoFile /\ DOMAIN files # {}
  /\ replaying' = TRUE /\ logClock' \in 0..(MaxTime + 1)
  /\ time_stamps' \in {ts \in [1..Cardinality(DOMAIN files) -> DOMAIN files] :
                         /\ Range(ts) = DOMAIN files
                         /\ \A i, j \in DOMAIN ts : i < j => ts[i] < ts[j]}
  /\ UNCHANGED <<writerVars, start, first, opening, search, readerVars, delivered>>

Reader == [index |-> index, timestamp |-> timestamp, ifile |-> ifile, at |-> at, eof |-> eof]
ReaderBecomes(r) ==
  /\ index' = r.index /\ timestamp' = r.timestamp /\ ifile' = r.ifile /\ at' = r.at /\ eof' = r.eof

(* Reading a time.  At the end of the file it fails, and leaves the variable  *)
(* as it was, or with the low bytes of the part that is there: with the high  *)
(* ones of an earlier time that is no later than the whole time, with those of*)
(* the initial -1 it is negative.  A second try does nothing.                 *)
Mixed(t, whole) == IF t < 0 THEN {-1} ELSE 0..whole
ReadTime(r) ==
  IF r.at < Len(files[r.ifile])
  THEN {[r EXCEPT !.timestamp = files[r.ifile][r.at + 1].t, !.at = @ + 1]}
  ELSE IF r.eof \/ r.ifile \notin DOMAIN stub THEN {[r EXCEPT !.eof = TRUE]}
  ELSE {[r EXCEPT !.timestamp = x, !.eof = TRUE] : x \in Mixed(r.timestamp, stub[r.ifile])}

Stamp(i) == time_stamps[i + 1]
OpenRead(r, i) == [r EXCEPT !.index = i, !.ifile = Stamp(i), !.at = 0, !.eof = FALSE]

\* The first file is found: open it and read its first time.
OpenFirst(i) ==
  /\ \E r \in ReadTime(OpenRead(Reader, i)) : ReaderBecomes(r)
  /\ first' = Stamp(i) /\ opening' = "opened" /\ UNCHANGED search

(* The first read looks for its file: get_time_index up to its loop, a turn of*)
(* the loop, and the turn that returns.  i is between imin and imax, so that  *)
(* the loop never returns imin.                                               *)
get_time_index ==
  /\ replaying /\ index = -1 /\ opening = "idle"
  /\ start' = logClock
  /\ LET imax == Len(time_stamps) - 1
     IN  IF logClock < Stamp(0) THEN OpenFirst(0)
         ELSE IF logClock >= Stamp(imax) THEN OpenFirst(imax)
         ELSE /\ search' = Halfway(0, imax) /\ opening' = "search"
              /\ UNCHANGED <<readerVars, first>>
  /\ UNCHANGED <<writerVars, logClock, replaying, time_stamps, delivered>>

Returns(i) == IF Stamp(i) > logClock THEN i = search.imin ELSE Stamp(i + 1) > logClock

\* A bug: the search goes on from the file it has looked at.
Narrowed_Inclusive(i) == IF Stamp(i) > logClock THEN Halfway(search.imin, i) ELSE Halfway(i, search.imax)
Narrowed(i) == IF Stamp(i) > logClock THEN Halfway(search.imin, i) ELSE Halfway(i + 1, search.imax)

SearchOn ==
  /\ opening = "search" /\ ~Returns(search.i)
  /\ search' = Narrowed(search.i)
  /\ UNCHANGED <<writerVars, logClock, replaying, start, first, time_stamps, opening, readerVars, delivered>>

\* A bug: when the time is between two files, it is the later one.
Found_Later(i) == i + 1
Found(i) == i

SearchEnds ==
  /\ opening = "search" /\ Returns(search.i)
  /\ OpenFirst(Found(search.i))
  /\ UNCHANGED <<writerVars, logClock, replaying, start, time_stamps, delivered>>

(* open_read_next_file, and the first time in it.                             *)
\* A bug: a file with nothing in it is taken for the end of the log.
StopsAtEmpty(r) ==
  LET i == IF r.index = Len(time_stamps) THEN r.index ELSE r.index + 1
  IN  IF i = Len(time_stamps) \/ files[Stamp(i)] = <<>>
      THEN {[r EXCEPT !.index = i, !.ifile = NoFile, !.eof = FALSE]}
      ELSE ReadTime(OpenRead(r, i))
OpenNext(r) ==
  LET i == IF r.index = Len(time_stamps) THEN r.index ELSE r.index + 1
  IN  IF i = Len(time_stamps) THEN {[r EXCEPT !.index = i, !.ifile = NoFile, !.eof = FALSE]}
      ELSE ReadTime(OpenRead(r, i))

(* read gives the record whose time has been read, if it is due, and reads on *)
(* to the next one's time.  What a crash has left of a record is given like   *)
(* any other: its time, and data of which nothing is asked.  A time that goes *)
(* back, as a mixed one can, makes it leave the file; if that was the last one*)
(* it returns false, with the record in the caller's buffer.                  *)
RecordDue == ifile # NoFile /\ timestamp <= logClock
GoesOn(r) == IF r.eof THEN OpenNext(r) ELSE {r}
Gives == delivered' = IF eof THEN delivered ELSE Append(delivered, files[ifile][at])

read ==
  /\ replaying /\ index # -1 /\ opening # "search"
  /\ \/ ~RecordDue /\ UNCHANGED <<readerVars, delivered>>
     \/ /\ RecordDue
        /\ \E r \in ReadTime(Reader) :
             \/ r.timestamp >= timestamp /\ Gives /\ \E q \in GoesOn(r) : ReaderBecomes(q)
             \/ /\ r.timestamp < timestamp
                /\ \E q \in OpenNext(r) :
                     \/ q.ifile = NoFile /\ ReaderBecomes(q) /\ UNCHANGED delivered
                     \/ q.ifile # NoFile /\ Gives /\ \E p \in GoesOn(q) : ReaderBecomes(p)
  /\ opening' = "idle"
  /\ UNCHANGED <<writerVars, logClock, replaying, start, first, time_stamps, search>>

TimePasses ==
  /\ replaying /\ opening = "idle" /\ logClock <= MaxTime /\ logClock' = logClock + 1
  /\ UNCHANGED <<writerVars, replayVars>>

LogNext ==
  \/ write \/ destroy \/ LogCrash
  \/ init \/ get_time_index \/ SearchOn \/ SearchEnds \/ read \/ TimePasses

LogSpec == LogInit /\ [][LogNext]_logVars
-------------------------------------------------------------------------------
\* The records of the files from a time on, also the cut ones.
RecordsFrom(t) == UNION {Range(files[s]) : s \in {u \in DOMAIN files : u >= t}}
Chronological(records) == \A i, j \in DOMAIN records : i < j => records[i].t < records[j].t

\* The record that a part of a time at the end of the log may hide.
LastBeforeStub ==
  {files[s][Len(files[s])] : s \in {u \in DOMAIN stub : files[u] # <<>> /\ \A v \in DOMAIN files : v <= u}}

(* Whatever the sizes, restarts and crashes: every record write took is in    *)
(* the files, in order, so no file replaces an older one.  A crash leaves at  *)
(* most one cut record of a file, the last.                                   *)
NothingLost ==
  /\ Chronological(logged) /\ Range(logged) = {a \in RecordsFrom(0) : a.n # Torn}
  /\ \A s \in DOMAIN files : /\ Chronological(files[s])
                            /\ \A k \in DOMAIN files[s] : files[s][k].n = Torn => k = Len(files[s])
  /\ \A s, u \in DOMAIN files : s < u =>
       \A a \in Range(files[s]), b \in Range(files[u]) : a.t < b.t

(* A replay gives the records of its first file and all later files, each     *)
(* once and in order, through files left empty or cut by an end or a crash, a *)
(* cut record in its place; when it has no file left it has given all of them,*)
(* but for the last one if a part of a time lies behind it.                   *)
ReplayIsTheLog ==
  index # -1 =>
    /\ Chronological(delivered) /\ Range(delivered) \subseteq RecordsFrom(first)
    /\ \A a \in RecordsFrom(first), b \in Range(delivered) : a.t < b.t => a \in Range(delivered)
    /\ ifile = NoFile => RecordsFrom(first) \subseteq Range(delivered) \union LastBeforeStub

(* No record at or after the time the replay was started for is passed over,  *)
(* but that one, and it does not begin with an earlier file than it needs to. *)
NoneBeforeStart ==
  index # -1 =>
    /\ \A s \in DOMAIN files : s > first => s > start
    /\ ifile = NoFile =>
         \A a \in Range(logged) : a.t >= start => a \in Range(delivered) \union LastBeforeStub

(* Each turn of the search for the first file halves what is left.            *)
SearchHalves ==
  [][opening = "search" /\ opening' = "search" =>
       2 * (search'.imax - search'.imin) <= search.imax - search.imin]_logVars

(* What is written comes back, in order and from the time asked for, through  *)
(* files cut by size, restarts and crashes; what a crash cuts short is given  *)
(* in its place, or takes the log's last record with it.                      *)
LogIsReplayed == [](NothingLost /\ ReplayIsTheLog /\ NoneBeforeStart) /\ SearchHalves
=============================================================================
