# Formal model of awsv1

awsv1 is a server for ship navigation: *filters* (shared objects loaded at run
time, each on a thread of its own) exchange data over *channels* and *tables*, a
*clock* drives them all, and clients control the process over gRPC. This
directory holds TLA+ modules for its concurrent core, the configurations that
check them with TLC, and theorems about them that TLAPS checks. Source paths
below are relative to the repository (`src/src/…`, `src/include/…`,
`src/channels/…`).

    tlc -workers 2 -config server_safety.cfg MCFilterServer     # a run
    tlapm FilterServerProofs.tla                                # proofs

`PROJECT.json` lists the runs, the line of code behind every definition, the
hazards, and for every checked property a faulty variant of a definition (the
operators marked *Faulty variant* or *A bug*) that breaks it.

## 1. Inventory

| Part | State | Operations | Hard behaviour | What makes it correct |
|---|---|---|---|---|
| Filter server (`aws.cpp`, `aws.hpp`) | maps of filters, channels and tables; `m_mtx`; `m_exit` | 20 RPC handlers on gRPC worker threads, `main()`, `~c_aws()` | handlers block on joins, on `m_mutex_cmd` and on a notify while they hold `m_mtx`; SetClockState takes no lock | a filter is not freed under a thread or a handler; Quit leaves no thread; calls are answered |
| Filter thread (`filter_base.*`) | `m_bactive`, `m_fthread`, `m_mutex_cmd`, `m_cycle`, counts; static `m_mutex`, `m_cond`, `m_count_clock` | `run`, `stop`, `fthread`, `clock_wait`, `clock`, `lock_cmd` | waits without predicate, signal outside the lock, flags read without lock | one thread per filter; `stop()` waits for it; `proc()` keeps step with the clock |
| Clock (`aws_clock.*`) | `m_state`, `m_bonline`, `m_offset`, `m_tcur`, `m_ts_start`, `m_delta`, `m_delta_adjust`, `m_period` | `start`, `restart`, `pause`, `stop`, `step`, `set_time`, `get_time`, `wait` | changed by handlers during `wait()`; corrected by filters | time does not run backwards; a cycle is not longer than its period; corrections converge |
| Table registry (`filter_base.hpp`, `table_base.*`, `aws.cpp`) | table objects, each filter's slots, references by filter name | AddTbl, DelTbl, SetTblRef, DelTblRef, GetTbl, SetTbl | slots read by filters without the handlers' lock; deletion while referenced | no slot points to a deleted table |
| Channel registry (`aws.cpp`, `channel_factory.cpp`) | channel objects, each filter's input and output lists | AddCh, DelCh, SetFltrChs | a channel is taken off the list but never deleted; filters keep it | channels of one name are one channel |
| Queue channels (`ch_binary_data_queue.hpp`, `ch_nmea.hpp`, `ch_vector.hpp`) | ring or vector behind the channel's mutex | push, pop, write, read, import, export | full and empty rings, wrap-around | first in, first out; oldest lost first |
| AIS objects (`ch_obj.*`) | map by MMSI, cursor, update list, log | reports, removal by range and age, walk, tracking, log, replay | iteration interleaved with removal; updates listed twice; records out of order | no pointer outlives its object; a ship's data are of one report; no update is lost |
| Waypoints (`ch_wp.*`) | list, three iterators, two indexes | insert, erase, reverse, focus, arrive, clear | every edit moves the iterators | index and iterator agree; no waypoint is passed over |
| State channels (`ch_state.*`, `aws_state.*`) | data with their times; rings of timed samples; log | set, import, sample, log, replay | unlocked tests before a lock; wrap-around; late samples | a value is of the time it claims; news is logged; a replay ends with the last record |
| Radar (`ch_radar.hpp`) | image of spokes, their numbers, the recent spokes | set a spoke, reset | lost spokes, wrap-around, the first turn | no energy of an earlier turn; an echo survives the thinning |
| Log (`aws_log.hpp`) | files by time, the file being written or read | write, cut, init, search, read | crash in a record; files without data | what was written is replayed, in order, from the time asked |
| NMEA, AIS decoders (`aws_nmea*`) | an object per type, fragments of long messages, a pool | decode, encode, armour | fragments lost or mixed; objects used again; bits across sextets | a message is built from its own fragments; a report is of its own sentence |
| Map (`aws_map*`, `ch_map.hpp`) | quad-tree of nodes, layer data, LRU list, files | insert, request, restructure, save | eviction while referenced or being split; restart from stale indices | the memory limit; nothing read is evicted; nothing inserted is lost |
| Calendar (`aws_clock.cpp`, `str2t.cpp`, `t2str.cpp`) | none | text to time and back | month ends, leap years, an entry before the table | one offset for all dates; text and back |
| Client (`caws.cpp`, `CmdAppBase.*`), devices, geometry | none of their own | | | |

Interactions. A client's call is served by a gRPC worker; nearly every handler
takes `m_mtx` for its whole body. RunFltr starts a filter thread and waits for its
`init_run()`; StopFltr and Quit clear `m_bactive` and join it. A filter thread
sleeps on the static condition variable `m_cond`, which only the main loop
notifies, once per `c_clock::wait()`; it holds its `m_mutex_cmd` during `proc()`,
and handlers that read or write a filter take that mutex under `m_mtx`.
Filters meet each other only in channels and tables.

The hazards this leaves are in `PROJECT.json`, each at its line.

## 2. Plan

Done: 1 `FilterService` (abstract), `FilterServer` and its refinement; 2
`FilterCycle`, whose proved range `FilterServer` uses for `m_cycle`; 3 `Clock`;
4 `FreshestFifo` and `BoundedFifo` (abstract) with `DataQueue`, `NmeaQueue` and
`RingBuffer` implementing them; 5 `Tables` with its proofs; 6 the decoders:
`Sextets`, `AisMessages`, `AisBinary`, `VdmDecoder`, `NmeaSentences`; 7 the
channels that keep something: `ObjectData`, `AisObjects`, `Waypoints`,
`StateSampler`, `StateChannel`, `EngineState`, `RadarImage`; 8 `LogFiles`,
`Registry`, `Calendar`, `MapLayers`; 9 theorems about the clock, the three rings,
the route, the fragments of AIS messages and the registry, beside those about the
server, the cycle and the tables; 10 theorems about the AIS objects, the state
channels, the samplers, the log, the radar image and the map's layers.

What is left: 11 eviction of the map's nodes, once its disagreements with the
documentation (section 7) are settled.

A component's property is a conjunction of named parts (`RouteIsKept` is
`IteratorsValid`, `IndexesAgree`, `NothingSkipped`), and most parts have a
faulty variant of their own in `PROJECT.json`.

Components that share nothing are checked in one run: a variable chosen at the
start (`kind`) says which of them the behaviour is about (`MCChannels`, which
extends `MCStores` and `MCDecoders`). The modules that theorems are about
(`DataQueue`, `NmeaQueue`, `RingBuffer`, `Waypoints`, `VdmDecoder`, `Registry`,
`ObjectData`, `AisObjects`, `StateChannel`, `EngineState`, `StateSampler`, `LogFiles`,
`RadarImage`, `MapLayers`) are extended there, so that the run checks the definitions the theorems speak of;
the others are instances. Definitions and variables carry a prefix where two of
them would meet (`nmea_head` and `ring_head` are both `m_head` in the code).

## 3. Modules

### FilterServer (`aws.cpp`, `filter_base.*`)

| Variables | Code |
|---|---|
| `filters`, `exit`, `mtx` | `c_aws::filters`, `m_exit`, the holder of `m_mtx` |
| `active`, `handle`, `cycle`, `cmd` | `m_bactive`, `m_fthread`, `m_cycle`, the holder of `m_mutex_cmd` |
| `tpc`, `tflt` | where each filter thread is in `fthread()`, and its filter |
| `hpc`, `hflt`, `todo` | where each handler is, its filter, the rest of `quit()`'s loop |
| `clk`, `main` | `m_clk.m_state`, where the main thread is |

Each handler is a chain of actions cut where it blocks or gives up a mutex:
RunFltr is `RunFilter`, `RunSpawn`, `RunReturn`; StopFltr is `StopFilter`,
`StopJoin`; Quit is `Quit`, `QuitNext` and `QuitJoin` for each filter, `QuitDone`;
SetFltrPar, GetFltrPar, SetFltrChs and the listings that lock a filter are
`SetFltrPar`, `SetParLock`, `SetParDone`; WatchFltrMsg is a loop of four. A filter
thread is `ThreadInit`, `ThreadLoop`, `ThreadWoken`, `ThreadLock`, `ThreadProc`,
`ThreadBreak`, `ThreadDestroy`. A filter's condition variable for commands is
modelled by the pair of locations `runwait` and `runwoken`. Filters are named;
one that has been deleted may be added again under its name.

`m_cycle` is drawn from `CycleRange` after each `proc()`: `FilterCycle` says which
value, and `CycleTypeCorrect` proves that it lies in the range.

The constants `RunsActive` and `RunsDuringQuit` say whether clients are
*disciplined*: no Run of an active filter or beside a Run of the same filter, and
none beside a Quit. The code checks neither. A `proc()` that returns false leaves
`m_mutex_cmd` locked (`Lost`), and the next handler to take it blocks, with
`m_mtx`; a clock stopped between `stop()`'s test and its join leaves the handler
waiting for a thread that nobody wakes.

### FilterService

The promise: a filter is loaded, runs on at most one thread, and is not unloaded,
nor the process ended, under a thread. `FilterServer` implements it with
`runners[f]` the live threads of `f` and `serving` until the destructor is done.

### FilterCycle (`f_base::fthread`, `f_base::clock`)

One filter thread, the main loop and clients that change the clock and Interval.
`cycle`, `intvl` are `m_cycle`, `m_intvl`; `age` is `m_count_clock - m_count_pre`;
`pc` follows the loop, with a step between the test of `m_cycle` and the sleep
(no lock protects it) and one between the count and the notification. `fresh`,
`late`, `lead` are history variables. `m_count_clock` is 64 bits wide and does not
overflow in the life of a process.

### Clock (`aws_clock.cpp`, SetClockState, the main loop)

The fields of `c_clock` under the names of the code without `m_`, real time
`now`, a main loop that is before, in or after `wait()`, and handlers inside
`start()`, `pause()` and so on, each cut where another thread can see the
difference: `start()` of a running clock stops it, calls itself (`CallsItself`,
`Begin`; `outer` counts the calls around it) and says RUN once more when that call
has come back (`Run`), whoever has paused or stopped the clock meanwhile; `pause()` stores the time and then changes the state. The system clock can
be set (`clock_settime`) and a sleep does not follow it. `told` remembers that a
command has changed the time since the filters last got it. The unit is 100 ns;
30 s (`LargeDelta`), the resolution and the default adjustment are constants so
that both sides of each comparison occur at small values.

### FreshestFifo, DataQueue, NmeaQueue; BoundedFifo, RingBuffer; MCChannels

`FreshestFifo` is a queue whose oldest item makes way when there is no room.
`DataQueue` is `ch_binary_data_queue`: slots, head, tail and count, with
`write_buf()` cut into one step per item (it holds the mutex throughout) because
each of its rounds is a `Put`. `NmeaQueue` is `ch_nmea`, a ring without a count.
Both implement `FreshestFifo` with `contents` read off the ring. `BoundedFifo` is
a stream that takes what it has room for, and `RingBuffer`, which is `ch_ring`
(registered as `crbuf`), implements it. Every operation holds the channel's mutex,
so that operations do not interleave. `ch_vector`, in the same file as `ch_ring`,
is registered nowhere.

### Sextets, AisMessages, AisBinary, VdmDecoder, NmeaSentences (`aws_nmea*`)

`AisMessages` translates the masks and shifts of each `dec_payload()` into tables
of parts `<<sextet, mask, shift>>`; the standard's layout, kept apart as `Bits`,
is what they are compared with. Payloads are those of `test_nmea.cpp` and, for
every bit of a message, one with that bit alone. The object of a type is used
again for each message, as in the code. Bytes are packed from sextets up to the end
of the payload and one step behind it: message 6 may write a byte there, 8 does not
(`Unpacked`, `End6`). `AisBinary` is the other way: the setters
of `s_binary_message` fill bytes, `gen_nmea()` cuts them into the sentences of ABM
and BBM. `VdmDecoder` joins the sentences of long messages, which interleave and get
lost; `m_tmp` and `m_pool` are the code's lists, `MaxTmp` its limit of ten.
`NmeaSentences` has one table per sentence: the rule of each token, the fields
`decode()` does not reset (`kept`), and the tokens the decoders read twice.

### Registry (`aws.cpp`, `filter_base.*`, `channel_factory.cpp`)

Channels made by the factory, the filters' lists of channels and their channel
parameter, filters and the references of their libraries, and the end of the
process. Every handler holds `m_mtx`, so that each is one action.

### ObjectData, AisObjects (`ch_obj.hpp`)

`ObjectData` is `c_obj` with its flags; a datum is represented by the report it was
computed from, so that a stale one shows. `AisObjects` is the channel: the map,
the cursor `itr` that all methods share, the list of updates, the log. A reader
that walks the ships holds the lock over several calls (`LockAndBegin`, `next`,
`Unlock`); reports wait meanwhile. Their times are the caller's: ships of one cycle share
theirs, and an older one may come after a newer. `late` remembers of a report that the
log had its time when it came.

### Waypoints (`ch_wp.hpp`)

The route and its iterators; an iterator is the waypoint it points to.

### StateSampler, StateChannel, EngineState (`aws_state.*`, `ch_state.*`)

`StateSampler` keeps a ring per sensor and samples them at common times; a value is
the time it was measured, an interpolated one a fraction, so that the property is
simply that a sample is of its time. Each behaviour is about two sensors of a set,
the others have data at all times. The loop in which an `add_` function samples is
cut into its turns (`sample_data`, `SamplingEnds`; `sampling` is the rate whose loop
runs). The functions that ask the ship's state for the time of a sample are declared
nowhere in the repository, only called (`aws_state.cpp:518`, 550): `NextTime` is
external, and gives a time not before the one asked, by `Lateness` at most. The `add_`
functions drop older data only, so that a sensor may be given one time twice
(`twice`): between two such values the code divides zero by zero (`Undefined`).
Turn rates and accelerations carry the interval they are a difference over.
`StateChannel` and `EngineState` are the
channels with their log: the tests that the code makes before it takes the lock
are steps of their own, as is each critical section of `write_buf()`. `buffer` and
`logging` say how far they have come; `logging` is the time `write()` was called with,
which it gives the record after the tests.

### LogFiles (`aws_log.hpp`)

The directory as a function from a file's time to its records, the writer with its
size (`last_write` is `current_timestamp`), the reader, and a crash that loses what
the stream had not written. What is left ends anywhere: at the end of a record, within
one behind its time (`Torn`), or within a time (`stub`). `read()` does not ask how much
it got: it gives a torn record with the bytes that happen to be there, of which the
model keeps the time; of a time cut short it takes the bytes there are, and keeps the
others from the time before (`Mixed`), so that the time may seem to go back and `read()`
leaves the file. The first call of `read()` looks for its file; the loop
of `get_time_index()` is cut into its turns (`get_time_index` up to the loop,
`SearchOn`, `SearchEnds`), with `search` for `imin`, `imax` and `i`, so that its end is
a property too: each turn halves what is left. The clock stands (`opening`) until
that call has returned. `logged`, `start`, `first` and `delivered` are history.

### RadarImage (`ch_radar.hpp`)

`set_spoke()` on a small turn: spread the energy, then thin the line that leaves
the beam. The first calls read before the arrays: `Suppressed` with `f = -1`. What they
find there may light a line ahead of the beam, so that `NoStaleEnergy` speaks of an
image of more than `2 * Overwrap + 1` spokes. `energy` and `finished` are history:
`energy[1]` is what the oldest of the last `2 * Overwrap + 1` spokes and those after it
have given to a line (`Share`, `Poured`), the most a line in the beam may hold. The code
takes a spoke's length with each spoke; here all have one (`Len0`), as those of one range
have: what lies beyond the end of a shorter spoke is neither renewed nor thinned.

### MapLayers (`aws_map.cpp`, `aws_map_coast_line.cpp`)

A node and two below it with their coast lines. Operators on a record `db` follow the
calls (`AddLayerData` calls `Distribute`, `Insert`, `Restruct`, `Release`, `Save` in the
code's order); an action of `MapDataBase` computes the record after it, since it
holds the database's lock. A line has 2 points in full, 1 when reduced; a closed one
may be deleted by the reduction (`Closed`, `Reduce`). `file` and
`mapIndex` are what is on disk, and a new process begins from them (`Restart`): after a
`Crash` between two calls, or within one (`CrashWithin`). A save truncates the only copy
of an index or of a layer and then writes it; `cuts` collects the disks a call passes
through while such a file is short of any lines (`FilesCut`) or an index of its layers
or its link (`IndicesBegun`). What the loops over
nodes and layers do are folds with a named operator each (`Restruct`, `Distribute`,
`Read`, `GivenUp`, `Saved`), which `MapProofs` speaks of.

### Calendar (`aws_clock.cpp`, `str2t.cpp`, `t2str.cpp`)

A time is a day and a millisecond, as TLC's integers have 32 bits. What lies before
the table of months is a variable: the offset of all dates.

### Tables (`aws.cpp`, `filter_base.hpp`, `table_base.*`)

| Variables | Code |
|---|---|
| `tbls`, `live`, `made` | `c_aws::tbls`; the objects not deleted; how many were made under a name |
| `data`, `blocks` | `t_base::data`: which data block a table has, 0 for none |
| `refs` | `t_base::refs` |
| `slot`, `held`, `obj` | `s_table_info::table`, `data` and `*obj` |
| `pc`, `left`, `cur`, `ptr` | where a filter's thread is in `update_table_objects()` |
| `touched` | history: slots changed since the thread looked at them |

A table object is a name with a number, so that a table made later under a name is
another object. Handlers are single actions, since they hold `m_mtx`; the thread
is cut at every use of a table. `~t_base()` erases from the map it iterates over:
`ClearSlots` lets it reach any of the filters but at least one. Deletion by
`clear()` is `DelFltr` of every filter and `DelTbl` of every table. Four constants
say what clients may do that the code does not check: `SharedSlots`,
`SharedDeletes`, `LiveChanges`, `EmptyTables`.

## 4. Runs

| Run | Shows | Bounds |
|---|---|---|
| `server_safety` | no lost thread, no filter freed in use, exclusion by `m_mutex_cmd`, `stop()` waits, quiet teardown; implements `FilterService` | 1 filter, 3 handlers, 2 threads: a join, a competing request and a watch at once; a thread being joined beside a new one; clock stops, failing `proc()`, spurious wake-ups. The theorems cover several filters |
| `server_liveness` | calls are answered, Quit ends the process; an active filter has its thread, `run()` reports what `init_run()` said | 1 filter, 2 handlers, clock runs or pauses |
| `cycle` | range of `m_cycle`; `proc()` is never ahead by more than two intervals; it recurs | Intervals 1 to 3, changed at any time: more than one signal missed and owed |
| `clock_online` | time given to filters does not run backwards; a pause stands still | 2 handlers, 4 commands, 6 ticks: a command inside another one, in and out of `wait()` |
| `clock_schedule` | sleep within the period; end on schedule; corrections shrink | both modes, starts only outside `wait()` and while no other start has yet to say RUN once more; errors on both sides of the resolution (2) and of `LargeDelta` (4) |
| `channels` | one part at a time, by kind: | |
| … `data`, `nmea`, `ring` | the three rings implement their queues | 3 or 4 slots, imports and blocks as long as the ring: several times round |
| … `messages` | each field of an AIS message is its bits; a report holds nothing of another ship; each message type's object used twice | the payloads of the tests and every single bit |
| … `binary` | what the setters pack, the other side reads; the sentences carry the message | arguments at the fields' limits |
| … `fragments` | messages are joined from their own sentences; buffers are neither lost nor used twice; what arrived is decoded | 4 messages of up to 3 sentences with a number in common, `MaxTmp` 2, losses |
| … `sentences` | a sentence's report is of its own tokens; satellites in order; VTG encoded and decoded | per sentence the full one, short ones and empty tokens, after any other |
| … `object`, `objects` | no data without a source; data of the last report; no dead pointer, no lost update; the walk is complete; the log is complete | 2 ships, 2 reports of times 1 and 2: equal, shared or in reverse |
| … `route` | iterators valid and equal to the indexes; nothing skipped | 3 waypoints |
| … `sampler` | samples, rates and held values are of their time | rings of 3, times 0 to 2, one of them given a sensor twice; 2 of 8 sensors at once in 6 pairs |
| … `state`, `engine` | no datum torn; all news logged; a replay reaches the end | 2 groups, times to 2, 2 calls, 2 records |
| … `log` | nothing lost, the replay is the log from the time asked, the search for its first file halves | times to 3, records of 1 or 2 bytes in files of up to 3: up to 4 files, also empty ones, and ones cut within a record or a time |
| … `registry` | libraries stay while used; no channel dangles; positions stay | 2 channels, 2 filters of a type |
| … `calendar` | one offset; text and back | every day of 5 years, of which 2000 and 2100 differ in the leap day |
| … `radar` | thinned lines show one return; echoes survive; no energy of an earlier turn | 14 lines, overlap 2, 17 spokes: once round and into the second turn, 2 echoes, losses or changes of range |
| … `map` | the LRU list's total, its limit, readers' layers stay, detail and saved lines are kept | 3 lines, one of them closed, in 2 lower nodes; layers of up to 3 points before they are reduced, memory for 4, 2 pointers, 3 insertions, 2 saves or crashes between calls or within one |
| `tables` | no deleted table in a slot or in use, references agree, `proc()` sees its own tables | 2 filters with 2 slots, 2 names used twice, 2 data blocks: a slot exchanged, a table shared, deleted and made again |

Runs that find a disagreement between the code and what its documents, messages
or tests say of it (details under `findings` in `PROJECT.json`):

| Run | Disagreement |
|---|---|
| `cycle_resync` | after one late `proc()` it is called in pairs for ever |
| `clock_pause_drift` | a paused offline clock loses time |
| `clock_resolution` | with a resolution below 100 ns corrections are never applied |
| `queue_import` | `write_buf()` wraps `m_head` by `data_size` |
| `tables_refill` | a slot that gets its former table back shows `proc()` none |

Constants of the passing runs that stand for an assumption, and what TLC finds
with the other value:

| Constant | Without the assumption |
|---|---|
| `RunsActive` (server) | a second Run overwrites `m_fthread`; `stop()` then returns under a live thread |
| `RunsDuringQuit` | a Run waiting behind Quit starts a thread after it |
| `ProcFails` | in `server_liveness`: a thread ends with `m_bactive` true and the mutex locked |
| `SpuriousWakeups` (server) | in `server_liveness`: `run()` reports before `init_run()` is done |
| `ClockCmds` without `"PAUSE"` (`clock_schedule`) | with two handlers, a `pause()` that ends after another's `start()` keeps a time of the old clock, and `wait()` sleeps from there |
| `StartsMidWait` (clock) | in `clock_schedule`: a start during `wait()` leaves a stale `m_tcur`, a sleep far above the period, and the old clock's time against the new end; of two starts at once, the first says RUN while the second has only stopped the clock, which then runs with the old `m_tcur` |
| `SharedSlots` (tables) | a table in two slots of a filter is deleted and stays in one |
| `SharedDeletes` | `~t_base()` passes over a filter |
| `LiveChanges` | a thread uses a table that was deleted after it read the slot |
| `EmptyTables` | a slot that had data is given a table without: `GetRoot()` of null |

A paused clock does not hold `proc()`: with `m_cycle` at `m_intvl` or above, which
is then kept, it is called again and again without a signal. `NeverAhead`
therefore speaks of a running clock.

Deadlock is checked in the liveness, cycle, channel and table runs (the last
spoke of `radar` may be followed by idling). It is off where
the system may stop for good: behind a lost mutex or a stopped clock
(`server_safety`), and at `MaxNow` and `MaxRequests` (clock). `MaxNow` ends time,
`MaxRequests` bounds commands and corrections,
`MaxTwice`, `MaxInserts` and `MaxSaves` the data of one time, the insertions and the saves
or crashes of the map,
`MaxMade` the tables made of a name, `MaxBlocks` the calls of SetTbl; each guards
the actions it stops.

Symmetry (`Interchangeable`) is used over handlers and threads, and over filters,
slots and names, only in `server_safety` and `tables`, which have no liveness
properties.

Fairness. `FilterServer!FairSpec` is strongly fair to each handler, each thread
and the main thread: each blocks on mutexes that others release again and again,
and both the operating system's mutexes and a polling main loop get their turn
in the end. Clients owe nothing: no fairness on requests, on SetClockState or
on spurious wake-ups. `CallsReturn` excepts a watch, which lasts as long as its
client. The run leaves STOP out of the clock's commands, since a thread can only
be joined when the clock wakes it, and lets `proc()` not fail. `FilterCycle!FairSpec`
is weakly fair to the filter thread and the main loop, none of whose steps block
except on each other.

## 5. Proofs

| Theorem | Statement | Assumes |
|---|---|---|
| `FilterServerProofs!TypeCorrect` | `Spec => []TypeOK` | constants' assumption only |
| `FilterServerProofs!CmdExclusion` | no handler is in a filter during its `proc()` | constants' assumption only |
| `FilterServerProofs!FiltersAreOwned` | `Spec => []FiltersInUseStay`: live threads own loaded filters, handlers use loaded filters, inactive filters are quiet | `Disciplined` |
| `FilterServerProofs!TeardownIsQuiet` | no thread at teardown | `Disciplined` |
| `FilterServerProofs!StopWaits` | `stop()` waits for the thread | `Disciplined` |
| `FilterServerProofs!ActiveHasThread` | an active filter has a thread in its loop | `Disciplined`, no failing `proc()` |
| `FilterServerProofs!RunReports` | `run()` reports only after `init_run()` | `Disciplined`, no spurious wake-up |
| `FilterServerProofs!ServerImplementsService` | `Spec => ImplementsService` | `Disciplined` |
| `FilterCycleProofs!CycleTypeCorrect` | range of `m_cycle` | constants' assumption only |
| `FilterCycleProofs!CatchingUpIsBounded` | `Spec => []NeverAhead` | constants' assumption only |
| `ClockProofs!ClockTypeCorrect` | `Spec => []TypeOK` | constants' assumption only |
| `ClockProofs!PausedClockStands` | a paused clock's time stands still | starts are online |
| `ClockProofs!ClockRunsForward` | time given to filters runs backwards only by a command | `Uncorrected`: the system clock is not set; `PausesOnline`: no `pause()` of an offline clock |
| `ClockProofs!SleepsAtMostPeriod` | `wait()` sleeps no longer than its period and what it was set back by | no start during `wait()` or while another has yet to say RUN once more; `OnePauses`: no `pause()` beside another client |
| `ClockProofs!StopsPastEnd` | the clock is stopped only past its end | no start during `wait()` or while another has yet to say RUN once more, no `pause()` |
| `ClockProofs!CorrectionsConverge` | a correction shrinks with each `wait()` | the clock can be set, resolution of 100 ns or more |
| `ChannelProofs!QueueTypeCorrect` | indices and count of the ring agree | `SafeSizes` |
| `ChannelProofs!QueueImplementsFifo` | the ring is a `FreshestFifo` | `SafeSizes` |
| `ChannelProofs!NmeaIsFifo` | the ring without a count is a `FreshestFifo` of one item less | constants' assumption only |
| `ChannelProofs!RingIsStream` | `ch_ring` is a `BoundedFifo` | constants' assumption only |
| `TablesProofs!TablesTypeCorrect` | the registry agrees with the live tables | constants' assumption only |
| `TablesProofs!NoDanglingSlot` | `Spec => []SlotsAreLive` | `Disciplined` |
| `TablesProofs!ReferencesAreSlots` | `Spec => []RefsMatchSlots` | `Disciplined` |
| `TablesProofs!UpdateIsSafe` | the unlocked look through the slots uses live tables with data | `Disciplined` |
| `TablesProofs!ProcSeesItsTables` | `proc()` sees its own tables, or a slot was touched under it | constants' assumption only |
| `StoreProofs!RouteStays` | `RouteSpec => []RouteIsKept` | constants' assumption only |
| `StoreProofs!MessagesReassemble` | `VdmSpec => MessagesArriveWhole` | constants' assumption only |
| `StoreProofs!ConnectionsLast` | `RegSpec => ConnectionsStay` | nothing |
| `StoreProofs!LogComesBack` | `LogSpec => LogIsReplayed` | constants' assumption only |
| `StateProofs!StatesStayLogged` | the state channels: `StatesAreLogged`, with the refinements it names | constants' assumption only |
| `StateProofs!EchoesStay` | `RadarSpec => EchoesAreKept` | constants' assumption only: more than `6 * Overwrap + 1` lines (the code has 1440, and an overlap of 10) |
| `StateProofs!SamplesStayTimed` | `SamplerSpec => []SamplesFitTheirTime` | constants' assumption only |
| `ChannelProofs!ObjectsStayTracked` | the AIS objects: `ObjectsAreTracked` | constants' assumption only |
| `MapProofs!LinesStay` | `MapSpec => LinesAreKept` | constants' assumption only: finitely many lines, each in one of the lower nodes; limits are naturals |

The server's argument. `MtxInv` says that the handlers between lock and unlock are
the holder of `m_mtx`, hence at most one; `CmdInv` that whoever uses a filter
holds its `m_mutex_cmd`; exclusion follows. That a live thread's filter is loaded
is not inductive: `del_filter()` relies on `m_bactive`, so an inactive filter must
be quiet (`InactiveIsQuiet`), which holds because `stop()` keeps `m_mtx` until its
join, which needs the handle (`ThreadOwnsFilter`), which a late Run would
overwrite (`RunInv`) and a Run behind Quit would add to (`QuitInv`). `OwnInv` is
their conjunction; each conjunct's step uses the others. `RunInv` and `QuitInv`
are where `Disciplined` is used, and TLC shows that it is needed (section 4). The
refinement adds that every step either leaves `runners` alone or is one of the
service's. That an active filter has its thread needs that `m_fthread` is a
thread of that filter which nobody has joined (`HandleInv`: no two filters have
the same one), and that a thread breaks out of its loop only when `m_bactive` is
false (`LeavesInactive`). `run()`'s report needs that the thread it waits for is
the one it has made, and signals after `init_run()` (`WaitInv`).

The cycle's argument: a thread in the waiting loop was tested against its interval,
so that a signal adds at most one below the largest interval (`CycleInv`).
`NeverAhead` needs a measure: a count takes one off `lead` and adds one each to
`age` and, with its signal, to `m_cycle`, so that twice `lead` with both of them,
and with a count not signalled yet, does not grow (`LeadInv`); `proc()` is called
when `m_cycle` is an interval, and what is above that is forgotten.

The clock's argument has an invariant for each property. A clock only ever started
online is online wherever its time is used (`OnlineInv`), which is why its pause
stands. What was published is not later than what would be published now
(`NotLater`), unless a command has changed the time. `m_tcur` is not ahead of what
`wait()` will compare it with (`SleepInv`, `Base`), but for a stopped clock, which
no `pause()` brings back and no `start()` that another handler began (`NobodyRevives`);
with a `pause()` beside a `start()` one does: TLC finds
`start()` between its two steps, offline already with `m_tcur` of the old clock,
when `pause()` sets `m_state`, and a sleep of four periods. The end of the
schedule is tested with the time just published (`PublishedIsPast`); a correction
moves by an adjustment that is positive (`AdjustPositive`).

The queues' arguments: `QueueInv` adds to the types that every slot counted has been
written. `Slot` states a place in the ring without the modulus; the lemmas
`StoredPlaces` and `Popped` say where the other items are after an operation, and
`StoredAppends` that the sequence read off the ring is the old one with the item
at its end. `SafeSizes` is `DataSize = BufferSize`, as in the repository's test, or
no use of `write_buf()`; `queue_import` shows that it is needed. `NmeaInv` says the
same of a ring without a count, where `Between` gives the number from head and
tail; what `PushNmeaTooLong` overwrites is the slot that is always free. For blocks,
`Place` and `Behind` are offset and distance without the modulus; `RingTypeOK`,
which ties head, tail and count together, is inductive.

The tables' argument: `TablesInv` adds to the two properties that a filter has a
table in at most one slot (`OneSlot`), so that clearing one slot clears the filter
and giving up a reference gives up the last; that a thread's pointer is still its
slot's (`ReadsSlot`), since only an inactive filter's slots are exchanged; and that
a slot that has held data has a table with data (`KeepsData`). `Disciplined` is
that none of the four constants is TRUE, and each is needed. What `proc()` sees
needs no discipline: what a slot shows is of the block it holds (`ShowsHeld`), and
a slot that the thread has looked at and nobody has touched since shows its table
(`SeenShowTables`).

The route's argument: an iterator stands at the place its index says and the
waypoints are distinct (`RouteInv`), so that the place of an iterator after an edit
is the place of its waypoint; `Inserted`, `Erased` and `Reversed` say what becomes
of the places. `find_next()` returns the first waypoint without an arrival time:
that there is a least such index is `LeastNatural`, from the library's
well-foundedness of the naturals with a set in place of a predicate.

The fragments' argument: `NothingMixed` alone is not inductive, since a buffer can be
taken up by a later message with its number. `VdmInv` says what must hold while no
sentence with that number has been lost: one buffer has that number (`Single`), and
it holds what has come of the one message in progress (`Kept`, `OfOne`,
`OneAtATime`); a message in progress that is in no buffer has had its own freed to
make room (`Tracked`), which is why the promise excepts that. `Finished` says what
`decode()` hands on and leaves behind.

The objects' argument: a conversion's result is flagged only beside what it was computed
from (`TargetInv`). In the channel every object's data are of one report (`OfReport`),
which is the ship's last (`ObjectsAreOfLast`); the cursor and each entry of the list of
updates lead to an object in the map (`NoDeadPointer`); a walk has seen exactly the
ships below the cursor, in order (`WalkVisits`), which makes it complete when it reaches
the end; and a last report that is not newer than the log's time is in the log, unless that was the
log's time when it came (`LogKeeps`). What two
objects differ in is compared by a lemma for each operation on one object (`UpdateIs`),
so that the channel's lemmas do not open it.

The states' argument: a datum and its time were given in one call (`Among`), in the
channel, in what it has fed to the sampler, in the record being written and in every
record of the log (`GoodData`, `DataAreWhole`), although the three critical sections of
`write_buf()` lie apart (`BufferWasGiven`); the times that `write()` compares with are
those of the last record (`LogTimesAreWritten`), so that what it passes over is not
newer than the log; and a replay holds the record it read last (`ReplayFollowsLog`). The
engine has one time for all its groups (`TimeIsTheLast`).

The samplers' argument: a ring holds times that do not increase from its newest value back, with
-1 where nothing was written yet (`GoodRing`), so that the search for a time ends at the
two neighbours of it (`FindIs`), between which the interpolated value is the time itself
(`WeightsMeet`), whatever the ring's size and however far it wraps; where the two
neighbours are of one time, the sensor has been given it twice (`TwinsKnown`); that there is a
nearest place at all is `LeastIs`. The samples are a ring of the same kind
(`GoodSampler`): only the newest one's rate may end at its own time, and the turn of the
loop that adds a sample gives the one before it a rate that reaches past it.

The radar's argument: the last spokes lie one or two lines apart and carry their numbers
(`RecentAre`), and no other line has a number later than the antenna can have been there
(`NumbersAreOld`), so that a line is renewed by the first spoke that reaches it in a
turn. Hence a line in the beam holds at most the energy of its own spoke, the one
before and those after (`RecentHold`), the lines ahead only the last spoke's
(`AheadHold`), and in the first spokes of an image nothing lies further ahead
(`RestIsDark`). What is
cut from a line that leaves the beam must not reach round to its front: the line just
ahead of the beam is dark or of an earlier turn (`GapAhead`), which ends the blob. A
line that is cleared lies within the overlap of one that is lit (`SideIsLit`).
`Turned` and `Off` state the places on the turn without the modulus.

The log's argument: the records of the files follow each other as the files do
(`FilesOK`, `RecordsFollow`); the files hold what was logged and nothing else
(`LoggedOK`); the file being written is the last one, and its records are the last ones
logged, so that a crash takes the same records from both (`WriterOK`). A torn record is the last
of its file (`CutsOK`). A replay has
given exactly what lies behind its place in the files (`Behind`, `DeliveredOK`), and
opening the next file moves no record across that line, whether the file is empty or
not (`OpenNextIs`). A time cut short never stands for a record: it is read at the end of its
file (`ReadTimeIs`, `GoesOnIs`), and only the record before it, if it is the log's last, can be
lost to the caller (`Hidden`). The search keeps its time between the files at its ends
(`SearchOK`), which is why it always finds one, and never the one at its upper end.

The registry's argument: a library counts exactly the filters made from it, from
AddFltr to the end of the process, where `clear_aws` deletes the filters before it
closes the libraries; no channel is deleted until then (`RegInv`). That a channel
keeps its place is an action property: lists only grow at their end.

The map's argument: `MapInv` says what the database is between two calls. The list,
its total and the layers in memory agree, a layer that is not to be saved is on file
as it is in memory, and nodes below with a layer are linked (`DbOK`). None of this
holds inside a call: `OKBut` names the layer that has been taken off the list, and the
one whose file is behind. `Bounded` holds because every call that adds to
the total ends with an insertion, before which layers left the list until there was
room or readers held all others (`RestructIs`, `Ends`). That detail is kept needs that
a line that is whole above is whole below once there are nodes below (`Detailed`),
since `abstract()` reduces what it has handed down only when the nodes are made; that
what was saved is found needs the same of the files (`Filed`, `Backed`), since a crash
makes them the layers, and that no node below waits to be saved alone (`Settled`), since
`save` would not find it. A call may end the process at any of its `cuts`: each is a disk
from which a process can start (`MapInv` holds after `Restart`), and on those where the
upper node's file and index are as they were, what was saved is found. Readers change none of this (`Reads`). The sums and the folds
over lists of any length need induction: `Inductive` takes a set for a predicate, from
the library's well-foundedness of the naturals; `SumAt` takes any element of a sum
first, and a fold is the last element of a sequence of steps (`IsRun`), whose kinds are
values (`FoldStep`), so that one lemma serves all five folds.

Only model-checked: liveness (`ProcRecurs`, `CallsReturn`, `QuitTerminates`: fairness
and ENABLED are beyond the prover); what a table of masks, sentences or dates computes
(`AisBitsSurvive`, `SentencesAreReported`, `TimeIsOfItsText`), which is a finite
comparison and better left to TLC.

## 6. Not modelled

Contents of messages, parameters and channels where no property depends on them;
logging; loading of shared objects (`dlopen` may fail: AddFltr then changes
nothing); the widths of `m_count_clock` and of times (64 bits). The RPC library is
a set of worker threads. What is left out of each component, and why, is in
`PROJECT.json`; the larger parts:

- geometry in floating point (`aws_coord`, `aws_math`, the collision tests of the
  map, the reduction's choice of points, depth bitmaps);
- eviction and deletion of map nodes: see the last section for what stands in the
  way of a promise to check;
- of the map after a crash within a save: the points and lengths that `load()` makes of a
  file that ends early (the lines missing from it are modelled), and the triangle of an
  index cut before its corners;
- the records behind a lock (`ch_radar_state`, `ch_aws1_sys`, `ch_time_sync`), the
  library's queue in `ch_radar_ctrl`, `map_oval()`, which nothing calls;
- clients, devices, configuration files, the sample filter.

## 7. Disagreements without a run

Met while modelling; the models do what the code does, and the properties except
these cases by name. No run claims them, since no document states the contrary
or the effect lies outside the models.

Clock. A `start()` that has called itself sets `m_state` to RUN once more
(`aws_clock.cpp:250`), which undoes a `pause()` or `stop()` of another handler, or lets
the clock of another `start()` run before its time is set.

Server. `get_table(type, name)` dereferences the table it looked up before the
branch for a missing one is reached (`aws.cpp:861`; GetTbl likewise, line 350):
`SetTbl` takes known names. WatchFltrMsg names the filter in its error message
when it no longer holds `m_mtx` (`aws.cpp:448`); the model ends the stream there.
`ch_vector::pop()` looks at the size before it takes the lock.

Decoders. `gen_nmea()` takes the maximum of the number of sentences and nine
(`aws_nmea_ais.cpp:2033`), so that every long message is sent in nine, the last
ones with one sextet each. `pvc2`/`pvc4` do not extend the sign of position;
`set_msg_c8()` never advances; `set_msg_hex()` accepts only upper case;
nothing bounds `msg[120]`. Message 6 takes its retransmit flag from bit 71;
messages 1 to 3 report accuracy 0; 24 loses a bit of the ship's type and its part B
comes with the last name seen; 6 and 8 report 115 and 119 bytes whatever came, and 6 writes one byte behind a payload
whose length is a multiple of four (`aws_nmea_ais.cpp:800`). The
last token of a sentence is read again for the ones that are missing; GGA's fix
status stands in for a missing number of satellites, its default directions are
exchanged, and `encode()` loses the south and west; GLL writes a negative latitude;
RMC, VTG, GLL, ROT and ABK keep fields of the last sentence; ZDA ends in `**`; XDR's
ROLL is never found, since its token includes the checksum.

Objects, route, state. `set_vel_ecef_from_blh()` asks for the position's flag and
uses the velocity; `set_pos_bd()` drops all flags; `calc_tdcpa()` divides by a
relative velocity that may be zero; `c_ais_obj` logs four bytes of its doubles; a
replay updates a ship from itself (`ch_obj.hpp:948`) and goes on with the last
record at the end of the file. The log takes objects newer than the newest it has written
(`ch_obj.hpp:926`): a ship reported in the same cycle, but after that write, is not logged
until its next report. `ch_wp::clear()` leaves `inext`. `get_10hz_data()`
refuses no index below zero and returns nothing at its end; the sampler
divides zero by zero between two values of one time, which the `add_` functions take:
`ch_state` refuses, for attitude, position and velocity, a time that is the last one given,
and nothing for the others. Its turn rates over a symmetric interval go to the
sample in the middle, its accelerations to the one at the end (`aws_state.cpp:622`),
which `RatesAroundSample` allows for these only. `ch_state` feeds the sampler the attitude before the
one set; `write()` overlooks weather and writes altitude each time.

Radar. In the first calls `fixed_spoke` is -1: they read `m_history[-1]` and lines before
the array, may clear numbers and may light a line ahead of the beam. A blob never counts more lines than
the overlap, so that the comment's wide blob does not occur, and one of an even
width keeps its farther half. After a spoke shorter than the one before, the pixels beyond
its end stay. `set_rain()` assigns `m_rain_mode` to itself.

Map. `remove()` returns false for leaves, which its comment names as the only
nodes it is for; on others it puts in a layer without a node, which is never
active, so that `merge()` drops what it is given. The reduction deletes closed lines it
leaves three points (`aws_map_coast_line.cpp:243`, 331); the layer may be released to its
file before the index that names the nodes below, which have the line in full, so that a
crash loses it. A crash within a save loses what the file held, since it is truncated
first (`aws_map.cpp:1110`, 526). `Node::restruct()` drops a node's
layers before it saves the node's index, and may free the parent of the node being
loaded. `~LayerDataPtr()` changes the list without the database's lock.

Log, registry, calendar. `get_time_index()` indexes the list of files when it is
empty; a replay of the model begins with a file. `read()` (`aws_log.hpp:274`) does not look
at how much it has read: a record cut by a crash comes out with what was in the buffer, and
when its next time is cut short it returns false with the last record in the buffer. Two files of one time: the second truncates the first.
`del_channel()` deletes nothing and reports success; `set_fltr_io_chs()` appends.
`decTmStr()` refuses the 31st and `str2t` December; `mkgmtimeex()` reads the entry
before the table of months, and is not the inverse of `gmtimeex()`.
