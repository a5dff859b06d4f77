-------------------------------- MODULE Tables --------------------------------
(***************************************************************************)
(* Flatbuffer tables: c_aws makes, fills and deletes them                  *)
(* (src/src/aws.cpp), a filter has slots that point to them                *)
(* (src/include/filter_base.hpp), a table keeps the filters that refer to  *)
(* it (src/include/table_base.hpp, src/src/table_base.cpp), and a filter's *)
(* thread looks through its slots before each proc().                      *)
(*                                                                         *)
(* Handlers hold m_mtx from end to end and so are single actions.  A       *)
(* filter's thread holds only its own m_mutex_cmd, which the handlers of   *)
(* tables do not take: its actions are cut at each use of a table.         *)
(***************************************************************************)
EXTENDS Naturals

CONSTANTS
  Filters, Slots,   \* filters, and the names each has given to register_table()
  Names,            \* of tables
  MaxMade,          \* bound: how often a table of one name is made
  MaxBlocks,        \* bound: how many data blocks SetTbl allocates
  None,             \* nullptr; no slot
  \* What clients do that the code does not check:
  SharedSlots,      \* two slots of one filter are given the same table
  SharedDeletes,    \* a table is deleted while several filters refer to it
  LiveChanges,      \* a slot's table is exchanged or deleted while its filter runs
  EmptyTables       \* a used slot is given a table that has no data

\* A table object; one made later under the same name is another object.
Objects == Names \X (1..MaxMade)

NoData == 0

ASSUME TablesAssumption ==
  /\ MaxMade \in Nat /\ MaxBlocks \in Nat
  /\ None \notin Objects \union Slots
  /\ SharedSlots \in BOOLEAN /\ SharedDeletes \in BOOLEAN
  /\ LiveChanges \in BOOLEAN /\ EmptyTables \in BOOLEAN

VARIABLES
  tbls,      \* c_aws::tbls
  made,      \* number of tables made of each name
  live,      \* table objects that have not been deleted
  data,      \* t_base::data: the data block of each table
  blocks,    \* data blocks allocated so far
  refs,      \* t_base::refs
  loaded,    \* filters in c_aws::filters
  slot,      \* s_table_info::table
  held,      \* s_table_info::data, which keeps the block allocated
  obj,       \* *s_table_info::obj: what proc() reads
  pc,        \* where each filter's thread is; "off" without one
  left,      \* slots the thread has yet to look at
  cur, ptr,  \* the slot it looks at, and the table it found there
  touched    \* slots a handler has changed since the thread looked at them

clientVars == <<tbls, made, live, data, blocks, refs, loaded, slot>>
threadVars == <<held, obj, pc, left, cur, ptr>>
vars == <<clientVars, threadVars, touched>>

Init ==
  /\ tbls = [n \in Names |-> None] /\ made = [n \in Names |-> 0]
  /\ live = {} /\ data = [o \in Objects |-> NoData] /\ blocks = 0
  /\ refs = [o \in Objects |-> {}]
  /\ loaded = {}
  /\ slot = [f \in Filters |-> [s \in Slots |-> None]]
  /\ held = [f \in Filters |-> [s \in Slots |-> NoData]]
  /\ obj = held
  /\ pc = [f \in Filters |-> "off"]
  /\ left = [f \in Filters |-> {}]
  /\ cur = [f \in Filters |-> None] /\ ptr = cur
  /\ touched = [f \in Filters |-> {}]

Holders(o) == {f \in Filters : \E s \in Slots : slot[f][s] = o}

\* A handler changes what these slots stand for.
Touch(changed) ==
  touched' = [f \in Filters |-> touched[f] \union
                {s \in Slots : pc[f] # "off" /\ <<f, s>> \in changed}]

SlotsWith(o) == {p \in Filters \X Slots : slot[p[1]][p[2]] = o}

(***************************************************************************)
(* Handlers.                                                               *)
(***************************************************************************)
\* Faulty variant: a table of the same name is lost.
GenTbl_Anew(n) ==
  /\ made[n] < MaxMade
  /\ made' = [made EXCEPT ![n] = @ + 1]
  /\ LET o == <<n, made[n] + 1>> IN
     /\ tbls' = [tbls EXCEPT ![n] = o]
     /\ live' = live \union {o}
  /\ UNCHANGED <<data, blocks, refs, loaded, slot, threadVars, touched>>

\* Refused if the name is in use.
GenTbl(n) ==
  /\ tbls[n] = None
  /\ made[n] < MaxMade
  /\ made' = [made EXCEPT ![n] = @ + 1]
  /\ LET o == <<n, made[n] + 1>> IN
     /\ tbls' = [tbls EXCEPT ![n] = o]
     /\ live' = live \union {o}
  /\ UNCHANGED <<data, blocks, refs, loaded, slot, threadVars, touched>>

\* Each call allocates a block of its own.  A block that a filter still holds is
\* not freed, so that no later block has its address.
SetTbl(n) ==
  /\ tbls[n] # None
  /\ blocks < MaxBlocks
  /\ blocks' = blocks + 1
  /\ data' = [data EXCEPT ![tbls[n]] = blocks + 1]
  /\ Touch(SlotsWith(tbls[n]))
  /\ UNCHANGED <<tbls, made, live, refs, loaded, slot, threadVars>>

\* Faulty variant: the old table keeps the filter among its references.
PointSlot_KeepsRef(f, s, o) ==
  /\ slot' = [slot EXCEPT ![f][s] = o]
  /\ refs' = [refs EXCEPT ![o] = @ \union {f}]

\* set_flt_ref() with set_table(): the old table gives up its reference, and the
\* slot is left alone if it has the table already.
PointSlot(f, s, o) ==
  LET old == slot[f][s] IN
  /\ slot' = [slot EXCEPT ![f][s] = o]
  /\ refs' = [p \in Objects |-> IF p = o THEN refs[p] \union {f}
                                ELSE IF p = old THEN refs[p] \ {f}
                                ELSE refs[p]]

SetTblRef(f, s, n) ==
  /\ tbls[n] # None
  /\ f \in loaded
  /\ SharedSlots \/ \A t \in Slots : slot[f][t] = tbls[n] => t = s
  /\ EmptyTables \/ data[tbls[n]] # NoData \/ held[f][s] = NoData
  /\ LiveChanges \/ pc[f] = "off"
  /\ PointSlot(f, s, tbls[n])
  /\ Touch({<<f, s>>})
  /\ UNCHANGED <<tbls, made, live, data, blocks, loaded, threadVars>>

\* Faulty variant: the table goes without a word to its filters.
ClearSlots_None(o) == UNCHANGED slot

\* ~t_base() has each of its filters clear the first slot that holds the table
\* (del_table(t_base *)).  That erases the filter from refs, which the destructor
\* is iterating over: after the first filter the iterator is invalid, and the loop
\* may go on or end.
ClearSlots(o) ==
  \E told \in SUBSET refs[o], first \in [Filters -> Slots] :
    /\ refs[o] # {} => told # {}
    /\ \A f \in told : f \in Holders(o) => slot[f][first[f]] = o
    /\ slot' = [f \in Filters |-> [s \in Slots |->
                  IF f \in told /\ s = first[f] /\ slot[f][s] = o
                  THEN None ELSE slot[f][s]]]

DelTbl(n) ==
  LET o == tbls[n] IN
  /\ o # None
  /\ SharedDeletes \/ \A f, g \in Holders(o) : f = g
  /\ LiveChanges \/ \A f \in Holders(o) : pc[f] = "off"
  /\ ClearSlots(o)
  /\ live' = live \ {o}
  /\ tbls' = [tbls EXCEPT ![n] = None]
  /\ data' = [data EXCEPT ![o] = NoData]
  /\ refs' = [refs EXCEPT ![o] = {}]
  /\ Touch(SlotsWith(o))
  /\ UNCHANGED <<made, blocks, loaded, threadVars>>

AddFltr(f) ==
  /\ f \notin loaded
  /\ loaded' = loaded \union {f}
  /\ UNCHANGED <<tbls, made, live, data, blocks, refs, slot, threadVars, touched>>

\* del_table(): every table that a slot holds gives up its reference.
LeaveTables(f) ==
  refs' = [o \in Objects |-> IF f \in Holders(o) THEN refs[o] \ {f} ELSE refs[o]]

\* Also what clear() does to each filter, and DelTbl to each table, at the end.
DelFltr(f) ==
  /\ f \in loaded
  /\ pc[f] = "off"
  /\ loaded' = loaded \ {f}
  /\ LeaveTables(f)
  /\ slot' = [slot EXCEPT ![f] = [s \in Slots |-> None]]
  /\ held' = [held EXCEPT ![f] = [s \in Slots |-> NoData]]
  /\ obj' = [obj EXCEPT ![f] = [s \in Slots |-> NoData]]
  /\ UNCHANGED <<tbls, made, live, data, blocks, pc, left, cur, ptr, touched>>

(***************************************************************************)
(* A filter's thread: update_table_objects() and proc().                   *)
(***************************************************************************)
\* A new round of update_table_objects(); FilterServer says when a thread starts
\* and ends.
BeginUpdate(f) ==
  /\ f \in loaded
  /\ pc[f] \in {"off", "proc"}
  /\ pc' = [pc EXCEPT ![f] = "update"]
  /\ left' = [left EXCEPT ![f] = Slots]
  /\ touched' = [touched EXCEPT ![f] = {}]
  /\ UNCHANGED <<clientVars, held, obj, cur, ptr>>

\* The test of ti.table: an empty slot shows proc() nothing.
LookAtSlot(f, s) ==
  /\ pc[f] = "update" /\ s \in left[f]
  /\ left' = [left EXCEPT ![f] = @ \ {s}]
  /\ IF slot[f][s] = None
     THEN /\ obj' = [obj EXCEPT ![f][s] = NoData]
          /\ UNCHANGED <<pc, cur, ptr>>
     ELSE /\ pc' = [pc EXCEPT ![f] = "same"]
          /\ cur' = [cur EXCEPT ![f] = s]
          /\ ptr' = [ptr EXCEPT ![f] = slot[f][s]]
          /\ UNCHANGED obj
  /\ UNCHANGED <<clientVars, held, touched>>

NextSlot(f) ==
  /\ pc' = [pc EXCEPT ![f] = "update"]
  /\ cur' = [cur EXCEPT ![f] = None]
  /\ ptr' = [ptr EXCEPT ![f] = None]

\* Faulty variant: a slot that shows something is taken to be up to date.
SameData_IfAny(f, o) == obj[f][cur[f]] # NoData

\* Faulty variant: a table without data is never up to date.
SameData_NotEmpty(f, o) == data[o] # NoData /\ held[f][cur[f]] = data[o]

SameData(f, o) == held[f][cur[f]] = data[o]

\* is_same(), on the pointer tested or one loaded again.
CompareData(f) ==
  /\ pc[f] = "same"
  /\ \E o \in {ptr[f], slot[f][cur[f]]} \ {None} :
       IF SameData(f, o)
       THEN NextSlot(f)
       ELSE /\ pc' = [pc EXCEPT ![f] = "get"]
            /\ ptr' = [ptr EXCEPT ![f] = o]
            /\ UNCHANGED cur
  /\ UNCHANGED <<clientVars, held, obj, left, touched>>

\* get_data() and GetRoot(), which reads the block: there must be one.
GetData(f) ==
  /\ pc[f] = "get" /\ data[ptr[f]] # NoData
  /\ held' = [held EXCEPT ![f][cur[f]] = data[ptr[f]]]
  /\ obj' = [obj EXCEPT ![f][cur[f]] = data[ptr[f]]]
  /\ NextSlot(f)
  /\ UNCHANGED <<clientVars, left, touched>>

EnterProc(f) ==
  /\ pc[f] = "update" /\ left[f] = {}
  /\ pc' = [pc EXCEPT ![f] = "proc"]
  /\ UNCHANGED <<clientVars, held, obj, left, cur, ptr, touched>>

\* The thread ends after proc() (stop(), or proc() returned false).
EndThread(f) ==
  /\ pc[f] = "proc"
  /\ pc' = [pc EXCEPT ![f] = "off"]
  /\ touched' = [touched EXCEPT ![f] = {}]
  /\ UNCHANGED <<clientVars, held, obj, left, cur, ptr>>

Client ==
  \/ \E n \in Names : GenTbl(n) \/ SetTbl(n) \/ DelTbl(n)
  \/ \E f \in Filters, s \in Slots, n \in Names : SetTblRef(f, s, n)
  \/ \E f \in Filters : AddFltr(f) \/ DelFltr(f)

Thread(f) ==
  \/ BeginUpdate(f) \/ CompareData(f) \/ GetData(f) \/ EnterProc(f) \/ EndThread(f)
  \/ \E s \in Slots : LookAtSlot(f, s)

Next == Client \/ \E f \in Filters : Thread(f)

Spec == Init /\ [][Next]_vars

-----------------------------------------------------------------------------
\* Types, and the registry: the live tables are those registered, each under the
\* last number made of its name.
TypeOK ==
  /\ tbls \in [Names -> Objects \union {None}]
  /\ made \in [Names -> 0..MaxMade]
  /\ \A n \in Names : tbls[n] \in {None, <<n, made[n]>>}
  /\ live = {tbls[n] : n \in Names} \ {None}
  /\ data \in [Objects -> 0..MaxBlocks] /\ blocks \in 0..MaxBlocks
  /\ refs \in [Objects -> SUBSET Filters]
  /\ loaded \subseteq Filters
  /\ slot \in [Filters -> [Slots -> Objects \union {None}]]
  /\ held \in [Filters -> [Slots -> 0..MaxBlocks]]
  /\ obj \in [Filters -> [Slots -> 0..MaxBlocks]]
  /\ pc \in [Filters -> {"off", "update", "same", "get", "proc"}]
  /\ left \in [Filters -> SUBSET Slots]
  /\ cur \in [Filters -> Slots \union {None}]
  /\ ptr \in [Filters -> Objects \union {None}]
  /\ \A f \in Filters : pc[f] \in {"same", "get"} => cur[f] \in Slots /\ ptr[f] \in Objects
  /\ touched \in [Filters -> SUBSET Slots]

\* No slot of a filter points to a deleted table, whatever was set, exchanged and
\* deleted before (~t_base, set_table, del_table).
SlotsAreLive == \A f \in Filters, s \in Slots : slot[f][s] \in live \union {None}

\* The references a table keeps are to loaded filters, those that have it in a
\* slot: its destructor calls each of them (table_base.cpp:21-24).
RefsMatchSlots ==
  \A o \in Objects : refs[o] = Holders(o) /\ refs[o] \subseteq loaded

\* update_table_objects() uses no deleted table, and no table without data, though
\* it holds no lock against the handlers.
UsedTableIsLive ==
  \A f \in Filters :
    /\ pc[f] \in {"same", "get"} => ptr[f] \in live
    /\ pc[f] = "get" => data[ptr[f]] # NoData

\* proc() sees the data its slot's table holds or nothing, never another table's
\* and never an older block, except for what handlers have changed since the
\* thread looked.
ProcSeesOwnTables ==
  \A f \in Filters : pc[f] = "proc" =>
    \A s \in Slots \ touched[f] :
      obj[f][s] # NoData => slot[f][s] # None /\ obj[f][s] = data[slot[f][s]]

\* "tbl not found" (f_sample.cpp:18-19): proc() sees nothing only where there is
\* no table, or none with data.
ProcMissesNoTable ==
  \A f \in Filters : pc[f] = "proc" =>
    \A s \in Slots \ touched[f] :
      obj[f][s] = NoData => slot[f][s] = None \/ data[slot[f][s]] = NoData
=============================================================================
