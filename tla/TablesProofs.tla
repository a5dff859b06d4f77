----------------------------- MODULE TablesProofs -----------------------------
(***************************************************************************)
(* No slot points to a deleted table and no thread uses one, for every     *)
(* number of filters, slots and tables, if clients do not do what the      *)
(* constants of Tables name; and proc() sees the data of its own tables    *)
(* whatever they do.                                                       *)
(***************************************************************************)
EXTENDS Tables, TLAPS

\* Each part of it is needed: with any of the constants TRUE, TLC
\* finds a slot or a thread with a deleted table, or one without data.
Disciplined == ~SharedSlots /\ ~SharedDeletes /\ ~LiveChanges /\ ~EmptyTables

-----------------------------------------------------------------------------
(* Types need no discipline. *)

LEMMA TablesTypeInit == Init => TypeOK
<1> USE TablesAssumption DEF TablesAssumption
<1> SUFFICES ASSUME Init PROVE TypeOK
  OBVIOUS
<1>1. live = {tbls[n] : n \in Names} \ {None}
  BY DEF Init
<1> QED
  BY <1>1 DEF Init, TypeOK, NoData

LEMMA RegistryGrows ==
  ASSUME TypeOK, NEW n \in Names, tbls[n] = None, made[n] < MaxMade
  PROVE  LET o == <<n, made[n] + 1>> IN
         /\ o \in Objects
         /\ [made EXCEPT ![n] = @ + 1] \in [Names -> 0..MaxMade]
         /\ live \union {o} = {[tbls EXCEPT ![n] = o][m] : m \in Names} \ {None}
         /\ \A m \in Names : [tbls EXCEPT ![n] = o][m]
                             \in {None, <<m, [made EXCEPT ![n] = @ + 1][m]>>}
<1> USE TablesAssumption DEF TablesAssumption, TypeOK
<1> DEFINE o == <<n, made[n] + 1>>
           t == [tbls EXCEPT ![n] = o]
<1>1. made[n] + 1 \in 1..MaxMade
  OBVIOUS
<1>2. o \in Objects /\ o # None
  BY <1>1 DEF Objects
<1>3. t \in [Names -> Objects \union {None}] /\ t[n] = o /\ \A m \in Names \ {n} : t[m] = tbls[m]
  BY <1>2
<1> HIDE DEF o, t
<1>4. live \union {o} = {t[m] : m \in Names} \ {None}
  BY <1>2, <1>3
<1>5. \A m \in Names : t[m] \in {None, <<m, [made EXCEPT ![n] = @ + 1][m]>>}
  BY <1>3 DEF o
<1> QED
  BY <1>1, <1>2, <1>4, <1>5 DEF o, t

LEMMA RegistryShrinks ==
  ASSUME TypeOK, NEW n \in Names, tbls[n] # None
  PROVE  live \ {tbls[n]} = {[tbls EXCEPT ![n] = None][m] : m \in Names} \ {None}
<1> USE TablesAssumption DEF TablesAssumption, TypeOK
<1>1. \A m \in Names \ {n} : tbls[m] # tbls[n]
  <2> SUFFICES ASSUME NEW m \in Names \ {n}, tbls[m] = tbls[n] PROVE FALSE
    OBVIOUS
  <2>1. tbls[m] = <<m, made[m]>> /\ tbls[n] = <<n, made[n]>>
    OBVIOUS
  <2>2. <<m, made[m]>>[1] = m /\ <<n, made[n]>>[1] = n
    BY Zenon
  <2> QED
    BY <2>1, <2>2, Zenon
<1>2. \A m \in Names : [tbls EXCEPT ![n] = None][m] = IF m = n THEN None ELSE tbls[m]
  OBVIOUS
<1> QED
  BY <1>1, <1>2

LEMMA TypeGenTbl ==
  ASSUME TypeOK, NEW n \in Names, GenTbl(n) PROVE TypeOK'
<1> USE TablesAssumption DEF TablesAssumption
<1>1. tbls[n] = None /\ made[n] < MaxMade
  BY DEF GenTbl
<1> DEFINE o == <<n, made[n] + 1>>
<1>2. /\ o \in Objects
      /\ made' \in [Names -> 0..MaxMade]
      /\ live' = {tbls'[m] : m \in Names} \ {None}
      /\ \A m \in Names : tbls'[m] \in {None, <<m, made'[m]>>}
  BY <1>1, RegistryGrows DEF GenTbl
<1>3. tbls' = [tbls EXCEPT ![n] = o]
  BY DEF GenTbl
<1>4. UNCHANGED <<data, blocks, refs, loaded, slot, held, obj, pc, left, cur, ptr, touched>>
  BY DEF GenTbl, threadVars
<1> HIDE DEF o
<1> QED
  BY <1>2, <1>3, <1>4 DEF TypeOK

LEMMA TypeDelTbl ==
  ASSUME TypeOK, NEW n \in Names, DelTbl(n) PROVE TypeOK'
<1> USE TablesAssumption DEF TablesAssumption
<1>1. tbls[n] # None
  BY DEF DelTbl
<1>2. live' = {tbls'[m] : m \in Names} \ {None}
  BY <1>1, RegistryShrinks DEF DelTbl
<1>3. slot' \in [Filters -> [Slots -> Objects \union {None}]]
  <2>1. PICK told \in SUBSET refs[tbls[n]], first \in [Filters -> Slots] :
          slot' = [f \in Filters |-> [s \in Slots |->
                     IF f \in told /\ s = first[f] /\ slot[f][s] = tbls[n]
                     THEN None ELSE slot[f][s]]]
    BY DEF DelTbl, ClearSlots
  <2> QED
    BY <2>1 DEF TypeOK
<1>4. /\ tbls' = [tbls EXCEPT ![n] = None]
      /\ data' = [data EXCEPT ![tbls[n]] = NoData]
      /\ refs' = [refs EXCEPT ![tbls[n]] = {}]
      /\ UNCHANGED <<made, blocks, loaded, held, obj, pc, left, cur, ptr>>
  BY DEF DelTbl, threadVars
<1>5. touched' \in [Filters -> SUBSET Slots]
  BY DEF DelTbl, Touch, TypeOK
<1>6. \A m \in Names : tbls'[m] \in {None, <<m, made'[m]>>}
  BY <1>4 DEF TypeOK
<1>7. tbls' \in [Names -> Objects \union {None}] /\ made' \in [Names -> 0..MaxMade]
  BY <1>4 DEF TypeOK
<1>8. data' \in [Objects -> 0..MaxBlocks] /\ blocks' \in 0..MaxBlocks
  BY <1>1, <1>4 DEF TypeOK, NoData
<1>9. refs' \in [Objects -> SUBSET Filters] /\ loaded' \subseteq Filters
  BY <1>1, <1>4 DEF TypeOK
<1> QED
  BY <1>2, <1>3, <1>4, <1>5, <1>6, <1>7, <1>8, <1>9 DEF TypeOK

LEMMA TypeOtherClients ==
  ASSUME TypeOK,
         \/ \E n \in Names : SetTbl(n)
         \/ \E f \in Filters, s \in Slots, n \in Names : SetTblRef(f, s, n)
         \/ \E f \in Filters : AddFltr(f) \/ DelFltr(f)
  PROVE  TypeOK'
<1> USE TablesAssumption DEF TablesAssumption
<1>1. ASSUME NEW n \in Names, SetTbl(n) PROVE TypeOK'
  <2>1. tbls[n] \in Objects /\ blocks + 1 \in 0..MaxBlocks
    BY <1>1 DEF TypeOK, SetTbl
  <2>2. data' \in [Objects -> 0..MaxBlocks] /\ blocks' \in 0..MaxBlocks
    BY <1>1, <2>1 DEF TypeOK, SetTbl
  <2>3. touched' \in [Filters -> SUBSET Slots]
    BY <1>1 DEF TypeOK, SetTbl, Touch
  <2> QED
    BY <1>1, <2>2, <2>3 DEF TypeOK, SetTbl, threadVars
<1>2. ASSUME NEW f \in Filters, NEW s \in Slots, NEW n \in Names, SetTblRef(f, s, n)
      PROVE  TypeOK'
  <2>1. tbls[n] \in Objects
    BY <1>2 DEF TypeOK, SetTblRef
  <2>2. /\ slot' \in [Filters -> [Slots -> Objects \union {None}]]
        /\ refs' \in [Objects -> SUBSET Filters]
    BY <1>2, <2>1 DEF TypeOK, SetTblRef, PointSlot
  <2>3. touched' \in [Filters -> SUBSET Slots]
    BY <1>2 DEF TypeOK, SetTblRef, Touch
  <2> QED
    BY <1>2, <2>2, <2>3 DEF TypeOK, SetTblRef, threadVars
<1>3. ASSUME NEW f \in Filters, AddFltr(f) PROVE TypeOK'
  BY <1>3 DEF TypeOK, AddFltr, threadVars
<1>4. ASSUME NEW f \in Filters, DelFltr(f) PROVE TypeOK'
  <2>1. refs' \in [Objects -> SUBSET Filters]
    BY <1>4 DEF TypeOK, DelFltr, LeaveTables
  <2> QED
    BY <1>4, <2>1 DEF TypeOK, DelFltr, NoData
<1> QED
  BY <1>1, <1>2, <1>3, <1>4

LEMMA TypeThread ==
  ASSUME TypeOK, NEW f \in Filters, Thread(f) PROVE TypeOK'
<1> USE TablesAssumption DEF TablesAssumption, TypeOK, clientVars
<1>1. CASE BeginUpdate(f)
  BY <1>1 DEF BeginUpdate
<1>2. ASSUME NEW s \in Slots, LookAtSlot(f, s) PROVE TypeOK'
  <2>1. obj' \in [Filters -> [Slots -> 0..MaxBlocks]]
    <3>1. obj' = obj \/ obj' = [obj EXCEPT ![f][s] = NoData]
      BY <1>2, Zenon DEF LookAtSlot
    <3>2. CASE obj' = obj
      BY <3>2
    <3>3. CASE obj' = [obj EXCEPT ![f][s] = NoData]
      BY <3>3 DEF NoData
    <3> QED
      BY <3>1, <3>2, <3>3
  <2>2. left' \in [Filters -> SUBSET Slots]
    BY <1>2 DEF LookAtSlot
  <2>3. CASE slot[f][s] = None
    BY <1>2, <2>1, <2>2, <2>3 DEF LookAtSlot
  <2>4. CASE slot[f][s] # None
    <3>1. /\ pc' = [pc EXCEPT ![f] = "same"]
          /\ cur' = [cur EXCEPT ![f] = s]
          /\ ptr' = [ptr EXCEPT ![f] = slot[f][s]]
      BY <1>2, <2>4 DEF LookAtSlot
    <3>2. slot[f][s] \in Objects
      BY <2>4
    <3> QED
      BY <1>2, <2>1, <2>2, <3>1, <3>2 DEF LookAtSlot
  <2> QED
    BY <2>3, <2>4
<1>3. CASE CompareData(f)
  <2>1. PICK o \in {ptr[f], slot[f][cur[f]]} \ {None} :
          IF SameData(f, o)
          THEN NextSlot(f)
          ELSE /\ pc' = [pc EXCEPT ![f] = "get"]
               /\ ptr' = [ptr EXCEPT ![f] = o]
               /\ UNCHANGED cur
    BY <1>3 DEF CompareData
  <2>2. o \in Objects
    BY <1>3 DEF CompareData
  <2>3. UNCHANGED <<tbls, made, live, data, blocks, refs, loaded, slot, held, obj, left, touched>>
    BY <1>3 DEF CompareData
  <2>4. CASE SameData(f, o)
    <3>1. NextSlot(f)
      BY <2>1, <2>4, Zenon
    <3>2. /\ pc' = [pc EXCEPT ![f] = "update"]
          /\ cur' = [cur EXCEPT ![f] = None]
          /\ ptr' = [ptr EXCEPT ![f] = None]
      BY <3>1 DEF NextSlot
    <3> QED
      BY <2>3, <3>2
  <2>5. CASE ~SameData(f, o)
    <3>1. /\ pc' = [pc EXCEPT ![f] = "get"]
          /\ ptr' = [ptr EXCEPT ![f] = o]
          /\ UNCHANGED cur
      BY <2>1, <2>5, Zenon
    <3>2. pc[f] = "same"
      BY <1>3 DEF CompareData
    <3> QED
      BY <2>2, <2>3, <3>1, <3>2
  <2> QED
    BY <2>4, <2>5
<1>4. CASE GetData(f)
  BY <1>4 DEF GetData, NextSlot
<1>5. CASE EnterProc(f)
  BY <1>5 DEF EnterProc
<1>6. CASE EndThread(f)
  BY <1>6 DEF EndThread
<1> QED
  BY <1>1, <1>2, <1>3, <1>4, <1>5, <1>6 DEF Thread

LEMMA TablesTypeNext == TypeOK /\ [Next]_vars => TypeOK'
<1> SUFFICES ASSUME TypeOK, [Next]_vars PROVE TypeOK'
  OBVIOUS
<1>1. CASE UNCHANGED vars
  BY <1>1 DEF TypeOK, vars, clientVars, threadVars
<1>2. CASE Client
  BY <1>2, TypeGenTbl, TypeDelTbl, TypeOtherClients DEF Client
<1> QED
  BY <1>1, <1>2, TypeThread DEF Next

\* The registry agrees with the table objects there are, whatever clients do.
THEOREM TablesTypeCorrect == Spec => []TypeOK
  BY TablesTypeInit, TablesTypeNext, PTL DEF Spec

-----------------------------------------------------------------------------
(* Deleted tables are out of reach. *)

\* A table is in at most one slot of a filter, so that clearing one slot is
\* enough and giving up a reference takes away the last.
OneSlot ==
  \A f \in Filters : \A s, t \in Slots :
    slot[f][s] # None /\ slot[f][s] = slot[f][t] => s = t

\* A thread reads the table that is still in the slot, and update_table_objects()
\* never goes from data to none.
ReadsSlot ==
  \A f \in Filters : pc[f] \in {"same", "get"} => ptr[f] = slot[f][cur[f]]

KeepsData ==
  /\ \A f \in Filters, s \in Slots :
       slot[f][s] # None /\ held[f][s] # NoData => data[slot[f][s]] # NoData
  /\ \A f \in Filters : pc[f] = "get" => data[ptr[f]] # NoData

TablesInv ==
  /\ TypeOK
  /\ SlotsAreLive /\ RefsMatchSlots
  /\ OneSlot /\ ReadsSlot /\ KeepsData

LEMMA TablesInvInit == Init => TablesInv
<1> SUFFICES ASSUME Init PROVE TablesInv
  OBVIOUS
<1> USE TablesAssumption DEF TablesAssumption
<1>1. TypeOK
  BY TablesTypeInit
<1>2. \A f \in Filters, s \in Slots : slot[f][s] = None
  BY DEF Init
<1>3. \A o \in Objects : Holders(o) = {} /\ refs[o] = {}
  BY <1>2 DEF Init, Holders
<1>4. \A f \in Filters : pc[f] = "off"
  BY DEF Init
<1> QED
  BY <1>1, <1>2, <1>3, <1>4
  DEF TablesInv, SlotsAreLive, RefsMatchSlots, OneSlot, ReadsSlot, KeepsData

LEMMA InvSetTblRef ==
  ASSUME Disciplined, TablesInv, TypeOK',
         NEW f \in Filters, NEW s \in Slots, NEW n \in Names, SetTblRef(f, s, n)
  PROVE  TablesInv'
<1> USE TablesAssumption DEF TablesAssumption, TablesInv
<1> DEFINE o == tbls[n]
           old == slot[f][s]
<1>1. o \in Objects /\ o # None /\ o \in live
  BY DEF SetTblRef, TypeOK
<1>2. /\ f \in loaded /\ pc[f] = "off"
      /\ \A t \in Slots : slot[f][t] = o => t = s
      /\ data[o] # NoData \/ held[f][s] = NoData
  BY DEF SetTblRef, Disciplined
<1>3. /\ slot' = [slot EXCEPT ![f][s] = o]
      /\ refs' = [p \in Objects |-> IF p = o THEN refs[p] \union {f}
                                    ELSE IF p = old THEN refs[p] \ {f}
                                    ELSE refs[p]]
      /\ UNCHANGED <<tbls, made, live, data, blocks, loaded, held, obj, pc, left, cur, ptr>>
  BY DEF SetTblRef, PointSlot, threadVars
<1> HIDE DEF o, old
<1>4. \A g \in Filters, t \in Slots :
        slot'[g][t] = IF g = f /\ t = s THEN o ELSE slot[g][t]
  BY <1>3 DEF TypeOK
<1>5. SlotsAreLive'
  BY <1>1, <1>3, <1>4 DEF SlotsAreLive
<1>6. OneSlot'
  BY <1>2, <1>4 DEF OneSlot
<1>7. ReadsSlot'
  BY <1>2, <1>3, <1>4 DEF ReadsSlot, TypeOK
<1>8. KeepsData'
  BY <1>2, <1>3, <1>4 DEF KeepsData
<1>9. RefsMatchSlots'
  <2> SUFFICES ASSUME NEW p \in Objects
               PROVE  refs'[p] = Holders(p)' /\ refs'[p] \subseteq loaded'
    BY DEF RefsMatchSlots
  <2>1. refs[p] = Holders(p) /\ refs[p] \subseteq loaded
    BY DEF RefsMatchSlots
  <2>2. p # None
    OBVIOUS
  <2>3. \A g \in Filters : g # f => (g \in Holders(p)' <=> g \in Holders(p))
    BY <1>4 DEF Holders
  <2>4. f \in Holders(p)' <=> p = o \/ (p # old /\ f \in Holders(p))
    <3>1. CASE p = o
      BY <1>4, <3>1 DEF Holders
    <3>2. CASE p # o /\ p = old
      BY <1>4, <2>2, <3>2 DEF Holders, OneSlot, old
    <3>3. CASE p # o /\ p # old
      BY <1>4, <3>3 DEF Holders, old
    <3> QED
      BY <3>1, <3>2, <3>3
  <2>5. Holders(p)' \subseteq Filters /\ Holders(p) \subseteq Filters
    BY DEF Holders
  <2>6. refs'[p] = IF p = o THEN refs[p] \union {f}
                   ELSE IF p = old THEN refs[p] \ {f} ELSE refs[p]
    BY <1>3
  <2>7. refs'[p] = Holders(p)'
    <3>1. CASE p = o
      BY <2>1, <2>3, <2>4, <2>5, <2>6, <3>1
    <3>2. CASE p # o /\ p = old
      BY <2>1, <2>3, <2>4, <2>5, <2>6, <3>2
    <3>3. CASE p # o /\ p # old
      BY <2>1, <2>3, <2>4, <2>5, <2>6, <3>3
    <3> QED
      BY <3>1, <3>2, <3>3
  <2>8. refs'[p] \subseteq loaded'
    BY <1>2, <1>3, <2>1, <2>6
  <2> QED
    BY <2>7, <2>8
<1> QED
  BY <1>5, <1>6, <1>7, <1>8, <1>9

LEMMA InvDelTbl ==
  ASSUME Disciplined, TablesInv, TypeOK', NEW n \in Names, DelTbl(n)
  PROVE  TablesInv'
<1> USE TablesAssumption DEF TablesAssumption, TablesInv
<1> DEFINE o == tbls[n]
<1>1. o \in Objects /\ o # None
  BY DEF DelTbl, TypeOK
<1>2. /\ \A f, g \in Holders(o) : f = g
      /\ \A f \in Holders(o) : pc[f] = "off"
  BY DEF DelTbl, Disciplined
<1>3. PICK told \in SUBSET refs[o], first \in [Filters -> Slots] :
        /\ refs[o] # {} => told # {}
        /\ \A f \in told : f \in Holders(o) => slot[f][first[f]] = o
        /\ slot' = [f \in Filters |-> [s \in Slots |->
                      IF f \in told /\ s = first[f] /\ slot[f][s] = o
                      THEN None ELSE slot[f][s]]]
  BY DEF DelTbl, ClearSlots
<1>4. /\ live' = live \ {o}
      /\ data' = [data EXCEPT ![o] = NoData]
      /\ refs' = [refs EXCEPT ![o] = {}]
      /\ UNCHANGED <<made, blocks, loaded, held, obj, pc, left, cur, ptr>>
  BY DEF DelTbl, threadVars
<1> HIDE DEF o
<1>5. told = Holders(o)
  <2>1. refs[o] = Holders(o)
    BY <1>1 DEF RefsMatchSlots
  <2>2. CASE refs[o] = {}
    BY <2>1, <2>2
  <2>3. CASE refs[o] # {}
    <3>1. PICK f \in told : TRUE
      BY <1>3, <2>3
    <3>2. \A g \in Holders(o) : g = f
      BY <1>2, <2>1, <3>1
    <3> QED
      BY <2>1, <3>1, <3>2
  <2> QED
    BY <2>2, <2>3
<1>6. \A f \in Filters, s \in Slots :
        slot'[f][s] = IF slot[f][s] = o THEN None ELSE slot[f][s]
  <2> SUFFICES ASSUME NEW f \in Filters, NEW s \in Slots, slot[f][s] = o
               PROVE  slot'[f][s] = None
    BY <1>3
  <2>1. f \in told
    BY <1>5 DEF Holders
  <2>2. first[f] \in Slots /\ slot[f][first[f]] = o
    BY <1>3, <1>5, <2>1
  <2>3. s = first[f]
    BY <1>1, <2>2 DEF OneSlot
  <2> QED
    BY <1>3, <2>1, <2>3
<1>7. SlotsAreLive'
  BY <1>1, <1>4, <1>6 DEF SlotsAreLive
<1>8. OneSlot'
  BY <1>6 DEF OneSlot
<1>9. ReadsSlot'
  <2> SUFFICES ASSUME NEW f \in Filters, pc[f] \in {"same", "get"}
               PROVE  ptr[f] = slot'[f][cur[f]]
    BY <1>4 DEF ReadsSlot
  <2>1. cur[f] \in Slots /\ ptr[f] = slot[f][cur[f]]
    BY DEF ReadsSlot, TypeOK
  <2>2. slot[f][cur[f]] # o
    BY <1>2, <2>1 DEF Holders
  <2> QED
    BY <1>6, <2>1, <2>2
<1>10. KeepsData'
  <2>1. \A f \in Filters : pc[f] = "get" => ptr[f] # o /\ ptr[f] \in Objects
    <3> SUFFICES ASSUME NEW f \in Filters, pc[f] = "get"
                 PROVE  ptr[f] # o /\ ptr[f] \in Objects
      OBVIOUS
    <3>1. cur[f] \in Slots /\ ptr[f] \in Objects
      BY DEF TypeOK
    <3>2. ptr[f] = slot[f][cur[f]]
      BY DEF ReadsSlot
    <3>3. f \notin Holders(o)
      BY <1>2
    <3> QED
      BY <3>1, <3>2, <3>3 DEF Holders
  <2>2. \A p \in Objects : p # o => data'[p] = data[p]
    BY <1>4 DEF TypeOK
  <2>3. \A f \in Filters, s \in Slots : slot[f][s] \in Objects \union {None}
    BY DEF TypeOK
  <2> QED
    BY <1>4, <1>6, <2>1, <2>2, <2>3 DEF KeepsData
<1>11. RefsMatchSlots'
  <2> SUFFICES ASSUME NEW p \in Objects
               PROVE  refs'[p] = Holders(p)' /\ refs'[p] \subseteq loaded'
    BY DEF RefsMatchSlots
  <2>1. CASE p = o
    <3>1. Holders(p)' = {}
      BY <1>1, <1>6, <2>1 DEF Holders
    <3>2. refs'[p] = {}
      BY <1>4, <2>1 DEF TypeOK
    <3> QED
      BY <3>1, <3>2
  <2>2. CASE p # o
    <3>1. Holders(p)' = Holders(p)
      BY <1>6, <2>2 DEF Holders
    <3>2. refs'[p] = refs[p]
      BY <1>4, <2>2 DEF TypeOK
    <3> QED
      BY <1>4, <3>1, <3>2 DEF RefsMatchSlots
  <2> QED
    BY <2>1, <2>2
<1> QED
  BY <1>7, <1>8, <1>9, <1>10, <1>11

LEMMA InvOtherClients ==
  ASSUME TablesInv, TypeOK',
         \/ \E n \in Names : GenTbl(n) \/ SetTbl(n)
         \/ \E f \in Filters : AddFltr(f) \/ DelFltr(f)
  PROVE  TablesInv'
<1> USE TablesAssumption DEF TablesAssumption, TablesInv
<1>1. ASSUME NEW n \in Names, GenTbl(n) PROVE TablesInv'
  <2>1. live \subseteq live'
    BY <1>1 DEF GenTbl
  <2>2. UNCHANGED <<data, refs, loaded, slot, held, pc, cur, ptr>>
    BY <1>1 DEF GenTbl, threadVars
  <2> QED
    BY <2>1, <2>2
    DEF SlotsAreLive, RefsMatchSlots, Holders, OneSlot, ReadsSlot, KeepsData
<1>2. ASSUME NEW n \in Names, SetTbl(n) PROVE TablesInv'
  <2>1. UNCHANGED <<live, refs, loaded, slot, held, pc, cur, ptr>>
    BY <1>2 DEF SetTbl, threadVars
  <2>2. \A o : o \in Objects => data'[o] = data[o] \/ data'[o] # NoData
    <3>1. blocks + 1 # NoData
      BY DEF TypeOK, NoData
    <3> QED
      BY <1>2, <3>1 DEF SetTbl, TypeOK
  <2>3. KeepsData'
    <3>1. \A f \in Filters, s \in Slots : slot[f][s] # None => slot[f][s] \in Objects
      BY DEF TypeOK
    <3>2. \A f \in Filters : pc[f] = "get" => ptr[f] \in Objects
      BY DEF TypeOK
    <3> QED
      BY <2>1, <2>2, <3>1, <3>2 DEF KeepsData
  <2> QED
    BY <2>1, <2>3 DEF SlotsAreLive, RefsMatchSlots, Holders, OneSlot, ReadsSlot
<1>3. ASSUME NEW f \in Filters, AddFltr(f) PROVE TablesInv'
  <2>1. loaded \subseteq loaded'
    BY <1>3 DEF AddFltr
  <2>2. UNCHANGED <<live, data, refs, slot, held, pc, cur, ptr>>
    BY <1>3 DEF AddFltr, threadVars
  <2> QED
    BY <2>1, <2>2
    DEF SlotsAreLive, RefsMatchSlots, Holders, OneSlot, ReadsSlot, KeepsData
<1>4. ASSUME NEW f \in Filters, DelFltr(f) PROVE TablesInv'
  <2>1. /\ pc[f] = "off"
        /\ loaded' = loaded \ {f}
        /\ UNCHANGED <<live, data, pc, cur, ptr>>
    BY <1>4 DEF DelFltr
  <2>2. \A g \in Filters, s \in Slots :
          /\ slot'[g][s] = IF g = f THEN None ELSE slot[g][s]
          /\ g # f => held'[g][s] = held[g][s]
    BY <1>4 DEF DelFltr, TypeOK
  <2>3. RefsMatchSlots'
    <3> SUFFICES ASSUME NEW o \in Objects
                 PROVE  refs'[o] = Holders(o)' /\ refs'[o] \subseteq loaded'
      BY DEF RefsMatchSlots
    <3>1. refs[o] = Holders(o) /\ refs[o] \subseteq loaded
      BY DEF RefsMatchSlots
    <3>2. refs'[o] = Holders(o) \ {f}
      BY <1>4, <3>1 DEF DelFltr, LeaveTables
    <3>3. Holders(o)' = Holders(o) \ {f}
      BY <2>2 DEF Holders
    <3> QED
      BY <2>1, <3>1, <3>2, <3>3
  <2>4. SlotsAreLive' /\ OneSlot'
    BY <2>1, <2>2 DEF SlotsAreLive, OneSlot
  <2>5. ReadsSlot'
    <3> SUFFICES ASSUME NEW g \in Filters, pc[g] \in {"same", "get"}
                 PROVE  ptr[g] = slot'[g][cur[g]]
      BY <2>1 DEF ReadsSlot
    <3>1. g # f /\ cur[g] \in Slots /\ ptr[g] = slot[g][cur[g]]
      BY <2>1 DEF ReadsSlot, TypeOK
    <3> QED
      BY <2>2, <3>1
  <2>6. KeepsData'
    BY <2>1, <2>2 DEF KeepsData
  <2> QED
    BY <2>3, <2>4, <2>5, <2>6
<1> QED
  BY <1>1, <1>2, <1>3, <1>4

LEMMA InvThread ==
  ASSUME TablesInv, TypeOK', NEW f \in Filters, Thread(f)
  PROVE  TablesInv'
<1> USE TablesAssumption DEF TablesAssumption, TablesInv, clientVars
<1>1. UNCHANGED <<live, data, refs, loaded, slot>>
  BY DEF Thread, BeginUpdate, LookAtSlot, CompareData, GetData, EnterProc, EndThread
<1>2. SlotsAreLive' /\ RefsMatchSlots' /\ OneSlot'
  BY <1>1 DEF SlotsAreLive, RefsMatchSlots, Holders, OneSlot
<1>3. CASE BeginUpdate(f)
  BY <1>2, <1>3 DEF BeginUpdate, ReadsSlot, KeepsData, TypeOK
<1>4. ASSUME NEW s \in Slots, LookAtSlot(f, s) PROVE TablesInv'
  <2>1. UNCHANGED held
    BY <1>4 DEF LookAtSlot
  <2>2. CASE slot[f][s] = None
    BY <1>1, <1>2, <1>4, <2>1, <2>2 DEF LookAtSlot, ReadsSlot, KeepsData
  <2>3. CASE slot[f][s] # None
    <3>1. /\ pc' = [pc EXCEPT ![f] = "same"]
          /\ cur' = [cur EXCEPT ![f] = s]
          /\ ptr' = [ptr EXCEPT ![f] = slot[f][s]]
      BY <1>4, <2>3 DEF LookAtSlot
    <3> QED
      BY <1>1, <1>2, <2>1, <3>1 DEF ReadsSlot, KeepsData, TypeOK
  <2> QED
    BY <2>2, <2>3
<1>5. CASE CompareData(f)
  <2>1. PICK o \in {ptr[f], slot[f][cur[f]]} \ {None} :
          IF SameData(f, o)
          THEN NextSlot(f)
          ELSE /\ pc' = [pc EXCEPT ![f] = "get"]
               /\ ptr' = [ptr EXCEPT ![f] = o]
               /\ UNCHANGED cur
    BY <1>5 DEF CompareData
  <2>2. /\ pc[f] = "same" /\ UNCHANGED held
        /\ cur[f] \in Slots /\ o = slot[f][cur[f]] /\ o # None
    BY <1>5 DEF CompareData, ReadsSlot, TypeOK
  <2>3. CASE SameData(f, o)
    <3>1. NextSlot(f)
      BY <2>1, <2>3, Zenon
    <3> QED
      BY <1>1, <1>2, <2>2, <3>1 DEF NextSlot, ReadsSlot, KeepsData, TypeOK
  <2>4. CASE ~SameData(f, o)
    <3>1. /\ pc' = [pc EXCEPT ![f] = "get"]
          /\ ptr' = [ptr EXCEPT ![f] = o]
          /\ UNCHANGED cur
      BY <2>1, <2>4, Zenon
    <3>2. data[o] # NoData
      BY <2>2, <2>4 DEF SameData, KeepsData
    <3> QED
      BY <1>1, <1>2, <2>2, <3>1, <3>2 DEF ReadsSlot, KeepsData, TypeOK
  <2> QED
    BY <2>3, <2>4
<1>6. CASE GetData(f)
  <2>1. /\ cur[f] \in Slots /\ ptr[f] = slot[f][cur[f]]
        /\ data[ptr[f]] # NoData
        /\ held' = [held EXCEPT ![f][cur[f]] = data[ptr[f]]]
        /\ pc' = [pc EXCEPT ![f] = "update"]
        /\ cur' = [cur EXCEPT ![f] = None]
        /\ ptr' = [ptr EXCEPT ![f] = None]
    BY <1>6 DEF GetData, NextSlot, ReadsSlot, TypeOK
  <2>2. \A g \in Filters, s \in Slots :
          held'[g][s] = held[g][s] \/ (g = f /\ s = cur[f])
    BY <2>1 DEF TypeOK
  <2>3. KeepsData'
    BY <1>1, <2>1, <2>2 DEF KeepsData, TypeOK
  <2>4. ReadsSlot'
    BY <1>1, <2>1 DEF ReadsSlot, TypeOK
  <2> QED
    BY <1>2, <2>3, <2>4
<1>7. CASE EnterProc(f)
  BY <1>1, <1>2, <1>7 DEF EnterProc, ReadsSlot, KeepsData, TypeOK
<1>8. CASE EndThread(f)
  BY <1>1, <1>2, <1>8 DEF EndThread, ReadsSlot, KeepsData, TypeOK
<1> QED
  BY <1>3, <1>4, <1>5, <1>6, <1>7, <1>8 DEF Thread

LEMMA TablesInvAlways ==
  ASSUME Disciplined
  PROVE  Spec => []TablesInv
<1>1. TypeOK /\ [Next]_vars => TypeOK'
  BY TablesTypeNext
<1>2. TablesInv /\ [Next]_vars => TablesInv'
  <2> SUFFICES ASSUME TablesInv, [Next]_vars PROVE TablesInv'
    OBVIOUS
  <2>1. TypeOK'
    BY <1>1 DEF TablesInv
  <2>2. CASE UNCHANGED vars
    BY <2>1, <2>2 DEF vars, clientVars, threadVars, TablesInv, SlotsAreLive,
      RefsMatchSlots, Holders, OneSlot, ReadsSlot, KeepsData
  <2>3. CASE Client
    BY <2>1, <2>3, InvSetTblRef, InvDelTbl, InvOtherClients DEF Client
  <2> QED
    BY <2>1, <2>2, <2>3, InvThread DEF Next
<1> QED
  BY TablesInvInit, <1>2, PTL DEF Spec

\* No slot points to a deleted table.
THEOREM NoDanglingSlot ==
  ASSUME Disciplined
  PROVE  Spec => []SlotsAreLive
<1>1. TablesInv => SlotsAreLive
  BY DEF TablesInv
<1> QED
  BY TablesInvAlways, <1>1, PTL

\* A table refers to the filters that have it in a slot, and to no filter that has
\* been deleted: its destructor may call each of them.
THEOREM ReferencesAreSlots ==
  ASSUME Disciplined
  PROVE  Spec => []RefsMatchSlots
<1>1. TablesInv => RefsMatchSlots
  BY DEF TablesInv
<1> QED
  BY TablesInvAlways, <1>1, PTL

\* Without a lock against the handlers, a filter's thread uses live tables that
\* have data.
THEOREM UpdateIsSafe ==
  ASSUME Disciplined
  PROVE  Spec => []UsedTableIsLive
<1>1. TablesInv => UsedTableIsLive
  <2> SUFFICES ASSUME TablesInv, NEW f \in Filters, pc[f] \in {"same", "get"}
               PROVE  ptr[f] \in live /\ (pc[f] = "get" => data[ptr[f]] # NoData)
    BY DEF UsedTableIsLive
  <2>1. cur[f] \in Slots /\ ptr[f] \in Objects /\ ptr[f] = slot[f][cur[f]]
    BY DEF TablesInv, TypeOK, ReadsSlot
  <2>2. ptr[f] # None
    BY <2>1, TablesAssumption DEF TablesAssumption
  <2> QED
    BY <2>1, <2>2 DEF TablesInv, SlotsAreLive, KeepsData
<1> QED
  BY TablesInvAlways, <1>1, PTL

-----------------------------------------------------------------------------
(* What proc() sees needs no discipline of the clients either. *)

\* The slot shows nothing, or the data of its table.
ShowsTable(f, s) ==
  obj[f][s] # NoData => slot[f][s] # None /\ obj[f][s] = data[slot[f][s]]

\* What a slot shows is of the block it holds.
ShowsHeld ==
  \A f \in Filters, s \in Slots : obj[f][s] # NoData => obj[f][s] = held[f][s]

\* As long as no handler comes between, the table found is still the slot's.
FoundIsSlots ==
  \A f \in Filters :
    pc[f] \in {"same", "get"} /\ cur[f] \notin touched[f] => ptr[f] = slot[f][cur[f]]

\* The slot the thread is at.
At(f) == IF pc[f] \in {"same", "get"} THEN {cur[f]} ELSE {}

\* The slots the thread has looked at show their tables.
SeenShowTables ==
  \A f \in Filters : pc[f] # "off" =>
    \A s \in Slots \ (left[f] \union touched[f] \union At(f)) : ShowsTable(f, s)

\* proc() begins when there is no slot left.
ProcSawAll == \A f \in Filters : pc[f] = "proc" => left[f] = {}

ShownInv == TypeOK /\ ShowsHeld /\ FoundIsSlots /\ SeenShowTables /\ ProcSawAll

LEMMA ShownInvInit == Init => ShownInv
<1> SUFFICES ASSUME Init PROVE ShownInv
  OBVIOUS
<1>1. TypeOK
  BY TablesTypeInit
<1> QED
  BY <1>1 DEF Init, ShownInv, ShowsHeld, FoundIsSlots, SeenShowTables, ProcSawAll, NoData

\* A handler that touches whatever it changes under a thread keeps the invariant.
LEMMA ShownHandler ==
  ASSUME ShownInv, TypeOK', UNCHANGED threadVars,
         \A f \in Filters : touched[f] \subseteq touched'[f],
         \A f \in Filters : \A s \in Slots \ touched'[f] :
           pc[f] # "off" =>
             /\ slot'[f][s] = slot[f][s]
             /\ slot[f][s] # None => data'[slot[f][s]] = data[slot[f][s]]
  PROVE  ShownInv'
<1> USE DEF ShownInv, threadVars
<1>1. ShowsHeld' /\ ProcSawAll'
  BY DEF ShowsHeld, ProcSawAll
<1>2. FoundIsSlots'
  <2> SUFFICES ASSUME NEW f \in Filters, pc[f] \in {"same", "get"}, cur[f] \notin touched'[f]
               PROVE  ptr[f] = slot'[f][cur[f]]
    BY DEF FoundIsSlots
  <2>1. cur[f] \in Slots /\ ptr[f] = slot[f][cur[f]]
    BY DEF TypeOK, FoundIsSlots
  <2> QED
    BY <2>1
<1>3. SeenShowTables'
  <2> SUFFICES ASSUME NEW f \in Filters, pc[f] # "off",
                      NEW s \in Slots \ (left[f] \union touched'[f] \union At(f))
               PROVE  ShowsTable(f, s)'
    BY DEF SeenShowTables, At
  <2>1. ShowsTable(f, s) /\ s \notin touched'[f]
    BY DEF SeenShowTables
  <2> QED
    BY <2>1 DEF ShowsTable
<1> QED
  BY <1>1, <1>2, <1>3

LEMMA TouchAdds ==
  ASSUME TypeOK, NEW changed, Touch(changed)
  PROVE  /\ \A f \in Filters : touched[f] \subseteq touched'[f]
         /\ \A f \in Filters, s \in Slots :
              pc[f] # "off" /\ <<f, s>> \in changed => s \in touched'[f]
BY DEF Touch, TypeOK

LEMMA ShownClient ==
  ASSUME ShownInv, TypeOK', Client
  PROVE  ShownInv'
<1>1. TypeOK
  BY DEF ShownInv
<1>2. ASSUME NEW n \in Names, GenTbl(n) PROVE ShownInv'
  BY <1>2, ShownHandler DEF GenTbl
<1>3. ASSUME NEW n \in Names, SetTbl(n) PROVE ShownInv'
  <2>1. UNCHANGED threadVars /\ UNCHANGED slot
    BY <1>3 DEF SetTbl
  <2>2. data' = [data EXCEPT ![tbls[n]] = blocks + 1] /\ Touch(SlotsWith(tbls[n]))
    BY <1>3 DEF SetTbl
  <2>3. \A f \in Filters, s \in Slots :
          slot[f][s] # tbls[n] /\ slot[f][s] # None => data'[slot[f][s]] = data[slot[f][s]]
    BY <1>1, <2>2 DEF TypeOK
  <2>4. \A f \in Filters, s \in Slots :
          slot[f][s] = tbls[n] => <<f, s>> \in SlotsWith(tbls[n])
    BY DEF SlotsWith
  <2> QED
    BY <1>1, <2>1, <2>2, <2>3, <2>4, TouchAdds, ShownHandler
<1>4. ASSUME NEW n \in Names, DelTbl(n) PROVE ShownInv'
  <2>1. UNCHANGED threadVars
    BY <1>4 DEF DelTbl
  <2>2. data' = [data EXCEPT ![tbls[n]] = NoData] /\ Touch(SlotsWith(tbls[n]))
    BY <1>4 DEF DelTbl
  <2>3. \A f \in Filters, s \in Slots : slot[f][s] # tbls[n] => slot'[f][s] = slot[f][s]
    <3>1. ClearSlots(tbls[n])
      BY <1>4 DEF DelTbl
    <3> QED
      BY <3>1 DEF ClearSlots
  <2>4. \A f \in Filters, s \in Slots :
          slot[f][s] # tbls[n] /\ slot[f][s] # None => data'[slot[f][s]] = data[slot[f][s]]
    BY <1>1, <2>2 DEF TypeOK
  <2>5. \A f \in Filters, s \in Slots :
          slot[f][s] = tbls[n] => <<f, s>> \in SlotsWith(tbls[n])
    BY DEF SlotsWith
  <2> QED
    BY <1>1, <2>1, <2>2, <2>3, <2>4, <2>5, TouchAdds, ShownHandler
<1>5. ASSUME NEW f \in Filters, NEW s \in Slots, NEW n \in Names, SetTblRef(f, s, n)
      PROVE  ShownInv'
  <2>1. UNCHANGED threadVars /\ UNCHANGED data /\ Touch({<<f, s>>})
    BY <1>5 DEF SetTblRef
  <2>2. slot' = [slot EXCEPT ![f][s] = tbls[n]]
    BY <1>5 DEF SetTblRef, PointSlot
  <2>3. \A g \in Filters, t \in Slots : <<g, t>> # <<f, s>> => slot'[g][t] = slot[g][t]
    BY <1>1, <2>2 DEF TypeOK
  <2> QED
    BY <1>1, <2>1, <2>3, TouchAdds, ShownHandler
<1>6. ASSUME NEW f \in Filters, AddFltr(f) PROVE ShownInv'
  BY <1>6, ShownHandler DEF AddFltr
<1>7. ASSUME NEW f \in Filters, DelFltr(f) PROVE ShownInv'
  <2>1. /\ pc[f] = "off"
        /\ UNCHANGED <<data, pc, left, cur, ptr, touched>>
        /\ held' = [held EXCEPT ![f] = [s \in Slots |-> NoData]]
        /\ obj' = [obj EXCEPT ![f] = [s \in Slots |-> NoData]]
        /\ slot' = [slot EXCEPT ![f] = [s \in Slots |-> None]]
    BY <1>7 DEF DelFltr
  <2>2. \A g \in Filters \ {f} : held'[g] = held[g] /\ obj'[g] = obj[g] /\ slot'[g] = slot[g]
    BY <1>1, <2>1 DEF TypeOK
  <2>3. \A s \in Slots : obj'[f][s] = NoData
    BY <1>1, <2>1 DEF TypeOK
  <2>4. ShowsHeld'
    BY <2>2, <2>3 DEF ShownInv, ShowsHeld
  <2>5. FoundIsSlots'
    BY <2>1, <2>2 DEF ShownInv, FoundIsSlots
  <2>6. SeenShowTables'
    BY <2>1, <2>2 DEF ShownInv, SeenShowTables, ShowsTable, At
  <2>7. ProcSawAll'
    BY <2>1 DEF ShownInv, ProcSawAll
  <2> QED
    BY <2>4, <2>5, <2>6, <2>7 DEF ShownInv
<1> QED
  BY <1>2, <1>3, <1>4, <1>5, <1>6, <1>7 DEF Client

LEMMA ShownThread ==
  ASSUME ShownInv, TypeOK', NEW f \in Filters, Thread(f)
  PROVE  ShownInv'
<1> USE TablesAssumption DEF TablesAssumption, ShownInv, clientVars
<1>1. UNCHANGED <<data, slot>>
  BY DEF Thread, BeginUpdate, LookAtSlot, CompareData, GetData, EnterProc, EndThread
<1>2. CASE BeginUpdate(f)
  BY <1>1, <1>2 DEF BeginUpdate, TypeOK, ShowsHeld, FoundIsSlots, SeenShowTables, ShowsTable,
     At, ProcSawAll
<1>3. ASSUME NEW s \in Slots, LookAtSlot(f, s) PROVE ShownInv'
  <2>1. /\ pc[f] = "update" /\ UNCHANGED <<held, touched>>
        /\ left' = [left EXCEPT ![f] = @ \ {s}]
    BY <1>3 DEF LookAtSlot
  <2>2. CASE slot[f][s] = None
    <3>1. obj' = [obj EXCEPT ![f][s] = NoData] /\ UNCHANGED <<pc, cur, ptr>>
      BY <1>3, <2>2 DEF LookAtSlot
    <3>2. /\ obj'[f][s] = NoData
          /\ \A g \in Filters, t \in Slots : <<g, t>> # <<f, s>> => obj'[g][t] = obj[g][t]
      BY <3>1 DEF TypeOK
    <3>3. ShowsHeld' /\ FoundIsSlots' /\ ProcSawAll'
      BY <1>1, <2>1, <3>1, <3>2 DEF ShowsHeld, FoundIsSlots, ProcSawAll, TypeOK
    <3>4. SeenShowTables'
      BY <1>1, <2>1, <3>1, <3>2 DEF SeenShowTables, ShowsTable, At, TypeOK
    <3> QED
      BY <3>3, <3>4
  <2>3. CASE slot[f][s] # None
    <3>1. /\ pc' = [pc EXCEPT ![f] = "same"]
          /\ cur' = [cur EXCEPT ![f] = s]
          /\ ptr' = [ptr EXCEPT ![f] = slot[f][s]]
          /\ UNCHANGED obj
      BY <1>3, <2>3 DEF LookAtSlot
    <3>2. ShowsHeld' /\ FoundIsSlots' /\ ProcSawAll'
      BY <1>1, <2>1, <3>1 DEF ShowsHeld, FoundIsSlots, ProcSawAll, TypeOK
    <3>3. SeenShowTables'
      BY <1>1, <2>1, <3>1 DEF SeenShowTables, ShowsTable, At, TypeOK
    <3> QED
      BY <3>2, <3>3
  <2> QED
    BY <2>2, <2>3
<1>4. CASE CompareData(f)
  <2>1. /\ pc[f] = "same" /\ cur[f] \in Slots /\ UNCHANGED <<held, obj, left, touched>>
    BY <1>4 DEF CompareData, TypeOK
  <2>2. PICK o \in {ptr[f], slot[f][cur[f]]} \ {None} :
          IF SameData(f, o)
          THEN NextSlot(f)
          ELSE /\ pc' = [pc EXCEPT ![f] = "get"]
               /\ ptr' = [ptr EXCEPT ![f] = o]
               /\ UNCHANGED cur
    BY <1>4 DEF CompareData
  <2>3. cur[f] \notin touched[f] => o = slot[f][cur[f]]
    BY <2>1 DEF FoundIsSlots
  <2>4. CASE SameData(f, o)
    <3>1. NextSlot(f)
      BY <2>2, <2>4, Zenon
    <3>2. ShowsHeld' /\ FoundIsSlots' /\ ProcSawAll'
      BY <1>1, <2>1, <3>1 DEF NextSlot, ShowsHeld, FoundIsSlots, ProcSawAll, TypeOK
    <3>3. cur[f] \notin touched[f] => ShowsTable(f, cur[f])
      BY <2>1, <2>2, <2>3, <2>4 DEF SameData, ShowsTable, ShowsHeld
    <3>4. SeenShowTables'
      BY <1>1, <2>1, <3>1, <3>3 DEF NextSlot, SeenShowTables, ShowsTable, At, TypeOK
    <3> QED
      BY <3>2, <3>4
  <2>5. CASE ~SameData(f, o)
    <3>1. /\ pc' = [pc EXCEPT ![f] = "get"]
          /\ ptr' = [ptr EXCEPT ![f] = o]
          /\ UNCHANGED cur
      BY <2>2, <2>5, Zenon
    <3>2. ShowsHeld' /\ FoundIsSlots' /\ ProcSawAll'
      BY <1>1, <2>1, <2>3, <3>1 DEF ShowsHeld, FoundIsSlots, ProcSawAll, TypeOK
    <3>3. SeenShowTables'
      BY <1>1, <2>1, <3>1 DEF SeenShowTables, ShowsTable, At, TypeOK
    <3> QED
      BY <3>2, <3>3
  <2> QED
    BY <2>4, <2>5
<1>5. CASE GetData(f)
  <2>1. /\ pc[f] = "get" /\ cur[f] \in Slots /\ ptr[f] \in Objects
        /\ UNCHANGED <<left, touched>>
        /\ held' = [held EXCEPT ![f][cur[f]] = data[ptr[f]]]
        /\ obj' = [obj EXCEPT ![f][cur[f]] = data[ptr[f]]]
        /\ NextSlot(f)
    BY <1>5 DEF GetData, TypeOK
  <2>2. /\ obj'[f][cur[f]] = data[ptr[f]] /\ held'[f][cur[f]] = data[ptr[f]]
        /\ \A g \in Filters, t \in Slots : <<g, t>> # <<f, cur[f]>> =>
             obj'[g][t] = obj[g][t] /\ held'[g][t] = held[g][t]
    BY <2>1 DEF TypeOK
  <2>3. ShowsHeld'
    BY <2>2 DEF ShowsHeld
  <2>4. FoundIsSlots' /\ ProcSawAll'
    BY <1>1, <2>1 DEF NextSlot, FoundIsSlots, ProcSawAll, TypeOK
  <2>5. cur[f] \notin touched[f] =>
          slot[f][cur[f]] # None /\ obj'[f][cur[f]] = data[slot[f][cur[f]]]
    BY <2>1, <2>2 DEF FoundIsSlots
  <2>6. SeenShowTables'
    <3> SUFFICES ASSUME NEW g \in Filters, pc'[g] # "off",
                        NEW s \in Slots \ (left[g] \union touched[g] \union At(g)')
                 PROVE  ShowsTable(g, s)'
      BY <2>1 DEF SeenShowTables
    <3>1. CASE g = f /\ s = cur[f]
      BY <1>1, <2>1, <2>5, <3>1 DEF ShowsTable
    <3>2. CASE ~(g = f /\ s = cur[f])
      <4>1. pc[g] # "off" /\ s \notin At(g)
        BY <2>1, <3>2 DEF NextSlot, At, TypeOK
      <4>2. ShowsTable(g, s)
        BY <4>1 DEF SeenShowTables
      <4> QED
        BY <1>1, <2>2, <3>2, <4>2 DEF ShowsTable
    <3> QED
      BY <3>1, <3>2
  <2> QED
    BY <2>3, <2>4, <2>6
<1>6. CASE EnterProc(f)
  BY <1>1, <1>6 DEF EnterProc, TypeOK, ShowsHeld, FoundIsSlots, SeenShowTables, ShowsTable,
     At, ProcSawAll
<1>7. CASE EndThread(f)
  BY <1>1, <1>7 DEF EndThread, TypeOK, ShowsHeld, FoundIsSlots, SeenShowTables, ShowsTable,
     At, ProcSawAll
<1> QED
  BY <1>2, <1>3, <1>4, <1>5, <1>6, <1>7 DEF Thread

\* Whatever handlers do to the tables while a thread looks through its slots,
\* proc() sees in each slot they have left alone the data of that slot's table.
THEOREM ProcSeesItsTables == Spec => []ProcSeesOwnTables
<1>1. ShownInv => ProcSeesOwnTables
  BY DEF ShownInv, SeenShowTables, ShowsTable, At, ProcSawAll, ProcSeesOwnTables
<1>2. ShownInv /\ [Next]_vars => ShownInv'
  <2> SUFFICES ASSUME ShownInv, [Next]_vars PROVE ShownInv'
    OBVIOUS
  <2>1. TypeOK'
    BY TablesTypeNext DEF ShownInv
  <2>2. CASE UNCHANGED vars
    BY <2>1, <2>2 DEF vars, clientVars, threadVars, ShownInv, ShowsHeld, FoundIsSlots,
       SeenShowTables, ShowsTable, At, ProcSawAll
  <2> QED
    BY <2>1, <2>2, ShownClient, ShownThread DEF Next
<1> QED
  BY ShownInvInit, <1>1, <1>2, PTL DEF Spec
=============================================================================
