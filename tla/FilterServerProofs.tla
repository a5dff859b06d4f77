-------------------------- MODULE FilterServerProofs --------------------------
(***************************************************************************)
(* Proofs about FilterServer, for every set of filters, threads and        *)
(* handlers.  MtxInv and CmdInv need nothing of the clients; OwnInv needs  *)
(* them Disciplined: no Run of an active filter, none beside a Quit.       *)
(***************************************************************************)
EXTENDS FilterServer, TLAPS

LEMMA CycleRangeFacts ==
  /\ 0 \in CycleRange
  /\ Intvl \in CycleRange
  /\ \A n \in CycleRange : n < Intvl => n + 1 \in CycleRange
  BY ServerAssumption DEF CycleRange

LEMMA TypeInit == Init => TypeOK
  <1> SUFFICES ASSUME Init PROVE TypeOK
    OBVIOUS
  <1>1. /\ filters \subseteq Filters
        /\ active \in [Filters -> BOOLEAN]
        /\ handle \in [Filters -> Threads \cup {NoOne}]
        /\ cycle \in [Filters -> CycleRange]
    BY CycleRangeFacts DEF Init
  <1>2. /\ cmd \in [Filters -> Threads \cup Handlers \cup {NoOne, Lost}]
        /\ mtx \in Handlers \cup {NoOne}
    BY DEF Init
  <1>3. /\ tpc \in [Threads -> ThreadPC]
        /\ tflt \in [Threads -> Filters \cup {NoOne}]
    BY DEF Init, ThreadPC
  <1>4. /\ hpc \in [Handlers -> HandlerPC]
        /\ hflt \in [Handlers -> Filters \cup {NoOne}]
        /\ todo \subseteq Filters
    BY DEF Init, HandlerPC, Requests
  <1>5. /\ clk \in {"STOP", "RUN", "PAUSE"}
        /\ main \in MainPC
        /\ exit \in BOOLEAN
    BY DEF Init, MainPC
  <1>6. /\ \A t \in Threads : tpc[t] = "free"
        /\ \A h \in Handlers : hpc[h] = "idle"
    BY DEF Init
  <1>7. QED
    BY <1>1, <1>2, <1>3, <1>4, <1>5, <1>6 DEF TypeOK

LEMMA TypeStep == TypeOK /\ [Next]_vars => TypeOK'
  <1> SUFFICES ASSUME TypeOK, [Next]_vars PROVE TypeOK'
    OBVIOUS
  <1> USE DEF TypeOK, ThreadPC, HandlerPC, Requests, MainPC
  <1>1. ASSUME NEW h \in Handlers, Request(h)
        PROVE  TypeOK'
    BY <1>1, ServerAssumption DEF Request, Requests, fvars, tvars, hvars, mvars
  <1>2. ASSUME NEW h \in Handlers, RunFilter(h)
        PROVE  TypeOK'
    BY <1>2, CycleRangeFacts DEF RunFilter, Lock, Proceed, Reply, fvars, tvars, hvars, mvars
  <1>3. ASSUME NEW h \in Handlers, RunSpawn(h)
        PROVE  TypeOK'
    <2> PICK t \in Threads :
           /\ tpc' = [tpc EXCEPT ![t] = "born"]
           /\ tflt' = [tflt EXCEPT ![t] = hflt[h]]
           /\ handle' = [handle EXCEPT ![hflt[h]] = t]
      BY <1>3 DEF RunSpawn
    <2>1. /\ tpc' \in [Threads -> ThreadPC]
          /\ tflt' \in [Threads -> Filters \cup {NoOne}]
          /\ handle' \in [Filters -> Threads \cup {NoOne}]
      BY <1>3 DEF RunSpawn
    <2>2. hpc' \in [Handlers -> HandlerPC]
      BY <1>3 DEF RunSpawn
    <2>3. QED
      BY <1>3, <2>1, <2>2 DEF RunSpawn, mvars
  <1>4. ASSUME NEW h \in Handlers, RunSpurious(h)
        PROVE  TypeOK'
    BY <1>4 DEF RunSpurious, fvars, tvars, hvars, mvars
  <1>5. ASSUME NEW h \in Handlers, RunReturn(h)
        PROVE  TypeOK'
    BY <1>5 DEF RunReturn, Reply, fvars, tvars, hvars, mvars
  <1>6. ASSUME NEW h \in Handlers, StopFilter(h)
        PROVE  TypeOK'
    <2>1. active' \in [Filters -> BOOLEAN]
      BY <1>6 DEF StopFilter, StopOrFail
    <2>2. /\ mtx' \in Handlers \cup {NoOne}
          /\ hpc' \in [Handlers -> HandlerPC]
          /\ hflt' \in [Handlers -> Filters \cup {NoOne}]
      BY <1>6 DEF StopFilter, StopOrFail, Lock, Proceed, Reply
    <2>3. \A g \in Handlers :
            hflt'[g] = NoOne => hpc'[g] \in {"idle", "quit", "quitting", "restart"}
      BY <1>6 DEF StopFilter, StopOrFail, Lock, Proceed, Reply
    <2>4. QED
      BY <1>6, <2>1, <2>2, <2>3 DEF StopFilter, tvars, mvars
  <1>7. ASSUME NEW h \in Handlers, StopJoin(h)
        PROVE  TypeOK'
    BY <1>7, ServerAssumption DEF StopJoin, Join, Reply, fvars, tvars, hvars, mvars
  <1>8. ASSUME NEW h \in Handlers, Quit(h)
        PROVE  TypeOK'
    BY <1>8 DEF Quit, Lock, Proceed, fvars, tvars, hvars, mvars
  <1>9. ASSUME NEW h \in Handlers, QuitNext(h)
        PROVE  TypeOK'
    <2> PICK f \in todo :
           IF active[f]
             THEN /\ StopOrFail(h, f, "quitjoin")
                  /\ todo' = IF hpc'[h] = "idle" THEN {} ELSE todo \ {f}
             ELSE /\ todo' = todo \ {f}
                  /\ UNCHANGED <<active, mtx, hpc, hflt>>
      BY <1>9 DEF QuitNext
    <2>1. active' \in [Filters -> BOOLEAN] /\ todo' \subseteq Filters
      BY DEF StopOrFail
    <2>2. /\ mtx' \in Handlers \cup {NoOne}
          /\ hpc' \in [Handlers -> HandlerPC]
          /\ hflt' \in [Handlers -> Filters \cup {NoOne}]
      BY DEF StopOrFail, Proceed, Reply
    <2>3. \A g \in Handlers :
            hflt'[g] = NoOne => hpc'[g] \in {"idle", "quit", "quitting", "restart"}
      BY ServerAssumption DEF StopOrFail, Proceed, Reply
    <2>4. QED
      BY <1>9, <2>1, <2>2, <2>3 DEF QuitNext, tvars, mvars
  <1>10. ASSUME NEW h \in Handlers, QuitJoin(h)
        PROVE  TypeOK'
    BY <1>10, ServerAssumption DEF QuitJoin, Join, fvars, tvars, hvars, mvars
  <1>11. ASSUME NEW h \in Handlers, QuitDone(h)
        PROVE  TypeOK'
    BY <1>11 DEF QuitDone, Reply, fvars, tvars, hvars, mvars
  <1>12. ASSUME NEW h \in Handlers, AddFilter(h)
        PROVE  TypeOK'
    <2>1. /\ filters' \subseteq Filters
          /\ active' \in [Filters -> BOOLEAN]
          /\ handle' \in [Filters -> Threads \cup {NoOne}]
          /\ cycle' \in [Filters -> CycleRange]
          /\ cmd' \in [Filters -> Threads \cup Handlers \cup {NoOne, Lost}]
      <3>1. hflt[h] \in Filters
        BY <1>12 DEF AddFilter, Lock
      <3>2. QED
        <4>1. CASE UNCHANGED <<fvars, cmd>>
          BY <4>1 DEF fvars
        <4>2. CASE ~ UNCHANGED <<fvars, cmd>>
          <5>1. /\ filters' = filters \cup {hflt[h]}
                /\ active' = [active EXCEPT ![hflt[h]] = FALSE]
                /\ handle' = [handle EXCEPT ![hflt[h]] = NoOne]
                /\ cycle' = [cycle EXCEPT ![hflt[h]] = 0]
                /\ cmd' = [cmd EXCEPT ![hflt[h]] = NoOne]
            BY <1>12, <4>2 DEF AddFilter
          <5>2. QED
            BY <3>1, <5>1, CycleRangeFacts
        <4>3. QED
          BY <4>1, <4>2
    <2>2. QED
      BY <1>12, <2>1, ServerAssumption DEF AddFilter, Lock, Reply, tvars, mvars
  <1>13. ASSUME NEW h \in Handlers, DelFilter(h)
        PROVE  TypeOK'
    BY <1>13 DEF DelFilter, Lock, Reply, fvars, tvars, hvars, mvars
  <1>14. ASSUME NEW h \in Handlers, SetFltrPar(h)
        PROVE  TypeOK'
    BY <1>14 DEF SetFltrPar, Lock, Proceed, Reply, fvars, tvars, hvars, mvars
  <1>15. ASSUME NEW h \in Handlers, SetParLock(h)
        PROVE  TypeOK'
    BY <1>15 DEF SetParLock, TakeCmd, fvars, tvars, hvars, mvars
  <1>16. ASSUME NEW h \in Handlers, SetParDone(h)
        PROVE  TypeOK'
    BY <1>16 DEF SetParDone, Reply, fvars, tvars, hvars, mvars
  <1>17. ASSUME NEW h \in Handlers, WatchFltrMsg(h)
        PROVE  TypeOK'
    BY <1>17 DEF WatchFltrMsg, Lock, Proceed, Reply, fvars, tvars, hvars, mvars
  <1>18. ASSUME NEW h \in Handlers, WatchLock(h)
        PROVE  TypeOK'
    BY <1>18 DEF WatchLock, TakeCmd, fvars, tvars, hvars, mvars
  <1>19. ASSUME NEW h \in Handlers, WatchCopied(h)
        PROVE  TypeOK'
    BY <1>19 DEF WatchCopied, fvars, tvars, hvars, mvars
  <1>20. ASSUME NEW h \in Handlers, WatchWrite(h)
        PROVE  TypeOK'
    BY <1>20 DEF WatchWrite, fvars, tvars, hvars, mvars
  <1>21. ASSUME NEW h \in Handlers, SetClockState(h)
        PROVE  TypeOK'
    BY <1>21 DEF SetClockState, fvars, tvars, hvars, mvars
  <1>22. ASSUME NEW h \in Handlers, ClockRestart(h)
        PROVE  TypeOK'
    BY <1>22 DEF ClockRestart, fvars, tvars, hvars, mvars
  <1>23. ASSUME NEW t \in Threads, ThreadInit(t)
        PROVE  TypeOK'
    BY <1>23 DEF ThreadInit, fvars, tvars, hvars, mvars
  <1>24. ASSUME NEW t \in Threads, ThreadLoop(t)
        PROVE  TypeOK'
    BY <1>24 DEF ThreadLoop, WaitOrLock, fvars, tvars, hvars, mvars
  <1>25. ASSUME NEW t \in Threads, ThreadSpurious(t)
        PROVE  TypeOK'
    BY <1>25 DEF ThreadSpurious, fvars, tvars, hvars, mvars
  <1>26. ASSUME NEW t \in Threads, ThreadWoken(t)
        PROVE  TypeOK'
    BY <1>26, CycleRangeFacts DEF ThreadWoken, WaitOrLock, fvars, tvars, hvars, mvars
  <1>27. ASSUME NEW t \in Threads, ThreadLock(t)
        PROVE  TypeOK'
    BY <1>27 DEF ThreadLock, fvars, tvars, hvars, mvars
  <1>28. ASSUME NEW t \in Threads, ThreadProc(t)
        PROVE  TypeOK'
    BY <1>28, CycleRangeFacts DEF ThreadProc, fvars, tvars, hvars, mvars
  <1>29. ASSUME NEW t \in Threads, ThreadBreak(t)
        PROVE  TypeOK'
    BY <1>29 DEF ThreadBreak, fvars, tvars, hvars, mvars
  <1>30. ASSUME NEW t \in Threads, ThreadDestroy(t)
        PROVE  TypeOK'
    BY <1>30 DEF ThreadDestroy, fvars, tvars, hvars, mvars
  <1>31. ASSUME MainTick
        PROVE  TypeOK'
    BY <1>31 DEF MainTick, fvars, tvars, hvars, mvars
  <1>32. ASSUME MainClock
        PROVE  TypeOK'
    BY <1>32 DEF MainClock, fvars, tvars, hvars, mvars
  <1>33. ASSUME MainExit
        PROVE  TypeOK'
    BY <1>33 DEF MainExit, fvars, tvars, hvars, mvars
  <1>34. ASSUME MainShutdown
        PROVE  TypeOK'
    BY <1>34 DEF MainShutdown, fvars, tvars, hvars, mvars
  <1>35. ASSUME MainClear
        PROVE  TypeOK'
    BY <1>35 DEF MainClear, fvars, tvars, hvars, mvars
  <1>36. CASE UNCHANGED vars
    BY <1>36 DEF vars, fvars, tvars, hvars, mvars
  <1>37. QED
    BY <1>1, <1>2, <1>3, <1>4, <1>5, <1>6, <1>7, <1>8, <1>9, <1>10, <1>11, <1>12, <1>13, <1>14, <1>15, <1>16, <1>17, <1>18, <1>19, <1>20, <1>21, <1>22, <1>23, <1>24, <1>25, <1>26, <1>27, <1>28, <1>29, <1>30, <1>31, <1>32, <1>33, <1>34, <1>35, <1>36 DEF Next, HandlerStep, ThreadStep, MainStep, RunStep, StopStep, QuitStep, ParStep, WatchStep, Terminated

\* Every variable has its type, and every handler in a call and every thread
\* points to a filter name.
THEOREM TypeCorrect == Spec => []TypeOK
  BY TypeInit, TypeStep, PTL DEF Spec

-----------------------------------------------------------------------------
(* The mutexes *)

\* Exactly the handlers between paws->lock() and paws->unlock() hold m_mtx.
MtxInv == \A h \in Handlers : hpc[h] \in Locked <=> mtx = h

\* Whoever uses a filter under its m_mutex_cmd is the recorded holder.
CmdInv ==
  /\ \A h \in Handlers : hpc[h] \in {"paruse", "watchuse"} => cmd[hflt[h]] = h
  /\ \A t \in Threads : tpc[t] = "proc" => cmd[tflt[t]] = t

LEMMA MtxStep == TypeOK /\ MtxInv /\ [Next]_vars => MtxInv'
  <1> SUFFICES ASSUME TypeOK, MtxInv, [Next]_vars PROVE MtxInv'
    OBVIOUS
  <1> USE ServerAssumption DEF TypeOK, MtxInv, Locked
  <1>1. ASSUME NEW h \in Handlers, Request(h)
        PROVE  MtxInv'
    BY <1>1 DEF Request, Requests, hvars
  <1>2. ASSUME NEW h \in Handlers, RunStep(h)
        PROVE  MtxInv'
    BY <1>2 DEF RunStep, RunFilter, RunSpawn, RunReturn, Lock, Proceed,
       Reply, hvars
  <1>3. ASSUME NEW h \in Handlers, StopStep(h)
        PROVE  MtxInv'
    BY <1>3 DEF StopStep, StopFilter, StopJoin, StopOrFail, Join, Lock,
       Proceed, Reply, hvars
  <1>4. ASSUME NEW h \in Handlers, QuitStep(h)
        PROVE  MtxInv'
    BY <1>4 DEF QuitStep, Quit, QuitNext, QuitJoin, QuitDone, StopOrFail,
       Join, Lock, Proceed, Reply, hvars
  <1>5. ASSUME NEW h \in Handlers, ParStep(h)
        PROVE  MtxInv'
    BY <1>5 DEF ParStep, SetFltrPar, SetParLock, SetParDone, TakeCmd,
       Lock, Proceed, Reply, hvars
  <1>6. ASSUME NEW h \in Handlers, WatchStep(h)
        PROVE  MtxInv'
    BY <1>6 DEF WatchStep, WatchFltrMsg, WatchLock, WatchCopied,
       WatchWrite, TakeCmd, Lock, Proceed, Reply, hvars
  <1>7. ASSUME NEW h \in Handlers, AddFilter(h) \/ DelFilter(h)
        PROVE  MtxInv'
    BY <1>7 DEF AddFilter, DelFilter, Lock, Reply, hvars
  <1>8. ASSUME NEW h \in Handlers, SetClockState(h) \/ ClockRestart(h) \/ RunSpurious(h)
        PROVE  MtxInv'
    BY <1>8 DEF SetClockState, ClockRestart, RunSpurious, hvars
  <1>9. ASSUME NEW t \in Threads, ThreadStep(t) \/ ThreadSpurious(t)
        PROVE  MtxInv'
    BY <1>9 DEF ThreadStep, ThreadInit, ThreadLoop, ThreadSpurious,
       ThreadWoken, ThreadLock, ThreadProc, ThreadBreak, ThreadDestroy,
       hvars
  <1>10. ASSUME MainStep
        PROVE  MtxInv'
    BY <1>10 DEF MainStep, MainTick, MainClock, MainExit, MainShutdown,
       MainClear, hvars
  <1>11. CASE UNCHANGED vars
    BY <1>11 DEF vars, fvars, tvars, hvars, mvars
  <1>12. QED
    BY <1>1, <1>2, <1>3, <1>4, <1>5, <1>6, <1>7, <1>8, <1>9,
       <1>10, <1>11 DEF Next, HandlerStep, Terminated

LEMMA CmdStep == TypeOK /\ MtxInv /\ CmdInv /\ [Next]_vars => CmdInv'
  <1> SUFFICES ASSUME TypeOK, MtxInv, CmdInv, [Next]_vars PROVE CmdInv'
    OBVIOUS
  <1> USE ServerAssumption DEF TypeOK, CmdInv, MtxInv, Locked, Live, LiveOf
  <1>1. ASSUME NEW h \in Handlers, Request(h)
        PROVE  CmdInv'
    BY <1>1 DEF Request, Requests, fvars, tvars, hvars
  <1>2. ASSUME NEW h \in Handlers, RunStep(h)
        PROVE  CmdInv'
    BY <1>2 DEF RunStep, RunFilter, RunSpawn, RunReturn, Lock, Proceed,
       Reply, Unused, fvars, tvars, hvars
  <1>3. ASSUME NEW h \in Handlers, StopStep(h)
        PROVE  CmdInv'
    BY <1>3 DEF StopStep, StopFilter, StopJoin, StopOrFail, Join, Lock,
       Proceed, Reply, fvars, tvars, hvars
  <1>4. ASSUME NEW h \in Handlers, QuitStep(h)
        PROVE  CmdInv'
    BY <1>4 DEF QuitStep, Quit, QuitNext, QuitJoin, QuitDone, StopOrFail,
       Join, Lock, Proceed, Reply, fvars, tvars, hvars
  <1>5. ASSUME NEW h \in Handlers, ParStep(h)
        PROVE  CmdInv'
    BY <1>5 DEF ParStep, SetFltrPar, SetParLock, SetParDone, TakeCmd,
       Lock, Proceed, Reply, fvars, tvars, hvars
  <1>6. ASSUME NEW h \in Handlers, WatchStep(h)
        PROVE  CmdInv'
    BY <1>6 DEF WatchStep, WatchFltrMsg, WatchLock, WatchCopied,
       WatchWrite, TakeCmd, Lock, Proceed, Reply, fvars, tvars, hvars
  <1>7. ASSUME NEW h \in Handlers, AddFilter(h) \/ DelFilter(h)
        PROVE  CmdInv'
    BY <1>7 DEF AddFilter, DelFilter, Lock, Reply, fvars, tvars, hvars
  <1>8. ASSUME NEW h \in Handlers, SetClockState(h) \/ ClockRestart(h) \/ RunSpurious(h)
        PROVE  CmdInv'
    BY <1>8 DEF SetClockState, ClockRestart, RunSpurious, fvars, tvars,
       hvars
  <1>9. ASSUME NEW t \in Threads, ThreadStep(t) \/ ThreadSpurious(t)
        PROVE  CmdInv'
    BY <1>9 DEF ThreadStep, ThreadInit, ThreadLoop, ThreadSpurious,
       ThreadWoken, ThreadLock, ThreadProc, ThreadBreak, ThreadDestroy,
       WaitOrLock, fvars, tvars, hvars
  <1>10. ASSUME MainStep
        PROVE  CmdInv'
    BY <1>10 DEF MainStep, MainTick, MainClock, MainExit, MainShutdown,
       MainClear, fvars, tvars, hvars
  <1>11. CASE UNCHANGED vars
    BY <1>11 DEF vars, fvars, tvars, hvars, mvars
  <1>12. QED
    BY <1>1, <1>2, <1>3, <1>4, <1>5, <1>6, <1>7, <1>8, <1>9,
       <1>10, <1>11 DEF Next, HandlerStep, Terminated

LEMMA LocksHold == Spec => [](TypeOK /\ MtxInv /\ CmdInv)
  <1>1. Init => MtxInv /\ CmdInv
    BY ServerAssumption DEF Init, MtxInv, CmdInv, Locked
  <1>2. QED
    BY <1>1, TypeInit, TypeStep, MtxStep, CmdStep, PTL DEF Spec

\* No handler reads or writes a filter's parameters, channels or message while
\* the filter's proc() runs, whatever clients do: m_mutex_cmd excludes them.
THEOREM CmdExclusion == Spec => []CmdExclusive
  <1>1. TypeOK /\ CmdInv => CmdExclusive
    BY ServerAssumption DEF TypeOK, CmdInv, CmdExclusive
  <1>2. QED
    BY <1>1, LocksHold, PTL

-----------------------------------------------------------------------------
(* Filters and the threads that use them *)

Disciplined == ~RunsActive /\ ~RunsDuringQuit

Joining(f) == \E h \in Handlers : hpc[h] \in {"join", "quitjoin"} /\ hflt[h] = f

\* A Run finds no thread of its filter that is not about to be joined.
RunInv ==
  \A h \in Handlers :
    /\ hpc[h] = "run" =>
         /\ LiveOf(hflt[h]) # {} => Joining(hflt[h])
         /\ \A g \in Handlers :
              hpc[g] \in {"run", "runlock"} /\ hflt[g] = hflt[h] => g = h
    /\ hpc[h] = "runlock" => LiveOf(hflt[h]) = {} /\ active[hflt[h]]

\* quit() leaves no thread behind among the filters it has visited, and no
\* Run comes after it.
QuitInv ==
  /\ \A h \in Handlers :
       hpc[h] \in {"quitting", "quitjoin"} =>
         /\ todo \subseteq filters
         /\ \A t \in Threads :
              Live(t) => \/ tflt[t] \in todo
                         \/ hpc[h] = "quitjoin" /\ tflt[t] = hflt[h]
  /\ \A g, h \in Handlers :
       ~ (hpc[g] \in {"quit", "quitting", "quitjoin"} /\ hpc[h] \in {"run", "runlock"})
  /\ exit => /\ \A t \in Threads : ~Live(t)
             /\ \A h \in Handlers : hpc[h] \notin {"run", "runlock"}
  /\ main \in {"shutdown", "clear", "over"} => exit
  /\ main \in {"clear", "over"} => \A h \in Handlers : hpc[h] = "idle"

\* No conjunct is inductive alone: that a thread's filter is loaded rests on
\* del_filter() seeing it active, that on no Run being late, that on Quit.
OwnInv ==
  /\ ThreadOwnsFilter
  /\ HandlerUsesLoaded
  /\ InactiveIsQuiet
  /\ RunInv
  /\ QuitInv

LEMMA OwnInit == Init => OwnInv
  BY ServerAssumption DEF Init, OwnInv, ThreadOwnsFilter, HandlerUsesLoaded,
     InactiveIsQuiet, RunInv, QuitInv, Locked, Live

LEMMA ThreadOwnsFilterStep ==
  Disciplined /\ TypeOK /\ MtxInv /\ OwnInv /\ [Next]_vars => ThreadOwnsFilter'
  <1> SUFFICES ASSUME Disciplined, TypeOK, MtxInv, OwnInv, [Next]_vars
               PROVE  ThreadOwnsFilter'
    OBVIOUS
  <1> USE ServerAssumption
      DEF Disciplined, TypeOK, MtxInv, Locked, Live, LiveOf, Joining, OwnInv,
          ThreadOwnsFilter, HandlerUsesLoaded, InactiveIsQuiet, RunInv, QuitInv
  <1>1. ASSUME NEW h \in Handlers, Request(h)
        PROVE  ThreadOwnsFilter'
    BY <1>1 DEF Request, Requests, MayRun, MayQuit, fvars, tvars, hvars,
       mvars
  <1>2. ASSUME NEW h \in Handlers, RunStep(h)
        PROVE  ThreadOwnsFilter'
    BY <1>2 DEF RunStep, RunFilter, RunSpawn, RunReturn, Lock, Proceed,
       Reply, Unused, fvars, tvars, hvars, mvars
  <1>3. ASSUME NEW h \in Handlers, StopStep(h)
        PROVE  ThreadOwnsFilter'
    BY <1>3 DEF StopStep, StopFilter, StopJoin, StopOrFail, Join, Lock,
       Proceed, Reply, fvars, tvars, hvars, mvars
  <1>4. ASSUME NEW h \in Handlers, QuitStep(h)
        PROVE  ThreadOwnsFilter'
    BY <1>4 DEF QuitStep, Quit, QuitNext, QuitJoin, QuitDone, StopOrFail,
       Join, Lock, Proceed, Reply, fvars, tvars, hvars, mvars
  <1>5. ASSUME NEW h \in Handlers, ParStep(h)
        PROVE  ThreadOwnsFilter'
    BY <1>5 DEF ParStep, SetFltrPar, SetParLock, SetParDone, TakeCmd,
       Lock, Proceed, Reply, fvars, tvars, hvars, mvars
  <1>6. ASSUME NEW h \in Handlers, WatchStep(h)
        PROVE  ThreadOwnsFilter'
    BY <1>6 DEF WatchStep, WatchFltrMsg, WatchLock, WatchCopied,
       WatchWrite, TakeCmd, Lock, Proceed, Reply, fvars, tvars, hvars,
       mvars
  <1>7. ASSUME NEW h \in Handlers, AddFilter(h) \/ DelFilter(h)
        PROVE  ThreadOwnsFilter'
    BY <1>7 DEF AddFilter, DelFilter, Lock, Reply, fvars, tvars, hvars,
       mvars
  <1>8. ASSUME NEW h \in Handlers, SetClockState(h) \/ ClockRestart(h) \/ RunSpurious(h)
        PROVE  ThreadOwnsFilter'
    BY <1>8 DEF SetClockState, ClockRestart, RunSpurious, fvars, tvars,
       hvars, mvars
  <1>9. ASSUME NEW t \in Threads, ThreadStep(t) \/ ThreadSpurious(t)
        PROVE  ThreadOwnsFilter'
    BY <1>9 DEF ThreadStep, ThreadInit, ThreadLoop, ThreadSpurious,
       ThreadWoken, ThreadLock, ThreadProc, ThreadBreak, ThreadDestroy,
       WaitOrLock, fvars, tvars, hvars, mvars
  <1>10. ASSUME MainStep
        PROVE  ThreadOwnsFilter'
    BY <1>10 DEF MainStep, MainTick, MainClock, MainExit, MainShutdown,
       MainClear, fvars, tvars, hvars, mvars
  <1>11. CASE UNCHANGED vars
    BY <1>11 DEF vars, fvars, tvars, hvars, mvars
  <1>12. QED
    BY <1>1, <1>2, <1>3, <1>4, <1>5, <1>6, <1>7, <1>8, <1>9,
       <1>10, <1>11 DEF Next, HandlerStep, Terminated

LEMMA HandlerUsesLoadedStep ==
  Disciplined /\ TypeOK /\ MtxInv /\ OwnInv /\ [Next]_vars => HandlerUsesLoaded'
  <1> SUFFICES ASSUME Disciplined, TypeOK, MtxInv, OwnInv, [Next]_vars
               PROVE  HandlerUsesLoaded'
    OBVIOUS
  <1> USE ServerAssumption
      DEF Disciplined, TypeOK, MtxInv, Locked, Live, LiveOf, Joining, OwnInv,
          ThreadOwnsFilter, HandlerUsesLoaded, InactiveIsQuiet, RunInv, QuitInv
  <1>1. ASSUME NEW h \in Handlers, Request(h)
        PROVE  HandlerUsesLoaded'
    BY <1>1 DEF Request, Requests, MayRun, MayQuit, fvars, tvars, hvars,
       mvars
  <1>2. ASSUME NEW h \in Handlers, RunStep(h)
        PROVE  HandlerUsesLoaded'
    BY <1>2 DEF RunStep, RunFilter, RunSpawn, RunReturn, Lock, Proceed,
       Reply, Unused, fvars, tvars, hvars, mvars
  <1>3. ASSUME NEW h \in Handlers, StopStep(h)
        PROVE  HandlerUsesLoaded'
    BY <1>3 DEF StopStep, StopFilter, StopJoin, StopOrFail, Join, Lock,
       Proceed, Reply, fvars, tvars, hvars, mvars
  <1>4. ASSUME NEW h \in Handlers, QuitStep(h)
        PROVE  HandlerUsesLoaded'
    BY <1>4 DEF QuitStep, Quit, QuitNext, QuitJoin, QuitDone, StopOrFail,
       Join, Lock, Proceed, Reply, fvars, tvars, hvars, mvars
  <1>5. ASSUME NEW h \in Handlers, ParStep(h)
        PROVE  HandlerUsesLoaded'
    BY <1>5 DEF ParStep, SetFltrPar, SetParLock, SetParDone, TakeCmd,
       Lock, Proceed, Reply, fvars, tvars, hvars, mvars
  <1>6. ASSUME NEW h \in Handlers, WatchStep(h)
        PROVE  HandlerUsesLoaded'
    BY <1>6 DEF WatchStep, WatchFltrMsg, WatchLock, WatchCopied,
       WatchWrite, TakeCmd, Lock, Proceed, Reply, fvars, tvars, hvars,
       mvars
  <1>7. ASSUME NEW h \in Handlers, AddFilter(h) \/ DelFilter(h)
        PROVE  HandlerUsesLoaded'
    BY <1>7 DEF AddFilter, DelFilter, Lock, Reply, fvars, tvars, hvars,
       mvars
  <1>8. ASSUME NEW h \in Handlers, SetClockState(h) \/ ClockRestart(h) \/ RunSpurious(h)
        PROVE  HandlerUsesLoaded'
    BY <1>8 DEF SetClockState, ClockRestart, RunSpurious, fvars, tvars,
       hvars, mvars
  <1>9. ASSUME NEW t \in Threads, ThreadStep(t) \/ ThreadSpurious(t)
        PROVE  HandlerUsesLoaded'
    BY <1>9 DEF ThreadStep, ThreadInit, ThreadLoop, ThreadSpurious,
       ThreadWoken, ThreadLock, ThreadProc, ThreadBreak, ThreadDestroy,
       WaitOrLock, fvars, tvars, hvars, mvars
  <1>10. ASSUME MainStep
        PROVE  HandlerUsesLoaded'
    BY <1>10 DEF MainStep, MainTick, MainClock, MainExit, MainShutdown,
       MainClear, fvars, tvars, hvars, mvars
  <1>11. CASE UNCHANGED vars
    BY <1>11 DEF vars, fvars, tvars, hvars, mvars
  <1>12. QED
    BY <1>1, <1>2, <1>3, <1>4, <1>5, <1>6, <1>7, <1>8, <1>9,
       <1>10, <1>11 DEF Next, HandlerStep, Terminated

LEMMA InactiveIsQuietStep ==
  Disciplined /\ TypeOK /\ MtxInv /\ OwnInv /\ [Next]_vars => InactiveIsQuiet'
  <1> SUFFICES ASSUME Disciplined, TypeOK, MtxInv, OwnInv, [Next]_vars
               PROVE  InactiveIsQuiet'
    OBVIOUS
  <1> USE ServerAssumption
      DEF Disciplined, TypeOK, MtxInv, Locked, Live, LiveOf, Joining, OwnInv,
          ThreadOwnsFilter, HandlerUsesLoaded, InactiveIsQuiet, RunInv, QuitInv
  <1>1. ASSUME NEW h \in Handlers, Request(h)
        PROVE  InactiveIsQuiet'
    BY <1>1 DEF Request, Requests, MayRun, MayQuit, fvars, tvars, hvars,
       mvars
  <1>2. ASSUME NEW h \in Handlers, RunStep(h)
        PROVE  InactiveIsQuiet'
    BY <1>2 DEF RunStep, RunFilter, RunSpawn, RunReturn, Lock, Proceed,
       Reply, Unused, fvars, tvars, hvars, mvars
  <1>3. ASSUME NEW h \in Handlers, StopStep(h)
        PROVE  InactiveIsQuiet'
    BY <1>3 DEF StopStep, StopFilter, StopJoin, StopOrFail, Join, Lock,
       Proceed, Reply, fvars, tvars, hvars, mvars
  <1>4. ASSUME NEW h \in Handlers, QuitStep(h)
        PROVE  InactiveIsQuiet'
    BY <1>4 DEF QuitStep, Quit, QuitNext, QuitJoin, QuitDone, StopOrFail,
       Join, Lock, Proceed, Reply, fvars, tvars, hvars, mvars
  <1>5. ASSUME NEW h \in Handlers, ParStep(h)
        PROVE  InactiveIsQuiet'
    BY <1>5 DEF ParStep, SetFltrPar, SetParLock, SetParDone, TakeCmd,
       Lock, Proceed, Reply, fvars, tvars, hvars, mvars
  <1>6. ASSUME NEW h \in Handlers, WatchStep(h)
        PROVE  InactiveIsQuiet'
    BY <1>6 DEF WatchStep, WatchFltrMsg, WatchLock, WatchCopied,
       WatchWrite, TakeCmd, Lock, Proceed, Reply, fvars, tvars, hvars,
       mvars
  <1>7. ASSUME NEW h \in Handlers, AddFilter(h) \/ DelFilter(h)
        PROVE  InactiveIsQuiet'
    BY <1>7 DEF AddFilter, DelFilter, Lock, Reply, fvars, tvars, hvars,
       mvars
  <1>8. ASSUME NEW h \in Handlers, SetClockState(h) \/ ClockRestart(h) \/ RunSpurious(h)
        PROVE  InactiveIsQuiet'
    BY <1>8 DEF SetClockState, ClockRestart, RunSpurious, fvars, tvars,
       hvars, mvars
  <1>9. ASSUME NEW t \in Threads, ThreadStep(t) \/ ThreadSpurious(t)
        PROVE  InactiveIsQuiet'
    BY <1>9 DEF ThreadStep, ThreadInit, ThreadLoop, ThreadSpurious,
       ThreadWoken, ThreadLock, ThreadProc, ThreadBreak, ThreadDestroy,
       WaitOrLock, fvars, tvars, hvars, mvars
  <1>10. ASSUME MainStep
        PROVE  InactiveIsQuiet'
    BY <1>10 DEF MainStep, MainTick, MainClock, MainExit, MainShutdown,
       MainClear, fvars, tvars, hvars, mvars
  <1>11. CASE UNCHANGED vars
    BY <1>11 DEF vars, fvars, tvars, hvars, mvars
  <1>12. QED
    BY <1>1, <1>2, <1>3, <1>4, <1>5, <1>6, <1>7, <1>8, <1>9,
       <1>10, <1>11 DEF Next, HandlerStep, Terminated

LEMMA RunInvStep ==
  Disciplined /\ TypeOK /\ MtxInv /\ OwnInv /\ [Next]_vars => RunInv'
  <1> SUFFICES ASSUME Disciplined, TypeOK, MtxInv, OwnInv, [Next]_vars
               PROVE  RunInv'
    OBVIOUS
  <1> USE ServerAssumption
      DEF Disciplined, TypeOK, MtxInv, Locked, Live, LiveOf, Joining, OwnInv,
          ThreadOwnsFilter, HandlerUsesLoaded, InactiveIsQuiet, RunInv, QuitInv
  <1>1. ASSUME NEW h \in Handlers, Request(h)
        PROVE  RunInv'
    BY <1>1 DEF Request, Requests, MayRun, MayQuit, fvars, tvars, hvars,
       mvars
  <1>2. ASSUME NEW h \in Handlers, RunStep(h)
        PROVE  RunInv'
    BY <1>2 DEF RunStep, RunFilter, RunSpawn, RunReturn, Lock, Proceed,
       Reply, Unused, fvars, tvars, hvars, mvars
  <1>3. ASSUME NEW h \in Handlers, StopStep(h)
        PROVE  RunInv'
    BY <1>3 DEF StopStep, StopFilter, StopJoin, StopOrFail, Join, Lock,
       Proceed, Reply, fvars, tvars, hvars, mvars
  <1>4. ASSUME NEW h \in Handlers, QuitStep(h)
        PROVE  RunInv'
    BY <1>4 DEF QuitStep, Quit, QuitNext, QuitJoin, QuitDone, StopOrFail,
       Join, Lock, Proceed, Reply, fvars, tvars, hvars, mvars
  <1>5. ASSUME NEW h \in Handlers, ParStep(h)
        PROVE  RunInv'
    BY <1>5 DEF ParStep, SetFltrPar, SetParLock, SetParDone, TakeCmd,
       Lock, Proceed, Reply, fvars, tvars, hvars, mvars
  <1>6. ASSUME NEW h \in Handlers, WatchStep(h)
        PROVE  RunInv'
    BY <1>6 DEF WatchStep, WatchFltrMsg, WatchLock, WatchCopied,
       WatchWrite, TakeCmd, Lock, Proceed, Reply, fvars, tvars, hvars,
       mvars
  <1>7. ASSUME NEW h \in Handlers, AddFilter(h) \/ DelFilter(h)
        PROVE  RunInv'
    BY <1>7 DEF AddFilter, DelFilter, Lock, Reply, fvars, tvars, hvars,
       mvars
  <1>8. ASSUME NEW h \in Handlers, SetClockState(h) \/ ClockRestart(h) \/ RunSpurious(h)
        PROVE  RunInv'
    BY <1>8 DEF SetClockState, ClockRestart, RunSpurious, fvars, tvars,
       hvars, mvars
  <1>9. ASSUME NEW t \in Threads, ThreadStep(t) \/ ThreadSpurious(t)
        PROVE  RunInv'
    BY <1>9 DEF ThreadStep, ThreadInit, ThreadLoop, ThreadSpurious,
       ThreadWoken, ThreadLock, ThreadProc, ThreadBreak, ThreadDestroy,
       WaitOrLock, fvars, tvars, hvars, mvars
  <1>10. ASSUME MainStep
        PROVE  RunInv'
    BY <1>10 DEF MainStep, MainTick, MainClock, MainExit, MainShutdown,
       MainClear, fvars, tvars, hvars, mvars
  <1>11. CASE UNCHANGED vars
    BY <1>11 DEF vars, fvars, tvars, hvars, mvars
  <1>12. QED
    BY <1>1, <1>2, <1>3, <1>4, <1>5, <1>6, <1>7, <1>8, <1>9,
       <1>10, <1>11 DEF Next, HandlerStep, Terminated

LEMMA QuitInvStep ==
  Disciplined /\ TypeOK /\ MtxInv /\ OwnInv /\ [Next]_vars => QuitInv'
  <1> SUFFICES ASSUME Disciplined, TypeOK, MtxInv, OwnInv, [Next]_vars
               PROVE  QuitInv'
    OBVIOUS
  <1> USE ServerAssumption
      DEF Disciplined, TypeOK, MtxInv, Locked, Live, LiveOf, Joining, OwnInv,
          ThreadOwnsFilter, HandlerUsesLoaded, InactiveIsQuiet, RunInv, QuitInv
  <1>1. ASSUME NEW h \in Handlers, Request(h)
        PROVE  QuitInv'
    BY <1>1 DEF Request, Requests, MayRun, MayQuit, fvars, tvars, hvars,
       mvars
  <1>2. ASSUME NEW h \in Handlers, RunStep(h)
        PROVE  QuitInv'
    BY <1>2 DEF RunStep, RunFilter, RunSpawn, RunReturn, Lock, Proceed,
       Reply, Unused, fvars, tvars, hvars, mvars
  <1>3. ASSUME NEW h \in Handlers, StopStep(h)
        PROVE  QuitInv'
    BY <1>3 DEF StopStep, StopFilter, StopJoin, StopOrFail, Join, Lock,
       Proceed, Reply, fvars, tvars, hvars, mvars
  <1>4. ASSUME NEW h \in Handlers, QuitStep(h)
        PROVE  QuitInv'
    BY <1>4 DEF QuitStep, Quit, QuitNext, QuitJoin, QuitDone, StopOrFail,
       Join, Lock, Proceed, Reply, fvars, tvars, hvars, mvars
  <1>5. ASSUME NEW h \in Handlers, ParStep(h)
        PROVE  QuitInv'
    BY <1>5 DEF ParStep, SetFltrPar, SetParLock, SetParDone, TakeCmd,
       Lock, Proceed, Reply, fvars, tvars, hvars, mvars
  <1>6. ASSUME NEW h \in Handlers, WatchStep(h)
        PROVE  QuitInv'
    BY <1>6 DEF WatchStep, WatchFltrMsg, WatchLock, WatchCopied,
       WatchWrite, TakeCmd, Lock, Proceed, Reply, fvars, tvars, hvars,
       mvars
  <1>7. ASSUME NEW h \in Handlers, AddFilter(h) \/ DelFilter(h)
        PROVE  QuitInv'
    BY <1>7 DEF AddFilter, DelFilter, Lock, Reply, fvars, tvars, hvars,
       mvars
  <1>8. ASSUME NEW h \in Handlers, SetClockState(h) \/ ClockRestart(h) \/ RunSpurious(h)
        PROVE  QuitInv'
    BY <1>8 DEF SetClockState, ClockRestart, RunSpurious, fvars, tvars,
       hvars, mvars
  <1>9. ASSUME NEW t \in Threads, ThreadStep(t) \/ ThreadSpurious(t)
        PROVE  QuitInv'
    BY <1>9 DEF ThreadStep, ThreadInit, ThreadLoop, ThreadSpurious,
       ThreadWoken, ThreadLock, ThreadProc, ThreadBreak, ThreadDestroy,
       WaitOrLock, fvars, tvars, hvars, mvars
  <1>10. ASSUME MainStep
        PROVE  QuitInv'
    BY <1>10 DEF MainStep, MainTick, MainClock, MainExit, MainShutdown,
       MainClear, fvars, tvars, hvars, mvars
  <1>11. CASE UNCHANGED vars
    BY <1>11 DEF vars, fvars, tvars, hvars, mvars
  <1>12. QED
    BY <1>1, <1>2, <1>3, <1>4, <1>5, <1>6, <1>7, <1>8, <1>9,
       <1>10, <1>11 DEF Next, HandlerStep, Terminated

LEMMA OwnStep ==
  Disciplined /\ TypeOK /\ MtxInv /\ OwnInv /\ [Next]_vars => OwnInv'
  BY ThreadOwnsFilterStep, HandlerUsesLoadedStep, InactiveIsQuietStep,
     RunInvStep, QuitInvStep DEF OwnInv

LEMMA OwnHolds == Disciplined => (Spec => [](TypeOK /\ MtxInv /\ OwnInv))
  <1> SUFFICES ASSUME Disciplined PROVE Spec => [](TypeOK /\ MtxInv /\ OwnInv)
    OBVIOUS
  <1>1. TypeOK /\ MtxInv /\ OwnInv /\ [Next]_vars => OwnInv'
    BY OwnStep
  <1>2. QED
    BY <1>1, OwnInit, LocksHold, PTL DEF Spec

\* Under disciplined clients no thread outlives its filter, no handler holds a
\* freed one, and a filter that reports itself inactive has no thread left
\* unless a join for it is under way.
THEOREM FiltersAreOwned == Disciplined => (Spec => []FiltersInUseStay)
  <1>1. OwnInv => FiltersInUseStay
    BY DEF OwnInv, FiltersInUseStay
  <1>2. QED
    BY <1>1, OwnHolds, PTL

\* ~c_aws() deletes the filters only when every filter thread has ended.
THEOREM TeardownIsQuiet == Disciplined => (Spec => []NoThreadAtTeardown)
  <1>1. OwnInv => NoThreadAtTeardown
    BY DEF OwnInv, QuitInv, NoThreadAtTeardown
  <1>2. QED
    BY <1>1, OwnHolds, PTL

LEMMA StopStepWaits ==
  ASSUME TypeOK, MtxInv, OwnInv, [Next]_vars,
         NEW g \in Handlers, hpc[g] = "join", hpc'[g] = "idle"
  PROVE  LiveOf(hflt[g]) = {}
  <1> USE ServerAssumption DEF TypeOK, MtxInv, Locked
  <1>1. ASSUME NEW h \in Handlers, Request(h)
        PROVE  LiveOf(hflt[g]) = {}
    BY <1>1 DEF Request, Requests, hvars
  <1>2. ASSUME NEW h \in Handlers, RunStep(h)
        PROVE  LiveOf(hflt[g]) = {}
    BY <1>2 DEF RunStep, RunFilter, RunSpawn, RunReturn, Lock, Proceed,
       Reply, hvars
  <1>3. ASSUME NEW h \in Handlers, StopStep(h)
        PROVE  LiveOf(hflt[g]) = {}
    BY <1>3 DEF StopStep, StopFilter, StopJoin, StopOrFail, Join, Lock,
       Proceed, Reply, OwnInv, ThreadOwnsFilter, LiveOf, Live, hvars
  <1>4. ASSUME NEW h \in Handlers, QuitStep(h)
        PROVE  LiveOf(hflt[g]) = {}
    BY <1>4 DEF QuitStep, Quit, QuitNext, QuitJoin, QuitDone, StopOrFail,
       Join, Lock, Proceed, Reply, hvars
  <1>5. ASSUME NEW h \in Handlers, ParStep(h)
        PROVE  LiveOf(hflt[g]) = {}
    BY <1>5 DEF ParStep, SetFltrPar, SetParLock, SetParDone, TakeCmd,
       Lock, Proceed, Reply, hvars
  <1>6. ASSUME NEW h \in Handlers, WatchStep(h)
        PROVE  LiveOf(hflt[g]) = {}
    BY <1>6 DEF WatchStep, WatchFltrMsg, WatchLock, WatchCopied,
       WatchWrite, TakeCmd, Lock, Proceed, Reply, hvars
  <1>7. ASSUME NEW h \in Handlers, AddFilter(h) \/ DelFilter(h)
        PROVE  LiveOf(hflt[g]) = {}
    BY <1>7 DEF AddFilter, DelFilter, Lock, Reply, hvars
  <1>8. ASSUME NEW h \in Handlers, SetClockState(h) \/ ClockRestart(h) \/ RunSpurious(h)
        PROVE  LiveOf(hflt[g]) = {}
    BY <1>8 DEF SetClockState, ClockRestart, RunSpurious, hvars
  <1>9. ASSUME NEW t \in Threads, ThreadStep(t) \/ ThreadSpurious(t)
        PROVE  LiveOf(hflt[g]) = {}
    BY <1>9 DEF ThreadStep, ThreadInit, ThreadLoop, ThreadSpurious,
       ThreadWoken, ThreadLock, ThreadProc, ThreadBreak, ThreadDestroy,
       hvars
  <1>10. ASSUME MainStep
        PROVE  LiveOf(hflt[g]) = {}
    BY <1>10 DEF MainStep, MainTick, MainClock, MainExit, MainShutdown,
       MainClear, hvars
  <1>11. CASE UNCHANGED vars
    BY <1>11 DEF vars, fvars, tvars, hvars, mvars
  <1>12. QED
    BY <1>1, <1>2, <1>3, <1>4, <1>5, <1>6, <1>7, <1>8, <1>9,
       <1>10, <1>11 DEF Next, HandlerStep, Terminated

\* A Stop call replies after a join only when no thread of the filter is left.
THEOREM StopWaits == Disciplined => (Spec => StopWaitsForThread)
  <1> SUFFICES ASSUME Disciplined PROVE Spec => StopWaitsForThread
    OBVIOUS
  <1>1. TypeOK /\ MtxInv /\ OwnInv /\ [Next]_vars
          => [\A h \in Handlers :
                hpc[h] = "join" /\ hpc'[h] = "idle" => LiveOf(hflt[h]) = {}]_vars
    BY StopStepWaits
  <1>2. QED
    BY <1>1, OwnHolds, PTL DEF Spec, StopWaitsForThread

-----------------------------------------------------------------------------
(* m_bactive and the thread *)

\* m_fthread is a thread of its filter that has not been joined, so that no two
\* filters have the same one.
HandleInv ==
  \A f \in Filters :
    handle[f] # NoOne => tpc[handle[f]] # "free" /\ tflt[handle[f]] = f

\* A thread leaves its loop only when its filter has been told to stop.
LeavesInactive == \A t \in Threads : tpc[t] = "destroy" => ~active[tflt[t]]

LoopInv == HandleInv /\ LeavesInactive /\ ActiveThreadLoops

LEMMA HandleStep == TypeOK /\ MtxInv /\ HandleInv /\ [Next]_vars => HandleInv'
  <1> SUFFICES ASSUME TypeOK, MtxInv, HandleInv, [Next]_vars PROVE HandleInv'
    OBVIOUS
  <1> USE ServerAssumption DEF TypeOK, HandleInv, Locked
  <1>1. ASSUME NEW h \in Handlers, Request(h)
        PROVE  HandleInv'
    BY <1>1 DEF Request, Requests, fvars, tvars, hvars
  <1>2. ASSUME NEW h \in Handlers, RunStep(h)
        PROVE  HandleInv'
    BY <1>2 DEF RunStep, RunFilter, RunSpawn, RunReturn, Lock, Proceed,
       Reply, Unused, fvars, tvars, hvars
  <1>3. ASSUME NEW h \in Handlers, StopStep(h)
        PROVE  HandleInv'
    BY <1>3 DEF StopStep, StopFilter, StopJoin, StopOrFail, Join, Lock,
       Proceed, Reply, fvars, tvars, hvars
  <1>4. ASSUME NEW h \in Handlers, QuitStep(h)
        PROVE  HandleInv'
    BY <1>4 DEF QuitStep, Quit, QuitNext, QuitJoin, QuitDone, StopOrFail,
       Join, Lock, Proceed, Reply, fvars, tvars, hvars
  <1>5. ASSUME NEW h \in Handlers, ParStep(h)
        PROVE  HandleInv'
    BY <1>5 DEF ParStep, SetFltrPar, SetParLock, SetParDone, TakeCmd,
       Lock, Proceed, Reply, fvars, tvars, hvars
  <1>6. ASSUME NEW h \in Handlers, WatchStep(h)
        PROVE  HandleInv'
    BY <1>6 DEF WatchStep, WatchFltrMsg, WatchLock, WatchCopied,
       WatchWrite, TakeCmd, Lock, Proceed, Reply, fvars, tvars, hvars
  <1>7. ASSUME NEW h \in Handlers, AddFilter(h) \/ DelFilter(h)
        PROVE  HandleInv'
    BY <1>7 DEF AddFilter, DelFilter, Lock, Reply, fvars, tvars, hvars
  <1>8. ASSUME NEW h \in Handlers, SetClockState(h) \/ ClockRestart(h) \/ RunSpurious(h)
        PROVE  HandleInv'
    BY <1>8 DEF SetClockState, ClockRestart, RunSpurious, fvars, tvars,
       hvars
  <1>9. ASSUME NEW t \in Threads, ThreadStep(t) \/ ThreadSpurious(t)
        PROVE  HandleInv'
    BY <1>9 DEF ThreadStep, ThreadInit, ThreadLoop, ThreadSpurious,
       ThreadWoken, ThreadLock, ThreadProc, ThreadBreak, ThreadDestroy,
       WaitOrLock, fvars, tvars, hvars
  <1>10. ASSUME MainStep
        PROVE  HandleInv'
    BY <1>10 DEF MainStep, MainTick, MainClock, MainExit, MainShutdown,
       MainClear, fvars, tvars, hvars
  <1>11. CASE UNCHANGED vars
    BY <1>11 DEF vars, fvars, tvars, hvars, mvars
  <1>12. QED
    BY <1>1, <1>2, <1>3, <1>4, <1>5, <1>6, <1>7, <1>8, <1>9,
       <1>10, <1>11 DEF Next, HandlerStep, Terminated

LEMMA LeavesStep ==
  ~ProcFails /\ TypeOK /\ MtxInv /\ OwnInv /\ LoopInv /\ [Next]_vars => LeavesInactive'
  <1> SUFFICES ASSUME ~ProcFails, TypeOK, MtxInv, OwnInv, LoopInv, [Next]_vars
               PROVE  LeavesInactive'
    OBVIOUS
  <1> USE ServerAssumption
      DEF TypeOK, MtxInv, Locked, Live, LiveOf, OwnInv, ThreadOwnsFilter, InactiveIsQuiet,
          LoopInv, LeavesInactive
  <1>1. ASSUME NEW h \in Handlers, Request(h)
        PROVE  LeavesInactive'
    BY <1>1 DEF Request, Requests, fvars, tvars, hvars
  <1>2. ASSUME NEW h \in Handlers, RunStep(h)
        PROVE  LeavesInactive'
    BY <1>2 DEF RunStep, RunFilter, RunSpawn, RunReturn, Lock, Proceed,
       Reply, Unused, fvars, tvars, hvars
  <1>3. ASSUME NEW h \in Handlers, StopStep(h)
        PROVE  LeavesInactive'
    BY <1>3 DEF StopStep, StopFilter, StopJoin, StopOrFail, Join, Lock,
       Proceed, Reply, fvars, tvars, hvars
  <1>4. ASSUME NEW h \in Handlers, QuitStep(h)
        PROVE  LeavesInactive'
    BY <1>4 DEF QuitStep, Quit, QuitNext, QuitJoin, QuitDone, StopOrFail,
       Join, Lock, Proceed, Reply, fvars, tvars, hvars
  <1>5. ASSUME NEW h \in Handlers, ParStep(h)
        PROVE  LeavesInactive'
    BY <1>5 DEF ParStep, SetFltrPar, SetParLock, SetParDone, TakeCmd,
       Lock, Proceed, Reply, fvars, tvars, hvars
  <1>6. ASSUME NEW h \in Handlers, WatchStep(h)
        PROVE  LeavesInactive'
    BY <1>6 DEF WatchStep, WatchFltrMsg, WatchLock, WatchCopied,
       WatchWrite, TakeCmd, Lock, Proceed, Reply, fvars, tvars, hvars
  <1>7. ASSUME NEW h \in Handlers, AddFilter(h) \/ DelFilter(h)
        PROVE  LeavesInactive'
    BY <1>7 DEF AddFilter, DelFilter, Lock, Reply, fvars, tvars, hvars
  <1>8. ASSUME NEW h \in Handlers, SetClockState(h) \/ ClockRestart(h) \/ RunSpurious(h)
        PROVE  LeavesInactive'
    BY <1>8 DEF SetClockState, ClockRestart, RunSpurious, fvars, tvars,
       hvars
  <1>9. ASSUME NEW t \in Threads, ThreadStep(t) \/ ThreadSpurious(t)
        PROVE  LeavesInactive'
    BY <1>9 DEF ThreadStep, ThreadInit, ThreadLoop, ThreadSpurious,
       ThreadWoken, ThreadLock, ThreadProc, ThreadBreak, ThreadDestroy,
       WaitOrLock, fvars, tvars, hvars
  <1>10. ASSUME MainStep
        PROVE  LeavesInactive'
    BY <1>10 DEF MainStep, MainTick, MainClock, MainExit, MainShutdown,
       MainClear, fvars, tvars, hvars
  <1>11. CASE UNCHANGED vars
    BY <1>11 DEF vars, fvars, tvars, hvars, mvars
  <1>12. QED
    BY <1>1, <1>2, <1>3, <1>4, <1>5, <1>6, <1>7, <1>8, <1>9,
       <1>10, <1>11 DEF Next, HandlerStep, Terminated

LEMMA LoopsStep ==
  ~ProcFails /\ TypeOK /\ MtxInv /\ OwnInv /\ LoopInv /\ [Next]_vars => ActiveThreadLoops'
  <1> SUFFICES ASSUME ~ProcFails, TypeOK, MtxInv, OwnInv, LoopInv, [Next]_vars
               PROVE  ActiveThreadLoops'
    OBVIOUS
  <1> USE ServerAssumption
      DEF TypeOK, Locked, Live, LiveOf, OwnInv, ThreadOwnsFilter, HandlerUsesLoaded,
          LoopInv, HandleInv, LeavesInactive, ActiveThreadLoops
  <1>1. ASSUME NEW h \in Handlers, Request(h)
        PROVE  ActiveThreadLoops'
    BY <1>1 DEF Request, Requests, fvars, tvars, hvars
  <1>2. ASSUME NEW h \in Handlers, RunStep(h)
        PROVE  ActiveThreadLoops'
    BY <1>2 DEF RunStep, RunFilter, RunSpawn, RunReturn, Lock, Proceed,
       Reply, Unused, fvars, tvars, hvars
  <1>3. ASSUME NEW h \in Handlers, StopStep(h)
        PROVE  ActiveThreadLoops'
    BY <1>3 DEF StopStep, StopFilter, StopJoin, StopOrFail, Join, Lock,
       Proceed, Reply, fvars, tvars, hvars
  <1>4. ASSUME NEW h \in Handlers, QuitStep(h)
        PROVE  ActiveThreadLoops'
    BY <1>4 DEF QuitStep, Quit, QuitNext, QuitJoin, QuitDone, StopOrFail,
       Join, Lock, Proceed, Reply, fvars, tvars, hvars
  <1>5. ASSUME NEW h \in Handlers, ParStep(h)
        PROVE  ActiveThreadLoops'
    BY <1>5 DEF ParStep, SetFltrPar, SetParLock, SetParDone, TakeCmd,
       Lock, Proceed, Reply, fvars, tvars, hvars
  <1>6. ASSUME NEW h \in Handlers, WatchStep(h)
        PROVE  ActiveThreadLoops'
    BY <1>6 DEF WatchStep, WatchFltrMsg, WatchLock, WatchCopied,
       WatchWrite, TakeCmd, Lock, Proceed, Reply, fvars, tvars, hvars
  <1>7. ASSUME NEW h \in Handlers, AddFilter(h) \/ DelFilter(h)
        PROVE  ActiveThreadLoops'
    BY <1>7 DEF AddFilter, DelFilter, Lock, Reply, fvars, tvars, hvars
  <1>8. ASSUME NEW h \in Handlers, SetClockState(h) \/ ClockRestart(h) \/ RunSpurious(h)
        PROVE  ActiveThreadLoops'
    BY <1>8 DEF SetClockState, ClockRestart, RunSpurious, fvars, tvars,
       hvars
  <1>9. ASSUME NEW t \in Threads, ThreadStep(t) \/ ThreadSpurious(t)
        PROVE  ActiveThreadLoops'
    BY <1>9 DEF ThreadStep, ThreadInit, ThreadLoop, ThreadSpurious,
       ThreadWoken, ThreadLock, ThreadProc, ThreadBreak, ThreadDestroy,
       WaitOrLock, fvars, tvars, hvars
  <1>10. ASSUME MainStep
        PROVE  ActiveThreadLoops'
    BY <1>10 DEF MainStep, MainTick, MainClock, MainExit, MainShutdown,
       MainClear, fvars, tvars, hvars
  <1>11. CASE UNCHANGED vars
    BY <1>11 DEF vars, fvars, tvars, hvars, mvars
  <1>12. QED
    BY <1>1, <1>2, <1>3, <1>4, <1>5, <1>6, <1>7, <1>8, <1>9,
       <1>10, <1>11 DEF Next, HandlerStep, Terminated

\* As long as clients are disciplined and proc() returns true, a filter whose
\* m_bactive is true has a thread that is in its loop or a handler about to start
\* one: neither a failed init_run() nor a stop() leaves the flag behind.
THEOREM ActiveHasThread ==
  Disciplined /\ ~ProcFails => (Spec => []ActiveThreadLoops)
  <1> SUFFICES ASSUME Disciplined, ~ProcFails PROVE Spec => []ActiveThreadLoops
    OBVIOUS
  <1>1. Init => LoopInv
    BY ServerAssumption DEF Init, LoopInv, HandleInv, LeavesInactive, ActiveThreadLoops
  <1>2. TypeOK /\ MtxInv /\ OwnInv /\ LoopInv /\ [Next]_vars => LoopInv'
    BY HandleStep, LeavesStep, LoopsStep DEF LoopInv
  <1>3. LoopInv => ActiveThreadLoops
    BY DEF LoopInv
  <1>4. Spec => [](TypeOK /\ MtxInv /\ OwnInv)
    BY OwnHolds
  <1>5. QED
    BY <1>1, <1>2, <1>3, <1>4, PTL DEF Spec

\* run() waits for the thread it has made, and is woken by that thread once
\* init_run() is over.
WaitInv ==
  \A h \in Handlers :
    hpc[h] \in {"runwait", "runwoken"} =>
      /\ handle[hflt[h]] # NoOne
      /\ hpc[h] = "runwoken" => tpc[handle[hflt[h]]] # "born"

LEMMA WaitStep ==
  ~SpuriousWakeups /\ TypeOK /\ MtxInv /\ OwnInv /\ WaitInv /\ [Next]_vars => WaitInv'
  <1> SUFFICES ASSUME ~SpuriousWakeups, TypeOK, MtxInv, OwnInv, WaitInv, [Next]_vars
               PROVE  WaitInv'
    OBVIOUS
  <1> USE ServerAssumption
      DEF TypeOK, MtxInv, Locked, Live, OwnInv, ThreadOwnsFilter, WaitInv
  <1>1. ASSUME NEW h \in Handlers, Request(h)
        PROVE  WaitInv'
    BY <1>1 DEF Request, Requests, fvars, tvars, hvars
  <1>2. ASSUME NEW h \in Handlers, RunStep(h)
        PROVE  WaitInv'
    BY <1>2 DEF RunStep, RunFilter, RunSpawn, RunReturn, Lock, Proceed,
       Reply, Unused, fvars, tvars, hvars
  <1>3. ASSUME NEW h \in Handlers, StopStep(h)
        PROVE  WaitInv'
    BY <1>3 DEF StopStep, StopFilter, StopJoin, StopOrFail, Join, Lock,
       Proceed, Reply, fvars, tvars, hvars
  <1>4. ASSUME NEW h \in Handlers, QuitStep(h)
        PROVE  WaitInv'
    BY <1>4 DEF QuitStep, Quit, QuitNext, QuitJoin, QuitDone, StopOrFail,
       Join, Lock, Proceed, Reply, fvars, tvars, hvars
  <1>5. ASSUME NEW h \in Handlers, ParStep(h)
        PROVE  WaitInv'
    BY <1>5 DEF ParStep, SetFltrPar, SetParLock, SetParDone, TakeCmd,
       Lock, Proceed, Reply, fvars, tvars, hvars
  <1>6. ASSUME NEW h \in Handlers, WatchStep(h)
        PROVE  WaitInv'
    BY <1>6 DEF WatchStep, WatchFltrMsg, WatchLock, WatchCopied,
       WatchWrite, TakeCmd, Lock, Proceed, Reply, fvars, tvars, hvars
  <1>7. ASSUME NEW h \in Handlers, AddFilter(h) \/ DelFilter(h)
        PROVE  WaitInv'
    BY <1>7 DEF AddFilter, DelFilter, Lock, Reply, fvars, tvars, hvars
  <1>8. ASSUME NEW h \in Handlers, SetClockState(h) \/ ClockRestart(h) \/ RunSpurious(h)
        PROVE  WaitInv'
    BY <1>8 DEF SetClockState, ClockRestart, RunSpurious, fvars, tvars,
       hvars
  <1>9. ASSUME NEW t \in Threads, ThreadStep(t) \/ ThreadSpurious(t)
        PROVE  WaitInv'
    BY <1>9 DEF ThreadStep, ThreadInit, ThreadLoop, ThreadSpurious,
       ThreadWoken, ThreadLock, ThreadProc, ThreadBreak, ThreadDestroy,
       WaitOrLock, fvars, tvars, hvars
  <1>10. ASSUME MainStep
        PROVE  WaitInv'
    BY <1>10 DEF MainStep, MainTick, MainClock, MainExit, MainShutdown,
       MainClear, fvars, tvars, hvars
  <1>11. CASE UNCHANGED vars
    BY <1>11 DEF vars, fvars, tvars, hvars, mvars
  <1>12. QED
    BY <1>1, <1>2, <1>3, <1>4, <1>5, <1>6, <1>7, <1>8, <1>9,
       <1>10, <1>11 DEF Next, HandlerStep, Terminated

\* Without spurious wake-ups run() never reports a filter as running before its
\* init_run() has been executed, whoever else is served meanwhile.
THEOREM RunReports ==
  Disciplined /\ ~SpuriousWakeups => (Spec => RunReportsInit)
  <1> SUFFICES ASSUME Disciplined, ~SpuriousWakeups PROVE Spec => RunReportsInit
    OBVIOUS
  <1>1. Init => WaitInv
    BY DEF Init, WaitInv
  <1>2. TypeOK /\ MtxInv /\ OwnInv /\ WaitInv /\ [Next]_vars => WaitInv'
    BY WaitStep
  <1>3. WaitInv /\ [Next]_vars
          => [\A h \in Handlers :
                hpc[h] = "runwoken" /\ hpc'[h] = "idle" /\ active[hflt[h]]
                  => tpc[handle[hflt[h]]] # "born"]_vars
    BY DEF WaitInv
  <1>4. Spec => [](TypeOK /\ MtxInv /\ OwnInv)
    BY OwnHolds
  <1>5. QED
    BY <1>1, <1>2, <1>3, <1>4, PTL DEF Spec, RunReportsInit

-----------------------------------------------------------------------------
(* The server implements FilterService: every step of a disciplined server is *)
(* a step of the service or leaves it alone.                                  *)

\* The service sees a step only if it loads or unloads a filter, starts or ends
\* a thread, or tears the process down.
Unseen ==
  /\ UNCHANGED <<filters, tflt>>
  /\ \A t \in Threads : Live(t)' = Live(t)
  /\ (main = "over") = (main' = "over")

LEMMA UnseenStutters == Unseen => UNCHANGED Service!svars
  BY DEF Unseen, Service!svars, LiveOf

LEMMA InitRefines == Init => Service!ServiceInit
  BY DEF Init, Service!ServiceInit, LiveOf, Live

\* A thread that ends was the only one of its filter.
LEMMA EndRefines ==
  ASSUME TypeOK, OwnInv, NEW t \in Threads, Live(t),
         tpc' = [tpc EXCEPT ![t] = "done"], UNCHANGED <<filters, tflt, main>>
  PROVE  Service!Finish(tflt[t])
  <1> DEFINE f == tflt[t]
  <1>1. f \in filters /\ f \in Filters
    BY DEF OwnInv, ThreadOwnsFilter, TypeOK
  <1>2. \A u \in Threads : Live(u) /\ tflt[u] = f => u = t
    BY DEF OwnInv, ThreadOwnsFilter
  <1>3. LiveOf(f) # {} /\ LiveOf(f)' = {}
    BY <1>2 DEF LiveOf, Live, TypeOK
  <1>4. \A g \in Filters \ {f} : LiveOf(g)' = LiveOf(g)
    BY DEF LiveOf, Live, TypeOK
  <1>5. [g \in Filters |-> LiveOf(g)'] = [[g \in Filters |-> LiveOf(g)] EXCEPT ![f] = {}]
    BY <1>3, <1>4
  <1>6. QED
    BY <1>1, <1>3, <1>5 DEF Service!Finish

LEMMA SpawnRefines ==
  ASSUME TypeOK, OwnInv, MtxInv, NEW h \in Handlers, RunSpawn(h)
  PROVE  \E t \in Threads : Service!Start(hflt[h], t)
  <1> DEFINE f == hflt[h]
  <1>1. PICK t \in Threads :
          /\ Unused(t)
          /\ tpc' = [tpc EXCEPT ![t] = "born"]
          /\ tflt' = [tflt EXCEPT ![t] = f]
    BY DEF RunSpawn
  <1>2. f \in Filters /\ f \in filters /\ LiveOf(f) = {} /\ main # "over"
    BY DEF RunSpawn, TypeOK, OwnInv, HandlerUsesLoaded, RunInv, QuitInv, Locked
  <1>3. ~Live(t)
    BY <1>1 DEF Unused, Live
  <1>4. LiveOf(f)' = {t}
    <2>1. \A u \in Threads : Live(u)' /\ tflt'[u] = f <=> u = t
      BY <1>1, <1>2 DEF LiveOf, Live, TypeOK
    <2>2. LiveOf(f)' = {u \in Threads : Live(u)' /\ tflt'[u] = f}
      BY DEF RunSpawn, LiveOf
    <2>3. QED
      BY <2>1, <2>2
  <1>5. \A g \in Filters \ {f} : LiveOf(g)' = LiveOf(g)
    BY <1>1, <1>3 DEF LiveOf, Live, TypeOK
  <1>6. [g \in Filters |-> LiveOf(g)'] = [[g \in Filters |-> LiveOf(g)] EXCEPT ![f] = {t}]
    BY <1>2, <1>4, <1>5 DEF RunSpawn
  <1>7. filters' = filters /\ main' = main
    BY DEF RunSpawn, mvars
  <1>8. QED
    BY <1>2, <1>6, <1>7 DEF Service!Start

LEMMA StepRefines ==
  ASSUME Disciplined, TypeOK, MtxInv, OwnInv, [Next]_vars
  PROVE  [Service!ServiceNext]_(Service!svars)
  <1> USE DEF Service!ServiceNext
  <1>1. ASSUME NEW h \in Handlers, RunSpawn(h)
        PROVE  Service!ServiceNext
    <2>1. hflt[h] \in Filters
      BY <1>1 DEF RunSpawn, TypeOK
    <2>2. QED
      BY <1>1, <2>1, SpawnRefines
  <1>2. ASSUME NEW h \in Handlers, AddFilter(h)
        PROVE  Service!ServiceNext \/ Unseen
    <2> DEFINE f == hflt[h]
    <2>1. CASE UNCHANGED <<fvars, cmd>>
      BY <1>2, <2>1 DEF AddFilter, Unseen, fvars, tvars, mvars, Live
    <2>2. CASE f \notin filters /\ filters' = filters \cup {f}
      <3>1. f \in Filters
        BY <1>2 DEF AddFilter, Lock, TypeOK
      <3>2. main # "over"
        BY <1>2 DEF AddFilter, Lock, OwnInv, QuitInv
      <3>3. \A g \in Filters : LiveOf(g)' = LiveOf(g)
        BY <1>2 DEF AddFilter, tvars, LiveOf, Live
      <3>4. Service!Load(f)
        BY <1>2, <2>2, <3>2, <3>3 DEF Service!Load, AddFilter, mvars
      <3>5. QED
        BY <3>1, <3>4
    <2>3. QED
      BY <1>2, <2>1, <2>2 DEF AddFilter
  <1>3. ASSUME NEW h \in Handlers, DelFilter(h)
        PROVE  Service!ServiceNext \/ Unseen
    <2> DEFINE f == hflt[h]
    <2>1. \A g \in Filters : LiveOf(g)' = LiveOf(g)
      BY <1>3 DEF DelFilter, tvars, LiveOf, Live
    <2>2. CASE filters' = filters
      BY <1>3, <2>2 DEF DelFilter, Unseen, tvars, mvars, Live
    <2>3. CASE f \in filters /\ filters' = filters \ {f} /\ ~active[f]
      <3>1. f \in Filters
        BY <2>3 DEF TypeOK
      <3>2. LiveOf(f) = {}
        BY <1>3, <2>3, ServerAssumption
           DEF DelFilter, Lock, OwnInv, InactiveIsQuiet, MtxInv, Locked, LiveOf
      <3>3. Service!Unload(f)
        BY <1>3, <2>1, <2>3, <3>1, <3>2 DEF Service!Unload, DelFilter, mvars
      <3>4. QED
        BY <3>1, <3>3
    <2>4. QED
      BY <1>3, <2>2, <2>3 DEF DelFilter
  <1>4. ASSUME NEW t \in Threads, ThreadInit(t) \/ ThreadDestroy(t)
        PROVE  Service!ServiceNext \/ Unseen
    <2>1. CASE tpc' = [tpc EXCEPT ![t] = "done"]
      <3>1. Live(t) /\ UNCHANGED <<filters, tflt, main>>
        BY <1>4 DEF ThreadInit, ThreadDestroy, Live, fvars, mvars
      <3>2. tflt[t] \in Filters
        BY <3>1 DEF OwnInv, ThreadOwnsFilter, TypeOK
      <3>3. QED
        BY <2>1, <3>1, <3>2, EndRefines
    <2>2. CASE tpc[t] = "born" /\ tpc' = [tpc EXCEPT ![t] = "loop"]
      BY <1>4, <2>2 DEF ThreadInit, ThreadDestroy, Unseen, Live, fvars, mvars, TypeOK
    <2>3. QED
      BY <1>4, <2>1, <2>2 DEF ThreadInit, ThreadDestroy
  <1>5. ASSUME MainClear
        PROVE  Service!ServiceNext
    <2>1. \A f \in Filters : LiveOf(f) = {} /\ LiveOf(f)' = {}
      BY <1>5 DEF MainClear, OwnInv, QuitInv, tvars, LiveOf, Live
    <2>2. Service!Terminate
      BY <1>5, <2>1 DEF MainClear, Service!Terminate
    <2>3. QED
      BY <2>2
  <1>6. ASSUME NEW h \in Handlers, StopJoin(h) \/ QuitJoin(h)
        PROVE  UNCHANGED Service!svars
    <2>1. \A f \in Filters : LiveOf(f)' = LiveOf(f)
      BY <1>6 DEF StopJoin, QuitJoin, Join, LiveOf, Live, TypeOK
    <2>2. QED
      BY <1>6, <2>1 DEF StopJoin, QuitJoin, Service!svars, mvars
  <1>7. ASSUME NEW h \in Handlers,
               Request(h) \/ RunFilter(h) \/ RunSpurious(h) \/ RunReturn(h)
                  \/ StopFilter(h) \/ Quit(h) \/ QuitNext(h) \/ QuitDone(h)
                  \/ SetFltrPar(h) \/ SetParLock(h) \/ SetParDone(h) \/
                  WatchFltrMsg(h) \/ WatchLock(h) \/ WatchCopied(h) \/
                  WatchWrite(h) \/ SetClockState(h) \/ ClockRestart(h)
        PROVE  Unseen
    BY <1>7 DEF Request, RunFilter, RunSpurious, RunReturn, StopFilter,
       Quit, QuitNext, QuitDone, SetFltrPar, SetParLock, SetParDone,
       WatchFltrMsg, WatchLock, WatchCopied, WatchWrite, SetClockState,
       ClockRestart, TakeCmd, Unseen, Live, fvars, tvars, hvars, mvars
  <1>8. ASSUME NEW t \in Threads,
               ThreadLoop(t) \/ ThreadSpurious(t) \/ ThreadWoken(t) \/
                  ThreadLock(t) \/ ThreadProc(t) \/ ThreadBreak(t)
        PROVE  Unseen
    BY <1>8 DEF ThreadLoop, ThreadSpurious, ThreadWoken, ThreadLock,
       ThreadProc, ThreadBreak, WaitOrLock, Unseen, Live, fvars, mvars,
       TypeOK
  <1>9. ASSUME MainTick \/ MainClock \/ MainExit \/ MainShutdown
        PROVE  Unseen
    BY <1>9 DEF MainTick, MainClock, MainExit, MainShutdown, Unseen, Live,
       fvars, tvars, TypeOK
  <1>10. CASE UNCHANGED vars
    BY <1>10, UnseenStutters DEF vars, fvars, tvars, mvars, Unseen, Live
  <1>11. QED
    BY <1>1, <1>2, <1>3, <1>4, <1>5, <1>6, <1>7, <1>8, <1>9, <1>10,
       UnseenStutters
       DEF Next, HandlerStep, RunStep, StopStep, QuitStep, ParStep, WatchStep,
           ThreadStep, MainStep, Terminated

\* Refinement: with disciplined clients the server keeps the promise of
\* FilterService, a single thread per filter and nothing freed under it.
THEOREM ServerImplementsService == Disciplined => (Spec => ImplementsService)
  <1> SUFFICES ASSUME Disciplined PROVE Spec => ImplementsService
    OBVIOUS
  <1>1. TypeOK /\ MtxInv /\ OwnInv /\ [Next]_vars
          => [Service!ServiceNext]_(Service!svars)
    BY StepRefines
  <1>2. QED
    BY <1>1, InitRefines, OwnHolds, PTL
       DEF Spec, ImplementsService, Service!ServiceSpec
=============================================================================
