----------------------------- MODULE FilterServer -----------------------------
(***************************************************************************)
(* The process "aws": the threads that serve RPCs, the filter threads they *)
(* start and stop, and the main thread whose clock loop drives both        *)
(* (src/src/aws.cpp, src/src/filter_base.cpp, src/include/filter_base.hpp).*)
(*                                                                         *)
(* Every handler but SetClockState runs under c_aws::m_mtx.  A filter      *)
(* thread holds its own m_mutex_cmd while it runs proc(); handlers that    *)
(* look into a filter take the same mutex under m_mtx.  Filter threads     *)
(* sleep on the static m_cond, which only the main loop notifies.          *)
(*                                                                         *)
(* The boolean constants say what the environment does: what clients       *)
(* request, what proc() returns, whether a wait may wake without a notify. *)
(***************************************************************************)
EXTENDS Integers, FiniteSets

CONSTANTS
  Filters,        \* instance names (one object per name)
  Threads,        \* identities of filter threads; bounds how many are alive
  Handlers,       \* RPC worker threads of the gRPC server
  NoOne,          \* nobody holds the mutex, no thread, no filter
  Lost,           \* the mutex was left locked by a thread that is gone
  Intvl,          \* m_intvl of every filter
  ClockCmds,      \* the states clients ask for with SetClockState
  ScheduledEnd,   \* m_end_time may pass
  ProcFails,      \* proc() may return false
  SpuriousWakeups,\* a condition variable may wake without a notify
  RunsActive,     \* clients may Run a filter that is already active
  RunsDuringQuit  \* clients may have a Run in flight beside a Quit

ASSUME ServerAssumption ==
  /\ NoOne \notin Filters \cup Threads \cup Handlers
  /\ Lost \notin Threads \cup Handlers \cup {NoOne}
  /\ Threads \cap Handlers = {}
  /\ Intvl \in Nat \ {0}
  /\ ClockCmds \subseteq {"RUN", "PAUSE", "STOP"}
  /\ {ScheduledEnd, ProcFails, SpuriousWakeups} \subseteq BOOLEAN
  /\ {RunsActive, RunsDuringQuit} \subseteq BOOLEAN

VARIABLES
  filters,   \* keys of c_aws::filters: the objects that exist
  active,    \* f_base::m_bactive
  handle,    \* f_base::m_fthread
  cycle,     \* f_base::m_cycle, saturated at Intvl
  cmd,       \* who holds f_base::m_mutex_cmd
  mtx,       \* who holds c_aws::m_mtx
  tpc,       \* where each filter thread is
  tflt,      \* the filter a thread was started for
  hpc,       \* where each handler is
  hflt,      \* the filter a handler works on
  todo,      \* the filters the loop of quit() has not visited yet
  clk,       \* c_clock::m_state
  main,      \* where the main thread is
  exit       \* c_aws::m_exit

fvars == <<filters, active, handle, cycle>>
tvars == <<tpc, tflt>>
hvars == <<hpc, hflt, todo>>
mvars == <<clk, main, exit>>
vars  == <<fvars, cmd, mtx, tvars, hvars, mvars>>

-----------------------------------------------------------------------------
ThreadPC == {"free", "born", "loop", "asleep", "woken", "lock", "proc",
             "destroy", "done"}

\* The first word of a request is the state in which it waits for m_mtx.
Requests == {"run", "stop", "quit", "gen", "del", "par", "watch"}
HandlerPC == Requests \cup
  {"idle", "runlock", "runwait", "runwoken", "join", "quitting", "quitjoin",
   "parlock", "paruse", "watchlock", "watchuse", "write", "restart"}

\* Where a handler is between paws->lock() and paws->unlock().
Locked == {"runlock", "runwait", "runwoken", "join", "quitting", "quitjoin",
           "parlock", "paruse", "watchlock", "watchuse"}

MainPC == {"loop", "tick", "shutdown", "clear", "over"}

\* m_cycle never falls below -m_intvl, and beyond m_intvl it makes no difference.
CycleRange == (-Intvl)..Intvl

TypeOK ==
  /\ filters \subseteq Filters
  /\ active \in [Filters -> BOOLEAN]
  /\ handle \in [Filters -> Threads \cup {NoOne}]
  /\ cycle \in [Filters -> CycleRange]
  /\ cmd \in [Filters -> Threads \cup Handlers \cup {NoOne, Lost}]
  /\ mtx \in Handlers \cup {NoOne}
  /\ tpc \in [Threads -> ThreadPC]
  /\ tflt \in [Threads -> Filters \cup {NoOne}]
  /\ hpc \in [Handlers -> HandlerPC]
  /\ hflt \in [Handlers -> Filters \cup {NoOne}]
  /\ todo \subseteq Filters
  /\ clk \in {"STOP", "RUN", "PAUSE"}
  /\ main \in MainPC
  /\ exit \in BOOLEAN
  /\ \A t \in Threads : tflt[t] = NoOne => tpc[t] = "free"
  /\ \A h \in Handlers :
       hflt[h] = NoOne => hpc[h] \in {"idle", "quit", "quitting", "restart"}

Init ==
  /\ filters = {}
  /\ active = [f \in Filters |-> FALSE]
  /\ handle = [f \in Filters |-> NoOne]
  /\ cycle = [f \in Filters |-> 0]
  /\ cmd = [f \in Filters |-> NoOne]
  /\ mtx = NoOne
  /\ tpc = [t \in Threads |-> "free"]
  /\ tflt = [t \in Threads |-> NoOne]
  /\ hpc = [h \in Handlers |-> "idle"]
  /\ hflt = [h \in Handlers |-> NoOne]
  /\ todo = {}
  /\ clk = "STOP"
  /\ main = "loop"
  /\ exit = FALSE

\* A thread that will still touch its filter object.
Live(t) == tpc[t] \notin {"free", "done"}
LiveOf(f) == {t \in Threads : Live(t) /\ tflt[t] = f}

\* The operating system may hand out this identity for a new thread.
Unused(t) == \/ tpc[t] = "free"
             \/ tpc[t] = "done" /\ \A f \in Filters : handle[f] # t

-----------------------------------------------------------------------------
(* Clients and RPC plumbing *)

\* Requests clients do not make when the environment is disciplined.
MayRun(f) ==
  /\ RunsActive \/ (~active[f] /\ \A h \in Handlers : hpc[h] # "run" \/ hflt[h] # f)
  /\ RunsDuringQuit \/ (~exit /\ \A h \in Handlers : hpc[h] \notin {"quit", "quitting", "quitjoin"})
MayQuit ==
  RunsDuringQuit \/ \A h \in Handlers :
                      hpc[h] \notin {"run", "runlock", "runwait", "runwoken"}

\* A call arrives at a free worker while the server accepts calls.
Request(h) ==
  /\ hpc[h] = "idle"
  /\ main \in {"loop", "tick"}
  /\ \E op \in Requests, f \in Filters :
       /\ op = "run" => MayRun(f)
       /\ op = "quit" => MayQuit
       /\ hpc' = [hpc EXCEPT ![h] = op]
       /\ hflt' = [hflt EXCEPT ![h] = IF op = "quit" THEN NoOne ELSE f]
  /\ UNCHANGED <<fvars, cmd, mtx, tvars, todo, mvars>>

\* paws->lock() succeeds for the request op.
Lock(h, op) == hpc[h] = op /\ mtx = NoOne

\* The handler goes on to pc with m_mtx held.
Proceed(h, pc) == hpc' = [hpc EXCEPT ![h] = pc] /\ mtx' = h

\* paws->unlock() and the reply.
Reply(h) ==
  /\ hpc' = [hpc EXCEPT ![h] = "idle"]
  /\ hflt' = [hflt EXCEPT ![h] = NoOne]
  /\ mtx' = NoOne

-----------------------------------------------------------------------------
(* Run *)

RunFilter(h) ==
  LET f == hflt[h] IN
  /\ Lock(h, "run")
  /\ IF f \in filters
       THEN /\ active' = [active EXCEPT ![f] = TRUE]
            /\ cycle' = [cycle EXCEPT ![f] = 0]
            /\ Proceed(h, "runlock")
            /\ UNCHANGED hflt
       ELSE Reply(h) /\ UNCHANGED <<active, cycle>>
  /\ UNCHANGED <<filters, handle, cmd, tvars, todo, mvars>>

\* Faulty variant: does not wait for the thread to report.
RunSpawn_NoWait(h) ==
  LET f == hflt[h] IN
  /\ hpc[h] = "runlock"
  /\ cmd[f] = NoOne
  /\ \E t \in Threads :
       /\ Unused(t)
       /\ tpc' = [tpc EXCEPT ![t] = "born"]
       /\ tflt' = [tflt EXCEPT ![t] = f]
       /\ handle' = [handle EXCEPT ![f] = t]
  /\ hpc' = [hpc EXCEPT ![h] = "runwoken"]
  /\ UNCHANGED <<filters, active, cycle, cmd, mtx, hflt, todo, mvars>>

\* Takes m_mutex_cmd, creates the thread and waits, which frees the mutex.
RunSpawn(h) ==
  LET f == hflt[h] IN
  /\ hpc[h] = "runlock"
  /\ cmd[f] = NoOne
  /\ \E t \in Threads :
       /\ Unused(t)
       /\ tpc' = [tpc EXCEPT ![t] = "born"]
       /\ tflt' = [tflt EXCEPT ![t] = f]
       /\ handle' = [handle EXCEPT ![f] = t]
  /\ hpc' = [hpc EXCEPT ![h] = "runwait"]
  /\ UNCHANGED <<filters, active, cycle, cmd, mtx, hflt, todo, mvars>>

\* m_cnd_cmd.wait(lk) has no predicate.
RunSpurious(h) ==
  /\ SpuriousWakeups
  /\ hpc[h] = "runwait"
  /\ hpc' = [hpc EXCEPT ![h] = "runwoken"]
  /\ UNCHANGED <<fvars, cmd, mtx, tvars, hflt, todo, mvars>>

\* Reacquires m_mutex_cmd, reports m_bactive, frees both mutexes.
RunReturn(h) ==
  /\ hpc[h] = "runwoken"
  /\ cmd[hflt[h]] = NoOne
  /\ Reply(h)
  /\ UNCHANGED <<fvars, cmd, tvars, todo, mvars>>

-----------------------------------------------------------------------------
(* Stop and Quit *)

\* f_base::stop() up to the join; goes to pc, or fails and replies.
StopOrFail(h, f, pc) ==
  IF clk = "RUN"
    THEN /\ active' = [active EXCEPT ![f] = FALSE]
         /\ IF handle[f] # NoOne
              THEN Proceed(h, pc) /\ hflt' = [hflt EXCEPT ![h] = f]
              ELSE Reply(h)
    ELSE Reply(h) /\ UNCHANGED active

\* The thread of m_fthread has ended: delete it.
Join(h) ==
  LET f == hflt[h]  t == handle[f] IN
  /\ t \in Threads
  /\ tpc[t] = "done"
  /\ tpc' = [tpc EXCEPT ![t] = "free"]
  /\ tflt' = [tflt EXCEPT ![t] = NoOne]
  /\ handle' = [handle EXCEPT ![f] = NoOne]

\* Faulty variant: tells the thread to end and replies without joining it.
StopFilter_NoJoin(h) ==
  /\ Lock(h, "stop")
  /\ active' = IF hflt[h] \in filters /\ clk = "RUN"
                 THEN [active EXCEPT ![hflt[h]] = FALSE] ELSE active
  /\ Reply(h)
  /\ UNCHANGED <<filters, handle, cycle, cmd, tvars, todo, mvars>>

StopFilter(h) ==
  LET f == hflt[h] IN
  /\ Lock(h, "stop")
  /\ IF f \in filters THEN StopOrFail(h, f, "join")
                      ELSE Reply(h) /\ UNCHANGED active
  /\ UNCHANGED <<filters, handle, cycle, cmd, tvars, todo, mvars>>

\* Faulty variant: detaches the thread instead of joining it.
StopJoin_Detach(h) ==
  /\ hpc[h] = "join"
  /\ Reply(h)
  /\ UNCHANGED <<fvars, cmd, tvars, todo, mvars>>

StopJoin(h) ==
  /\ hpc[h] = "join"
  /\ Join(h)
  /\ Reply(h)
  /\ UNCHANGED <<filters, active, cycle, cmd, todo, mvars>>

\* Faulty variant: skips the loop that stops the filters.
Quit_StopsNothing(h) ==
  /\ Lock(h, "quit")
  /\ Proceed(h, "quitting")
  /\ UNCHANGED <<fvars, cmd, tvars, hflt, todo, mvars>>

Quit(h) ==
  /\ Lock(h, "quit")
  /\ Proceed(h, "quitting")
  /\ todo' = filters
  /\ UNCHANGED <<fvars, cmd, tvars, hflt, mvars>>

\* One round of the loop over the filters; a stop() that fails ends it.
QuitNext(h) ==
  /\ hpc[h] = "quitting"
  /\ \E f \in todo :
       IF active[f]
         THEN /\ StopOrFail(h, f, "quitjoin")
              /\ todo' = IF hpc'[h] = "idle" THEN {} ELSE todo \ {f}
         ELSE /\ todo' = todo \ {f}
              /\ UNCHANGED <<active, mtx, hpc, hflt>>
  /\ UNCHANGED <<filters, handle, cycle, cmd, tvars, mvars>>

\* Faulty variant: goes on to the next filter without joining.
QuitJoin_Detach(h) ==
  /\ hpc[h] = "quitjoin"
  /\ hpc' = [hpc EXCEPT ![h] = "quitting"]
  /\ hflt' = [hflt EXCEPT ![h] = NoOne]
  /\ UNCHANGED <<fvars, cmd, mtx, tvars, todo, mvars>>

QuitJoin(h) ==
  /\ hpc[h] = "quitjoin"
  /\ Join(h)
  /\ hpc' = [hpc EXCEPT ![h] = "quitting"]
  /\ hflt' = [hflt EXCEPT ![h] = NoOne]
  /\ UNCHANGED <<filters, active, cycle, cmd, mtx, todo, mvars>>

QuitDone(h) ==
  /\ hpc[h] = "quitting"
  /\ todo = {}
  /\ exit' = TRUE
  /\ Reply(h)
  /\ UNCHANGED <<fvars, cmd, tvars, todo, clk, main>>

-----------------------------------------------------------------------------
(* GenFltr and DelFltr *)

\* The name is taken, the library or the factory fails, or a fresh object.
\* A name is not reused while a thread still uses the freed object: what
\* happens to that thread is past what the program defines.
AddFilter(h) ==
  LET f == hflt[h] IN
  /\ Lock(h, "gen")
  /\ Reply(h)
  /\ \/ /\ f \notin filters
        /\ LiveOf(f) = {}
        /\ filters' = filters \cup {f}
        /\ active' = [active EXCEPT ![f] = FALSE]
        /\ handle' = [handle EXCEPT ![f] = NoOne]
        /\ cycle' = [cycle EXCEPT ![f] = 0]
        /\ cmd' = [cmd EXCEPT ![f] = NoOne]
     \/ UNCHANGED <<fvars, cmd>>
  /\ UNCHANGED <<tvars, todo, mvars>>

\* Faulty variant: does not ask is_active() first.
DelFilter_Active(h) ==
  /\ Lock(h, "del")
  /\ Reply(h)
  /\ filters' = filters \ {hflt[h]}
  /\ UNCHANGED <<active, handle, cycle, cmd, tvars, todo, mvars>>

DelFilter(h) ==
  LET f == hflt[h] IN
  /\ Lock(h, "del")
  /\ Reply(h)
  /\ filters' = IF active[f] THEN filters ELSE filters \ {f}
  /\ UNCHANGED <<active, handle, cycle, cmd, tvars, todo, mvars>>

-----------------------------------------------------------------------------
(* Handlers that look into a filter under m_mutex_cmd: SetFltrPar,        *)
(* GetFltrPar, SetFltrIOChs, GetFltrIOChs                                  *)

TakeCmd(h, from, to) ==
  /\ hpc[h] = from
  /\ cmd[hflt[h]] = NoOne
  /\ cmd' = [cmd EXCEPT ![hflt[h]] = h]
  /\ hpc' = [hpc EXCEPT ![h] = to]
  /\ UNCHANGED <<fvars, mtx, tvars, hflt, todo, mvars>>

\* Faulty variant: drops m_mtx once the filter is found.
SetFltrPar_Unlocked(h) ==
  /\ Lock(h, "par")
  /\ IF hflt[h] \in filters
       THEN hpc' = [hpc EXCEPT ![h] = "parlock"] /\ UNCHANGED <<hflt, mtx>>
       ELSE Reply(h)
  /\ UNCHANGED <<fvars, cmd, tvars, todo, mvars>>

SetFltrPar(h) ==
  /\ Lock(h, "par")
  /\ IF hflt[h] \in filters THEN Proceed(h, "parlock") /\ UNCHANGED hflt
                            ELSE Reply(h)
  /\ UNCHANGED <<fvars, cmd, tvars, todo, mvars>>

SetParLock(h) == TakeCmd(h, "parlock", "paruse")

SetParDone(h) ==
  /\ hpc[h] = "paruse"
  /\ cmd' = [cmd EXCEPT ![hflt[h]] = NoOne]
  /\ Reply(h)
  /\ UNCHANGED <<fvars, tvars, todo, mvars>>

-----------------------------------------------------------------------------
(* WatchFltrMsg: a loop that takes both mutexes for each message *)

\* Faulty variant: goes on watching a filter that is no longer active.
WatchFltrMsg_Forever(h) ==
  /\ Lock(h, "watch")
  /\ IF hflt[h] \in filters THEN Proceed(h, "watchlock") /\ UNCHANGED hflt
                            ELSE Reply(h)
  /\ UNCHANGED <<fvars, cmd, tvars, todo, mvars>>

WatchFltrMsg(h) ==
  LET f == hflt[h] IN
  /\ Lock(h, "watch")
  /\ IF f \in filters /\ active[f]
       THEN Proceed(h, "watchlock") /\ UNCHANGED hflt
       ELSE Reply(h)
  /\ UNCHANGED <<fvars, cmd, tvars, todo, mvars>>

WatchLock(h) == TakeCmd(h, "watchlock", "watchuse")

WatchCopied(h) ==
  /\ hpc[h] = "watchuse"
  /\ cmd' = [cmd EXCEPT ![hflt[h]] = NoOne]
  /\ hpc' = [hpc EXCEPT ![h] = "write"]
  /\ mtx' = NoOne
  /\ UNCHANGED <<fvars, tvars, hflt, todo, mvars>>

\* The client is gone, or the message is sent and the loop sleeps.
WatchWrite(h) ==
  /\ hpc[h] = "write"
  /\ \/ hpc' = [hpc EXCEPT ![h] = "watch"] /\ UNCHANGED hflt
     \/ /\ hpc' = [hpc EXCEPT ![h] = "idle"]
        /\ hflt' = [hflt EXCEPT ![h] = NoOne]
  /\ UNCHANGED <<fvars, cmd, mtx, tvars, todo, mvars>>

-----------------------------------------------------------------------------
(* SetClockState takes no mutex; c_clock::start() passes through STOP.     *)
(* What two calls that test and set m_state at once do is in module Clock. *)

SetClockState(h) ==
  /\ hpc[h] = "idle"
  /\ main \in {"loop", "tick"}
  /\ \/ /\ "RUN" \in ClockCmds
        /\ IF clk = "STOP"
             THEN clk' = "RUN" /\ UNCHANGED hpc
             ELSE clk' = "STOP" /\ hpc' = [hpc EXCEPT ![h] = "restart"]
     \/ /\ "PAUSE" \in ClockCmds
        /\ clk = "RUN"
        /\ clk' = "PAUSE"
        /\ UNCHANGED hpc
     \/ /\ "STOP" \in ClockCmds
        /\ clk # "STOP"
        /\ clk' = "STOP"
        /\ UNCHANGED hpc
  /\ UNCHANGED <<fvars, cmd, mtx, tvars, hflt, todo, main, exit>>

ClockRestart(h) ==
  /\ hpc[h] = "restart"
  /\ clk' = "RUN"
  /\ hpc' = [hpc EXCEPT ![h] = "idle"]
  /\ UNCHANGED <<fvars, cmd, mtx, tvars, hflt, todo, main, exit>>

-----------------------------------------------------------------------------
(* Filter threads: f_base::fthread() *)

\* Faulty variant: returns from a failed init_run() before notify_one().
ThreadInit_Silent(t) ==
  LET f == tflt[t] IN
  /\ tpc[t] = "born"
  /\ cmd[f] = NoOne
  /\ \E ok \in BOOLEAN :
       /\ active' = [active EXCEPT ![f] = ok]
       /\ tpc' = [tpc EXCEPT ![t] = IF ok THEN "loop" ELSE "done"]
       /\ hpc' = [h \in Handlers |->
                    IF ok /\ hpc[h] = "runwait" /\ hflt[h] = f
                      THEN "runwoken" ELSE hpc[h]]
  /\ UNCHANGED <<filters, handle, cycle, cmd, mtx, tflt, hflt, todo, mvars>>

\* Faulty variant: a failed init_run() leaves m_bactive set.
ThreadInit_KeepsActive(t) ==
  LET f == tflt[t] IN
  /\ tpc[t] = "born"
  /\ cmd[f] = NoOne
  /\ \E ok \in BOOLEAN : tpc' = [tpc EXCEPT ![t] = IF ok THEN "loop" ELSE "done"]
  /\ hpc' = [h \in Handlers |->
               IF hpc[h] = "runwait" /\ hflt[h] = f THEN "runwoken" ELSE hpc[h]]
  /\ UNCHANGED <<filters, active, handle, cycle, cmd, mtx, tflt, hflt, todo, mvars>>

\* init_run() under m_mutex_cmd; its result overwrites m_bactive.
ThreadInit(t) ==
  LET f == tflt[t] IN
  /\ tpc[t] = "born"
  /\ cmd[f] = NoOne
  /\ \E ok \in BOOLEAN :
       /\ active' = [active EXCEPT ![f] = ok]
       /\ tpc' = [tpc EXCEPT ![t] = IF ok THEN "loop" ELSE "done"]
  /\ hpc' = [h \in Handlers |->
               IF hpc[h] = "runwait" /\ hflt[h] = f THEN "runwoken" ELSE hpc[h]]
  /\ UNCHANGED <<filters, handle, cycle, cmd, mtx, tflt, hflt, todo, mvars>>

\* The next stop of a thread that has seen n cycles of m_intvl.
WaitOrLock(n) == IF n < Intvl THEN "asleep" ELSE "lock"

ThreadLoop(t) ==
  LET f == tflt[t] IN
  /\ tpc[t] = "loop"
  /\ tpc' = [tpc EXCEPT ![t] = IF active[f] THEN WaitOrLock(cycle[f]) ELSE "destroy"]
  /\ UNCHANGED <<fvars, cmd, mtx, tflt, hvars, mvars>>

ThreadSpurious(t) ==
  /\ SpuriousWakeups
  /\ tpc[t] = "asleep"
  /\ tpc' = [tpc EXCEPT ![t] = "woken"]
  /\ UNCHANGED <<fvars, cmd, mtx, tflt, hvars, mvars>>

ThreadWoken(t) ==
  LET f == tflt[t]
      n == IF cycle[f] < Intvl THEN cycle[f] + 1 ELSE Intvl IN
  /\ tpc[t] = "woken"
  /\ cycle' = [cycle EXCEPT ![f] = n]
  /\ tpc' = [tpc EXCEPT ![t] = WaitOrLock(n)]
  /\ UNCHANGED <<filters, active, handle, cmd, mtx, tflt, hvars, mvars>>

\* Faulty variant: calls proc() without lock_cmd().
ThreadLock_Bare(t) ==
  /\ tpc[t] = "lock"
  /\ tpc' = [tpc EXCEPT ![t] = "proc"]
  /\ UNCHANGED <<fvars, cmd, mtx, tflt, hvars, mvars>>

ThreadLock(t) ==
  LET f == tflt[t] IN
  /\ tpc[t] = "lock"
  /\ cmd[f] = NoOne
  /\ cmd' = [cmd EXCEPT ![f] = t]
  /\ tpc' = [tpc EXCEPT ![t] = "proc"]
  /\ UNCHANGED <<fvars, mtx, tflt, hvars, mvars>>

\* Faulty variant: takes one cycle too many off m_cycle.
ThreadProc_OffByOne(t) ==
  LET f == tflt[t] IN
  /\ tpc[t] = "proc"
  /\ IF clk = "RUN"
       THEN \E n \in CycleRange : cycle' = [cycle EXCEPT ![f] = n - 1]
       ELSE UNCHANGED cycle
  /\ cmd' = [cmd EXCEPT ![f] = NoOne]
  /\ tpc' = [tpc EXCEPT ![t] = "loop"]
  /\ UNCHANGED <<filters, active, handle, mtx, tflt, hvars, mvars>>

\* proc() returned true.  m_cycle is what the clock counted meanwhile less
\* m_intvl (FilterCycle has the counts); it is kept while the clock is not RUN.
ThreadProc(t) ==
  LET f == tflt[t] IN
  /\ tpc[t] = "proc"
  /\ IF clk = "RUN" THEN \E n \in CycleRange : cycle' = [cycle EXCEPT ![f] = n]
                    ELSE UNCHANGED cycle
  /\ cmd' = [cmd EXCEPT ![f] = NoOne]
  /\ tpc' = [tpc EXCEPT ![t] = "loop"]
  /\ UNCHANGED <<filters, active, handle, mtx, tflt, hvars, mvars>>

\* proc() returned false: the loop is left with m_mutex_cmd still locked.
ThreadBreak(t) ==
  /\ ProcFails
  /\ tpc[t] = "proc"
  /\ cmd' = [cmd EXCEPT ![tflt[t]] = Lost]
  /\ tpc' = [tpc EXCEPT ![t] = "destroy"]
  /\ UNCHANGED <<fvars, mtx, tflt, hvars, mvars>>

ThreadDestroy(t) ==
  /\ tpc[t] = "destroy"
  /\ tpc' = [tpc EXCEPT ![t] = "done"]
  /\ UNCHANGED <<fvars, cmd, mtx, tflt, hvars, mvars>>

-----------------------------------------------------------------------------
(* The main thread: c_aws::main() *)

\* m_clk.wait() over.
MainTick ==
  /\ main = "loop"
  /\ ~exit
  /\ clk # "STOP"
  /\ main' = "tick"
  /\ UNCHANGED <<fvars, cmd, mtx, tvars, hvars, clk, exit>>

\* f_base::clock() ends in notify_all; past m_end_time the clock stops.
MainClock ==
  /\ main = "tick"
  /\ tpc' = [t \in Threads |-> IF tpc[t] = "asleep" THEN "woken" ELSE tpc[t]]
  /\ clk' \in IF ScheduledEnd THEN {clk, "STOP"} ELSE {clk}
  /\ main' = "loop"
  /\ UNCHANGED <<fvars, cmd, mtx, tflt, hvars, exit>>

MainExit ==
  /\ main = "loop"
  /\ exit
  /\ main' = "shutdown"
  /\ UNCHANGED <<fvars, cmd, mtx, tvars, hvars, clk, exit>>

\* server->Shutdown() has no deadline: it waits for every call in flight.
MainShutdown ==
  /\ main = "shutdown"
  /\ \A h \in Handlers : hpc[h] = "idle"
  /\ main' = "clear"
  /\ UNCHANGED <<fvars, cmd, mtx, tvars, hvars, clk, exit>>

\* ~c_aws() deletes every filter.
MainClear ==
  /\ main = "clear"
  /\ filters' = {}
  /\ main' = "over"
  /\ UNCHANGED <<active, handle, cycle, cmd, mtx, tvars, hvars, clk, exit>>

Terminated == main = "over" /\ UNCHANGED vars

-----------------------------------------------------------------------------
RunStep(h)   == RunFilter(h) \/ RunSpawn(h) \/ RunReturn(h)
StopStep(h)  == StopFilter(h) \/ StopJoin(h)
QuitStep(h)  == Quit(h) \/ QuitNext(h) \/ QuitJoin(h) \/ QuitDone(h)
ParStep(h)   == SetFltrPar(h) \/ SetParLock(h) \/ SetParDone(h)
WatchStep(h) == WatchFltrMsg(h) \/ WatchLock(h) \/ WatchCopied(h) \/ WatchWrite(h)

HandlerStep(h) ==
  \/ RunStep(h) \/ StopStep(h) \/ QuitStep(h) \/ ParStep(h) \/ WatchStep(h)
  \/ AddFilter(h) \/ DelFilter(h) \/ ClockRestart(h)

ThreadStep(t) ==
  \/ ThreadInit(t) \/ ThreadLoop(t) \/ ThreadWoken(t) \/ ThreadLock(t)
  \/ ThreadProc(t) \/ ThreadBreak(t) \/ ThreadDestroy(t)

MainStep ==
  \/ MainTick \/ MainClock \/ MainExit \/ MainShutdown \/ MainClear

Next ==
  \/ \E h \in Handlers :
       Request(h) \/ SetClockState(h) \/ HandlerStep(h) \/ RunSpurious(h)
  \/ \E t \in Threads : ThreadStep(t) \/ ThreadSpurious(t)
  \/ MainStep
  \/ Terminated

Spec == Init /\ [][Next]_vars

\* Clients owe nothing.  A mutex released again and again is eventually won,
\* hence strong fairness for whoever may block on one.  The main loop polls the
\* clock without pause, so restarts cannot hide a running clock from it forever:
\* the STOP inside start() lasts a few instructions.
Fairness ==
  /\ \A h \in Handlers : SF_vars(HandlerStep(h))
  /\ \A t \in Threads : SF_vars(ThreadStep(t))
  /\ SF_vars(MainStep)

FairSpec == Spec /\ Fairness

-----------------------------------------------------------------------------
(* Properties *)

\* A filter thread never touches a filter that del_filter() or ~c_aws() has
\* freed, and m_fthread is the handle stop() needs to join it
\* (aws.cpp:600-615, filter_base.cpp:269-289).
ThreadOwnsFilter ==
  \A t \in Threads : Live(t) => tflt[t] \in filters /\ handle[tflt[t]] = t

\* A handler that has looked a filter up under m_mtx still finds it there
\* when it uses the pointer (aws.cpp:518-715).
HandlerUsesLoaded ==
  \A h \in Handlers : hpc[h] \in Locked \ {"quitting"} => hflt[h] \in filters

\* m_bactive = FALSE, what del_filter() and quit() go by, means that the thread
\* is gone, unless its join is still under way (aws.cpp:604, aws.cpp:554).
InactiveIsQuiet ==
  \A t \in Threads :
    Live(t) /\ ~active[tflt[t]] =>
      \E h \in Handlers : hpc[h] \in {"join", "quitjoin"} /\ hflt[h] = tflt[t]

\* No filter is freed under a thread or a handler, and del_filter() may trust
\* m_bactive (aws.cpp:600-615).
FiltersInUseStay == ThreadOwnsFilter /\ HandlerUsesLoaded /\ InactiveIsQuiet

\* Parameters, channels and messages of a filter are never read or written by a
\* handler while its proc() runs (filter_base.cpp:241-258, aws.cpp:639-650).
CmdExclusive ==
  \A h \in Handlers, t \in Threads :
    ~ (hpc[h] \in {"paruse", "watchuse"} /\ tpc[t] = "proc" /\ hflt[h] = tflt[t])

\* When ~c_aws() deletes the filters no thread runs in one: quit() refuses with
\* "Active filters should first be stopped." (aws.cpp:68, aws.cpp:549-562).
NoThreadAtTeardown ==
  main \in {"clear", "over"} => \A t \in Threads : ~Live(t)

\* stop() returns only after the filter's thread has stopped: "the function is
\* called from c_aws until the thread stops" (filter_base.hpp:467).
StopWaitsForThread ==
  [][\A h \in Handlers :
       hpc[h] = "join" /\ hpc'[h] = "idle" => LiveOf(hflt[h]) = {}]_vars

\* m_bactive: "if it is true, filter thread continues to loop"
\* (filter_base.hpp:419), as long as proc() returns true.
ActiveThreadLoops ==
  \A f \in filters :
    active[f] /\ handle[f] # NoOne
      => \/ tpc[handle[f]] # "done"
         \/ \E h \in Handlers : hpc[h] = "runlock" /\ hflt[h] = f

\* run() logs "Initialization done." only when init_run() has been executed
\* (filter_base.hpp:457-464), as long as no wait ends without a notify.
RunReportsInit ==
  [][\A h \in Handlers :
       hpc[h] = "runwoken" /\ hpc'[h] = "idle" /\ active[hflt[h]]
         => tpc[handle[hflt[h]]] # "born"]_vars

\* Every call is answered, a watched filter's excepted: no handler is stuck
\* behind m_mtx, m_mutex_cmd, a lost notification or a join.
CallsReturn ==
  \A h \in Handlers :
    hpc[h] \notin {"idle", "watch", "watchlock", "watchuse", "write"}
      ~> hpc[h] = "idle"

\* Once Quit has succeeded the process ends, streams included
\* (aws.cpp:968, aws.cpp:986-989).
QuitTerminates == exit ~> main = "over"

\* The promise of FilterService, with a filter's runners read off the threads.
Service == INSTANCE FilterService WITH
  loaded  <- filters,
  runners <- [f \in Filters |-> LiveOf(f)],
  serving <- main # "over"

\* The server implements the service: one thread per filter, and nothing is
\* unloaded or torn down under a thread.
ImplementsService == Service!ServiceSpec
=============================================================================
