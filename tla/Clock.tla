--------------------------------- MODULE Clock ---------------------------------
(***************************************************************************)
(* c_clock (src/src/aws_clock.cpp) between the main loop, which waits on   *)
(* it, the SetClockState handlers, which change it without a lock, and the *)
(* filters, which correct it.                                              *)
(*                                                                         *)
(* Times are in the code's unit of 100 ns.  now is CLOCK_REALTIME, which a *)
(* correction sets; a sleep in progress (left) does not follow it.         *)
(***************************************************************************)
EXTENDS Integers

CONSTANTS
  Handlers,       \* RPC worker threads in SetClockState
  ClockCmds,      \* the commands clients send
  Modes,          \* values of ClockParam.online
  Starts,         \* values of ClockParam.tstart
  Ends,           \* values of ClockParam.tend
  Periods,        \* values of ClockParam.period; 0 keeps the old one
  Cycles,         \* values of ClockParam.step
  TimeErrors,     \* how far the times filters set are from the clock's
  ResolutionNs,   \* what clock_getres() reports
  DefaultAdjust,  \* m_delta_adjust before the clock was online: 1 ms
  LargeDelta,     \* 30 s
  CanSetTime,     \* the process may call clock_settime()
  StartsMidWait,  \* clients may start the clock while the main loop is in wait() or
                  \* another start() is about to say RUN once more
  Epoch,          \* CLOCK_REALTIME when the process starts
  MaxNow,         \* bound: real time stops there
  MaxRequests     \* bound: commands and corrections in one behaviour

ASSUME ClockAssumption ==
  /\ ClockCmds \subseteq {"RUN", "PAUSE", "STOP", "STEP"}
  /\ Modes \subseteq BOOLEAN
  /\ Starts \subseteq Nat /\ Ends \subseteq Nat /\ Periods \subseteq Nat
  /\ Periods \ {0} # {}
  /\ Cycles \subseteq Int /\ TimeErrors \subseteq Int
  /\ {ResolutionNs, DefaultAdjust, LargeDelta, Epoch, MaxNow, MaxRequests} \subseteq Nat
  /\ {CanSetTime, StartsMidWait} \subseteq BOOLEAN

VARIABLES
  now,      \* CLOCK_REALTIME
  state,    \* m_state
  online,   \* m_bonline
  offset,   \* m_offset
  tcur,     \* m_tcur
  tstart,   \* m_ts_start
  period,   \* m_period
  delta,    \* m_delta
  adjust,   \* m_delta_adjust
  tend,     \* c_aws::m_end_time
  main,     \* where the main loop is
  left,     \* what is left of its sleep
  slept,    \* wait()'s locals: what m_tcur becomes and the time it used up
  time,     \* c_aws::m_time, also f_base::m_cur_time
  hpc,      \* where each handler is
  hargs,    \* the arguments of the start() it is in and the calls around that one
  requests, \* bound: commands and corrections so far
  told      \* history: a command has set the time since it was last published

cvars == <<state, online, offset, tcur, tstart, adjust>>
pvars == <<period, tend>>
mvars == <<main, left, slept, time>>
hvars == <<hpc, hargs>>
vars  == <<now, cvars, pvars, delta, mvars, hvars, requests, told>>

\* m_end_time = LLONG_MAX
Never == MaxNow * (MaxRequests + 2) + MaxNow

Abs(n) == IF n < 0 THEN -n ELSE n

NoArgs == [offset |-> 0, online |-> FALSE, outer |-> 0]

States == {"STOP", "RUN", "PAUSE"}

HandlerPC == {"idle", "start", "begin", "run", "restart", "pause", "pausing", "stop", "step"}

TypeOK ==
  /\ {now, offset, tcur, tstart, delta, time} \subseteq Int
  /\ {period, adjust, tend, left, requests} \subseteq Nat
  /\ state \in States
  /\ {online, told} \subseteq BOOLEAN
  /\ main \in {"poll", "wait", "woken", "clocked"}
  /\ slept \in [tcur : Int, used : Int]
  /\ hpc \in [Handlers -> HandlerPC]
  /\ hargs \in [Handlers -> [offset : Int, online : BOOLEAN, outer : Nat]]

Init ==
  /\ now = Epoch
  /\ state = "STOP"
  /\ online = FALSE
  /\ offset = 0
  /\ tcur = 0
  /\ tstart = 0
  /\ period \in Periods \ {0}
  /\ delta = 0
  /\ adjust = DefaultAdjust
  /\ tend = Never
  /\ main = "poll"
  /\ left = 0
  /\ slept = [tcur |-> 0, used |-> 0]
  /\ time = 0
  /\ hpc = [h \in Handlers |-> "idle"]
  /\ hargs = [h \in Handlers |-> NoArgs]
  /\ requests = 0
  /\ told = TRUE

\* get_time()
GetTime == IF state = "PAUSE" THEN offset
           ELSE IF online THEN now ELSE now - tstart + offset

Elapse ==
  /\ now < MaxNow
  /\ now' = now + 1
  /\ left' = IF left > 0 THEN left - 1 ELSE 0
  /\ UNCHANGED <<cvars, pvars, delta, main, slept, time, hvars, requests, told>>

-----------------------------------------------------------------------------
(* The SetClockState handlers *)

\* The method SetClockState picks for command c in state s; "idle" is none.
Dispatch(s, c) ==
  CASE c = "RUN" /\ s # "PAUSE"  -> "start"
    [] c = "RUN" /\ s = "PAUSE"  -> "restart"
    [] c = "PAUSE" /\ s = "RUN"  -> "pause"
    [] c = "STOP" /\ s # "STOP"  -> "stop"
    [] c = "STEP" /\ s = "PAUSE" -> "step"
    [] OTHER                     -> "idle"

Command(h) ==
  /\ hpc[h] = "idle"
  /\ requests < MaxRequests
  /\ \E c \in ClockCmds : hpc' = [hpc EXCEPT ![h] = Dispatch(state, c)]
  /\ hpc' # hpc
  /\ requests' = requests + 1
  /\ UNCHANGED <<now, cvars, pvars, delta, mvars, hargs, told>>

Done(h) == /\ hpc' = [hpc EXCEPT ![h] = "idle"]
           /\ hargs' = [hargs EXCEPT ![h] = NoArgs]

\* A start() returns: to the one that has called it, if any, or for good.
Returns(h) ==
  IF hargs[h].outer = 0 THEN Done(h)
  ELSE /\ hpc' = [hpc EXCEPT ![h] = "run"]
       /\ hargs' = [hargs EXCEPT ![h].outer = @ - 1]

CallsItself(h, off, on) ==
  /\ hargs' = [hargs EXCEPT ![h] = [offset |-> off, online |-> on, outer |-> @.outer + 1]]
  /\ hpc' = [hpc EXCEPT ![h] = "begin"]

\* Faulty variant: m_tcur survives a start.
StartClock_KeepsTcur(h, off, on) ==
  /\ online' = on
  /\ IF state = "STOP"
       THEN /\ tstart' = now
            /\ offset' = IF on THEN 0 ELSE off
            /\ adjust' = IF on THEN ResolutionNs \div 100 ELSE adjust
            /\ state' = "RUN"
            /\ Returns(h)
            /\ UNCHANGED tcur
       ELSE /\ offset' = off
            /\ state' = "STOP"
            /\ CallsItself(h, off, on)
            /\ UNCHANGED <<tcur, tstart, adjust>>

\* start(): a clock that is not stopped is stopped first and started again.
StartClock(h, off, on) ==
  /\ online' = on
  /\ IF state = "STOP"
       THEN /\ tstart' = now
            /\ tcur' = IF on THEN now ELSE 0
            /\ offset' = IF on THEN 0 ELSE off
            /\ adjust' = IF on THEN ResolutionNs \div 100 ELSE adjust
            /\ state' = "RUN"
            /\ Returns(h)
       ELSE /\ offset' = off
            /\ state' = "STOP"
            /\ CallsItself(h, off, on)
            /\ UNCHANGED <<tcur, tstart, adjust>>

MayStart(h) ==
  StartsMidWait \/ (main = "poll" /\ \A g \in Handlers \ {h} : hpc[g] # "run")

Start(h) ==
  /\ hpc[h] = "start"
  /\ MayStart(h)
  /\ tend' \in Ends
  /\ \E p \in Periods : period' = IF p > 0 THEN p ELSE period
  /\ \E on \in Modes, off \in Starts : StartClock(h, IF on THEN 0 ELSE off, on)
  /\ told' = TRUE
  /\ UNCHANGED <<now, delta, mvars, requests>>

\* The call start() makes of itself once it has stopped the clock.
Begin(h) ==
  /\ hpc[h] = "begin"
  /\ MayStart(h)
  /\ StartClock(h, hargs[h].offset, hargs[h].online)
  /\ told' = TRUE
  /\ UNCHANGED <<now, pvars, delta, mvars, requests>>

\* A start() after the call it has made of itself: the clock runs, whoever has
\* paused or stopped it since.
Run(h) ==
  /\ hpc[h] = "run"
  /\ state' = "RUN"
  /\ Returns(h)
  /\ told' = (told \/ state # "RUN")
  /\ UNCHANGED <<now, online, offset, tcur, tstart, adjust, pvars, delta, mvars, requests>>

Restart(h) ==
  /\ hpc[h] = "restart"
  /\ MayStart(h)
  /\ IF state = "PAUSE" THEN StartClock(h, offset, online)
                        ELSE Done(h) /\ UNCHANGED cvars
  /\ told' = (told \/ state = "PAUSE")
  /\ UNCHANGED <<now, pvars, delta, mvars, requests>>

\* pause() stores the time it pauses at before it says so.
Pause(h) ==
  /\ hpc[h] = "pause"
  /\ IF state = "RUN"
       THEN offset' = GetTime /\ hpc' = [hpc EXCEPT ![h] = "pausing"]
       ELSE hpc' = [hpc EXCEPT ![h] = "idle"] /\ UNCHANGED offset
  /\ UNCHANGED <<now, state, online, tcur, tstart, adjust, pvars, delta, mvars, hargs,
                 requests, told>>

Pausing(h) ==
  /\ hpc[h] = "pausing"
  /\ state' = "PAUSE"
  /\ told' = TRUE
  /\ Done(h)
  /\ UNCHANGED <<now, online, offset, tcur, tstart, adjust, pvars, delta, mvars, requests>>

Stop(h) ==
  /\ hpc[h] = "stop"
  /\ state' = "STOP"
  /\ told' = (told \/ state = "PAUSE")
  /\ Done(h)
  /\ UNCHANGED <<now, online, offset, tcur, tstart, adjust, pvars, delta, mvars, requests>>

\* step(int)
Step(h) ==
  /\ hpc[h] = "step"
  /\ \E n \in Cycles : offset' = IF state = "PAUSE" THEN offset + period * n ELSE offset
  /\ told' = TRUE
  /\ Done(h)
  /\ UNCHANGED <<now, state, online, tcur, tstart, adjust, pvars, delta, mvars, requests>>

-----------------------------------------------------------------------------
(* The filters: set_time() *)

SetTime ==
  /\ requests < MaxRequests
  /\ \E e \in TimeErrors : delta' = GetTime + e - tcur - offset
  /\ requests' = requests + 1
  /\ UNCHANGED <<now, cvars, pvars, mvars, hvars, told>>

-----------------------------------------------------------------------------
(* The main loop *)

\* Faulty variant: a late clock is set back further.
Correction_WrongSign ==
  IF Abs(delta) < adjust THEN 0
  ELSE IF Abs(delta) > LargeDelta THEN delta
  ELSE IF delta < 0 THEN adjust ELSE -adjust

\* What wait() takes off m_delta: nothing of a small one, all of a large one.
Correction ==
  IF Abs(delta) < adjust THEN 0
  ELSE IF Abs(delta) > LargeDelta THEN delta
  ELSE IF delta < 0 THEN -adjust ELSE adjust

\* Faulty variant: nanosleep() is called with whatever the cycle has left.
Rest_Unguarded(tslp) == tslp

\* A cycle that has used up its period does not sleep.
Rest(tslp) == IF tslp > 0 THEN tslp ELSE 0

\* wait() up to its nanosleep(): corrects the system clock when it is online and
\* sleeps for what the cycle has left.
WaitBegin ==
  /\ main = "poll"
  /\ state # "STOP"
  /\ LET adj  == IF online /\ CanSetTime THEN Correction ELSE 0
         tnew == IF online THEN now + adj ELSE now - tstart
         rest == Rest(period - (tnew - tcur))
     IN /\ now' = now + adj
        /\ delta' = delta - adj
        /\ left' = rest
        /\ slept' = [tcur |-> tnew + rest, used |-> tnew - tcur + rest]
  /\ main' = "wait"
  /\ UNCHANGED <<cvars, pvars, time, hvars, requests, told>>

\* Faulty variant: a paused clock loses time online, too.
WaitEnd_AnyMode ==
  /\ main = "wait"
  /\ left = 0
  /\ tcur' = slept.tcur
  /\ offset' = IF state = "PAUSE" THEN offset - slept.used ELSE offset
  /\ main' = "woken"
  /\ UNCHANGED <<now, state, online, tstart, adjust, pvars, delta, left, slept, time,
                 hvars, requests, told>>

\* wait() after its nanosleep(): an offline clock that is paused loses the time
\* the cycle took.
WaitEnd ==
  /\ main = "wait"
  /\ left = 0
  /\ tcur' = slept.tcur
  /\ offset' = IF ~online /\ state = "PAUSE" THEN offset - slept.used ELSE offset
  /\ main' = "woken"
  /\ UNCHANGED <<now, state, online, tstart, adjust, pvars, delta, left, slept, time,
                 hvars, requests, told>>

Publish ==
  /\ main = "woken"
  /\ time' = GetTime
  /\ told' = FALSE
  /\ main' = "clocked"
  /\ UNCHANGED <<now, cvars, pvars, delta, left, slept, hvars, requests>>

\* Faulty variant: the clock stops at its end time, not past it.
CheckEnd_Early ==
  /\ main = "clocked"
  /\ state' = IF time >= tend THEN "STOP" ELSE state
  /\ main' = "poll"
  /\ UNCHANGED <<now, online, offset, tcur, tstart, adjust, pvars, delta, left, slept,
                 time, hvars, requests, told>>

CheckEnd ==
  /\ main = "clocked"
  /\ state' = IF time > tend THEN "STOP" ELSE state
  /\ main' = "poll"
  /\ UNCHANGED <<now, online, offset, tcur, tstart, adjust, pvars, delta, left, slept,
                 time, hvars, requests, told>>

HandlerStep(h) ==
  \/ Command(h) \/ Start(h) \/ Begin(h) \/ Run(h) \/ Restart(h)
  \/ Pause(h) \/ Pausing(h) \/ Stop(h) \/ Step(h)
MainStep == WaitBegin \/ WaitEnd \/ Publish \/ CheckEnd

Next == Elapse \/ SetTime \/ MainStep \/ \E h \in Handlers : HandlerStep(h)

Spec == Init /\ [][Next]_vars

-----------------------------------------------------------------------------
(* Properties *)

\* The time filters are given never runs backwards unless a client has started,
\* stepped or paused the clock, or ended a pause, since it was last given
\* (aws_clock.cpp:317-336, aws.cpp:974-977): not while it runs, nor from cycle to
\* cycle of a pause.
TimeAdvances == [][Publish /\ ~told => time' >= time]_vars

\* "wait the time specified in cyc command" (aws.cpp:970): the main loop sleeps
\* no longer than a period and what it has just set the system clock back by
\* (aws_clock.cpp:343-386).
SleepAtMostPeriod ==
  [][WaitBegin => left' <= period + (IF now' < now THEN now - now' ELSE 0)]_vars

\* "Clock stopped at {} as scheduled." (aws.cpp:979-982): the clock the main loop
\* stops is past its end time.
EndsOnSchedule == [][CheckEnd /\ state' # state => GetTime > tend]_vars

\* "the value is gradually reduced in multiple call of wait()"
\* (aws_clock.cpp:291): a correction an online clock does not ignore shrinks.
DeltaShrinks ==
  [][WaitBegin /\ online /\ Abs(delta) >= adjust /\ delta # 0 => Abs(delta') < Abs(delta)]_vars

\* The time of a paused clock stands still unless a client acts
\* (test_clock.cpp:62-66).
PausedTimeStands ==
  [][(MainStep \/ Elapse) /\ state = "PAUSE" /\ state' = "PAUSE" => GetTime' = GetTime]_vars
=============================================================================
