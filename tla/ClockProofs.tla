------------------------------ MODULE ClockProofs ------------------------------
(***************************************************************************)
(* Proofs about Clock, for every period, resolution and number of          *)
(* handlers.                                                               *)
(***************************************************************************)
EXTENDS Clock, TLAPS

HandlerArgs == [offset : Int, online : BOOLEAN, outer : Nat]

LEMMA ClockTypeInit == Init => TypeOK
<1> SUFFICES ASSUME Init PROVE TypeOK
  OBVIOUS
<1> USE ClockAssumption DEF ClockAssumption
<1>1. {now, offset, tcur, tstart, delta, time} \subseteq Int
  BY DEF Init
<1>2. {period, adjust, tend, left, requests} \subseteq Nat
  <2>1. tend \in Nat
    BY DEF Init, Never
  <2> QED
    BY <2>1 DEF Init
<1>3. {online, told} \subseteq BOOLEAN
  BY Zenon DEF Init
<1>4. slept \in [tcur : Int, used : Int]
  BY DEF Init
<1>5. hpc \in [Handlers -> HandlerPC] /\ hargs \in [Handlers -> HandlerArgs]
  BY DEF Init, HandlerPC, NoArgs, HandlerArgs
<1> QED
  BY <1>1, <1>2, <1>3, <1>4, <1>5 DEF Init, TypeOK, States, HandlerArgs

LEMMA StartValues ==
  ASSUME NEW on \in Modes, NEW off \in Starts
  PROVE  on \in BOOLEAN /\ (IF on THEN 0 ELSE off) \in Int
<1>1. Modes \subseteq BOOLEAN /\ Starts \subseteq Nat
  BY ClockAssumption, Zenon DEF ClockAssumption
<1>2. off \in Nat
  BY <1>1
<1> QED
  BY <1>1, <1>2

LEMMA ClockTypeDone ==
  ASSUME TypeOK, NEW h \in Handlers, Done(h)
  PROVE  /\ hpc' \in [Handlers -> HandlerPC]
         /\ hargs' \in [Handlers -> HandlerArgs]
<1>1. hpc' \in [Handlers -> HandlerPC]
  BY DEF TypeOK, Done, HandlerPC
<1>2. NoArgs \in HandlerArgs
  <2>1. 0 \in Int /\ FALSE \in BOOLEAN /\ 0 \in Nat
    OBVIOUS
  <2> QED
    BY <2>1, Zenon DEF NoArgs, HandlerArgs
<1>3. hargs' \in [Handlers -> HandlerArgs]
  BY <1>2, Zenon DEF TypeOK, Done, HandlerArgs
<1> QED
  BY <1>1, <1>3

\* A start() that returns to another leaves one call fewer around that one.
LEMMA ClockTypeReturns ==
  ASSUME TypeOK, NEW h \in Handlers, Returns(h)
  PROVE  /\ hpc' \in [Handlers -> HandlerPC]
         /\ hargs' \in [Handlers -> HandlerArgs]
<1>1. CASE hargs[h].outer = 0
  BY <1>1, ClockTypeDone DEF Returns
<1>2. CASE hargs[h].outer # 0
  <2>1. hargs \in [Handlers -> HandlerArgs]
    BY Zenon DEF TypeOK, HandlerArgs
  <2>2. hargs[h].outer - 1 \in Nat
    BY <1>2, <2>1 DEF HandlerArgs
  <2>3. hargs' = [hargs EXCEPT ![h] = [hargs[h] EXCEPT !.outer = hargs[h].outer - 1]]
    BY <1>2 DEF Returns
  <2>4. [hargs[h] EXCEPT !.outer = hargs[h].outer - 1] \in HandlerArgs
    BY <2>1, <2>2 DEF HandlerArgs
  <2>5. hargs' \in [Handlers -> HandlerArgs]
    BY <2>1, <2>3, <2>4, Zenon
  <2>6. hpc' \in [Handlers -> HandlerPC]
    BY <1>2 DEF Returns, TypeOK, HandlerPC
  <2> QED
    BY <2>5, <2>6
<1> QED
  BY <1>1, <1>2

LEMMA ClockTypeCalls ==
  ASSUME TypeOK, NEW h \in Handlers, NEW off \in Int, NEW on \in BOOLEAN,
         CallsItself(h, off, on)
  PROVE  /\ hpc' = [hpc EXCEPT ![h] = "begin"] /\ hpc' \in [Handlers -> HandlerPC]
         /\ hargs' \in [Handlers -> HandlerArgs] /\ hargs'[h].online = on
         /\ \A g \in Handlers \ {h} : hpc'[g] = hpc[g] /\ hargs'[g] = hargs[g]
<1> DEFINE args == [offset |-> off, online |-> on, outer |-> hargs[h].outer + 1]
<1>1. hargs \in [Handlers -> HandlerArgs] /\ hpc \in [Handlers -> HandlerPC]
  BY Zenon DEF TypeOK, HandlerArgs
<1>2. hargs[h].outer + 1 \in Nat
  BY <1>1 DEF HandlerArgs
<1>3. args \in HandlerArgs
  BY <1>2, Zenon DEF HandlerArgs
<1>4. hargs' = [hargs EXCEPT ![h] = args] /\ hpc' = [hpc EXCEPT ![h] = "begin"]
  BY Zenon DEF CallsItself
<1>5. args.online = on
  OBVIOUS
<1> HIDE DEF args
<1>6. /\ hargs' \in [Handlers -> HandlerArgs] /\ hargs'[h] = args
      /\ \A g \in Handlers \ {h} : hpc'[g] = hpc[g] /\ hargs'[g] = hargs[g]
  BY <1>1, <1>3, <1>4, Zenon
<1>7. hpc' \in [Handlers -> HandlerPC]
  BY <1>1, <1>4 DEF HandlerPC
<1> QED
  BY <1>4, <1>5, <1>6, <1>7

LEMMA ClockTypeStart ==
  ASSUME TypeOK, NEW h \in Handlers, NEW off \in Int, NEW on \in BOOLEAN,
         StartClock(h, off, on)
  PROVE  /\ {offset', tcur', tstart'} \subseteq Int
         /\ adjust' \in Nat
         /\ state' \in States
         /\ online' \in BOOLEAN
         /\ hpc' \in [Handlers -> HandlerPC]
         /\ hargs' \in [Handlers -> HandlerArgs]
<1> USE ClockAssumption DEF ClockAssumption, TypeOK, States, HandlerPC
<1>1. online' \in BOOLEAN
  BY Zenon DEF StartClock
<1>2. ResolutionNs \div 100 \in Nat
  OBVIOUS
<1>3. CASE state = "STOP"
  <2>1. Returns(h)
    BY <1>3 DEF StartClock
  <2> QED
    BY <1>1, <1>2, <1>3, <2>1, ClockTypeReturns DEF StartClock
<1>4. CASE state # "STOP"
  <2>1. CallsItself(h, off, on)
    BY <1>4 DEF StartClock
  <2>2. hpc' \in [Handlers -> HandlerPC] /\ hargs' \in [Handlers -> HandlerArgs]
    BY <2>1, ClockTypeCalls
  <2>3. offset' = off /\ state' = "STOP" /\ UNCHANGED <<tcur, tstart, adjust>>
    BY <1>4 DEF StartClock
  <2> QED
    BY <1>1, <2>2, <2>3
<1> QED
  BY <1>3, <1>4

LEMMA ClockTypeNext == TypeOK /\ [Next]_vars => TypeOK'
<1> SUFFICES ASSUME TypeOK, [Next]_vars PROVE TypeOK'
  OBVIOUS
<1> USE ClockAssumption DEF ClockAssumption, TypeOK, HandlerArgs, cvars, pvars, mvars, hvars
<1>1. CASE Elapse
  BY <1>1 DEF Elapse
<1>2. CASE SetTime
  BY <1>2 DEF SetTime, GetTime
<1>3. ASSUME NEW h \in Handlers, Command(h) PROVE TypeOK'
  BY <1>3 DEF Command, Dispatch, HandlerPC
<1>4. ASSUME NEW h \in Handlers, Start(h) PROVE TypeOK'
  <2>1. PICK on \in Modes, off \in Starts : StartClock(h, IF on THEN 0 ELSE off, on)
    BY <1>4 DEF Start
  <2>2. on \in BOOLEAN /\ (IF on THEN 0 ELSE off) \in Int
    BY StartValues
  <2>3. period' \in Nat /\ tend' \in Nat
    BY <1>4 DEF Start
  <2> QED
    BY <1>4, <2>1, <2>2, <2>3, ClockTypeStart DEF Start
<1>5. ASSUME NEW h \in Handlers, Begin(h) PROVE TypeOK'
  BY <1>5, ClockTypeStart DEF Begin
<1>6. ASSUME NEW h \in Handlers, Restart(h) PROVE TypeOK'
  <2>1. told' \in BOOLEAN
    BY <1>6, Zenon DEF Restart
  <2>2. CASE state = "PAUSE"
    BY <1>6, <2>1, <2>2, ClockTypeStart DEF Restart
  <2>3. CASE state # "PAUSE"
    BY <1>6, <2>1, <2>3, ClockTypeDone DEF Restart
  <2> QED
    BY <2>2, <2>3
<1>7. ASSUME NEW h \in Handlers, Pause(h) PROVE TypeOK'
  BY <1>7 DEF Pause, GetTime, HandlerPC
<1>8. ASSUME NEW h \in Handlers, Pausing(h) PROVE TypeOK'
  BY <1>8, ClockTypeDone DEF Pausing, States
<1>9. ASSUME NEW h \in Handlers, Stop(h) PROVE TypeOK'
  <2>1. told' \in BOOLEAN
    BY <1>9, Zenon DEF Stop
  <2> QED
    BY <1>9, <2>1, ClockTypeDone DEF Stop, States
<1>10. ASSUME NEW h \in Handlers, Step(h) PROVE TypeOK'
  <2>1. PICK n \in Cycles : offset' = IF state = "PAUSE" THEN offset + period * n ELSE offset
    BY <1>10 DEF Step
  <2>2. n \in Int /\ period \in Int /\ offset \in Int
    OBVIOUS
  <2>3. period * n \in Int
    BY <2>2
  <2>4. offset' \in Int
    BY <2>1, <2>2, <2>3
  <2> QED
    BY <1>10, <2>4, ClockTypeDone DEF Step
<1>11. CASE WaitBegin
  <2>1. Correction \in Int
    BY DEF Correction, Abs
  <2> DEFINE adj  == IF online /\ CanSetTime THEN Correction ELSE 0
             tnew == IF online THEN now + adj ELSE now - tstart
             rest == Rest(period - (tnew - tcur))
  <2>2. adj \in Int /\ tnew \in Int
    BY <2>1
  <2>3. rest \in Nat
    BY <2>2 DEF Rest
  <2>4. /\ now' = now + adj /\ delta' = delta - adj /\ left' = rest /\ main' = "wait"
        /\ slept' = [tcur |-> tnew + rest, used |-> tnew - tcur + rest]
        /\ UNCHANGED <<cvars, pvars, time, hvars, requests, told>>
    BY <1>11, Zenon DEF WaitBegin
  <2> HIDE DEF adj, tnew, rest
  <2>5. slept' \in [tcur : Int, used : Int]
    BY <2>2, <2>3, <2>4
  <2> QED
    BY <2>2, <2>3, <2>4, <2>5
<1>12. CASE WaitEnd
  BY <1>12 DEF WaitEnd
<1>13. CASE Publish
  <2>1. time' \in Int
    BY <1>13 DEF Publish, GetTime
  <2>2. told' \in BOOLEAN
    BY <1>13, Zenon DEF Publish
  <2> QED
    BY <1>13, <2>1, <2>2 DEF Publish
<1>14. CASE CheckEnd
  BY <1>14 DEF CheckEnd, States
<1>15. CASE UNCHANGED vars
  BY <1>15 DEF vars
<1>16. ASSUME NEW h \in Handlers, Run(h) PROVE TypeOK'
  <2>1. told' \in BOOLEAN
    BY <1>16, Zenon DEF Run
  <2> QED
    BY <1>16, <2>1, ClockTypeReturns DEF Run, States
<1> QED
  BY <1>1, <1>2, <1>3, <1>4, <1>5, <1>6, <1>7, <1>8, <1>9, <1>10, <1>11, <1>12, <1>13,
     <1>14, <1>15, <1>16 DEF Next, MainStep, HandlerStep

\* Whatever commands overtake each other, times stay times and no sleep is negative.
THEOREM ClockTypeCorrect == Spec => []TypeOK
  BY ClockTypeInit, ClockTypeNext, PTL DEF Spec

-----------------------------------------------------------------------------
(* start() in its two steps, and restart() of a paused clock *)

Starting(h) == Start(h) \/ Begin(h) \/ (Restart(h) /\ state = "PAUSE")

LEMMA StartingStarts ==
  ASSUME TypeOK, NEW h \in Handlers, Starting(h)
  PROVE  /\ MayStart(h)
         /\ told'
         /\ UNCHANGED <<now, delta, mvars, requests>>
         /\ \E off \in Int, on \in BOOLEAN : StartClock(h, off, on)
<1> USE ClockAssumption DEF ClockAssumption, Starting
<1>1. MayStart(h) /\ told' /\ UNCHANGED <<now, delta, mvars, requests>>
  BY Zenon DEF Start, Begin, Restart
<1>2. CASE Start(h)
  <2>1. PICK on \in Modes, off \in Starts : StartClock(h, IF on THEN 0 ELSE off, on)
    BY <1>2 DEF Start
  <2>2. on \in BOOLEAN /\ (IF on THEN 0 ELSE off) \in Int
    BY StartValues
  <2> QED
    BY <1>1, <2>1, <2>2
<1>3. CASE Begin(h)
  <2>1. StartClock(h, hargs[h].offset, hargs[h].online)
    BY <1>3 DEF Begin
  <2>2. hargs[h].offset \in Int /\ hargs[h].online \in BOOLEAN
    BY DEF TypeOK
  <2> QED
    BY <1>1, <2>1, <2>2
<1>4. CASE Restart(h) /\ state = "PAUSE"
  BY <1>1, <1>4 DEF Restart, TypeOK
<1> QED
  BY <1>2, <1>3, <1>4

-----------------------------------------------------------------------------
(* A clock that is only ever started online *)

OnlineInv ==
  /\ state # "STOP" \/ main \in {"wait", "woken", "clocked"} => online
  /\ \A h \in Handlers : hpc[h] \in {"pausing", "run"} => online
  /\ \A h \in Handlers : hpc[h] = "begin" => hargs[h].online

LEMMA DoneKeeps ==
  ASSUME TypeOK, NEW h \in Handlers, Done(h), NEW g \in Handlers, hpc'[g] # "idle"
  PROVE  hpc'[g] = hpc[g] /\ hargs'[g] = hargs[g]
BY DEF TypeOK, Done

LEMMA ReturnsKeeps ==
  ASSUME TypeOK, NEW h \in Handlers, Returns(h)
  PROVE  /\ hpc'[h] \in {"idle", "run"}
         /\ \A g \in Handlers \ {h} : hpc'[g] = hpc[g] /\ hargs'[g] = hargs[g]
BY DEF TypeOK, Returns, Done

LEMMA OnlineStart ==
  ASSUME TypeOK, OnlineInv, Modes \subseteq {TRUE}, NEW h \in Handlers, Starting(h)
  PROVE  OnlineInv'
<1> USE DEF TypeOK, OnlineInv
<1>0. TypeOK /\ (\A off \in Starts : off \in Int)
  BY ClockAssumption DEF ClockAssumption
<1>1. PICK off \in Int : StartClock(h, off, TRUE)
  <2>1. CASE Start(h)
    <3>1. PICK on \in Modes, o \in Starts : StartClock(h, IF on THEN 0 ELSE o, on)
      BY <2>1 DEF Start
    <3>2. on = TRUE
      OBVIOUS
    <3>3. (IF on THEN 0 ELSE o) = 0 /\ 0 \in Int
      BY <3>2
    <3>4. StartClock(h, 0, TRUE)
      BY <3>1, <3>2, <3>3, Zenon
    <3> QED
      BY <3>3, <3>4, Zenon
  <2>2. CASE Begin(h)
    <3>1. StartClock(h, hargs[h].offset, hargs[h].online) /\ hpc[h] = "begin"
      BY <2>2 DEF Begin
    <3>2. hargs[h].offset \in Int /\ hargs[h].online = TRUE
      BY <3>1
    <3> QED
      BY <3>1, <3>2
  <2>3. CASE Restart(h) /\ state = "PAUSE"
    <3>1. StartClock(h, offset, online)
      BY <2>3 DEF Restart
    <3>2. online = TRUE /\ offset \in Int
      BY <2>3
    <3> QED
      BY <3>1, <3>2
  <2> QED
    BY <2>1, <2>2, <2>3 DEF Starting
<1>2. online'
  BY <1>1, Zenon DEF StartClock
<1>3. CASE state = "STOP"
  <2>1. \A g \in Handlers : hpc'[g] = "begin" => g # h /\ hpc[g] = "begin" /\ hargs'[g] = hargs[g]
    BY <1>1, <1>3, ReturnsKeeps DEF StartClock
  <2> QED
    BY <1>2, <2>1
<1>4. CASE state # "STOP"
  <2>1. CallsItself(h, off, TRUE)
    BY <1>1, <1>4 DEF StartClock
  <2>2. /\ hargs'[h].online
        /\ \A g \in Handlers \ {h} : hpc'[g] = hpc[g] /\ hargs'[g] = hargs[g]
    BY <1>0, <2>1, ClockTypeCalls
  <2> QED
    BY <1>2, <2>2, Zenon
<1> QED
  BY <1>3, <1>4

LEMMA OnlineNext ==
  ASSUME TypeOK, OnlineInv, Modes \subseteq {TRUE}, [Next]_vars
  PROVE  OnlineInv'
<1> USE DEF TypeOK, OnlineInv, cvars, pvars, mvars, hvars
<1>1. CASE Elapse \/ SetTime \/ UNCHANGED vars
  BY <1>1 DEF Elapse, SetTime, vars
<1>2. CASE MainStep
  BY <1>2 DEF MainStep, WaitBegin, WaitEnd, Publish, CheckEnd
<1>3. ASSUME NEW h \in Handlers, Command(h) PROVE OnlineInv'
  BY <1>3 DEF Command, Dispatch
<1>4. ASSUME NEW h \in Handlers, Starting(h) PROVE OnlineInv'
  BY <1>4, OnlineStart
<1>5. ASSUME NEW h \in Handlers, Restart(h), state # "PAUSE" PROVE OnlineInv'
  <2>1. UNCHANGED <<state, online, main>> /\ Done(h)
    BY <1>5, Zenon DEF Restart
  <2> QED
    BY <2>1, DoneKeeps, Zenon
<1>6. ASSUME NEW h \in Handlers, Pause(h) PROVE OnlineInv'
  BY <1>6 DEF Pause
<1>7. ASSUME NEW h \in Handlers, Pausing(h) \/ Stop(h) \/ Step(h) PROVE OnlineInv'
  <2>1. Done(h) /\ UNCHANGED <<online, main>>
    BY <1>7, Zenon DEF Pausing, Stop, Step
  <2>2. state' # "STOP" => online
    BY <1>7 DEF Pausing, Stop, Step
  <2> QED
    BY <2>1, <2>2, DoneKeeps, Zenon
<1>8. ASSUME NEW h \in Handlers, Run(h) PROVE OnlineInv'
  <2>1. online /\ UNCHANGED <<online, main>> /\ Returns(h)
    BY <1>8, Zenon DEF Run
  <2> QED
    BY <2>1, ReturnsKeeps, Zenon
<1> QED
  BY <1>1, <1>2, <1>3, <1>4, <1>5, <1>6, <1>7, <1>8 DEF Next, HandlerStep, Starting

LEMMA OnlineAlways == Modes \subseteq {TRUE} => (Spec => []OnlineInv)
<1> SUFFICES ASSUME Modes \subseteq {TRUE} PROVE Spec => []OnlineInv
  OBVIOUS
<1>1. Init => OnlineInv
  BY DEF Init, OnlineInv
<1>2. TypeOK /\ OnlineInv /\ [Next]_vars => OnlineInv'
  BY OnlineNext
<1> QED
  BY <1>1, <1>2, ClockTypeCorrect, PTL DEF Spec

\* The time of a paused clock stands still while no client acts, however far into
\* the main loop's wait the pause comes: of every clock that is started online.
THEOREM PausedClockStands == Modes \subseteq {TRUE} => (Spec => PausedTimeStands)
<1> SUFFICES ASSUME Modes \subseteq {TRUE} PROVE Spec => PausedTimeStands
  OBVIOUS
<1>1. OnlineInv /\ [Next]_vars =>
        [(MainStep \/ Elapse) /\ state = "PAUSE" /\ state' = "PAUSE" => GetTime' = GetTime]_vars
  BY DEF OnlineInv, MainStep, WaitBegin, WaitEnd, Publish, CheckEnd, Elapse, GetTime, cvars
<1> QED
  BY <1>1, OnlineAlways, PTL DEF Spec, PausedTimeStands

-----------------------------------------------------------------------------
(* A clock that is never paused *)

NeverPaused == /\ state # "PAUSE"
               /\ \A h \in Handlers : hpc[h] \notin {"pause", "pausing", "restart", "step"}

LEMMA NeverPausedNext ==
  ASSUME TypeOK, NeverPaused, "PAUSE" \notin ClockCmds, [Next]_vars
  PROVE  NeverPaused'
<1> USE DEF TypeOK, NeverPaused, cvars, pvars, mvars, hvars
<1>1. CASE Elapse \/ SetTime \/ MainStep \/ UNCHANGED vars
  BY <1>1 DEF Elapse, SetTime, MainStep, WaitBegin, WaitEnd, Publish, CheckEnd, vars
<1>2. ASSUME NEW h \in Handlers, Command(h) PROVE NeverPaused'
  BY <1>2 DEF Command, Dispatch
<1>3. ASSUME NEW h \in Handlers, Starting(h) PROVE NeverPaused'
  BY <1>3, StartingStarts DEF StartClock, CallsItself, Returns, Done
<1>4. ASSUME NEW h \in Handlers, Stop(h) PROVE NeverPaused'
  BY <1>4 DEF Stop, Done
<1>5. ASSUME NEW h \in Handlers, Run(h) PROVE NeverPaused'
  BY <1>5, ReturnsKeeps DEF Run
<1> QED
  BY <1>1, <1>2, <1>3, <1>4, <1>5 DEF Next, HandlerStep, Starting, Restart, Pause, Pausing, Step

LEMMA PausedNever == "PAUSE" \notin ClockCmds => (Spec => []NeverPaused)
<1> SUFFICES ASSUME "PAUSE" \notin ClockCmds PROVE Spec => []NeverPaused
  OBVIOUS
<1>1. Init => NeverPaused
  BY DEF Init, NeverPaused
<1>2. TypeOK /\ NeverPaused /\ [Next]_vars => NeverPaused'
  BY NeverPausedNext
<1> QED
  BY <1>1, <1>2, ClockTypeCorrect, PTL DEF Spec

-----------------------------------------------------------------------------
(* The time the filters are given *)

\* No filter sets the system clock.
Uncorrected == TimeErrors = {} \/ ~CanSetTime

NoDelta == TimeErrors = {} => delta = 0

\* pause() moves the time of an offline clock before it stops it: an offline clock is
\* not paused.
PausesOnline == Modes \subseteq {TRUE} \/ "PAUSE" \notin ClockCmds

PausesOnlineInv == OnlineInv \/ NeverPaused

\* What was published last is not later than what would be published now.
NotLater == ~told /\ (state # "STOP" \/ main \in {"wait", "woken"}) => time <= GetTime

LEMMA NotLaterNext ==
  ASSUME TypeOK, Uncorrected, NoDelta, PausesOnlineInv, NotLater, [Next]_vars
  PROVE  NoDelta' /\ NotLater'
<1> USE ClockAssumption DEF ClockAssumption, NoDelta, NotLater, GetTime, cvars, pvars, mvars, hvars
<1>1. CASE Elapse
  BY <1>1 DEF Elapse, TypeOK
<1>2. CASE SetTime \/ UNCHANGED vars
  BY <1>2 DEF SetTime, vars
<1>3. CASE WaitBegin
  <2>1. now' = now /\ delta' = delta
    BY <1>3 DEF WaitBegin, Uncorrected, Correction, Abs, TypeOK
  <2> QED
    BY <1>3, <2>1 DEF WaitBegin
<1>4. CASE WaitEnd
  <2>1. offset' = offset
    BY <1>4 DEF WaitEnd, PausesOnlineInv, OnlineInv, NeverPaused
  <2> QED
    BY <1>4, <2>1 DEF WaitEnd
<1>5. CASE Publish
  BY <1>5 DEF Publish, TypeOK
<1>6. CASE CheckEnd
  BY <1>6 DEF CheckEnd
<1>7. ASSUME NEW h \in Handlers, Command(h) PROVE NoDelta' /\ NotLater'
  BY <1>7 DEF Command
<1>8. ASSUME NEW h \in Handlers, Starting(h) PROVE NoDelta' /\ NotLater'
  BY <1>8, StartingStarts
<1>9. ASSUME NEW h \in Handlers, Restart(h), state # "PAUSE" PROVE NoDelta' /\ NotLater'
  BY <1>9 DEF Restart
<1>10. ASSUME NEW h \in Handlers, Pause(h) PROVE NoDelta' /\ NotLater'
  BY <1>10 DEF Pause, PausesOnlineInv, OnlineInv, NeverPaused
<1>11. ASSUME NEW h \in Handlers, Pausing(h) \/ Step(h) PROVE NoDelta' /\ NotLater'
  BY <1>11 DEF Pausing, Step
<1>12. ASSUME NEW h \in Handlers, Stop(h) PROVE NoDelta' /\ NotLater'
  BY <1>12 DEF Stop
<1>13. ASSUME NEW h \in Handlers, Run(h) PROVE NoDelta' /\ NotLater'
  BY <1>13 DEF Run
<1> QED
  BY <1>1, <1>2, <1>3, <1>4, <1>5, <1>6, <1>7, <1>8, <1>9, <1>10, <1>11, <1>12, <1>13
     DEF Next, HandlerStep, MainStep, Starting

\* The time filters are given never runs backwards unless a client has started,
\* stepped or paused the clock, or ended a pause: wherever those commands fall in the
\* main loop's cycle, of a clock nobody sets back.
THEOREM ClockRunsForward == Uncorrected /\ PausesOnline => (Spec => TimeAdvances)
<1> SUFFICES ASSUME Uncorrected, PausesOnline PROVE Spec => TimeAdvances
  OBVIOUS
<1>1. Init => NoDelta /\ NotLater
  BY DEF Init, NoDelta, NotLater
<1>2. TypeOK /\ PausesOnlineInv /\ NoDelta /\ NotLater /\ [Next]_vars => NoDelta' /\ NotLater'
  BY NotLaterNext
<1>3. TypeOK /\ NotLater => [Publish /\ ~told => time' >= time]_vars
  BY DEF NotLater, Publish, GetTime, TypeOK
<1>4. Spec => []PausesOnlineInv
  <2>1. CASE Modes \subseteq {TRUE}
    BY <2>1, OnlineAlways, PTL DEF PausesOnlineInv
  <2>2. CASE "PAUSE" \notin ClockCmds
    BY <2>2, PausedNever, PTL DEF PausesOnlineInv
  <2> QED
    BY <2>1, <2>2 DEF PausesOnline
<1> QED
  BY <1>1, <1>2, <1>3, <1>4, ClockTypeCorrect, PTL DEF Spec, TimeAdvances

-----------------------------------------------------------------------------
(* The main loop's sleep *)

\* No client's pause() overlaps another client's start().
OnePauses == "PAUSE" \notin ClockCmds \/ \A g, h \in Handlers : g = h

NobodyRevives == \A h \in Handlers : hpc[h] \notin {"pausing", "run"}

\* m_tcur of a cycle that ended now without a sleep.
Base == IF online THEN now ELSE now - tstart

\* m_tcur is not ahead of what wait() compares it with, but for a stopped clock that
\* neither a pause() nor a start() on its way brings back.
SleepInv ==
  /\ main = "poll" => tcur <= Base \/ (state = "STOP" /\ NobodyRevives)
  /\ main = "wait" => slept.tcur - left <= Base
  /\ main \in {"woken", "clocked"} => tcur <= Base

LEMMA SleepStart ==
  ASSUME TypeOK, SleepInv, ~StartsMidWait, OnePauses, "PAUSE" \in ClockCmds \/ NeverPaused,
         NEW h \in Handlers, Starting(h)
  PROVE  SleepInv'
<1>1. PICK off \in Int, on \in BOOLEAN : StartClock(h, off, on)
  BY StartingStarts
<1>2. main = "poll" /\ main' = "poll" /\ now' = now
  BY StartingStarts DEF MayStart, mvars
<1>0. \A g \in Handlers \ {h} : hpc[g] # "run"
  BY StartingStarts DEF MayStart
<1>3. CASE state = "STOP"
  <2>1. tcur' = (IF on THEN now ELSE 0) /\ tstart' = now /\ online' = on
    BY <1>1, <1>3, Zenon DEF StartClock
  <2> QED
    BY <1>2, <2>1 DEF SleepInv, Base, TypeOK
<1>4. CASE state # "STOP"
  <2>1. state' = "STOP" /\ hpc' = [hpc EXCEPT ![h] = "begin"]
    BY <1>1, <1>4 DEF StartClock, CallsItself
  <2>2. NobodyRevives'
    BY <1>0, <2>1 DEF NobodyRevives, OnePauses, NeverPaused, TypeOK
  <2> QED
    BY <1>2, <2>1, <2>2 DEF SleepInv
<1> QED
  BY <1>3, <1>4

LEMMA SleepWaitBegin ==
  ASSUME TypeOK, SleepInv, WaitBegin
  PROVE  /\ slept'.tcur - left' <= Base'
         /\ left' <= period + (IF now' < now THEN now - now' ELSE 0)
<1> DEFINE adj  == IF online /\ CanSetTime THEN Correction ELSE 0
           tnew == IF online THEN now + adj ELSE now - tstart
           rest == Rest(period - (tnew - tcur))
<1>1. Correction \in Int
  BY DEF Correction, Abs, TypeOK
<1>2. adj \in Int /\ tnew \in Int /\ (~online => adj = 0)
  BY <1>1 DEF TypeOK
<1>3. /\ now' = now + adj /\ left' = rest
      /\ slept' = [tcur |-> tnew + rest, used |-> tnew - tcur + rest]
      /\ UNCHANGED <<online, tstart>> /\ main = "poll" /\ state # "STOP"
  BY Zenon DEF WaitBegin, cvars
<1>4. tnew = Base' /\ tnew = Base + adj
  BY <1>2, <1>3 DEF Base, TypeOK
<1> HIDE DEF adj, tnew
<1>5. rest \in Nat
  BY <1>2 DEF Rest, TypeOK
<1>6. tcur <= Base
  BY <1>3 DEF SleepInv
<1>7. rest <= period + (IF now' < now THEN now - now' ELSE 0)
  BY <1>2, <1>3, <1>4, <1>6 DEF Rest, Base, TypeOK
<1>8. slept'.tcur - left' = tnew
  BY <1>2, <1>3, <1>5
<1> QED
  BY <1>2, <1>3, <1>4, <1>7, <1>8

LEMMA SleepNext ==
  ASSUME TypeOK, SleepInv, ~StartsMidWait, OnePauses, "PAUSE" \in ClockCmds \/ NeverPaused,
         [Next]_vars
  PROVE  SleepInv'
<1> USE DEF SleepInv, Base, NobodyRevives, cvars, pvars, mvars, hvars
<1>1. CASE Elapse
  BY <1>1 DEF Elapse, TypeOK
<1>2. CASE SetTime \/ UNCHANGED vars
  BY <1>2 DEF SetTime, vars
<1>3. CASE WaitBegin
  BY <1>3, SleepWaitBegin DEF WaitBegin
<1>4. CASE WaitEnd
  BY <1>4 DEF WaitEnd, TypeOK
<1>5. CASE Publish \/ CheckEnd
  BY <1>5 DEF Publish, CheckEnd
<1>6. ASSUME NEW h \in Handlers, Command(h) PROVE SleepInv'
  BY <1>6 DEF Command, Dispatch, TypeOK
<1>7. ASSUME NEW h \in Handlers, Starting(h) PROVE SleepInv'
  BY <1>7, SleepStart
<1>8. ASSUME NEW h \in Handlers, Restart(h), state # "PAUSE" PROVE SleepInv'
  BY <1>8 DEF Restart, Done, TypeOK
<1>9. ASSUME NEW h \in Handlers, Pause(h) PROVE SleepInv'
  BY <1>9 DEF Pause, TypeOK
<1>10. ASSUME NEW h \in Handlers, Pausing(h) \/ Stop(h) \/ Step(h) PROVE SleepInv'
  BY <1>10 DEF Pausing, Stop, Step, Done, TypeOK
<1>11. ASSUME NEW h \in Handlers, Run(h) PROVE SleepInv'
  BY <1>11 DEF Run
<1> QED
  BY <1>1, <1>2, <1>3, <1>4, <1>5, <1>6, <1>7, <1>8, <1>9, <1>10, <1>11
     DEF Next, HandlerStep, MainStep, Starting

\* The main loop sleeps no longer than a period and what it has just set the system
\* clock back by, whatever filters correct it by and whatever clients do: unless a
\* client starts the clock within the loop's wait, or starts it while another pauses it
\* or has not come back from starting it.
THEOREM SleepsAtMostPeriod == ~StartsMidWait /\ OnePauses => (Spec => SleepAtMostPeriod)
<1> SUFFICES ASSUME ~StartsMidWait, OnePauses PROVE Spec => SleepAtMostPeriod
  OBVIOUS
<1> DEFINE Unpaused == "PAUSE" \in ClockCmds \/ NeverPaused
<1>1. Init => SleepInv
  BY DEF Init, SleepInv, NobodyRevives
<1>2. TypeOK /\ SleepInv /\ Unpaused /\ [Next]_vars => SleepInv'
  BY SleepNext
<1>3. TypeOK /\ SleepInv =>
        [WaitBegin => left' <= period + (IF now' < now THEN now - now' ELSE 0)]_vars
  BY SleepWaitBegin
<1>4. Spec => []Unpaused
  <2>1. CASE "PAUSE" \in ClockCmds
    BY <2>1, PTL
  <2>2. CASE "PAUSE" \notin ClockCmds
    BY <2>2, PausedNever, PTL
  <2> QED
    BY <2>1, <2>2
<1> QED
  BY <1>1, <1>2, <1>3, <1>4, ClockTypeCorrect, PTL DEF Spec, SleepAtMostPeriod

-----------------------------------------------------------------------------
(* The scheduled end *)

\* What was just published is not later than the clock now.
PublishedIsPast == main = "clocked" => time <= GetTime

LEMMA PublishedNext ==
  ASSUME TypeOK, NeverPaused, PublishedIsPast, ~StartsMidWait, [Next]_vars
  PROVE  PublishedIsPast'
<1> USE DEF PublishedIsPast, GetTime, cvars, pvars, mvars, hvars
<1>1. CASE Elapse
  BY <1>1 DEF Elapse, TypeOK
<1>2. CASE SetTime \/ UNCHANGED vars
  BY <1>2 DEF SetTime, vars
<1>3. CASE MainStep
  BY <1>3 DEF MainStep, WaitBegin, WaitEnd, Publish, CheckEnd, TypeOK
<1>4. ASSUME NEW h \in Handlers, Command(h) PROVE PublishedIsPast'
  BY <1>4 DEF Command
<1>5. ASSUME NEW h \in Handlers, Starting(h) PROVE PublishedIsPast'
  BY <1>5, StartingStarts DEF MayStart
<1>6. ASSUME NEW h \in Handlers, Stop(h) PROVE PublishedIsPast'
  BY <1>6 DEF Stop, NeverPaused
<1>7. ASSUME NEW h \in Handlers, Run(h) PROVE PublishedIsPast'
  BY <1>7 DEF Run, NeverPaused
<1> QED
  BY <1>1, <1>2, <1>3, <1>4, <1>5, <1>6, <1>7
     DEF Next, HandlerStep, Starting, NeverPaused, Restart, Pause, Pausing, Step

\* A clock the main loop stops is past its end time when it is stopped: of a clock
\* that is not paused and not started within the loop's wait.
THEOREM StopsPastEnd ==
  ~StartsMidWait /\ "PAUSE" \notin ClockCmds => (Spec => EndsOnSchedule)
<1> SUFFICES ASSUME ~StartsMidWait, "PAUSE" \notin ClockCmds PROVE Spec => EndsOnSchedule
  OBVIOUS
<1>1. Init => PublishedIsPast
  BY DEF Init, PublishedIsPast
<1>2. TypeOK /\ NeverPaused /\ PublishedIsPast /\ [Next]_vars => PublishedIsPast'
  BY PublishedNext
<1>3. TypeOK /\ PublishedIsPast => [CheckEnd /\ state' # state => GetTime > tend]_vars
  BY DEF PublishedIsPast, CheckEnd, GetTime, TypeOK
<1> QED
  BY <1>1, <1>2, <1>3, PausedNever, ClockTypeCorrect, PTL DEF Spec, EndsOnSchedule

-----------------------------------------------------------------------------
(* The corrections *)

AdjustPositive == adjust >= 1

LEMMA AdjustNext ==
  ASSUME TypeOK, AdjustPositive, ResolutionNs >= 100, [Next]_vars
  PROVE  AdjustPositive'
<1> USE DEF AdjustPositive
<1>1. ASSUME NEW h \in Handlers, Starting(h) PROVE AdjustPositive'
  <2>1. ResolutionNs \div 100 >= 1
    BY ClockAssumption DEF ClockAssumption
  <2> QED
    BY <1>1, <2>1, StartingStarts DEF StartClock
<1>2. ASSUME NEW h \in Handlers, HandlerStep(h), ~Starting(h) PROVE adjust' = adjust
  BY <1>2 DEF HandlerStep, Starting, Command, Run, Restart, Pause, Pausing, Stop, Step, cvars
<1>3. CASE Elapse \/ SetTime \/ MainStep \/ UNCHANGED vars
  BY <1>3 DEF Elapse, SetTime, MainStep, WaitBegin, WaitEnd, Publish, CheckEnd, cvars, vars
<1> QED
  BY <1>1, <1>2, <1>3 DEF Next

\* Each wait() of an online clock brings the system clock nearer to the filters' time,
\* unless it is nearer already than the least correction: where the resolution the
\* clock reports is not below the code's unit of 100 ns (clock_resolution shows what
\* becomes of the others).
THEOREM CorrectionsConverge ==
  CanSetTime /\ ResolutionNs >= 100 /\ DefaultAdjust >= 1 => (Spec => DeltaShrinks)
<1> SUFFICES ASSUME CanSetTime, ResolutionNs >= 100, DefaultAdjust >= 1
             PROVE  Spec => DeltaShrinks
  OBVIOUS
<1>1. Init => AdjustPositive
  BY DEF Init, AdjustPositive
<1>2. TypeOK /\ AdjustPositive /\ [Next]_vars => AdjustPositive'
  BY AdjustNext
<1>3. TypeOK /\ AdjustPositive =>
        [WaitBegin /\ online /\ Abs(delta) >= adjust /\ delta # 0
           => Abs(delta') < Abs(delta)]_vars
  BY ClockAssumption DEF ClockAssumption, AdjustPositive, WaitBegin, Correction, Abs, TypeOK
<1> QED
  BY <1>1, <1>2, <1>3, ClockTypeCorrect, PTL DEF Spec, DeltaShrinks
=============================================================================
