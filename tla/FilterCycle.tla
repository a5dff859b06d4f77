------------------------------ MODULE FilterCycle ------------------------------
(***************************************************************************)
(* How a filter thread keeps step with the clock: the counts of            *)
(* f_base::fthread() and f_base::clock() (src/src/filter_base.cpp) while    *)
(* clients change the clock's state and the filter's Interval.             *)
(*                                                                         *)
(* Of m_count_clock only its distance from m_count_pre matters.            *)
(***************************************************************************)
EXTENDS Integers

CONSTANTS
  Intervals,      \* values clients give the parameter Interval (m_intvl)
  MaxIntvl,       \* the largest of them
  ClockCmds,      \* clock states clients ask for once it runs
  SpuriousWakeups \* clock_wait() may return without a signal

ASSUME CycleAssumption ==
  /\ MaxIntvl \in Nat \ {0}
  /\ Intervals \subseteq 1..MaxIntvl
  /\ Intervals # {}
  /\ ClockCmds \subseteq {"RUN", "PAUSE", "STOP"}
  /\ SpuriousWakeups \in BOOLEAN

VARIABLES
  intvl,   \* m_intvl
  cycle,   \* m_cycle
  age,     \* m_count_clock - m_count_pre, saturated where it stops mattering
  pc,      \* where the filter thread is
  clk,     \* c_clock::m_state
  main,    \* where the main loop is
  fresh,   \* history: a signal was sent since the last proc() began
  late,    \* history: the clock counted while the thread was not asleep
  lead     \* history: the clock counts the calls of proc() stand for, less
           \*   those that have passed and the spurious wake-ups, since the
           \*   clock's state or Interval last changed (counts nobody used are
           \*   forgotten, and it saturates at 3 * MaxIntvl)

vars == <<intvl, cycle, age, pc, clk, main, fresh, late, lead>>

Highest(a, b) == IF a > b THEN a ELSE b
Lowest(a, b)  == IF a < b THEN a ELSE b

MaxAge == 2 * MaxIntvl

TypeOK ==
  /\ intvl \in 1..MaxIntvl
  /\ cycle \in (-MaxIntvl)..MaxAge
  /\ age \in 0..MaxAge
  /\ pc \in {"loop", "test", "tested", "asleep", "woken", "lock", "proc"}
  /\ clk \in {"STOP", "RUN", "PAUSE"}
  /\ main \in {"poll", "waited", "counted"}
  /\ fresh \in BOOLEAN
  /\ late \in BOOLEAN
  /\ lead \in 0..3 * MaxIntvl

\* run() has just started the thread; the clock may run already.
Init ==
  /\ intvl \in Intervals
  /\ cycle = 0
  /\ age = 0
  /\ pc = "loop"
  /\ clk = "RUN"
  /\ main = "poll"
  /\ fresh = FALSE
  /\ late = FALSE
  /\ lead = 0

-----------------------------------------------------------------------------
(* The filter thread *)

\* m_count_pre = m_count_clock
Begin ==
  /\ pc = "loop"
  /\ age' = 0
  /\ late' = FALSE
  /\ pc' = "test"
  /\ UNCHANGED <<intvl, cycle, clk, main, fresh, lead>>

\* while(m_cycle < m_intvl), read under no lock.
TestCycle ==
  /\ pc = "test"
  /\ pc' = IF cycle < intvl THEN "tested" ELSE "lock"
  /\ UNCHANGED <<intvl, cycle, age, clk, main, fresh, late, lead>>

\* clock_wait() has m_mutex and gives it up to sleep: a signal sent before this
\* step is missed.
Sleep ==
  /\ pc = "tested"
  /\ pc' = "asleep"
  /\ UNCHANGED <<intvl, cycle, age, clk, main, fresh, late, lead>>

\* clock_wait() has returned.
Woken ==
  /\ pc = "woken"
  /\ cycle' = cycle + 1
  /\ pc' = "test"
  /\ UNCHANGED <<intvl, age, clk, main, fresh, late, lead>>

Spurious ==
  /\ SpuriousWakeups
  /\ pc = "asleep"
  /\ pc' = "woken"
  /\ lead' = Highest(lead - 1, 0)
  /\ UNCHANGED <<intvl, cycle, age, clk, main, fresh, late>>

\* lock_cmd() and the call of proc().
EnterProc ==
  /\ pc = "lock"
  /\ pc' = "proc"
  /\ fresh' = FALSE
  /\ lead' = IF clk = "RUN" THEN Lowest(lead + intvl, 3 * MaxIntvl) ELSE lead
  /\ UNCHANGED <<intvl, cycle, age, clk, main, late>>

\* Faulty variant: m_cycle keeps the interval that has been served.
LeaveProc_KeepsInterval ==
  /\ pc = "proc"
  /\ cycle' = IF clk = "RUN" THEN age ELSE cycle
  /\ pc' = "loop"
  /\ UNCHANGED <<intvl, age, clk, main, fresh, late, lead>>

\* Faulty variant: the interval is taken off twice.
LeaveProc_Twice ==
  /\ pc = "proc"
  /\ cycle' = IF clk = "RUN" THEN age - 2 * intvl ELSE cycle
  /\ pc' = "loop"
  /\ UNCHANGED <<intvl, age, clk, main, fresh, late, lead>>

\* proc() returned true; the counts move only while the clock runs.
LeaveProc ==
  /\ pc = "proc"
  /\ cycle' = IF clk = "RUN" THEN age - intvl ELSE cycle
  /\ pc' = "loop"
  /\ UNCHANGED <<intvl, age, clk, main, fresh, late, lead>>

-----------------------------------------------------------------------------
(* The main loop *)

MainWait ==
  /\ main = "poll"
  /\ clk # "STOP"
  /\ main' = "waited"
  /\ UNCHANGED <<intvl, cycle, age, pc, clk, fresh, late, lead>>

\* The locked part of clock().
MainCount ==
  /\ main = "waited"
  /\ IF clk = "RUN" THEN /\ age' = Lowest(age + 1, MaxAge)
                         /\ lead' = Highest(lead - 1, 0)
                         /\ late' = (late \/ pc # "asleep")
                    ELSE UNCHANGED <<age, late, lead>>
  /\ main' = "counted"
  /\ UNCHANGED <<intvl, cycle, pc, clk, fresh>>

\* Faulty variant: the signal is dropped.
MainNotify_Nobody ==
  /\ main = "counted"
  /\ main' = "poll"
  /\ UNCHANGED <<intvl, cycle, age, pc, clk, fresh, late, lead>>

\* notify_all, outside the lock.
MainNotify ==
  /\ main = "counted"
  /\ pc' = IF pc = "asleep" THEN "woken" ELSE pc
  /\ fresh' = TRUE
  /\ main' = "poll"
  /\ UNCHANGED <<intvl, cycle, age, clk, late, lead>>

-----------------------------------------------------------------------------
(* Clients *)

SetClock ==
  /\ clk' \in ClockCmds
  /\ clk' = "PAUSE" => clk = "RUN"
  /\ lead' = IF clk' = clk THEN lead ELSE 0
  /\ UNCHANGED <<intvl, cycle, age, pc, main, fresh, late>>

\* SetFltrPar writes m_intvl under m_mutex_cmd, so never during proc().
SetInterval ==
  /\ pc # "proc"
  /\ intvl' \in Intervals
  /\ lead' = IF intvl' = intvl THEN lead ELSE 0
  /\ UNCHANGED <<cycle, age, pc, clk, main, fresh, late>>

ThreadStep == Begin \/ TestCycle \/ Sleep \/ Woken \/ EnterProc \/ LeaveProc
MainStep   == MainWait \/ MainCount \/ MainNotify
Next == ThreadStep \/ Spurious \/ MainStep \/ SetClock \/ SetInterval

Spec == Init /\ [][Next]_vars

\* Neither thread is ever suspended for good by the scheduler.
FairSpec == Spec /\ WF_vars(ThreadStep) /\ WF_vars(MainStep)

-----------------------------------------------------------------------------
(* Properties *)

\* "proc is the main function which is executed synchronous to the clock"
\* (filter_base.hpp:23): a thread that has been late, and is not late again,
\* goes back to waiting for a signal before every call of proc().
Resynchronizes == <>[]~late => <>[][EnterProc => fresh]_vars

\* Catching up is bounded: over any stretch in which the clock runs and Interval
\* stays as it is, whatever they were before, proc() is called for no more counts
\* than have passed and two intervals more, because what m_cycle is above one
\* interval is forgotten (filter_base.cpp:250-256).  A spurious wake-up passes for
\* a count.
NeverAhead == lead <= 2 * intvl

\* A running clock keeps calling proc(): neither a signal sent while the thread
\* was busy nor a negative m_cycle leaves it asleep (filter_base.cpp:234-259).
ProcRecurs == []<>(pc = "proc")
=============================================================================
