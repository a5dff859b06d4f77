--------------------------- MODULE FilterCycleProofs ---------------------------
(***************************************************************************)
(* m_cycle stays within the range FilterServer assumes, and a thread that  *)
(* catches up does not overtake the clock, for every set of intervals and  *)
(* every clock command.                                                    *)
(***************************************************************************)
EXTENDS FilterCycle, TLAPS

\* A thread in the waiting loop has m_cycle below every Interval it was tested
\* against, so one more signal does not take it past the largest.
CycleInv ==
  /\ TypeOK
  /\ pc \in {"tested", "asleep", "woken"} => cycle < MaxIntvl

LEMMA CycleInvInit == Init => CycleInv
<1> SUFFICES ASSUME Init PROVE CycleInv
  OBVIOUS
<1>1. fresh \in BOOLEAN /\ late \in BOOLEAN
  BY Zenon DEF Init
<1> QED
  BY <1>1, CycleAssumption DEF CycleAssumption, Init, CycleInv, TypeOK, MaxAge

LEMMA CycleInvNext == CycleInv /\ [Next]_vars => CycleInv'
<1> SUFFICES ASSUME CycleInv, [Next]_vars PROVE CycleInv'
  OBVIOUS
<1> USE CycleAssumption DEF CycleAssumption, CycleInv, TypeOK, MaxAge
<1>1. CASE Begin
  <2>1. late' \in BOOLEAN
    BY <1>1, Zenon DEF Begin
  <2> QED
    BY <1>1, <2>1 DEF Begin
<1>2. CASE TestCycle
  BY <1>2 DEF TestCycle
<1>3. CASE Sleep
  BY <1>3 DEF Sleep
<1>4. CASE Woken
  BY <1>4 DEF Woken
<1>5. CASE EnterProc
  <2>1. fresh' \in BOOLEAN
    BY <1>5, Zenon DEF EnterProc
  <2> QED
    BY <1>5, <2>1 DEF EnterProc, Lowest
<1>6. CASE LeaveProc
  BY <1>6 DEF LeaveProc
<1>7. CASE Spurious
  BY <1>7 DEF Spurious, Highest
<1>8. CASE MainWait
  BY <1>8 DEF MainWait
<1>9. CASE MainCount
  <2>1. age' \in 0..MaxAge /\ lead' \in 0..3 * MaxIntvl
    BY <1>9 DEF MainCount, Lowest, Highest
  <2>2. late' \in BOOLEAN
    BY <1>9, Zenon DEF MainCount
  <2> QED
    BY <1>9, <2>1, <2>2 DEF MainCount
<1>10. CASE MainNotify
  BY <1>10 DEF MainNotify
<1>11. CASE SetClock
  BY <1>11 DEF SetClock
<1>12. CASE SetInterval
  BY <1>12 DEF SetInterval
<1>13. CASE UNCHANGED vars
  BY <1>13 DEF vars
<1> QED
  BY <1>1, <1>2, <1>3, <1>4, <1>5, <1>6, <1>7, <1>8, <1>9, <1>10, <1>11, <1>12,
     <1>13 DEF Next, ThreadStep, MainStep

\* However late or early the thread is, and whatever clients do to the clock and
\* to Interval, m_cycle stays between one interval owed and two intervals ahead
\* (filter_base.cpp:234-259): no wait is longer than two intervals of signals.
THEOREM CycleTypeCorrect == Spec => []TypeOK
<1>1. CycleInv => TypeOK
  BY DEF CycleInv
<1> QED
  BY <1>1, CycleInvInit, CycleInvNext, PTL DEF Spec

-----------------------------------------------------------------------------
(* How far the calls of proc() get ahead of the counts *)

\* A count that is not yet signalled, and a wake-up m_cycle does not show yet.
Unsignalled == IF main = "counted" THEN 1 ELSE 0
Unshown     == IF pc = "woken" THEN 1 ELSE 0

\* m_cycle, of which only one interval is ever used.
Usable == Lowest(cycle, intvl)

\* What the thread may still be ahead by.  A count takes one off lead and adds one
\* each to age and, for the signal it sends, to m_cycle: lead counts twice.
LeadInv ==
  /\ clk # "RUN" => lead = 0
  /\ pc = "loop" =>
       \/ lead <= intvl
       \/ 2 * lead + cycle + Unsignalled <= 3 * intvl + 1
  /\ pc \in {"test", "tested", "asleep", "woken", "lock"} =>
       \/ lead = 0
       \/ 2 * lead + age + Usable + Unsignalled + Unshown <= 3 * intvl + 1
  /\ pc = "lock" => lead = 0 \/ cycle >= intvl
  /\ pc = "proc" =>
       \/ lead <= intvl
       \/ 2 * lead + age + Unsignalled <= 4 * intvl + 1
  /\ pc # "proc" => lead = 0 \/ cycle >= -intvl

LEMMA LeadInvInit == Init => LeadInv
<1> SUFFICES ASSUME Init PROVE LeadInv
  OBVIOUS
<1> QED
  BY CycleAssumption DEF CycleAssumption, Init, LeadInv

LEMMA LeadInvNext == CycleInv /\ LeadInv /\ [Next]_vars => LeadInv'
<1> SUFFICES ASSUME CycleInv, LeadInv, [Next]_vars PROVE LeadInv'
  OBVIOUS
<1> USE CycleAssumption DEF CycleAssumption, CycleInv, TypeOK, MaxAge, LeadInv, Unsignalled,
        Unshown, Usable, Lowest
<1>1. CASE Begin
  BY <1>1 DEF Begin
<1>2. CASE TestCycle
  BY <1>2 DEF TestCycle
<1>3. CASE Sleep
  BY <1>3 DEF Sleep
<1>4. CASE Woken
  BY <1>4 DEF Woken
<1>5. CASE EnterProc
  BY <1>5 DEF EnterProc
<1>6. CASE LeaveProc
  BY <1>6 DEF LeaveProc
<1>7. CASE Spurious
  BY <1>7 DEF Spurious, Highest
<1>8. CASE MainWait
  BY <1>8 DEF MainWait
<1>9. CASE MainCount
  BY <1>9 DEF MainCount, Highest
<1>10. CASE MainNotify
  BY <1>10 DEF MainNotify
<1>11. CASE SetClock
  BY <1>11 DEF SetClock
<1>12. CASE SetInterval
  <2>1. intvl' \in 1..MaxIntvl
    BY <1>12 DEF SetInterval
  <2>2. CASE intvl' = intvl
    BY <1>12, <2>2 DEF SetInterval
  <2>3. CASE intvl' # intvl
    <3>1. lead' = 0 /\ pc' = pc /\ pc # "proc"
      BY <1>12, <2>3 DEF SetInterval
    <3> QED
      BY <3>1, <2>1
  <2> QED
    BY <2>2, <2>3
<1>13. CASE UNCHANGED vars
  BY <1>13 DEF vars
<1> QED
  BY <1>1, <1>2, <1>3, <1>4, <1>5, <1>6, <1>7, <1>8, <1>9, <1>10, <1>11, <1>12,
     <1>13 DEF Next, ThreadStep, MainStep

\* Catching up never gets proc() more than two intervals ahead of the counts that
\* have passed (filter_base.cpp:234-259), whatever Interval is and however long the
\* thread was late.
THEOREM CatchingUpIsBounded == Spec => []NeverAhead
<1>1. CycleInv /\ LeadInv => NeverAhead
  BY CycleAssumption DEF CycleAssumption, CycleInv, TypeOK, MaxAge, LeadInv, Unsignalled,
     Unshown, Usable, Lowest, NeverAhead
<1>2. Init => CycleInv /\ LeadInv
  BY CycleInvInit, LeadInvInit
<1>3. (CycleInv /\ LeadInv) /\ [Next]_vars => (CycleInv /\ LeadInv)'
  BY CycleInvNext, LeadInvNext
<1> QED
  BY <1>1, <1>2, <1>3, PTL DEF Spec
=============================================================================
