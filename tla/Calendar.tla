------------------------------- MODULE Calendar -------------------------------
(* The conversions between times and dates (aws_clock.cpp) and the two tools  *)
(* on top of them (str2t.cpp, t2str.cpp).  A time is its day from 1970 on and *)
(* its millisecond of the day, a date a record of struct tm's fields.         *)
EXTENDS Integers, FiniteSetsExt

CONSTANTS Years, Clocks    \* the years asked for, and the times of day [h, m, s, ms]
VARIABLES asked,   \* the arguments of str2t
          before   \* what lies before DaysOfMonth in memory, in days

SecondsPerDay == 86400
DaysOfMonth == <<31, 28, 31, 30, 31, 30, 31, 31, 30, 31, 30, 31>>

\* A bug: every fourth year is a leap year.
IsLeapYear_Fourth(y) == (y % 4) = 0
IsLeapYear(y) == (y % 4) = 0 /\ ((y % 100) # 0 \/ (y % 400) = 0)

(* mkgmtimeex.  Its loop runs over m = 0 .. tm_mon - 1 and reads the entry    *)
(* before each, so that the first is read before the table; the leap day is   *)
(* added behind February.                                                     *)
Entry(m) == IF m = 0 THEN before ELSE DaysOfMonth[m]
mkgmtimeex(d) ==
  [day |-> 365 * (d.year - 1970) + Quantify(1970..(d.year - 1), IsLeapYear)
           + MapThenSumSet(LAMBDA m : Entry(m) + IF m = 2 /\ IsLeapYear(d.year) THEN 1 ELSE 0,
                           0..(d.mon - 1))
           + d.mday - 1,
   ms |-> ((d.hour * 60 + d.min) * 60 + d.sec) * 1000 + d.msec]

(* gmtime, by the rules of the calendar: the only month that has the day.     *)
IsLeap(y) == (y % 400) = 0 \/ ((y % 4) = 0 /\ (y % 100) # 0)
\* Days before the first of a month.
DaysBefore(y, m) ==
  365 * (y - 1970) + (y - 1) \div 4 - (y - 1) \div 100 + (y - 1) \div 400 - 477
  + 30 * (m - 1) + (IF m <= 8 THEN m \div 2 ELSE (m + 1) \div 2)
  - (IF m <= 2 THEN 0 ELSE IF IsLeap(y) THEN 1 ELSE 2)
gmtime(day) ==
  LET y == CHOOSE k \in (1970 + day \div 366)..(1970 + day \div 365) :
             DaysBefore(k, 1) <= day /\ day < DaysBefore(k + 1, 1)
      m == CHOOSE k \in 1..12 :
             DaysBefore(y, k) <= day /\ (k < 12 => day < DaysBefore(y, k + 1))
  IN  [year |-> y - 1900, mon |-> m - 1, mday |-> day - DaysBefore(y, m) + 1, wday |-> (day + 4) % 7]

(* gmtimeex, with the fields of the day's time.                               *)
gmtimeex(t) ==
  LET g == gmtime(t.day)
      sec == t.ms \div 1000
  IN  [year |-> g.year, mon |-> g.mon, mday |-> g.mday, wday |-> g.wday,
       hour |-> sec \div 3600, min |-> (sec \div 60) % 60, sec |-> sec % 60, msec |-> t.ms % 1000]

(* str2t: what it refuses (December, too), and the time.                      *)
Accepted(a) == a.mon \in 1..11 /\ a.mday \in 1..31
str2t(a) == mkgmtimeex(a)

(* t2str and the time string of the main loop: the text's fields.             *)
PrintTmStr(tm) == [tm EXCEPT !.year = @ + 1900]

(* decTmStr reads such a text; the days of a month end at the 30th.           *)
\* A bug: the year stays as it is in the text.
YearOf_Full(s) == s.year
YearOf(s) == s.year - 1900
decTmStr(s) ==
  [ok |-> s.wday \in 0..6 /\ s.mon \in 0..11 /\ s.mday \in 1..30 /\ s.hour \in 0..23
          /\ s.min \in 0..59 /\ s.sec \in 0..61 /\ s.msec \in 0..999 /\ YearOf(s) >= 0,
   tm |-> [s EXCEPT !.year = YearOf(s)]]

(* mkgmtimeex_tz: the time of a local time, the zone in minutes.              *)
mkgmtimeex_tz(d, tzm) ==
  LET t == mkgmtimeex(d)
      ms == t.ms - tzm * 60000
  IN  [day |-> t.day + ms \div (SecondsPerDay * 1000), ms |-> ms % (SecondsPerDay * 1000)]
-------------------------------------------------------------------------------
\* str2t's arguments; each call of the tool begins with the first of January 1970.
Ask(y, m, d, c) ==
  [year |-> y, mon |-> m, mday |-> d, hour |-> c[1], min |-> c[2], sec |-> c[3], msec |-> c[4]]
Epoch == Ask(1970, 1, 1, <<0, 0, 0, 0>>)

CalendarInit == asked = Epoch /\ before \in {0, 1}
CalendarNext ==
  /\ IF asked # Epoch THEN asked' = Epoch
     ELSE \E y \in Years, m \in 1..12, d \in 1..31, c \in Clocks :
            Accepted(Ask(y, m, d, c)) /\ asked' = Ask(y, m, d, c)
  /\ UNCHANGED before
-------------------------------------------------------------------------------
\* A date that the calendar has.
Exists(a) ==
  /\ a.mon = 2 => a.mday <= 28 \/ (a.mday = 29 /\ IsLeap(a.year))
  /\ a.mon \in {4, 6, 9, 11} => a.mday <= 30

(* What str2t computes differs from the time of the Epoch by the days and     *)
(* milliseconds between them, whatever the entry before the table adds.       *)
TimeIsOfDate ==
  LET t == str2t(asked)
      g == gmtime(t.day - str2t(Epoch).day)
  IN  Exists(asked) => /\ <<g.year + 1900, g.mon + 1, g.mday>> = <<asked.year, asked.mon, asked.mday>>
                       /\ t.ms \in 0..(SecondsPerDay * 1000 - 1)

(* The text t2str prints of a time is read as the same time by decTmStr, but  *)
(* on the 31st.                                                               *)
TextRoundTrip ==
  LET tm == gmtimeex(str2t(asked))
      r == decTmStr(PrintTmStr(tm))
  IN  IF tm.mday = 31 THEN ~r.ok ELSE r = [ok |-> TRUE, tm |-> tm]

(* A date becomes its time, and the time's text becomes the time again.       *)
TimeIsOfItsText == TimeIsOfDate /\ TextRoundTrip
=============================================================================
