------------------------------- MODULE ZTime --------------------------------
(***************************************************************************)
(* The conversions of services/src/ztime.c and the time functions of the C *)
(* library they are used with.                                             *)
(*                                                                         *)
(* A time_t is [day, sec]: days since 1 January 1970 and the second of the *)
(* day (TLC's integers are too narrow to count seconds from 1900).  A      *)
(* struct tm is [year, mon, mday, hour, min, sec], with tm_year counted    *)
(* from 1900 and tm_mon from 0.  A packed Julian date is [century, pdjd]:  *)
(* the century byte and three bytes, each a number below 256.              *)
(***************************************************************************)
EXTENDS Integers, Sequences

\* The year from which tm_year counts.
Base == 1900

days == <<31, 28, 31, 30, 31, 30, 31, 31, 30, 31, 30, 31>>

Leap(year) == year % 4 = 0 /\ (year % 100 # 0 \/ year % 400 = 0)

\* The days before month i = 0..12 of a year: what the loops of j_to_mmdd and
\* mmdd_to_j have subtracted, or added up, when they come to month i.
Before(year, i) ==
  <<0, 31, 59, 90, 120, 151, 181, 212, 243, 273, 304, 334, 365>>[i + 1]
    + (IF Leap(year) /\ i > 1 THEN 1 ELSE 0)

ASSUME DaysAssumption ==
  \A year \in {1900, 1999, 2000, 2004}, i \in 0..11 :
    Before(year, i + 1) - Before(year, i) = days[i + 1] + (IF Leap(year) /\ i = 1 THEN 1 ELSE 0)

\* The first month with fewer days before its end than are left; none for the last
\* day of the year, and then month and day stay 0.
j_to_mmdd(year, ordinal) ==
  LET ends == {i \in 0..11 : ordinal < Before(year, i + 1)}
  IN  IF ends = {} THEN [mon |-> 0, mday |-> 0]
      ELSE LET i == CHOOSE k \in ends : \A j \in ends : k <= j
           IN  [mon |-> i, mday |-> ordinal - Before(year, i)]

mmdd_to_j(year, month, day) == Before(year, month) + day

-----------------------------------------------------------------------------
\* One byte of packed decimal: two digits, or one digit and a sign.
pd_to_d(pd) == IF pd % 16 = 15 THEN pd \div 16 ELSE (pd \div 16) * 10 + (pd % 16)

d_to_pd(val, set_positive_sign) ==
  IF set_positive_sign THEN 15 + ((val * 16) % 256)
                       ELSE (((val \div 10) * 16) % 256) + (val % 10)

\* The date of a struct tm, from the bytes of a Julian date.
pdjd_to_tm(pdjd, start_century) ==
  LET year    == pd_to_d(pdjd[1]) + Base + start_century * 100
      ordinal == pd_to_d(pdjd[2]) * 10 + pd_to_d(pdjd[3])
      md      == j_to_mmdd(year, ordinal)
  IN  [year |-> year - Base, mon |-> md.mon, mday |-> md.mday]

tm_to_pdjd(tm) ==
  LET year    == tm.year + Base
      ordinal == mmdd_to_j(year, tm.mon, tm.mday)
  IN  [century |-> tm.year \div 100,
       pdjd    |-> <<d_to_pd(year % 100, FALSE), d_to_pd(ordinal \div 10, FALSE),
                     d_to_pd(ordinal % 10, TRUE)>>]

-----------------------------------------------------------------------------
\* The day a year begins, counted from 1 January 1970.
YearDay(year) ==
  365 * (year - 70) + (year + 1899) \div 4 - (year + 1899) \div 100
    + (year + 1899) \div 400 - 477

\* The day of a date; day 0 of a month is the last day of the month before.
DayOf(tm) == YearDay(tm.year) + mmdd_to_j(tm.year + Base, tm.mon, tm.mday) - 1

mktime(tm) ==
  [day |-> DayOf(tm),
   sec |-> tm.hour * 3600 + tm.min * 60 + tm.sec]

\* Without daylight saving time.
localtime(t) ==
  LET year == CHOOSE y \in (69 + (t.day \div 366))..(71 + (t.day \div 365)) : YearDay(y) <= t.day /\ t.day < YearDay(y + 1)
      left == t.day - YearDay(year)
      mon  == CHOOSE i \in 0..11 : Before(year + Base, i) <= left /\ left < Before(year + Base, i + 1)
  IN  [year |-> year, mon |-> mon, mday |-> left - Before(year + Base, mon) + 1,
       hour |-> t.sec \div 3600, min |-> (t.sec \div 60) % 60, sec |-> t.sec % 60]

\* Whether one time_t is greater than another.
After(s, t) == s.day > t.day \/ (s.day = t.day /\ s.sec > t.sec)

-----------------------------------------------------------------------------
\* The high word of the TOD clock, counted from 1970: units of 1.048576 s, which is
\* 16384/15625 s.  The fractions are split so that 31 bits do.
tod(secs) == (secs \div 16384) * 15625 + ((secs % 16384) * 15625) \div 16384

tod_to_time(n) ==
  LET secs == (n \div 15625) * 16384 + ((n % 15625) * 16384) \div 15625
  IN  [day |-> secs \div 86400, sec |-> secs % 86400]

Seconds(t) == t.day * 86400 + t.sec
=============================================================================
