---------------------------- MODULE MemDirProofs ----------------------------
(***************************************************************************)
(* Proofs about MemDir, for all names, times of 1970 to 2099, changes of   *)
(* the directory and orders of a listing.  A date survives packed digits   *)
(* and the last day of the year; so every entry says the truth of its      *)
(* member, what is read of an entry is true, and a MEMDIR has one true     *)
(* entry for each member that openmemdir saw, in the order asked for.  No  *)
(* entry of it has a string that is freed with the array it was copied     *)
(* from, and closememdir leaves none behind: what mstat_to_mdir duplicates *)
(* is decided by the flags of an mstat, what free_mstat frees by its       *)
(* pointers, and EntryStrings says why that is the same.                   *)
(***************************************************************************)
EXTENDS MemDir, FiniteSetTheorems, WellFoundedInduction, TLAPS

-----------------------------------------------------------------------------
(* Dates                                                                   *)

\* Two digits survive packing, and so does one digit with a sign.
LEMMA PackedDigits ==
  /\ \A val \in 0..99 : pd_to_d(d_to_pd(val, FALSE)) = val
  /\ \A val \in 0..9 : pd_to_d(d_to_pd(val, TRUE)) = val
<1>1. ASSUME NEW val \in 0..99 PROVE pd_to_d(d_to_pd(val, FALSE)) = val
  <2> DEFINE q == val \div 10
             r == val % 10
  <2>1. q \in 0..9 /\ r \in 0..9 /\ val = q * 10 + r
    BY SMT
  <2>2. (q * 16) % 256 = q * 16
    BY <2>1, SMT
  <2>3. (q * 16 + r) % 16 = r /\ (q * 16 + r) \div 16 = q
    BY <2>1, SMT
  <2>4. d_to_pd(val, FALSE) = q * 16 + r
    BY <2>2 DEF d_to_pd
  <2>5. pd_to_d(q * 16 + r) = q * 10 + r
    BY <2>1, <2>3 DEF pd_to_d
  <2> QED
    BY <2>1, <2>4, <2>5
<1>2. ASSUME NEW val \in 0..9 PROVE pd_to_d(d_to_pd(val, TRUE)) = val
  <2>1. d_to_pd(val, TRUE) = 15 + val * 16
    BY SMT DEF d_to_pd
  <2>2. (15 + val * 16) % 16 = 15 /\ (15 + val * 16) \div 16 = val
    BY SMT
  <2> QED
    BY <2>1, <2>2 DEF pd_to_d
<1> QED
  BY <1>1, <1>2

\* A year has at most 366 days.
LEMMA MonthRange ==
  ASSUME NEW year \in Int, NEW i \in 0..12
  PROVE  Before(year, i) \in Nat /\ Before(year, i) <= 366
BY SMT DEF Before, Leap

\* No month ends after the year does.
LEMMA MonthLast ==
  ASSUME NEW year \in Int, NEW i \in 0..12
  PROVE  Before(year, i) <= Before(year, 12)
BY SMT DEF Before, Leap

\* No days are before the first month.
LEMMA MonthFirst ==
  ASSUME NEW year \in Int
  PROVE  Before(year, 0) = 0
BY SMT DEF Before, Leap

\* A property of numbers that one of them has, a least one has.
LEMMA LeastSuch ==
  ASSUME NEW S \in SUBSET Nat, S # {}
  PROVE  \E k \in S : \A j \in S : k <= j
<1>1. IsWellFoundedOn(OpToRel(<, Nat), Nat)
  BY NatLessThanWellFounded
<1>2. PICK k \in S : \A j \in S : ~ (<<j, k>> \in OpToRel(<, Nat))
  BY <1>1, WFMin
<1>3. k \in Nat /\ \A j \in S : j \in Nat
  OBVIOUS
<1>4. ASSUME NEW j \in S, j < k
      PROVE  FALSE
  <2>1. <<j, k>> \in OpToRel(<, Nat)
    BY <1>3, <1>4 DEF OpToRel
  <2> QED
    BY <1>2, <2>1
<1> QED
  BY <1>3, <1>4

\* j_to_mmdd undoes mmdd_to_j, but for the last day of the year, for which it finds no
\* month.
LEMMA OrdinalRoundTrip ==
  ASSUME NEW year \in Int, NEW ordinal \in Nat
  PROVE  /\ ordinal < Before(year, 12) =>
              mmdd_to_j(year, j_to_mmdd(year, ordinal).mon, j_to_mmdd(year, ordinal).mday) = ordinal
         /\ ordinal = Before(year, 12) => j_to_mmdd(year, ordinal) = [mon |-> 0, mday |-> 0]
<1> DEFINE ends == {i \in 0..11 : ordinal < Before(year, i + 1)}
           first == CHOOSE k \in ends : \A j \in ends : k <= j
<1>1. ASSUME ordinal < Before(year, 12)
      PROVE  mmdd_to_j(year, j_to_mmdd(year, ordinal).mon, j_to_mmdd(year, ordinal).mday) = ordinal
  <2>1. 11 \in ends
    BY <1>1
  <2>2. first \in ends
    <3>1. \E k \in ends : \A j \in ends : k <= j
      <4>1. ends \in SUBSET Nat
        OBVIOUS
      <4> QED
        BY <2>1, <4>1, LeastSuch
    <3> HIDE DEF ends
    <3> QED
      BY <3>1
  <2>3. j_to_mmdd(year, ordinal) = [mon |-> first, mday |-> ordinal - Before(year, first)]
    BY <2>1 DEF j_to_mmdd
  <2>4. first \in 0..12
    BY <2>2
  <2> HIDE DEF first
  <2>5. Before(year, first) \in Nat
    BY <2>4, MonthRange
  <2>6. Before(year, first) + (ordinal - Before(year, first)) = ordinal
    BY <2>5
  <2> QED
    BY <2>3, <2>6 DEF mmdd_to_j
<1>2. ASSUME ordinal = Before(year, 12)
      PROVE  j_to_mmdd(year, ordinal) = [mon |-> 0, mday |-> 0]
  <2>1. ASSUME NEW i \in 0..11 PROVE ~ (ordinal < Before(year, i + 1))
    <3>1. i + 1 \in 0..12 /\ 12 \in 0..12
      OBVIOUS
    <3>2. Before(year, i + 1) \in Nat /\ Before(year, 12) \in Nat
      BY <3>1, MonthRange
    <3>3. Before(year, i + 1) <= Before(year, 12)
      BY <3>1, MonthLast
    <3> QED
      BY <1>2, <3>2, <3>3
  <2>2. ends = {}
    BY <2>1
  <2> QED
    BY <2>2 DEF j_to_mmdd
<1> QED
  BY <1>1, <1>2

\* The ordinal of a day of a month is at most that of the last day of the year.
LEMMA OrdinalRange ==
  ASSUME NEW year \in Int, NEW mon \in 0..11, NEW mday \in Nat,
         mmdd_to_j(year, mon, mday) <= Before(year, mon + 1)
  PROVE  /\ mmdd_to_j(year, mon, mday) \in Nat
         /\ mmdd_to_j(year, mon, mday) <= 366
         /\ mmdd_to_j(year, mon, mday) <= Before(year, 12)
<1>1. mon \in 0..12 /\ mon + 1 \in 0..12 /\ 12 \in 0..12
  BY DEF Base
<1>2. Before(year, mon) \in Nat
  BY <1>1, MonthRange
<1>3. Before(year, mon + 1) \in Nat
  BY <1>1, MonthRange
<1>4. Before(year, 12) \in Nat /\ Before(year, 12) <= 366
  BY <1>1, MonthRange
<1>5. Before(year, mon + 1) <= Before(year, 12)
  BY <1>1, MonthLast
<1> QED
  BY <1>2, <1>3, <1>4, <1>5 DEF mmdd_to_j

\* tm is the date that j_to_mmdd makes of an ordinal in year y.
DateOf(tm, y, ord) ==
  /\ tm.year = y
  /\ tm.mon = j_to_mmdd(y + Base, ord).mon
  /\ tm.mday = j_to_mmdd(y + Base, ord).mday

\* What pdjd_to_tm makes of the digits of a year and an ordinal.
LEMMA JulianDigits ==
  ASSUME NEW a \in 0..99, NEW b \in 0..99, NEW c \in 0..9, NEW cen \in Int,
         NEW y \in Int, a + cen * 100 = y, NEW ord, b * 10 + c = ord
  PROVE  DateOf(pdjd_to_tm(<<d_to_pd(a, FALSE), d_to_pd(b, FALSE), d_to_pd(c, TRUE)>>, cen),
                y, ord)
<1> DEFINE u == d_to_pd(a, FALSE)
           v == d_to_pd(b, FALSE)
           w == d_to_pd(c, TRUE)
<1>1. pd_to_d(u) = a /\ pd_to_d(v) = b /\ pd_to_d(w) = c
  BY PackedDigits
<1> HIDE DEF u, v, w
<1>2. a + Base + cen * 100 = y + Base /\ y + Base - Base = y
  BY SMT DEF Base
<1>3. DateOf(pdjd_to_tm(<<u, v, w>>, cen), y, ord)
  <2> DEFINE bytes == <<u, v, w>>
  <2>1. pd_to_d(bytes[1]) = a /\ pd_to_d(bytes[2]) = b /\ pd_to_d(bytes[3]) = c
    BY <1>1
  <2> HIDE DEF bytes
  <2>2. pdjd_to_tm(bytes, cen)
          = [year |-> a + Base + cen * 100 - Base,
             mon  |-> j_to_mmdd(a + Base + cen * 100, b * 10 + c).mon,
             mday |-> j_to_mmdd(a + Base + cen * 100, b * 10 + c).mday]
    BY <2>1 DEF pdjd_to_tm, Base
  <2>3. pdjd_to_tm(bytes, cen) = [year |-> y, mon  |-> j_to_mmdd(y + Base, ord).mon,
                                  mday |-> j_to_mmdd(y + Base, ord).mday]
    BY <1>2, <2>2 DEF Base
  <2> QED
    BY <2>3 DEF DateOf, bytes
<1> QED
  BY <1>3 DEF u, v, w

\* ... and of the bytes tm_to_pdjd makes of them.
LEMMA JulianRead ==
  ASSUME NEW y \in 0..199, NEW ord \in Nat, ord <= 366
  PROVE  DateOf(pdjd_to_tm(<<d_to_pd((y + Base) % 100, FALSE), d_to_pd(ord \div 10, FALSE),
                             d_to_pd(ord % 10, TRUE)>>, y \div 100), y, ord)
<1>1. /\ (y + Base) % 100 \in 0..99 /\ ord \div 10 \in 0..99 /\ ord % 10 \in 0..9
      /\ y \div 100 \in Int /\ y \in Int
  BY SMT DEF Base
<1>2. ((y + Base) % 100) + (y \div 100) * 100 = y /\ (ord \div 10) * 10 + (ord % 10) = ord
  BY SMT DEF Base
<1> QED
  BY <1>1, <1>2, JulianDigits, ZenonT(60)

\* The bytes tm_to_pdjd makes of a date.
LEMMA JulianWritten ==
  ASSUME NEW y \in 0..199, NEW mon, NEW mday
  PROVE  LET ord == mmdd_to_j(y + Base, mon, mday)
         IN  tm_to_pdjd([year |-> y, mon |-> mon, mday |-> mday])
               = [century |-> y \div 100,
                  pdjd    |-> <<d_to_pd((y + Base) % 100, FALSE), d_to_pd(ord \div 10, FALSE),
                                d_to_pd(ord % 10, TRUE)>>]
BY SMT DEF tm_to_pdjd

\* The day of what comes back from a directory entry, for a day given by its ordinal.
LEMMA OrdinalRead ==
  ASSUME NEW y \in 0..199, NEW ord \in Nat, ord <= Before(y + Base, 12), NEW back, DateOf(back, y, ord)
  PROVE  DayOf(back) = IF ord = Before(y + Base, 12) THEN YearDay(y) - 1
                                                     ELSE YearDay(y) + ord - 1
<1>1. DayOf(back) = YearDay(y) + mmdd_to_j(y + Base, back.mon, back.mday) - 1
  BY DEF DayOf, DateOf
<1>2. YearDay(y) \in Int
  BY SMT DEF YearDay
<1>3. y + Base \in Int /\ 12 \in 0..12
  BY DEF Base
<1>4. Before(y + Base, 12) \in Nat /\ Before(y + Base, 0) = 0
  BY <1>3, MonthRange, MonthFirst
<1>5. CASE ord = Before(y + Base, 12)
  <2>1. j_to_mmdd(y + Base, ord) = [mon |-> 0, mday |-> 0]
    BY <1>3, <1>5, OrdinalRoundTrip
  <2>2. back.mon = 0 /\ back.mday = 0
    BY <2>1 DEF DateOf
  <2> QED
    BY <1>1, <1>2, <1>4, <1>5, <2>2 DEF mmdd_to_j
<1>6. CASE ord # Before(y + Base, 12)
  <2>1. ord < Before(y + Base, 12)
    BY <1>4, <1>6
  <2>2. mmdd_to_j(y + Base, back.mon, back.mday) = ord
    BY <1>3, <2>1, OrdinalRoundTrip DEF DateOf
  <2> QED
    BY <1>1, <1>6, <2>2
<1> QED
  BY <1>5, <1>6

\* A day that a directory entry records is read back as the same day, whatever the
\* year of the two centuries; only the last day of a year comes back as day 0 of
\* January, which mktime makes the last day of the year before (tm_to_pdjd and
\* pdjd_to_tm of ztime.c).
THEOREM DateRoundTrip ==
  ASSUME NEW y \in 0..199, NEW mon \in 0..11, NEW mday \in Nat,
         mmdd_to_j(y + Base, mon, mday) <= Before(y + Base, mon + 1)
  PROVE  LET tm   == [year |-> y, mon |-> mon, mday |-> mday]
             pj   == tm_to_pdjd(tm)
             back == pdjd_to_tm(pj.pdjd, pj.century)
         IN  DayOf(back) = IF mmdd_to_j(y + Base, mon, mday) = Before(y + Base, 12)
                             THEN YearDay(y) - 1 ELSE DayOf(tm)
<1> DEFINE tm   == [year |-> y, mon |-> mon, mday |-> mday]
           pj   == tm_to_pdjd(tm)
           back == pdjd_to_tm(pj.pdjd, pj.century)
           ord  == mmdd_to_j(y + Base, mon, mday)
<1>1. y + Base \in Int /\ mon \in 0..12 /\ mon + 1 \in 0..12 /\ 12 \in 0..12
  BY DEF Base
<1>2. ord \in Nat /\ ord <= 366 /\ ord <= Before(y + Base, 12)
  BY <1>1, OrdinalRange
<1>3. DateOf(back, y, ord)
  <2>1. pj = [century |-> y \div 100,
              pdjd    |-> <<d_to_pd((y + Base) % 100, FALSE), d_to_pd(ord \div 10, FALSE),
                            d_to_pd(ord % 10, TRUE)>>]
    BY JulianWritten
  <2> HIDE DEF ord, pj
  <2>2. back = pdjd_to_tm(<<d_to_pd((y + Base) % 100, FALSE), d_to_pd(ord \div 10, FALSE),
                            d_to_pd(ord % 10, TRUE)>>, y \div 100)
    BY <2>1
  <2> HIDE DEF back
  <2> QED
    BY <1>2, <2>2, JulianRead, Zenon
<1>4. DayOf(tm) = YearDay(y) + ord - 1
  BY DEF DayOf
<1> HIDE DEF ord, back, pj, tm
<1>5. DayOf(back) = IF ord = Before(y + Base, 12) THEN YearDay(y) - 1 ELSE YearDay(y) + ord - 1
  BY <1>2, <1>3, OrdinalRead
<1>6. DayOf(back) = IF ord = Before(y + Base, 12) THEN YearDay(y) - 1 ELSE DayOf(tm)
  BY <1>4, <1>5
<1> QED
  BY <1>6 DEF ord, back, pj, tm

\* The time of an extended attribute, that of the TOD clock in units of 1.048576
\* seconds, is read as at most two seconds too early, and never too late.
THEOREM TodWithinTwoSeconds ==
  ASSUME NEW secs \in Nat
  PROVE  Seconds(tod_to_time(tod(secs))) \in secs - 2..secs
<1> DEFINE n == tod(secs)
           back == (n \div 15625) * 16384 + ((n % 15625) * 16384) \div 15625
<1>1. n \in Nat /\ 16384 * n <= 15625 * secs /\ 15625 * secs < 16384 * n + 16384
  BY SMTT(30) DEF tod
<1> HIDE DEF n
<1>2. back \in Nat /\ 15625 * back <= 16384 * n /\ 16384 * n < 15625 * back + 15625
  BY <1>1, SMTT(30)
<1>3. Seconds(tod_to_time(n)) = back
  <2> HIDE DEF back
  <2>1. (back \div 86400) * 86400 + (back % 86400) = back
    BY <1>2, SMT
  <2>2. tod_to_time(n) = [day |-> back \div 86400, sec |-> back % 86400]
    BY DEF tod_to_time, back
  <2> QED
    BY <2>1, <2>2 DEF Seconds
<1> HIDE DEF back
<1>4. back \in secs - 2..secs
  BY <1>1, <1>2, SMT
<1> QED
  BY <1>3, <1>4 DEF n

\* A year has as many days as its months.
LEMMA YearLength ==
  ASSUME NEW y \in Int
  PROVE  YearDay(y + 1) = YearDay(y) + Before(y + Base, 12)
<1> DEFINE z == y + 1900
<1>1. z \in Int /\ y = z - 1900
  OBVIOUS
<1> HIDE DEF z
<1>2. z \div 4 = (z - 1) \div 4 + (IF z % 4 = 0 THEN 1 ELSE 0)
  BY <1>1, SMT
<1>3. z \div 100 = (z - 1) \div 100 + (IF z % 100 = 0 THEN 1 ELSE 0)
  BY <1>1, SMT
<1>4. z \div 400 = (z - 1) \div 400 + (IF z % 400 = 0 THEN 1 ELSE 0)
  BY <1>1, SMT
<1>5. (z % 400 = 0 => z % 100 = 0) /\ (z % 100 = 0 => z % 4 = 0)
  BY <1>1, SMT
<1>6. Before(z, 12) = 365 + (IF Leap(z) THEN 1 ELSE 0)
  BY <1>1, SMT DEF Before
<1>7. /\ YearDay(y) = 365 * (z - 1970) + (z - 1) \div 4 - (z - 1) \div 100 + (z - 1) \div 400 - 477
      /\ YearDay(y + 1) = 365 * (z - 1969) + z \div 4 - z \div 100 + z \div 400 - 477
  BY <1>1, SMT DEF YearDay
<1>8. y + Base = z
  BY <1>1 DEF Base
<1> QED
  BY <1>1, <1>2, <1>3, <1>4, <1>5, <1>6, <1>7, <1>8, SMT DEF Leap

\* The years localtime looks at for a day of a year, and what is known of other days.
LEMMA YearWindow ==
  ASSUME NEW z \in -1..210
  PROVE  /\ YearDay(z) \in Int
         /\ 365 * (z - 71) <= YearDay(z)
         /\ YearDay(z) <= 366 * (z - 69)
         /\ z >= 200 => YearDay(z) >= YearDay(200)
         /\ z <= 70 => YearDay(z) <= 0
BY SMTT(60) DEF YearDay

\* The days of the years 1899 to 2099, those that a date of an entry may be read as.
Readable == YearDay(-1)..YearDay(200) - 1

\* Every one of these days is in a year.
LEMMA YearOfDay ==
  ASSUME NEW d \in Readable
  PROVE  \E y \in -1..199 : YearDay(y) <= d /\ d < YearDay(y + 1)
<1> DEFINE S == {k \in 0..200 : d < YearDay(k)}
<1>1. YearDay(200) \in Int /\ YearDay(-1) \in Int
  BY YearWindow
<1>2. d \in Int /\ YearDay(-1) <= d /\ d < YearDay(200)
  BY <1>1 DEF Readable
<1>3. 200 \in S /\ S \in SUBSET Nat
  BY <1>2
<1>4. PICK k \in S : \A j \in S : k <= j
  BY <1>3, LeastSuch
<1>5. k \in 0..200 /\ d < YearDay(k) /\ k - 1 \in -1..199 /\ (k - 1) + 1 = k
  BY <1>4
<1>6. YearDay(k - 1) <= d
  <2>1. CASE k = 0
    BY <1>2, <2>1
  <2>2. CASE k # 0
    <3>1. k - 1 \in 0..200 /\ ~(k <= k - 1)
      BY <1>5, <2>2
    <3>2. ~(d < YearDay(k - 1))
      BY <1>4, <3>1
    <3>3. YearDay(k - 1) \in Int
      BY <1>5, YearWindow
    <3> QED
      BY <1>2, <3>2, <3>3
  <2> QED
    BY <2>1, <2>2
<1> QED
  BY <1>5, <1>6

\* Every day of a year is in a month.
LEMMA MonthOfDay ==
  ASSUME NEW year \in Int, NEW left \in Nat, left < Before(year, 12)
  PROVE  \E i \in 0..11 : Before(year, i) <= left /\ left < Before(year, i + 1)
<1> DEFINE S == {i \in 0..11 : left < Before(year, i + 1)}
<1>1. 11 \in S /\ S \in SUBSET Nat
  OBVIOUS
<1>2. PICK k \in S : \A j \in S : k <= j
  BY <1>1, LeastSuch
<1>3. k \in 0..11 /\ left < Before(year, k + 1)
  BY <1>2
<1>4. Before(year, k) <= left
  <2>1. CASE k = 0
    BY <2>1, MonthFirst
  <2>2. CASE k # 0
    <3>1. k - 1 \in 0..11 /\ ~(k <= k - 1) /\ (k - 1) + 1 = k
      BY <1>3, <2>2
    <3>2. ~(left < Before(year, (k - 1) + 1))
      BY <1>2, <3>1
    <3>3. k \in 0..12
      BY <1>3
    <3>4. Before(year, k) \in Nat
      BY <3>3, MonthRange
    <3> QED
      BY <3>1, <3>2, <3>4
  <2> QED
    BY <2>1, <2>2
<1> QED
  BY <1>3, <1>4

\* The date localtime makes of a day: its year, and the month in it.
LEMMA LocalDate ==
  ASSUME NEW t, t.day \in Readable
  PROVE  LET tm == localtime(t)
         IN  /\ tm.year \in -1..199
             /\ YearDay(tm.year) <= t.day /\ t.day < YearDay(tm.year + 1)
             /\ tm.mon \in 0..11
             /\ Before(tm.year + Base, tm.mon) <= t.day - YearDay(tm.year)
             /\ t.day - YearDay(tm.year) < Before(tm.year + Base, tm.mon + 1)
             /\ tm.mday = t.day - YearDay(tm.year) - Before(tm.year + Base, tm.mon) + 1
<1> DEFINE d == t.day
           window == (69 + (d \div 366))..(71 + (d \div 365))
           In(y) == YearDay(y) <= d /\ d < YearDay(y + 1)
           year == CHOOSE y \in window : In(y)
           left == d - YearDay(year)
           Month(i) == Before(year + Base, i) <= left /\ left < Before(year + Base, i + 1)
           mon == CHOOSE i \in 0..11 : Month(i)
<1>1. YearDay(-1) \in Int /\ YearDay(200) \in Int
  BY YearWindow
<1>2. d \in Int /\ YearDay(-1) <= d /\ d < YearDay(200)
  BY <1>1 DEF Readable
<1>3. -25950 < YearDay(-1) /\ YearDay(200) < 50000
  BY SMT DEF YearDay
<1>4. \E y \in window : In(y)
  <2>1. PICK y \in -1..199 : YearDay(y) <= d /\ d < YearDay(y + 1)
    BY YearOfDay
  <2>2. YearDay(y) \in Int /\ 365 * (y - 71) <= YearDay(y)
    BY YearWindow
  <2>3. YearDay(y + 1) \in Int /\ YearDay(y + 1) <= 366 * ((y + 1) - 69)
    <3>1. y + 1 \in -1..210
      OBVIOUS
    <3> QED
      BY <3>1, YearWindow
  <2> HIDE DEF d
  <2>4. 365 * (y - 71) <= d /\ d < 366 * (y - 68)
    BY <1>2, <2>1, <2>2, <2>3
  <2>5. 69 + (d \div 366) <= y /\ y <= 71 + (d \div 365)
    BY <1>2, <2>4, SMTT(30)
  <2> QED
    BY <1>2, <2>1, <2>5
<1>5. year \in window /\ In(year)
  <2> HIDE DEF window, In
  <2> QED
    BY <1>4
<1> HIDE DEF year
<1>6. year \in -3..210
  <2> HIDE DEF d
  <2>1. year \in (69 + (d \div 366))..(71 + (d \div 365))
    BY <1>5
  <2> QED
    BY <1>1, <1>2, <1>3, <2>1, SMTT(30)
<1>7. year \in -1..199
  <2>1. YearDay(-1) <= d /\ d < YearDay(200) /\ YearDay(year) <= d /\ d < YearDay(year + 1)
    BY <1>2, <1>5
  <2>2. year <= 199
    <3>1. ASSUME year >= 200 PROVE FALSE
      <4>1. year \in -1..210
        BY <1>6, <3>1
      <4>2. YearDay(year) >= YearDay(200) /\ YearDay(year) \in Int
        BY <3>1, <4>1, YearWindow
      <4> QED
        BY <1>1, <1>2, <2>1, <4>2
    <3> QED
      BY <1>6, <3>1
  <2>3. year >= -1
    <3>1. ASSUME year \in {-3, -2} PROVE FALSE
      <4>1. YearDay(year + 1) <= YearDay(-1) /\ YearDay(year + 1) \in Int
        BY <3>1, SMT DEF YearDay
      <4> QED
        BY <1>1, <1>2, <2>1, <4>1
    <3> QED
      BY <1>6, <3>1
  <2> QED
    BY <1>6, <2>2, <2>3
<1>8. YearDay(year) \in Int /\ YearDay(year + 1) = YearDay(year) + Before(year + Base, 12)
  BY <1>7, YearWindow, YearLength
<1>9. year + Base \in Int
  BY <1>7 DEF Base
<1>10. Before(year + Base, 12) \in Nat
  BY <1>9, MonthRange
<1>11. left \in Nat /\ left < Before(year + Base, 12)
  BY <1>2, <1>5, <1>8, <1>10
<1>12. mon \in 0..11 /\ Month(mon)
  <2> HIDE DEF left
  <2>1. \E i \in 0..11 : Month(i)
    BY <1>9, <1>11, MonthOfDay
  <2> HIDE DEF Month
  <2> QED
    BY <2>1
<1>13. localtime(t) = [year |-> year, mon |-> mon, mday |-> left - Before(year + Base, mon) + 1,
                       hour |-> t.sec \div 3600, min |-> (t.sec \div 60) % 60, sec |-> t.sec % 60]
  BY Zenon DEF localtime, year
<1> HIDE DEF mon
<1> QED
  BY <1>5, <1>7, <1>12, <1>13

\* The seconds of a day.
LEMMA ClockRange == \A s : s \in Clock <=> s \in Nat /\ s < 86400
<1>1. DaySeconds \in Nat
  BY SMT DEF DaySeconds
<1>2. \A b \in Nat : \A s : s \in 0..b - 1 <=> s \in Nat /\ s < b
  BY SMT
<1>3. \A s : s \in Clock <=> s \in Nat /\ s < DaySeconds
  BY <1>1, <1>2, Zenon DEF Clock
<1>4. \A s \in Nat : s < DaySeconds <=> s < 86400
  BY SMT DEF DaySeconds
<1> QED
  BY <1>3, <1>4, SMT

\* What localtime makes of a time of those years is the date and the time of day that
\* mktime makes the time of again.
LEMMA LocalTime ==
  ASSUME NEW t \in Times, t.day \in Readable
  PROVE  /\ localtime(t) \in Tms
         /\ mktime(localtime(t)) = t
<1> DEFINE tm == localtime(t)
           left == t.day - YearDay(tm.year)
           first == Before(tm.year + Base, tm.mon)
<1>1. t.day \in Int /\ t.sec \in Clock /\ t = [day |-> t.day, sec |-> t.sec]
  BY DEF Times
<1>2. /\ tm.year \in -1..199 /\ tm.mon \in 0..11
      /\ YearDay(tm.year) <= t.day /\ first <= left
      /\ tm.mday = left - first + 1
  BY LocalDate
<1>3. YearDay(tm.year) \in Int
  BY <1>2, YearWindow
<1>4. tm.year + Base \in Int /\ tm.mon \in 0..12
  BY <1>2 DEF Base
<1>5. first \in Nat
  BY <1>4, MonthRange
<1>6. left \in Int /\ tm.mday \in Nat
  <2> HIDE DEF tm, first
  <2> QED
    BY <1>1, <1>2, <1>3, <1>5
<1>7. tm = [year |-> tm.year, mon |-> tm.mon, mday |-> tm.mday, hour |-> tm.hour,
            min |-> tm.min, sec |-> tm.sec]
      /\ tm.hour = t.sec \div 3600 /\ tm.min = (t.sec \div 60) % 60 /\ tm.sec = t.sec % 60
  BY DEF localtime
<1>8. tm.hour \in 0..23 /\ tm.min \in 0..59 /\ tm.sec \in 0..59
      /\ tm.hour * 3600 + tm.min * 60 + tm.sec = t.sec
  <2>1. \A s \in Nat : s < 86400 =>
          s \div 3600 \in 0..23 /\ (s \div 60) % 60 \in 0..59 /\ (s % 60) \in 0..59
    BY SMT
  <2>2. \A s \in Nat : (s \div 3600) * 3600 + ((s \div 60) % 60) * 60 + (s % 60) = s
    BY SMT
  <2>3. \A s \in Clock : s \in Nat /\ s < 86400
    BY ClockRange
  <2>4. t.sec \in Nat /\ t.sec < 86400
    BY <1>1, <2>3
  <2> HIDE DEF tm
  <2> QED
    BY <1>7, <2>1, <2>2, <2>4, SMT
<1>9. DayOf(tm) = t.day
  <2>1. DayOf(tm) = YearDay(tm.year) + (first + tm.mday) - 1
    BY DEF DayOf, mmdd_to_j
  <2> HIDE DEF tm, first
  <2> QED
    BY <1>1, <1>2, <1>3, <1>5, <2>1
<1> HIDE DEF tm
<1>10. mktime(tm) = t
  BY <1>1, <1>8, <1>9 DEF mktime
<1>11. tm \in Tms
  BY <1>2, <1>6, <1>7, <1>8 DEF Tms
<1> QED
  BY <1>10, <1>11 DEF tm

\* The times of a run are in the years 1970 to 2099.
LEMMA MomentRange ==
  ASSUME NEW t \in Moments
  PROVE  /\ t \in Times /\ t.day \in Nat /\ t.day \in Readable
         /\ localtime(t).year \in 70..199
<1>1. YearDay(-1) \in Int /\ YearDay(200) \in Int /\ YearDay(-1) <= 0
  BY YearWindow
<1>2. t.day \in 0..YearDay(200) - 1 /\ t \in Times
  BY DEF Moments, Times
<1>3. t.day \in Nat /\ t.day \in Readable
  BY <1>1, <1>2 DEF Readable
<1>4. /\ localtime(t).year \in -1..199
      /\ t.day < YearDay(localtime(t).year + 1)
  BY <1>3, LocalDate
<1>5. localtime(t).year >= 70
  <2> DEFINE y == localtime(t).year
  <2>1. ASSUME y < 70 PROVE FALSE
    <3> HIDE DEF y
    <3>1. y \in -1..199 /\ t.day < YearDay(y + 1)
      BY <1>4 DEF y
    <3>2. y + 1 \in -1..210 /\ y + 1 <= 70
      BY <2>1, <3>1
    <3>3. YearDay(y + 1) \in Int /\ YearDay(y + 1) <= 0
      BY <3>2, YearWindow
    <3> QED
      BY <1>3, <3>1, <3>3
  <2> QED
    BY <1>4, <2>1
<1> QED
  BY <1>2, <1>3, <1>4, <1>5

\* The months before December have as many days in every year but a leap year.
LEMMA December ==
  ASSUME NEW year \in Int
  PROVE  /\ Before(year, 12) = Before(year, 11) + 31
         /\ \A i \in 0..10 : Before(year, i + 1) <= Before(year, 11)
BY SMT DEF Before, Leap

\* The ordinal of a date of localtime: it is in its month, and it is that of the last
\* day of the year on 31 December.
LEMMA LocalOrdinal ==
  ASSUME NEW t \in Times, t.day \in Readable
  PROVE  LET tm  == localtime(t)
             ord == mmdd_to_j(tm.year + Base, tm.mon, tm.mday)
         IN  /\ tm.mday \in Nat
             /\ ord \in Nat /\ ord <= Before(tm.year + Base, tm.mon + 1)
             /\ ord = Before(tm.year + Base, 12) <=> (tm.mon = 11 /\ tm.mday = 31)
<1> DEFINE tm == localtime(t)
           left == t.day - YearDay(tm.year)
           b(i) == Before(tm.year + Base, i)
<1>1. /\ tm.year \in -1..199 /\ tm.mon \in 0..11
      /\ YearDay(tm.year) <= t.day
      /\ b(tm.mon) <= left /\ left < b(tm.mon + 1)
      /\ tm.mday = left - b(tm.mon) + 1
  BY LocalDate
<1>2. t.day \in Int /\ YearDay(tm.year) \in Int
  BY <1>1, YearWindow DEF Times
<1>3. tm.year + Base \in Int /\ tm.mon \in 0..12 /\ tm.mon + 1 \in 0..12 /\ 12 \in 0..12 /\ 11 \in 0..12
  BY <1>1 DEF Base
<1>4. b(tm.mon) \in Nat /\ b(tm.mon + 1) \in Nat /\ b(12) \in Nat /\ b(11) \in Nat
  BY <1>3, MonthRange, ZenonT(60)
<1>5. b(12) = b(11) + 31 /\ \A i \in 0..10 : b(i + 1) <= b(11)
  BY <1>3, December
<1>6. mmdd_to_j(tm.year + Base, tm.mon, tm.mday) = b(tm.mon) + tm.mday
  BY DEF mmdd_to_j
<1> DEFINE ord == mmdd_to_j(tm.year + Base, tm.mon, tm.mday)
<1>7. PICK l \in Int : l = left
  <2> HIDE DEF tm
  <2> QED
    BY <1>2
<1> HIDE DEF left, b, tm
<1>8. tm.mday \in Nat /\ ord = l + 1 /\ ord <= b(tm.mon + 1)
  BY <1>1, <1>4, <1>6, <1>7
<1>9. ord \in Nat
  BY <1>1, <1>4, <1>7, <1>8
<1>10. ord = b(12) <=> (tm.mon = 11 /\ tm.mday = 31)
  <2>1. CASE tm.mon = 11
    BY <1>1, <1>4, <1>5, <1>6, <1>8, <2>1
  <2>2. CASE tm.mon # 11
    <3>1. tm.mon \in 0..10
      BY <1>1, <2>2
    <3>2. b(tm.mon + 1) <= b(11)
      BY <1>5, <3>1
    <3> QED
      BY <1>4, <1>5, <1>8, <1>9, <2>2, <3>2
  <2> QED
    BY <2>1, <2>2
<1> QED
  BY <1>8, <1>9, <1>10 DEF b, tm

\* A date of localtime and the bytes that tm_to_pdjd makes of it.
LEMMA LocalBytes ==
  ASSUME NEW t \in Moments
  PROVE  LET tm  == localtime(t)
             ord == mmdd_to_j(tm.year + Base, tm.mon, tm.mday)
         IN  /\ tm.year \in 0..199
             /\ ord \in Nat /\ ord <= 366 /\ ord <= Before(tm.year + Base, 12)
             /\ tm_to_pdjd(tm)
                  = [century |-> tm.year \div 100,
                     pdjd    |-> <<d_to_pd((tm.year + Base) % 100, FALSE),
                                   d_to_pd(ord \div 10, FALSE), d_to_pd(ord % 10, TRUE)>>]
<1> DEFINE tm == localtime(t)
           y == tm.year
           ord == mmdd_to_j(y + Base, tm.mon, tm.mday)
<1>1. t \in Times /\ t.day \in Readable /\ y \in 70..199
  BY MomentRange
<1>2. tm.mday \in Nat /\ ord \in Nat /\ ord <= Before(y + Base, tm.mon + 1)
  BY <1>1, LocalOrdinal
<1>3. tm.mon \in 0..11
  BY <1>1, LocalDate
<1>4. y \in 0..199 /\ y + Base \in Int
  BY <1>1 DEF Base
<1>5. ord <= 366 /\ ord <= Before(y + Base, 12)
  BY <1>2, <1>3, <1>4, OrdinalRange
<1>6. tm_to_pdjd(tm) = tm_to_pdjd([year |-> y, mon |-> tm.mon, mday |-> tm.mday])
  BY Zenon DEF tm_to_pdjd
<1>7. tm_to_pdjd([year |-> y, mon |-> tm.mon, mday |-> tm.mday])
        = [century |-> y \div 100,
           pdjd    |-> <<d_to_pd((y + Base) % 100, FALSE), d_to_pd(ord \div 10, FALSE),
                         d_to_pd(ord % 10, TRUE)>>]
  BY <1>4, JulianWritten
<1> QED
  BY <1>2, <1>4, <1>5, <1>6, <1>7

\* Packed digits are bytes.
LEMMA DigitBytes ==
  /\ \A val \in 0..99 : d_to_pd(val, FALSE) \in Bytes
  /\ \A val \in 0..9 : d_to_pd(val, TRUE) \in Bytes
<1>1. ASSUME NEW val \in 0..99 PROVE d_to_pd(val, FALSE) \in Bytes
  <2>1. val \div 10 \in 0..9 /\ val % 10 \in 0..9
    BY SMT
  <2>2. \A q, r \in 0..9 : ((q * 16) % 256) + r \in 0..255
    BY SMT
  <2>3. d_to_pd(val, FALSE) = (((val \div 10) * 16) % 256) + (val % 10)
    BY DEF d_to_pd
  <2>4. (((val \div 10) * 16) % 256) + (val % 10) \in 0..255
    BY <2>1, <2>2, Zenon
  <2> QED
    BY <2>3, <2>4, Zenon DEF Bytes
<1>2. ASSUME NEW val \in 0..9 PROVE d_to_pd(val, TRUE) \in Bytes
  <2>1. \A q \in 0..9 : 15 + ((q * 16) % 256) \in 0..255
    BY SMT
  <2> QED
    BY <2>1 DEF d_to_pd, Bytes
<1> QED
  BY <1>1, <1>2

\* The date of a time of a run fits its fields in an entry.
LEMMA DateFits ==
  ASSUME NEW t \in Moments
  PROVE  tm_to_pdjd(localtime(t)) \in Dates
<1> DEFINE y == localtime(t).year
           ord == mmdd_to_j(y + Base, localtime(t).mon, localtime(t).mday)
<1>1. /\ y \in 0..199 /\ ord \in Nat /\ ord <= 366
      /\ tm_to_pdjd(localtime(t))
           = [century |-> y \div 100,
              pdjd    |-> <<d_to_pd((y + Base) % 100, FALSE), d_to_pd(ord \div 10, FALSE),
                            d_to_pd(ord % 10, TRUE)>>]
  BY LocalBytes, ZenonT(60)
<1> HIDE DEF y, ord
<1>2. (y + Base) % 100 \in 0..99 /\ ord \div 10 \in 0..99 /\ ord % 10 \in 0..9 /\ y \div 100 \in 0..255
  BY <1>1, SMT DEF Base
<1>3. y \div 100 \in Bytes
  BY <1>2 DEF Bytes
<1>4. /\ d_to_pd((y + Base) % 100, FALSE) \in Bytes
      /\ d_to_pd(ord \div 10, FALSE) \in Bytes
      /\ d_to_pd(ord % 10, TRUE) \in Bytes
  BY <1>2, DigitBytes
<1>5. \A u, v, w \in Bytes : <<u, v, w>> \in [1..3 -> Bytes]
  OBVIOUS
<1>6. <<d_to_pd((y + Base) % 100, FALSE), d_to_pd(ord \div 10, FALSE), d_to_pd(ord % 10, TRUE)>>
        \in [1..3 -> Bytes]
  BY <1>4, <1>5, Zenon
<1>7. \A c \in Bytes, j \in [1..3 -> Bytes] : [century |-> c, pdjd |-> j] \in Dates
  BY DEF Dates
<1> QED
  BY <1>1, <1>3, <1>6, <1>7, Zenon

\* So does the time of day, which is read back as it was.
LEMMA TimeOfDayRead ==
  ASSUME NEW tm \in Tms
  PROVE  /\ TimeOfDay(tm) \in [hours: Bytes, minutes: Bytes, seconds: Bytes]
         /\ pd_to_d(TimeOfDay(tm).hours) = tm.hour
         /\ pd_to_d(TimeOfDay(tm).minutes) = tm.min
         /\ pd_to_d(TimeOfDay(tm).seconds) = tm.sec
<1>1. tm.hour \in 0..99 /\ tm.min \in 0..99 /\ tm.sec \in 0..99
  <2>1. tm.hour \in 0..23 /\ tm.min \in 0..59 /\ tm.sec \in 0..59
    BY DEF Tms
  <2>2. 0..23 \subseteq 0..99 /\ 0..59 \subseteq 0..99
    OBVIOUS
  <2> QED
    BY <2>1, <2>2
<1>2. /\ d_to_pd(tm.hour, FALSE) \in Bytes /\ pd_to_d(d_to_pd(tm.hour, FALSE)) = tm.hour
      /\ d_to_pd(tm.min, FALSE) \in Bytes /\ pd_to_d(d_to_pd(tm.min, FALSE)) = tm.min
      /\ d_to_pd(tm.sec, FALSE) \in Bytes /\ pd_to_d(d_to_pd(tm.sec, FALSE)) = tm.sec
  BY <1>1, DigitBytes, PackedDigits
<1> QED
  BY <1>2 DEF TimeOfDay

\* The years of a century and the one after it that can be in a date lie in those that
\* are readable.
LEMMA YearReadable ==
  ASSUME NEW y \in 0..199
  PROVE  /\ YearDay(y) \in Int /\ YearDay(y + 1) \in Int
         /\ YearDay(-1) \in Int /\ YearDay(200) \in Int
         /\ YearDay(-1) <= YearDay(y) - 1 /\ YearDay(y + 1) <= YearDay(200)
         /\ YearDay(y + 1) = YearDay(y) + Before(y + Base, 12)
<1>1. YearDay(-1) <= YearDay(y) - 1 /\ YearDay(y + 1) <= YearDay(200)
  BY SMTT(30) DEF YearDay
<1>2. YearDay(y) \in Int /\ YearDay(y + 1) \in Int /\ YearDay(-1) \in Int /\ YearDay(200) \in Int
  BY SMT DEF YearDay
<1> QED
  BY <1>1, <1>2, YearLength

\* Whatever ordinal is read in a year of the two centuries, it is a readable day.
LEMMA AnyOrdinalReadable ==
  ASSUME NEW y \in 0..199, NEW ord \in Nat, NEW back, DateOf(back, y, ord)
  PROVE  DayOf(back) \in Readable
<1>1. DayOf(back) = YearDay(y) + mmdd_to_j(y + Base, back.mon, back.mday) - 1
  BY DEF DayOf, DateOf
<1>2. y + Base \in Int /\ 12 \in 0..12
  BY DEF Base
<1>3. Before(y + Base, 12) \in Nat /\ Before(y + Base, 0) = 0
  BY <1>2, MonthRange, MonthFirst
<1>4. mmdd_to_j(y + Base, back.mon, back.mday) \in 0..Before(y + Base, 12)
  <2>1. CASE ord < Before(y + Base, 12)
    <3>1. mmdd_to_j(y + Base, back.mon, back.mday) = ord
      BY <1>2, <2>1, OrdinalRoundTrip DEF DateOf
    <3> QED
      BY <1>3, <2>1, <3>1
  <2>2. CASE ~(ord < Before(y + Base, 12))
    <3>1. ASSUME NEW i \in 0..11 PROVE ~ (ord < Before(y + Base, i + 1))
      <4>1. i + 1 \in 0..12
        OBVIOUS
      <4>2. Before(y + Base, i + 1) \in Nat /\ Before(y + Base, i + 1) <= Before(y + Base, 12)
        BY <1>2, <4>1, MonthRange, MonthLast
      <4> QED
        BY <1>3, <2>2, <4>2
    <3>2. {i \in 0..11 : ord < Before(y + Base, i + 1)} = {}
      BY <3>1
    <3>3. j_to_mmdd(y + Base, ord) = [mon |-> 0, mday |-> 0]
      BY <3>2 DEF j_to_mmdd
    <3>4. back.mon = 0 /\ back.mday = 0
      BY <3>3 DEF DateOf
    <3> QED
      BY <1>3, <3>4 DEF mmdd_to_j
  <2> QED
    BY <2>1, <2>2
<1>5. PICK j \in 0..Before(y + Base, 12) : j = mmdd_to_j(y + Base, back.mon, back.mday)
  BY <1>4
<1>6. DayOf(back) = YearDay(y) + j - 1
  BY <1>1, <1>5
<1>7. /\ YearDay(y) \in Int /\ YearDay(-1) \in Int /\ YearDay(200) \in Int
      /\ YearDay(-1) <= YearDay(y) - 1 /\ YearDay(y) + Before(y + Base, 12) <= YearDay(200)
  BY YearReadable
<1> QED
  BY <1>3, <1>5, <1>6, <1>7 DEF Readable

\* The date of a time, read back with the century it was written with.
LEMMA DateRead ==
  ASSUME NEW t \in Moments
  PROVE  LET pj == tm_to_pdjd(localtime(t))
         IN  /\ DayOf(pdjd_to_tm(pj.pdjd, pj.century)) = DayRead(t)
             /\ pj.century = Century(t) /\ Century(t) \in {0, 1}
             /\ DayRead(t) \in Readable
<1> DEFINE tm == localtime(t)
           y == tm.year
           ord == mmdd_to_j(y + Base, tm.mon, tm.mday)
           pj == tm_to_pdjd(tm)
           back == pdjd_to_tm(pj.pdjd, pj.century)
<1>1. /\ y \in 0..199 /\ ord \in Nat /\ ord <= 366 /\ ord <= Before(y + Base, 12)
      /\ pj = [century |-> y \div 100,
               pdjd    |-> <<d_to_pd((y + Base) % 100, FALSE), d_to_pd(ord \div 10, FALSE),
                             d_to_pd(ord % 10, TRUE)>>]
  BY LocalBytes, ZenonT(60)
<1>2. DateOf(back, y, ord)
  <2>1. DateOf(pdjd_to_tm(<<d_to_pd((y + Base) % 100, FALSE), d_to_pd(ord \div 10, FALSE),
                            d_to_pd(ord % 10, TRUE)>>, y \div 100), y, ord)
    BY <1>1, JulianRead
  <2> HIDE DEF ord, y, pj
  <2>2. pj.pdjd = <<d_to_pd((y + Base) % 100, FALSE), d_to_pd(ord \div 10, FALSE),
                    d_to_pd(ord % 10, TRUE)>> /\ pj.century = y \div 100
    BY <1>1
  <2> QED
    BY <2>1, <2>2
<1>3. DayOf(back) = IF ord = Before(y + Base, 12) THEN YearDay(y) - 1 ELSE YearDay(y) + ord - 1
  <2> HIDE DEF ord, y, back
  <2> QED
    BY <1>1, <1>2, OrdinalRead
<1>4. pj.century = y \div 100 /\ Century(t) = y \div 100
  BY <1>1 DEF Century
<1>5. y \div 100 \in {0, 1}
  <2> HIDE DEF y
  <2> QED
    BY <1>1, SMT
<1>6. DayRead(t) = IF ord = Before(y + Base, 12) THEN YearDay(y) - 1 ELSE YearDay(y) + ord - 1
  <2>1. t \in Times /\ t.day \in Readable /\ t.day \in Int
    BY MomentRange
  <2>2. ord = Before(y + Base, 12) <=> (tm.mon = 11 /\ tm.mday = 31)
    BY <2>1, LocalOrdinal
  <2>3. mktime(tm) = t /\ tm \in Tms
    BY <2>1, LocalTime
  <2>4. t.day = YearDay(y) + ord - 1
    BY <2>3 DEF mktime, DayOf
  <2>5. DayOf([tm EXCEPT !.mon = 0, !.mday = 0]) = YearDay(y) + mmdd_to_j(y + Base, 0, 0) - 1
    BY <2>3 DEF DayOf, Tms
  <2>6. mmdd_to_j(y + Base, 0, 0) = 0
    <3>1. y + Base \in Int
      BY <1>1 DEF Base
    <3> QED
      BY <3>1, MonthFirst DEF mmdd_to_j
  <2>7. YearDay(y) \in Int
    BY <1>1, YearReadable
  <2>8. DayRead(t) = IF tm.mon = 11 /\ tm.mday = 31
                     THEN DayOf([tm EXCEPT !.mon = 0, !.mday = 0]) ELSE t.day
    BY DEF DayRead
  <2> HIDE DEF ord, y, tm
  <2> QED
    BY <2>2, <2>4, <2>5, <2>6, <2>7, <2>8
<1>7. DayOf(back) \in Readable
  BY <1>1, <1>2, AnyOrdinalReadable
<1> HIDE DEF back, ord, y
<1>8. DayOf(back) = DayRead(t)
  BY <1>3, <1>6
<1> QED
  BY <1>4, <1>5, <1>7, <1>8 DEF back

\* Read with another century, it is still a day of the two centuries.
LEMMA AnyCenturyReadable ==
  ASSUME NEW t \in Moments, NEW c \in {0, 1}
  PROVE  DayOf(pdjd_to_tm(tm_to_pdjd(localtime(t)).pdjd, c)) \in Readable
<1> DEFINE y == localtime(t).year
           ord == mmdd_to_j(y + Base, localtime(t).mon, localtime(t).mday)
           digits == <<d_to_pd((y + Base) % 100, FALSE), d_to_pd(ord \div 10, FALSE),
                       d_to_pd(ord % 10, TRUE)>>
<1>1. /\ y \in 0..199 /\ ord \in Nat /\ ord <= 366
      /\ tm_to_pdjd(localtime(t)) = [century |-> y \div 100, pdjd |-> digits]
  BY LocalBytes, ZenonT(60)
<1> HIDE DEF y, ord
<1> DEFINE other == ((y + Base) % 100) + c * 100
<1>2. /\ (y + Base) % 100 \in 0..99 /\ ord \div 10 \in 0..99 /\ ord % 10 \in 0..9
      /\ (ord \div 10) * 10 + (ord % 10) = ord /\ other \in 0..199 /\ c \in Int /\ other \in Int
  BY <1>1, SMT DEF Base
<1>3. DateOf(pdjd_to_tm(digits, c), other, ord)
  <2>1. PICK o \in 0..199 : o = other /\ o \in Int
    BY <1>2
  <2> HIDE DEF other
  <2>2. ((y + Base) % 100) + c * 100 = o
    BY <2>1 DEF other
  <2>3. DateOf(pdjd_to_tm(digits, c), o, ord)
    BY <1>2, <2>1, <2>2, JulianDigits, ZenonT(60)
  <2> QED
    BY <2>1, <2>3
<1> HIDE DEF digits, other
<1>4. tm_to_pdjd(localtime(t)).pdjd = digits
  BY <1>1
<1>5. DayOf(pdjd_to_tm(digits, c)) \in Readable
  BY <1>1, <1>2, <1>3, AnyOrdinalReadable
<1> QED
  BY <1>4, <1>5

-----------------------------------------------------------------------------
(* Strings                                                                 *)

\* An entry of a MEMDIR as openmemdir makes it.
Listed(n) == mstat_to_mdir(desp_to_mstats(get_desp_all))[n]

\* desp_copy_name_and_alias and what follows it set a pointer exactly where a flag says so.
LEMMA NamesSet ==
  ASSUME NEW n \in Names, NEW smde
  PROVE  LET m == smde_to_mstat(n, smde, Zeroed)
         IN  /\ DOMAIN m = DOMAIN Zeroed
             /\ m.is_alias = smde.alias
             /\ m.alias_name = IF smde.alias THEN n ELSE Nothing
<1> DEFINE named == desp_copy_name_and_alias(n, smde, Zeroed)
           extended == IF smde.ext = Nothing THEN named
                       ELSE copy_extended_attributes_into_mstat(smde.ext, named)
           Kept(m) == /\ DOMAIN m = DOMAIN Zeroed
                      /\ m.is_alias = smde.alias
                      /\ m.alias_name = IF smde.alias THEN n ELSE Nothing
<1>1. Kept(named)
  BY DEF desp_copy_name_and_alias, Zeroed
<1> HIDE DEF named
<1>2. Kept(extended)
  BY <1>1 DEF copy_extended_attributes_into_mstat, Zeroed
<1> HIDE DEF extended
<1>3. Kept(copy_ispf_stats_into_mstat(smde.user, extended))
  BY <1>2 DEF copy_ispf_stats_into_mstat, Zeroed
<1>4. Kept([extended EXCEPT !.ispf_stats = FALSE])
  BY <1>2 DEF Zeroed
<1>5. smde_to_mstat(n, smde, Zeroed) \in
        {extended, copy_ispf_stats_into_mstat(smde.user, extended), [extended EXCEPT !.ispf_stats = FALSE]}
  BY DEF smde_to_mstat, extended, named
<1> HIDE DEF Kept
<1>6. Kept(smde_to_mstat(n, smde, Zeroed))
  BY <1>2, <1>3, <1>4, <1>5
<1> QED
  BY <1>6 DEF Kept

\* An mstat with a name: what is duplicated of it is what is freed of it.
LEMMA SameStrings ==
  ASSUME NEW m, m.name # Nothing, m.alias_name # Nothing <=> m.is_alias
  PROVE  Strings(m) = Duplicated(m)
<1> DEFINE all == {"name", "alias_name", "ext_id", "ispf_id"}
<1>1. Duplicated(m) \subseteq all /\ Strings(m) \subseteq all
  BY DEF Duplicated, Strings
<1>2. "name" \in Strings(m) /\ "name" \in Duplicated(m)
  BY DEF Duplicated, Strings
<1>3. "alias_name" \in Strings(m) <=> "alias_name" \in Duplicated(m)
  BY DEF Duplicated, Strings
<1>4. "ext_id" \in Strings(m) <=> "ext_id" \in Duplicated(m)
  BY DEF Duplicated, Strings
<1>5. "ispf_id" \in Strings(m) <=> "ispf_id" \in Duplicated(m)
  BY DEF Duplicated, Strings
<1> QED
  BY <1>1, <1>2, <1>3, <1>4, <1>5

\* So it is for every entry of a MEMDIR.
LEMMA EntryStrings ==
  ASSUME NEW n \in Members
  PROVE  Strings(Listed(n)) = Duplicated(Listed(n))
<1> DEFINE m == smde_to_mstat(n, dir[n], Zeroed)
<1>1. n \in Names /\ n # Nothing
  BY MemDirAssumption, NothingAssumption DEF Members
<1>2. DOMAIN m = DOMAIN Zeroed /\ m.is_alias = dir[n].alias
      /\ m.alias_name = IF dir[n].alias THEN n ELSE Nothing
  BY <1>1, NamesSet
<1>3. Listed(n) = IF m.name = Nothing THEN [m EXCEPT !.name = Garbage] ELSE m
  BY DEF Listed, mstat_to_mdir, desp_to_mstats, get_desp_all
<1> HIDE DEF m
<1>4. Garbage # Nothing
  BY NothingAssumption DEF Garbage
<1>5. Listed(n).name # Nothing /\ Listed(n).alias_name = m.alias_name /\ Listed(n).is_alias = m.is_alias
  BY <1>2, <1>3, <1>4 DEF Zeroed
<1> QED
  BY <1>1, <1>2, <1>5, SameStrings

-----------------------------------------------------------------------------
(* The MEMDIR and its strings                                              *)

\* The strings of a listing's entries.
StringsOf(head) == UNION {{<<head[i].of, f>> : f \in Strings(head[i].m)} : i \in DOMAIN head}

StringsInv ==
  /\ at # "reading" => live = {}
  /\ at = "reading" => md = [head |-> md.head, cur |-> md.cur] /\ live = StringsOf(md.head)

\* The strings openmemdir leaves allocated are those its entries point to.
LEMMA OpenStrings == openmemdir => StringsInv'
<1> SUFFICES ASSUME openmemdir PROVE StringsInv'
  OBVIOUS
<1> DEFINE k == Cardinality(Members)
<1>1. PICK order \in Arrangements(sort', mstat_to_mdir(desp_to_mstats(get_desp_all))) :
        /\ md' = [head |-> [i \in DOMAIN order |-> [of |-> order[i], m |-> Listed(order[i])]], cur |-> 0]
        /\ live' = UNION {{<<n, f>> : f \in Duplicated(Listed(n))} : n \in Members}
  BY Zenon DEF openmemdir, Listed
<1>2. order \in [1..k -> Members] /\ \A m \in Members : \E i \in 1..k : order[i] = m
  BY DEF Arrangements
<1> HIDE DEF k
<1> DEFINE head == [i \in DOMAIN order |-> [of |-> order[i], m |-> Listed(order[i])]]
<1>3. \A i \in DOMAIN head : head[i].of = order[i] /\ head[i].m = Listed(order[i]) /\ order[i] \in Members
  BY <1>2
<1>4. DOMAIN head = 1..k
  BY <1>2
<1> HIDE DEF head
<1>5. live' = StringsOf(head)
  <2>1. ASSUME NEW x \in live'
        PROVE  x \in StringsOf(head)
    <3>1. PICK n \in Members : x \in {<<n, f>> : f \in Duplicated(Listed(n))}
      BY <1>1, <2>1
    <3>2. PICK i \in 1..k : order[i] = n
      BY <1>2
    <3>3. x \in {<<head[i].of, f>> : f \in Strings(head[i].m)}
      BY <3>1, <3>2, <1>3, <1>4, EntryStrings
    <3> QED
      BY <3>3, <1>4 DEF StringsOf
  <2>2. ASSUME NEW x \in StringsOf(head)
        PROVE  x \in live'
    <3>1. PICK i \in DOMAIN head : x \in {<<head[i].of, f>> : f \in Strings(head[i].m)}
      BY <2>2 DEF StringsOf
    <3>2. order[i] \in Members /\ x \in {<<order[i], f>> : f \in Duplicated(Listed(order[i]))}
      BY <3>1, <1>3, EntryStrings
    <3> QED
      BY <3>2, <1>1
  <2> QED
    BY <2>1, <2>2
<1>6. md'.head = head /\ md' = [head |-> md'.head, cur |-> md'.cur]
  BY <1>1 DEF head
<1>7. at' = "reading"
  BY DEF openmemdir
<1> QED
  BY <1>5, <1>6, <1>7 DEF StringsInv

\* Nothing but mlsx itself changes what it has.
LEMMA OtherSteps ==
  ASSUME NEW n \in Names,
         \/ \E clear \in BOOLEAN : readmemdir_entry(n, clear)
         \/ WriteEntry(n) \/ EditEntry(n) \/ WithoutStats(n) \/ DeleteEntry(n)
         \/ \E p \in Names : AddAlias(n, p)
  PROVE  UNCHANGED mlsx
<1>1. CASE \E clear \in BOOLEAN : readmemdir_entry(n, clear)
  BY <1>1 DEF readmemdir_entry
<1>2. \A i, e, p : Change(n, i, e, p) => UNCHANGED mlsx
  BY DEF Change
<1>3. CASE WriteEntry(n)
  BY <1>2, <1>3, Zenon DEF WriteEntry
<1>4. CASE EditEntry(n)
  BY <1>2, <1>4, SMTT(30) DEF EditEntry
<1>5. CASE WithoutStats(n)
  BY <1>2, <1>5, Zenon DEF WithoutStats
<1>6. CASE DeleteEntry(n)
  BY <1>2, <1>6, Zenon DEF DeleteEntry
<1>7. CASE \E p \in Names : AddAlias(n, p)
  BY <1>2, <1>7, Zenon DEF AddAlias
<1> QED
  BY <1>1, <1>3, <1>4, <1>5, <1>6, <1>7

\* No step changes a MEMDIR that is being read.
LEMMA StepStrings == StringsInv /\ [Next]_vars => StringsInv'
<1> SUFFICES ASSUME StringsInv, [Next]_vars PROVE StringsInv'
  OBVIOUS
<1>1. CASE openmemdir
  BY <1>1, OpenStrings
<1>2. CASE openmemdir_fails
  BY <1>2 DEF openmemdir_fails, StringsInv
<1>3. CASE readmemdir
  BY <1>3 DEF readmemdir, StringsInv
<1>4. CASE closememdir
  BY <1>4 DEF closememdir, StringsInv, StringsOf
<1>5. CASE UNCHANGED mlsx
  BY <1>5 DEF mlsx, StringsInv
<1>6. ASSUME NEW n \in Names,
             \/ \E clear \in BOOLEAN : readmemdir_entry(n, clear)
             \/ WriteEntry(n) \/ EditEntry(n) \/ WithoutStats(n) \/ DeleteEntry(n)
             \/ \E p \in Names : AddAlias(n, p)
      PROVE  UNCHANGED mlsx
  BY <1>6, OtherSteps
<1>7. UNCHANGED vars => UNCHANGED mlsx
  BY DEF vars, mlsx
<1> QED
  BY <1>1, <1>2, <1>3, <1>4, <1>5, <1>6, <1>7 DEF Next

\* Whatever entries a data set has, and however often it changes while it is listed: the
\* strings of the MEMDIR are allocated as long as it is, and not longer (memdir.c:390-486).
THEOREM ListingStringsSafe == Spec => []StringsSafe
<1>1. Init => StringsInv
  BY DEF Init, StringsInv
<1>2. StringsInv => StringsSafe
  BY DEF StringsInv, StringsSafe, StringsOf
<1> QED
  BY <1>1, <1>2, StepStrings, PTL DEF Spec

-----------------------------------------------------------------------------
(* What is read of an entry                                                *)

\* Statistics of a member created and changed as p says.
UserTrue(u, p) ==
  /\ u.create = tm_to_pdjd(localtime(p.created))
  /\ u.mod = tm_to_pdjd(localtime(p.changed))
  /\ u.time = TimeOfDay(localtime(p.changed))
  /\ CurrentLines(u) = p.lines

\* An entry of such a member.
EntryTrue(e, p) ==
  /\ e \in Smdes /\ p \in Pasts
  /\ e.ext # Nothing => e.ext = tod(Seconds(p.changed))
  /\ e.user \notin {Nothing, Short} => UserTrue(e.user, p)

\* What copy_ispf_stats_into_mstat sets is what is true of the member, and it sets
\* nothing else.
LEMMA StatsRead ==
  ASSUME NEW u \in DiskStats, NEW p \in Pasts, UserTrue(u, p), NEW m \in Mstats
  PROVE  LET r == copy_ispf_stats_into_mstat(u, m)
         IN  /\ r \in Mstats /\ r.ispf_stats /\ StatsTrue(r, p)
             /\ r.ispf_changed.day \in Readable
             /\ r.has_ext = m.has_ext /\ r.ext_changed = m.ext_changed
<1> DEFINE r == copy_ispf_stats_into_mstat(u, m)
           created == pdjd_to_tm(u.create.pdjd, u.create.century)
           changed == pdjd_to_tm(u.mod.pdjd, u.create.century)
           tm == localtime(p.changed)
<1>1. p.created \in Moments /\ p.changed \in Moments /\ p.lines \in Nat
  BY DEF Pasts
<1>2. p.changed \in Times /\ p.changed.day \in Readable
  BY <1>1, MomentRange
<1>3. /\ DayOf(created) = DayRead(p.created) /\ DayRead(p.created) \in Readable
      /\ u.create.century = Century(p.created) /\ Century(p.created) \in {0, 1}
  BY <1>1, DateRead DEF UserTrue
<1>4. Century(p.created) = Century(p.changed) => DayOf(changed) = DayRead(p.changed)
  BY <1>1, <1>3, DateRead DEF UserTrue
<1>5. DayOf(changed) \in Readable
  BY <1>1, <1>3, AnyCenturyReadable DEF UserTrue
<1>6. mktime(set_create_time(u)) = [day |-> DayRead(p.created), sec |-> 0]
  <2>1. DayOf(set_create_time(u)) = DayOf(created)
    BY DEF set_create_time, DateAndTime, DayOf
  <2>2. /\ set_create_time(u).hour = 0 /\ set_create_time(u).min = 0
        /\ set_create_time(u).sec = 0
    BY DEF set_create_time, DateAndTime
  <2> HIDE DEF created
  <2> QED
    BY <1>3, <2>1, <2>2 DEF mktime
<1>7. mktime(set_mod_time(u)) = [day |-> DayOf(changed), sec |-> p.changed.sec]
  <2>1. DayOf(set_mod_time(u)) = DayOf(changed)
    BY DEF set_mod_time, DateAndTime, DayOf
  <2>2. tm \in Tms /\ mktime(tm) = p.changed
    BY <1>2, LocalTime
  <2>3. /\ set_mod_time(u).hour = tm.hour /\ set_mod_time(u).min = tm.min
        /\ set_mod_time(u).sec = tm.sec
    <3>1. /\ set_mod_time(u).hour = pd_to_d(u.time.hours)
          /\ set_mod_time(u).min = pd_to_d(u.time.minutes)
          /\ set_mod_time(u).sec = pd_to_d(u.time.seconds)
      BY DEF set_mod_time, DateAndTime
    <3>2. u.time = TimeOfDay(tm)
      BY DEF UserTrue
    <3> QED
      BY <2>2, <3>1, <3>2, TimeOfDayRead
  <2>4. p.changed.sec = tm.hour * 3600 + tm.min * 60 + tm.sec
    BY <2>2 DEF mktime
  <2> HIDE DEF changed, tm
  <2> QED
    BY <2>1, <2>3, <2>4 DEF mktime
<1>8. 0 \in Clock /\ p.changed.sec \in Clock
  <2>1. p.changed.sec \in Clock
    BY <1>2 DEF Times
  <2>2. 0 \in Clock
    BY ClockRange
  <2> QED
    BY <2>1, <2>2
<1>9. \A d \in Readable : d \in Int
  BY YearWindow DEF Readable
<1>10. \A d \in Int, s \in Clock : [day |-> d, sec |-> s] \in Times
  BY DEF Times
<1>11. mktime(set_create_time(u)) \in Times /\ mktime(set_mod_time(u)) \in Times
  <2> HIDE DEF created, changed
  <2> QED
    BY <1>3, <1>5, <1>6, <1>7, <1>8, <1>9, <1>10
<1>12. CurrentLines(u) = p.lines
  BY DEF UserTrue
<1>13. r = [m EXCEPT !.ispf_stats = TRUE, !.ispf_created = mktime(set_create_time(u)),
                     !.ispf_changed = mktime(set_mod_time(u)), !.ispf_current_lines = p.lines]
  BY <1>12 DEF copy_ispf_stats_into_mstat
<1> HIDE DEF r, created, changed, tm
<1>14. r \in Mstats
  BY <1>1, <1>11, <1>13 DEF Mstats
<1>15. /\ r.ispf_stats /\ r.ispf_created = mktime(set_create_time(u))
       /\ r.ispf_changed = mktime(set_mod_time(u)) /\ r.ispf_current_lines = p.lines
       /\ r.has_ext = m.has_ext /\ r.ext_changed = m.ext_changed
  BY <1>13 DEF Mstats
<1>16. StatsTrue(r, p)
  BY <1>4, <1>6, <1>7, <1>15 DEF StatsTrue
<1>17. r.ispf_changed.day \in Readable
  BY <1>5, <1>7, <1>15
<1> QED
  BY <1>14, <1>15, <1>16, <1>17 DEF r

\* The time of an extended attribute of a member changed at a time of a run.
LEMMA ExtRead ==
  ASSUME NEW t \in Moments
  PROVE  LET c == tod_to_time(tod(Seconds(t)))
         IN  /\ tod(Seconds(t)) \in Nat
             /\ c \in Times /\ c.day \in Readable
             /\ Seconds(t) - Seconds(c) \in {0, 1, 2}
<1> DEFINE n == tod(Seconds(t))
           c == tod_to_time(n)
           back == (n \div 15625) * 16384 + ((n % 15625) * 16384) \div 15625
<1>1. t \in Times /\ t.day \in Nat /\ t.day \in Readable
  BY MomentRange
<1>2. t.sec \in Nat /\ t.sec < 86400
  <2>1. \A s \in Clock : s \in Nat /\ s < 86400
    BY ClockRange
  <2>2. t.sec \in Clock
    BY <1>1 DEF Times
  <2> QED
    BY <2>1, <2>2
<1>3. PICK secs \in Nat : secs = Seconds(t) /\ secs < (t.day + 1) * 86400
  <2>1. \A d, s \in Nat : s < 86400 => d * 86400 + s \in Nat /\ d * 86400 + s < (d + 1) * 86400
    BY SMT
  <2> QED
    BY <1>1, <1>2, <2>1 DEF Seconds
<1>4. Seconds(c) \in secs - 2..secs
  BY <1>3, TodWithinTwoSeconds
<1>5. n \in Nat
  <2>1. tod(secs) \in Nat
    BY SMT DEF tod
  <2> QED
    BY <1>3, <2>1
<1> HIDE DEF n
<1>6. back \in Nat
  BY <1>5, SMT
<1>7. c = [day |-> back \div 86400, sec |-> back % 86400]
  BY DEF tod_to_time
<1> HIDE DEF back, c
<1>8. /\ back \div 86400 \in Nat /\ back % 86400 \in Clock
      /\ (back \div 86400) * 86400 + (back % 86400) = back
  <2>1. \A b \in Nat : /\ b \div 86400 \in Nat /\ b % 86400 \in Nat /\ b % 86400 < 86400
                       /\ (b \div 86400) * 86400 + (b % 86400) = b
    BY SMT
  <2>2. \A s \in Nat : s < 86400 => s \in Clock
    BY ClockRange
  <2> QED
    BY <1>6, <2>1, <2>2
<1>9. Seconds(c) = back
  BY <1>7, <1>8 DEF Seconds
<1>10. back <= secs /\ secs - back \in {0, 1, 2}
  BY <1>4, <1>6, <1>9
<1>11. back \div 86400 <= t.day
  <2>1. \A b, s, d \in Nat : b <= s /\ s < (d + 1) * 86400 => b \div 86400 <= d
    BY SMTT(30)
  <2> QED
    BY <1>1, <1>3, <1>6, <1>10, <2>1
<1>12. c \in Times /\ c.day = back \div 86400
  BY <1>7, <1>8 DEF Times
<1>13. c.day \in Readable
  <2>1. YearDay(-1) \in Int /\ YearDay(-1) <= 0 /\ YearDay(200) \in Int
    BY YearWindow
  <2>2. t.day \in Int /\ t.day <= YearDay(200) - 1
    BY <1>1, <2>1 DEF Readable
  <2>3. c.day \in YearDay(-1)..YearDay(200) - 1
    BY <1>8, <1>11, <1>12, <2>1, <2>2
  <2> QED
    BY <2>3 DEF Readable
<1> QED
  BY <1>3, <1>5, <1>9, <1>10, <1>12, <1>13 DEF n, c

\* What smde_to_mstat makes of an entry: what is there is in the mstat, and true of the
\* member; what is not there stays as it was.
LEMMA EntryToMstat ==
  ASSUME NEW n \in Names, NEW e, NEW p, EntryTrue(e, p), NEW m \in Mstats
  PROVE  LET r == smde_to_mstat(n, e, m)
             stats == e.user \notin {Nothing, Short}
         IN  /\ r \in Mstats
             /\ r.is_alias = e.alias
             /\ r.name = IF e.alias THEN e.primary ELSE n
             /\ r.alias_name = IF e.alias THEN n ELSE Nothing
             /\ e.ext # Nothing =>
                  r.has_ext /\ ExtTrue(r, p) /\ r.ext_changed.day \in Readable
             /\ e.ext = Nothing => r.has_ext = m.has_ext
             /\ stats => r.ispf_stats /\ StatsTrue(r, p) /\ r.ispf_changed.day \in Readable
             /\ ~stats => r.ispf_stats \in {FALSE, m.ispf_stats}
<1> DEFINE named == desp_copy_name_and_alias(n, e, m)
           extended == IF e.ext = Nothing THEN named
                       ELSE copy_extended_attributes_into_mstat(e.ext, named)
           stats == e.user \notin {Nothing, Short}
           r == smde_to_mstat(n, e, m)
           Named(x) == /\ x.is_alias = e.alias
                       /\ x.name = IF e.alias THEN e.primary ELSE n
                       /\ x.alias_name = IF e.alias THEN n ELSE Nothing
           Ext(x) == /\ e.ext # Nothing =>
                          x.has_ext /\ ExtTrue(x, p) /\ x.ext_changed.day \in Readable
                     /\ e.ext = Nothing => x.has_ext = m.has_ext
<1>1. /\ e.alias \in BOOLEAN /\ e.primary \in Names \cup {Nothing} /\ e.ext \in Nat \cup {Nothing}
      /\ e.user \in DiskStats \cup {Nothing, Short}
      /\ p \in Pasts /\ p.changed \in Moments
  BY DEF EntryTrue, Smdes, Pasts
<1>2. /\ named \in Mstats /\ Named(named)
      /\ named.has_ext = m.has_ext /\ named.ispf_stats = m.ispf_stats
  <2>1. n \in Nat \cup {Nothing} /\ e.primary \in Nat \cup {Nothing} /\ Nothing \in Nat \cup {Nothing}
    BY <1>1, MemDirAssumption
  <2>2. named = [m EXCEPT !.is_alias = e.alias, !.name = IF e.alias THEN e.primary ELSE n,
                          !.alias_name = IF e.alias THEN n ELSE Nothing]
    BY DEF desp_copy_name_and_alias
  <2> HIDE DEF named
  <2>3. named \in Mstats
    BY <1>1, <2>1, <2>2 DEF Mstats
  <2>4. Named(named) /\ named.has_ext = m.has_ext /\ named.ispf_stats = m.ispf_stats
    BY <2>2 DEF Mstats
  <2> QED
    BY <2>3, <2>4
<1> HIDE DEF named
<1>3. extended \in Mstats /\ Named(extended) /\ Ext(extended) /\ extended.ispf_stats = m.ispf_stats
  <2>1. CASE e.ext = Nothing
    BY <1>2, <2>1
  <2>2. CASE e.ext # Nothing
    <3> DEFINE c == tod_to_time(tod(Seconds(p.changed)))
    <3>1. c \in Times /\ c.day \in Readable /\ Seconds(p.changed) - Seconds(c) \in {0, 1, 2}
      BY <1>1, ExtRead
    <3>2. tod_to_time(e.ext) = c
      BY <2>2 DEF EntryTrue
    <3> HIDE DEF c
    <3>3. extended = [named EXCEPT !.has_ext = TRUE, !.ext_changed = c]
      BY <2>2, <3>2 DEF copy_extended_attributes_into_mstat
    <3>4. extended \in Mstats
      BY <1>2, <3>1, <3>3 DEF Mstats
    <3>5. /\ Named(extended) /\ extended.ispf_stats = m.ispf_stats
          /\ extended.has_ext /\ extended.ext_changed = c
      BY <1>2, <3>3 DEF Mstats
    <3> QED
      BY <2>2, <3>1, <3>4, <3>5 DEF ExtTrue
  <2> QED
    BY <2>1, <2>2
<1>4. r = CASE e.user = Nothing -> extended
            [] e.user = Short   -> [extended EXCEPT !.ispf_stats = FALSE]
            [] OTHER            -> copy_ispf_stats_into_mstat(e.user, extended)
  BY DEF smde_to_mstat, named
<1> HIDE DEF extended, r
<1>5. CASE e.user = Nothing
  <2>1. r = extended
    BY <1>4, <1>5, NothingAssumption
  <2>2. ~stats
    BY <1>5, Zenon
  <2> QED
    BY <1>3, <1>5, <2>1, <2>2 DEF r
<1>6. CASE e.user # Nothing /\ e.user = Short
  <2>1. r = [extended EXCEPT !.ispf_stats = FALSE]
    BY <1>4, <1>6
  <2>2. r \in Mstats /\ r.ispf_stats = FALSE
    BY <1>3, <2>1 DEF Mstats
  <2>3. Named(r) /\ Ext(r)
    BY <1>3, <2>1 DEF Mstats, ExtTrue
  <2> QED
    BY <1>6, <2>2, <2>3 DEF r
<1>7. CASE stats
  <2>1. r = copy_ispf_stats_into_mstat(e.user, extended)
    BY <1>4, <1>7
  <2>2. e.user \in DiskStats /\ UserTrue(e.user, p)
    BY <1>1, <1>7 DEF EntryTrue
  <2>3. /\ r \in Mstats /\ r.ispf_stats /\ StatsTrue(r, p)
        /\ r.ispf_changed.day \in Readable
        /\ r.has_ext = extended.has_ext /\ r.ext_changed = extended.ext_changed
    BY <1>1, <1>3, <2>1, <2>2, StatsRead
  <2>4. Named(r)
    BY <1>3, <2>1 DEF copy_ispf_stats_into_mstat, Mstats
  <2>5. Ext(r)
    BY <1>3, <2>3 DEF ExtTrue
  <2> QED
    BY <1>7, <2>3, <2>4, <2>5 DEF r
<1> QED
  BY <1>5, <1>6, <1>7

\* A struct mstat of zeros is one, and one that was never set.
LEMMA EmptyMstats == Zeroed \in Mstats /\ Unset \in Mstats
<1>1. Epoch \in Times
  <2>1. 0 \in Clock
    BY ClockRange
  <2> QED
    BY <2>1 DEF Epoch, Times
<1>2. Zeroed \in Mstats
  BY <1>1 DEF Zeroed, Mstats
<1>3. Unset \in Mstats
  BY <1>2 DEF Unset, Mstats
<1> QED
  BY <1>2, <1>3

-----------------------------------------------------------------------------
(* The directory                                                           *)

\* Every entry says the truth of its member, as far as it says something.
DirInv ==
  /\ kind \in {"PDS", "PDSE"} /\ tick \in 0..Len(Instants)
  /\ dir \in [Names -> Smdes \cup {Nothing}] /\ past \in [Names -> Pasts \cup {Nothing}]
  /\ \A n \in Names : IF dir[n] = Nothing THEN past[n] = Nothing ELSE EntryTrue(dir[n], past[n])

\* A change to an entry that says the truth.
LEMMA ChangeTrue ==
  ASSUME DirInv, NEW n \in Names, NEW i \in DOMAIN Instants, NEW e, NEW p, Change(n, i, e, p),
         (e = Nothing /\ p = Nothing) \/ EntryTrue(e, p)
  PROVE  DirInv'
<1>1. e \in Smdes \cup {Nothing} /\ p \in Pasts \cup {Nothing}
  BY DEF EntryTrue
<1>2. dir' = [dir EXCEPT ![n] = e] /\ past' = [past EXCEPT ![n] = p] /\ tick' = i /\ kind' = kind
  BY DEF Change
<1>3. dir \in [Names -> Smdes \cup {Nothing}] /\ past \in [Names -> Pasts \cup {Nothing}]
  BY DEF DirInv
<1>4. dir' \in [Names -> Smdes \cup {Nothing}] /\ past' \in [Names -> Pasts \cup {Nothing}]
  BY <1>1, <1>2, <1>3
<1>5. ASSUME NEW k \in Names
      PROVE  IF dir'[k] = Nothing THEN past'[k] = Nothing ELSE EntryTrue(dir'[k], past'[k])
  <2>1. CASE k = n
    <3>1. dir'[k] = e /\ past'[k] = p
      BY <1>2, <1>3, <2>1
    <3>2. EntryTrue(e, p) => e # Nothing
      BY NothingAssumption DEF EntryTrue
    <3> QED
      BY <3>1, <3>2
  <2>2. CASE k # n
    <3>1. dir'[k] = dir[k] /\ past'[k] = past[k]
      BY <1>2, <1>3, <2>2
    <3> QED
      BY <3>1 DEF DirInv
  <2> QED
    BY <2>1, <2>2
<1>6. tick' \in 0..Len(Instants) /\ kind' \in {"PDS", "PDSE"}
  <2>1. Instants \in Seq(Moments)
    BY MemDirAssumption
  <2>2. i \in 1..Len(Instants) /\ Len(Instants) \in Nat
    BY <2>1
  <2> QED
    BY <1>2, <2>2 DEF DirInv
<1> QED
  BY <1>4, <1>5, <1>6 DEF DirInv

\* The times of a run, and the timestamp of one.
LEMMA InstantRange ==
  ASSUME NEW i \in DOMAIN Instants
  PROVE  /\ Instants[i] \in Moments
         /\ Timestamp(i) \in Nat \cup {Nothing}
         /\ Timestamp(i) # Nothing => Timestamp(i) = tod(Seconds(Instants[i]))
<1>1. Instants[i] \in Moments
  BY MemDirAssumption
<1> QED
  BY <1>1, ExtRead DEF Timestamp

\* The numbers that fit a halfword.
LEMMA HalfwordRange == \A l \in Nat : l < 65536 => l \in Halfwords
<1>1. USHRT_MAX \in Nat
  BY SMT DEF USHRT_MAX
<1>2. \A b \in Nat : \A l \in Nat : l <= b => l \in 0..b
  BY SMT
<1>3. \A l \in Nat : l <= USHRT_MAX => l \in Halfwords
  BY <1>1, <1>2, Zenon DEF Halfwords
<1>4. \A l \in Nat : l < 65536 => l <= USHRT_MAX
  BY SMT DEF USHRT_MAX
<1> QED
  BY <1>3, <1>4, SMT

\* The statistics add_mem_stats writes at time t.
LEMMA StatsWritten ==
  ASSUME NEW t \in Moments, NEW m \in Mstats,
         m.ispf_stats => m.ispf_created = t,
         ~m.ispf_stats => m.ispf_current_lines = 0
  PROVE  /\ add_mem_stats(m, t) \in DiskStats
         /\ UserTrue(add_mem_stats(m, t),
                     [created |-> t, changed |-> t, lines |-> m.ispf_current_lines])
<1> DEFINE d == tm_to_pdjd(localtime(t))
           time == TimeOfDay(localtime(t))
           l == m.ispf_current_lines
           short == IF m.ispf_stats THEN ShortCount(m) ELSE 0
<1>1. l \in Nat /\ m.ispf_stats \in BOOLEAN
  BY DEF Mstats
<1>2. d \in Dates
  BY DateFits
<1>3. time \in [hours: Bytes, minutes: Bytes, seconds: Bytes]
  <2>1. localtime(t) \in Tms
    BY MomentRange, LocalTime
  <2> QED
    BY <2>1, TimeOfDayRead
<1>4. short \in Halfwords
  <2>1. \A k \in Nat : k < SHRT_MAX => k < 65536
    BY SMT DEF SHRT_MAX
  <2>2. 0 \in Halfwords
    <3>1. 0 < 65536
      BY SMT
    <3> QED
      BY <3>1, HalfwordRange
  <2>3. ShortCount(m) \in Halfwords
    BY <1>1, <2>1, <2>2, HalfwordRange DEF ShortCount
  <2> QED
    BY <2>2, <2>3
<1>5. add_mem_stats(m, t) = [extended |-> TRUE, create |-> d, mod |-> d, time |-> time,
                             curr |-> short, full |-> l]
  <2>1. (IF m.ispf_stats THEN localtime(m.ispf_created) ELSE localtime(t)) = localtime(t)
    BY <1>1
  <2>2. (IF m.ispf_stats THEN m.ispf_current_lines ELSE 0) = l
    BY <1>1
  <2> QED
    BY <2>1, <2>2, Zenon DEF add_mem_stats
<1> HIDE DEF d, time, l, short
<1>6. add_mem_stats(m, t) \in DiskStats
  BY <1>1, <1>2, <1>3, <1>4, <1>5 DEF DiskStats
<1>7. UserTrue(add_mem_stats(m, t), [created |-> t, changed |-> t, lines |-> l])
  BY <1>5 DEF UserTrue, CurrentLines, d, time
<1> QED
  BY <1>6, <1>7 DEF l

\* An entry without statistics.
LEMMA BareTrue ==
  ASSUME NEW i \in DOMAIN Instants, NEW user \in {Nothing, Short}, NEW l \in Nat
  PROVE  EntryTrue([alias |-> FALSE, primary |-> Nothing, ext |-> Timestamp(i), user |-> user],
                   [created |-> Instants[i], changed |-> Instants[i], lines |-> l])
<1>1. /\ Instants[i] \in Moments /\ Timestamp(i) \in Nat \cup {Nothing}
      /\ Timestamp(i) # Nothing => Timestamp(i) = tod(Seconds(Instants[i]))
  BY InstantRange
<1> QED
  BY <1>1 DEF EntryTrue, Smdes, Pasts

\* STOW of a member.
LEMMA WriteTrue == ASSUME DirInv, NEW n \in Names, WriteEntry(n) PROVE DirInv'
<1>0. PICK i \in DOMAIN Instants :
        \E m \in {[Zeroed EXCEPT !.name = n]} \cup {create_mstat(n, Instants[i], l) : l \in Lines},
           ext \in {Nothing, Timestamp(i)} :
          Change(n, i, [alias |-> FALSE, primary |-> Nothing, ext |-> ext,
                        user |-> add_mem_stats(m, Instants[i])],
                 [created |-> Instants[i], changed |-> Instants[i], lines |-> m.ispf_current_lines])
  BY Zenon DEF WriteEntry
<1>1. PICK m \in {[Zeroed EXCEPT !.name = n]} \cup {create_mstat(n, Instants[i], l) : l \in Lines},
           ext \in {Nothing, Timestamp(i)} :
        Change(n, i, [alias |-> FALSE, primary |-> Nothing, ext |-> ext,
                      user |-> add_mem_stats(m, Instants[i])],
               [created |-> Instants[i], changed |-> Instants[i], lines |-> m.ispf_current_lines])
  BY <1>0, Zenon
<1> DEFINE t == Instants[i]
           u == add_mem_stats(m, t)
           e == [alias |-> FALSE, primary |-> Nothing, ext |-> ext, user |-> u]
           p == [created |-> t, changed |-> t, lines |-> m.ispf_current_lines]
<1>2. t \in Moments /\ t \in Times /\ ext \in Nat \cup {Nothing} /\ (ext # Nothing => ext = tod(Seconds(t)))
  BY InstantRange, MomentRange
<1>3. /\ m \in Mstats
      /\ m.ispf_stats => m.ispf_created = t
      /\ ~m.ispf_stats => m.ispf_current_lines = 0
  <2>1. n \in Nat
    BY MemDirAssumption
  <2>2. CASE m = [Zeroed EXCEPT !.name = n]
    <3>1. m \in Mstats
      BY <2>1, <2>2, EmptyMstats DEF Mstats
    <3>2. m.ispf_stats = FALSE /\ m.ispf_current_lines = 0
      BY <2>2 DEF Zeroed
    <3> QED
      BY <3>1, <3>2
  <2>3. CASE m \in {create_mstat(n, t, l) : l \in Lines}
    <3>1. PICK l \in Lines : m = create_mstat(n, t, l)
      BY <2>3
    <3>2. l \in Nat
      BY MemDirAssumption
    <3>3. Zeroed \in Mstats
      BY EmptyMstats
    <3>4. m \in Mstats /\ m.ispf_stats /\ m.ispf_created = t
      BY <1>2, <2>1, <3>1, <3>2, <3>3 DEF create_mstat, Mstats
    <3> QED
      BY <3>4
  <2> QED
    BY <2>2, <2>3
<1>4. u \in DiskStats /\ UserTrue(u, p)
  BY <1>2, <1>3, StatsWritten
<1>5. p \in Pasts /\ p.changed = t
  <2>1. m.ispf_current_lines \in Nat
    BY <1>3 DEF Mstats
  <2> QED
    BY <1>2, <2>1 DEF Pasts
<1> HIDE DEF t, u, p
<1>6. e \in Smdes /\ e.ext = ext /\ e.user = u
  BY <1>2, <1>4 DEF Smdes
<1> HIDE DEF e
<1>7. EntryTrue(e, p)
  BY <1>2, <1>4, <1>5, <1>6 DEF EntryTrue
<1>8. Change(n, i, e, p)
  BY <1>1 DEF e, p, u, t
<1> QED
  BY <1>7, <1>8, ChangeTrue

\* A member saved by an editor.
LEMMA EditTrue == ASSUME DirInv, NEW n \in Names, EditEntry(n) PROVE DirInv'
<1> DEFINE kept == dir[n] # Nothing /\ dir[n].user \notin {Nothing, Short}
           u(i, l, ext) ==
             [extended |-> ext, mod |-> tm_to_pdjd(localtime(Instants[i])),
              create |-> IF kept THEN dir[n].user.create ELSE tm_to_pdjd(localtime(Instants[i])),
              time |-> TimeOfDay(localtime(Instants[i])),
              curr |-> IF ext THEN 0 ELSE l, full |-> IF ext THEN l ELSE 0]
           e(i, l, ext) == [alias |-> FALSE, primary |-> Nothing, ext |-> Timestamp(i),
                            user |-> u(i, l, ext)]
           p(i, l) == [created |-> IF kept THEN past[n].created ELSE Instants[i],
                       changed |-> Instants[i], lines |-> l]
<1>1. PICK i \in DOMAIN Instants, l \in Lines, ext \in BOOLEAN :
        /\ ~ext => l \in Halfwords
        /\ Change(n, i, e(i, l, ext), p(i, l))
  BY ZenonT(60) DEF EditEntry
<1> DEFINE t == Instants[i]
           user == u(i, l, ext)
           entry == e(i, l, ext)
           truly == p(i, l)
<1>2. /\ t \in Moments /\ Timestamp(i) \in Nat \cup {Nothing}
      /\ Timestamp(i) # Nothing => Timestamp(i) = tod(Seconds(t))
  BY InstantRange
<1>3. l \in Nat /\ ext \in BOOLEAN
  BY MemDirAssumption
<1>4. kept => /\ past[n].created \in Moments
              /\ dir[n].user.create = tm_to_pdjd(localtime(past[n].created))
  BY DEF DirInv, EntryTrue, UserTrue, Pasts
<1>5. truly \in Pasts /\ truly.changed = t /\ truly.lines = l
  BY <1>2, <1>3, <1>4 DEF Pasts
<1>6. /\ user.create = tm_to_pdjd(localtime(truly.created)) /\ truly.created \in Moments
      /\ user.mod = tm_to_pdjd(localtime(t)) /\ user.time = TimeOfDay(localtime(t))
  BY <1>2, <1>4
<1>7. user.extended = ext /\ user.curr = (IF ext THEN 0 ELSE l) /\ user.full = (IF ext THEN l ELSE 0)
  OBVIOUS
<1>8. user = [extended |-> user.extended, mod |-> user.mod, create |-> user.create,
              time |-> user.time, curr |-> user.curr, full |-> user.full]
  OBVIOUS
<1>9. entry \in [alias: {FALSE}, primary: {Nothing}, ext: {Timestamp(i)}, user: {user}]
  OBVIOUS
<1> HIDE DEF t, user, entry, truly
<1>10. user.create \in Dates /\ user.mod \in Dates
  BY <1>2, <1>6, DateFits
<1>11. user.time \in [hours: Bytes, minutes: Bytes, seconds: Bytes]
  <2>1. localtime(t) \in Tms
    BY <1>2, MomentRange, LocalTime
  <2> QED
    BY <1>6, <2>1, TimeOfDayRead
<1>12. user.curr \in Halfwords /\ user.full \in Nat
  <2>1. 0 \in Halfwords
    <3>1. 0 < 65536
      BY SMT
    <3> QED
      BY <3>1, HalfwordRange
  <2> QED
    BY <1>1, <1>3, <1>7, <2>1
<1>13. user \in DiskStats
  BY <1>3, <1>7, <1>8, <1>10, <1>11, <1>12 DEF DiskStats
<1>14. UserTrue(user, truly)
  BY <1>3, <1>5, <1>6, <1>7 DEF UserTrue, CurrentLines
<1>15. entry \in Smdes /\ entry.ext = Timestamp(i) /\ entry.user = user
  BY <1>2, <1>9, <1>13 DEF Smdes
<1>16. EntryTrue(entry, truly)
  BY <1>2, <1>5, <1>14, <1>15 DEF EntryTrue
<1>17. Change(n, i, entry, truly)
  BY <1>1 DEF entry, truly
<1> QED
  BY <1>16, <1>17, ChangeTrue

\* An alias of a member has what the member has.
LEMMA AliasTrue == ASSUME DirInv, NEW n \in Names, NEW q \in Names, AddAlias(n, q) PROVE DirInv'
<1> DEFINE e == [dir[q] EXCEPT !.alias = TRUE, !.primary = IF kind = "PDSE" THEN q ELSE Nothing]
<1>1. PICK i \in DOMAIN Instants : dir[q] # Nothing /\ Change(n, i, e, past[q])
  BY Zenon DEF AddAlias
<1>2. EntryTrue(dir[q], past[q])
  BY <1>1 DEF DirInv
<1>3. e \in Smdes /\ e.ext = dir[q].ext /\ e.user = dir[q].user
  BY <1>2 DEF EntryTrue, Smdes
<1> HIDE DEF e
<1>4. EntryTrue(e, past[q])
  BY <1>2, <1>3 DEF EntryTrue
<1> QED
  BY <1>1, <1>4, ChangeTrue

\* No step makes an entry say what is not so.
LEMMA StepDir == DirInv /\ [Next]_vars => DirInv'
<1> SUFFICES ASSUME DirInv, [Next]_vars PROVE DirInv'
  OBVIOUS
<1>1. ASSUME UNCHANGED directory PROVE DirInv'
  BY <1>1 DEF directory, DirInv
<1>2. CASE openmemdir \/ openmemdir_fails \/ readmemdir \/ closememdir
  BY <1>1, <1>2, Zenon DEF openmemdir, openmemdir_fails, readmemdir, closememdir
<1>3. ASSUME NEW n \in Names, NEW clear \in BOOLEAN, readmemdir_entry(n, clear) PROVE DirInv'
  BY <1>1, <1>3, Zenon DEF readmemdir_entry
<1>4. ASSUME NEW n \in Names, WriteEntry(n) PROVE DirInv'
  BY <1>4, WriteTrue
<1>5. ASSUME NEW n \in Names, EditEntry(n) PROVE DirInv'
  BY <1>5, EditTrue
<1>6. ASSUME NEW n \in Names, WithoutStats(n) PROVE DirInv'
  <2>1. PICK i \in DOMAIN Instants, user \in {Nothing, Short} :
          Change(n, i, [alias |-> FALSE, primary |-> Nothing, ext |-> Timestamp(i), user |-> user],
                 [created |-> Instants[i], changed |-> Instants[i], lines |-> 0])
    BY <1>6, Zenon DEF WithoutStats
  <2>2. 0 \in Nat
    OBVIOUS
  <2> QED
    BY <2>1, <2>2, BareTrue, ChangeTrue
<1>7. ASSUME NEW n \in Names, DeleteEntry(n) PROVE DirInv'
  BY <1>7, ChangeTrue DEF DeleteEntry
<1>8. ASSUME NEW n \in Names, NEW q \in Names, AddAlias(n, q) PROVE DirInv'
  BY <1>8, AliasTrue
<1>9. CASE UNCHANGED vars
  BY <1>1, <1>9 DEF vars, directory
<1> QED
  BY <1>2, <1>3, <1>4, <1>5, <1>6, <1>7, <1>8, <1>9, Zenon DEF Next

-----------------------------------------------------------------------------
(* Single entries                                                          *)

\* A structure that was read into, and what was read.
MstatInv == mstat \in Mstats /\ zeroed \in BOOLEAN /\ EntryRead

\* What is read of an entry that says the truth is what EntryRead says of it.
LEMMA ReadTrue ==
  ASSUME DirInv, mstat \in Mstats, NEW n \in Names, NEW clear \in BOOLEAN,
         readmemdir_entry(n, clear)
  PROVE  MstatInv'
<1> DEFINE e == dir[n]
           m == IF clear THEN Zeroed ELSE mstat
           r == smde_to_mstat(n, e, m)
           stats == e.user \notin {Nothing, Short}
<1>1. /\ e # Nothing /\ mstat' = r /\ zeroed' = clear
      /\ told' = [truly |-> past[n], ext |-> e.ext # Nothing, stats |-> stats]
  BY DEF readmemdir_entry, find_desp
<1>2. EntryTrue(e, past[n])
  BY <1>1 DEF DirInv
<1>3. m \in Mstats /\ (clear => ~m.has_ext /\ ~m.ispf_stats)
  <2>1. Zeroed.has_ext = FALSE /\ Zeroed.ispf_stats = FALSE
    BY DEF Zeroed
  <2> QED
    BY <2>1, EmptyMstats
<1> HIDE DEF e, m
<1>4. /\ r \in Mstats
      /\ e.ext # Nothing => r.has_ext /\ ExtTrue(r, past[n])
      /\ e.ext = Nothing => r.has_ext = m.has_ext
      /\ stats => r.ispf_stats /\ StatsTrue(r, past[n])
      /\ ~stats => r.ispf_stats \in {FALSE, m.ispf_stats}
  BY <1>2, <1>3, EntryToMstat
<1> HIDE DEF r, stats
<1>5. /\ told'.truly = past[n] /\ told'.ext = (e.ext # Nothing) /\ told'.stats = stats
  BY <1>1
<1>6. r.has_ext \in BOOLEAN /\ r.ispf_stats \in BOOLEAN /\ m.has_ext \in BOOLEAN /\ m.ispf_stats \in BOOLEAN
  BY <1>3, <1>4 DEF Mstats
<1>7. (e.ext # Nothing) \in BOOLEAN /\ stats \in BOOLEAN
  BY DEF stats
<1>8. clear => r.has_ext = (e.ext # Nothing) /\ r.ispf_stats = stats
  BY <1>3, <1>4, <1>6, <1>7
<1>9. told'.ext => mstat'.has_ext /\ ExtTrue(mstat', told'.truly)
  BY <1>1, <1>4, <1>5
<1>10. told'.stats => mstat'.ispf_stats /\ StatsTrue(mstat', told'.truly)
  BY <1>1, <1>4, <1>5
<1>11. zeroed' => mstat'.has_ext = told'.ext /\ mstat'.ispf_stats = told'.stats
  BY <1>1, <1>5, <1>8
<1>12. mstat' \in Mstats /\ zeroed' \in BOOLEAN
  BY <1>1, <1>4
<1>13. EntryRead'
  BY <1>9, <1>10, <1>11 DEF EntryRead
<1> QED
  BY <1>12, <1>13 DEF MstatInv

\* Nothing else changes the structure.
LEMMA StepMstat == DirInv /\ MstatInv /\ [Next]_vars => MstatInv'
<1> SUFFICES ASSUME DirInv, MstatInv, [Next]_vars PROVE MstatInv'
  OBVIOUS
<1>1. ASSUME UNCHANGED reader PROVE MstatInv'
  BY <1>1 DEF reader, MstatInv, EntryRead, StatsTrue, ExtTrue
<1>2. CASE openmemdir \/ openmemdir_fails \/ readmemdir \/ closememdir
  BY <1>1, <1>2, Zenon DEF openmemdir, openmemdir_fails, readmemdir, closememdir
<1>3. ASSUME NEW n \in Names, NEW clear \in BOOLEAN, readmemdir_entry(n, clear) PROVE MstatInv'
  BY <1>3, ReadTrue DEF MstatInv
<1>4. ASSUME NEW n, NEW i, NEW e, NEW p, Change(n, i, e, p) PROVE MstatInv'
  BY <1>1, <1>4 DEF Change
<1>5. ASSUME NEW n \in Names,
             WriteEntry(n) \/ EditEntry(n) \/ WithoutStats(n) \/ DeleteEntry(n)
               \/ \E q \in Names : AddAlias(n, q)
      PROVE  MstatInv'
  <2>1. CASE WriteEntry(n)
    BY <1>4, <2>1, Zenon DEF WriteEntry
  <2>2. CASE EditEntry(n)
    BY <1>4, <2>2, Zenon DEF EditEntry
  <2>3. CASE WithoutStats(n)
    BY <1>4, <2>3, Zenon DEF WithoutStats
  <2>4. CASE DeleteEntry(n)
    BY <1>4, <2>4, Zenon DEF DeleteEntry
  <2>5. CASE \E q \in Names : AddAlias(n, q)
    BY <1>4, <2>5, Zenon DEF AddAlias
  <2> QED
    BY <1>5, <2>1, <2>2, <2>3, <2>4, <2>5
<1>6. CASE UNCHANGED vars
  BY <1>1, <1>6 DEF vars, reader
<1> QED
  BY <1>2, <1>3, <1>5, <1>6, Zenon DEF Next

-----------------------------------------------------------------------------
(* The listing                                                             *)

\* What an entry of the listing says is true of a member as p says, and its times can
\* be printed.
ShownTrue(m, p) ==
  /\ m \in Mstats
  /\ m.has_ext => ExtTrue(m, p) /\ m.ext_changed.day \in Readable
  /\ m.ispf_stats => StatsTrue(m, p) /\ m.ispf_changed.day \in Readable

NameShown(m) == IF m.alias_name # Nothing THEN m.alias_name ELSE m.name

\* The members that the listing is of, and the entries of a listing: one for each, in
\* the order asked for, with what is true of it.
Snapped(s) == {n \in Names : s[n] # Nothing}

HeadTrue(head, s, by) ==
  /\ Len(head) = Cardinality(Snapped(s))
  /\ \A i \in 1..Len(head) : /\ head[i].of \in Snapped(s)
                             /\ ShownTrue(head[i].m, s[head[i].of])
                             /\ NameShown(head[i].m) = head[i].of
  /\ \A n \in Snapped(s) : \E i \in 1..Len(head) : head[i].of = n
  /\ \A i, j \in 1..Len(head) : i < j => MayPrecede(by, head[i].m, head[j].m)

\* What is printed so far are the first entries; in the end, all.
ListingInv ==
  /\ at \in {"start", "reading", "ended", "other"}
  /\ sort \in [time: BOOLEAN, reverse: BOOLEAN] \cup {Nothing}
  /\ at \in {"start", "other"} => snap = Nothing /\ printed = <<>> /\ md = Nothing
  /\ at = "ended" => md = Nothing /\ ListingSorted
  /\ at = "reading" => /\ md \in Memdirs /\ md.cur <= Len(md.head) /\ HeadTrue(md.head, snap, sort)
                       /\ printed = [i \in 1..md.cur |-> print_mem(md.head[i])]
                       /\ sort \in [time: BOOLEAN, reverse: BOOLEAN]

\* The time in a line is the time the entries are sorted by.
LEMMA ShownTime ==
  ASSUME NEW e, NEW p, ShownTrue(e.m, p)
  PROVE  Shown(print_mem(e)) = chgtime(e.m)
<1> DEFINE c == IF e.m.has_ext THEN localtime(e.m.ext_changed)
                ELSE IF e.m.ispf_stats THEN localtime(e.m.ispf_changed) ELSE Nothing
<1>1. print_mem(e).changed = c
  BY DEF print_mem
<1>2. e.m.ext_changed \in Times /\ e.m.ispf_changed \in Times
  BY DEF ShownTrue, Mstats
<1>3. CASE e.m.has_ext
  <2>1. localtime(e.m.ext_changed) \in Tms /\ mktime(localtime(e.m.ext_changed)) = e.m.ext_changed
    BY <1>2, <1>3, LocalTime DEF ShownTrue
  <2> QED
    BY <1>1, <1>3, <2>1, NothingAssumption DEF Shown, chgtime
<1>4. CASE ~e.m.has_ext /\ e.m.ispf_stats
  <2>1. /\ localtime(e.m.ispf_changed) \in Tms
        /\ mktime(localtime(e.m.ispf_changed)) = e.m.ispf_changed
    BY <1>2, <1>4, LocalTime DEF ShownTrue
  <2> QED
    BY <1>1, <1>4, <2>1, NothingAssumption DEF Shown, chgtime
<1>5. CASE ~e.m.has_ext /\ ~e.m.ispf_stats
  BY <1>1, <1>5 DEF Shown, chgtime
<1> QED
  BY <1>3, <1>4, <1>5

\* So entries in the order that qsort makes are lines in the order asked for.
LEMMA LinesOrdered ==
  ASSUME sort \in [time: BOOLEAN, reverse: BOOLEAN],
         NEW d, NEW e, NEW p, NEW q, ShownTrue(d.m, p), ShownTrue(e.m, q),
         MayPrecede(sort, d.m, e.m)
  PROVE  InOrder(print_mem(d), print_mem(e))
<1>1. Shown(print_mem(d)) = chgtime(d.m) /\ Shown(print_mem(e)) = chgtime(e.m)
  BY ShownTime
<1>2. print_mem(d).name = d.m.name /\ print_mem(e).name = e.m.name
  BY DEF print_mem
<1>3. sort.time \in BOOLEAN /\ sort.reverse \in BOOLEAN
  OBVIOUS
<1>4. CASE sort.time /\ sort.reverse
  BY <1>1, <1>4 DEF MayPrecede, InOrder
<1>5. CASE sort.time /\ ~sort.reverse
  BY <1>1, <1>5 DEF MayPrecede, InOrder
<1>6. CASE ~sort.time /\ sort.reverse
  BY <1>2, <1>6 DEF MayPrecede, InOrder
<1>7. CASE ~sort.time /\ ~sort.reverse
  BY <1>2, <1>7 DEF MayPrecede, InOrder
<1> QED
  BY <1>3, <1>4, <1>5, <1>6, <1>7

\* The order of what is printed, whether there is more to come or not.
LEMMA PrintedSorted ==
  ASSUME ListingInv
  PROVE  ListingSorted
<1>1. CASE at \in {"start", "other"}
  <2>1. printed = <<>> /\ at # "ended"
    BY <1>1 DEF ListingInv
  <2>2. DOMAIN printed = {}
    BY <2>1
  <2> QED
    BY <2>1, <2>2 DEF ListingSorted
<1>2. CASE at = "reading"
  <2> DEFINE head == md.head
             c == md.cur
  <2>1. /\ head \in Seq([of: Names, m: Mstats]) /\ c \in Nat /\ c <= Len(head) /\ HeadTrue(head, snap, sort)
        /\ printed = [i \in 1..c |-> print_mem(head[i])]
        /\ sort \in [time: BOOLEAN, reverse: BOOLEAN]
    BY <1>2 DEF ListingInv, Memdirs
  <2>2. Len(head) \in Nat
    BY <2>1
  <2> HIDE DEF head, c
  <2>3. DOMAIN printed = 1..c /\ \A i \in 1..c : printed[i] = print_mem(head[i]) /\ i \in 1..Len(head)
    BY <2>1, <2>2
  <2>4. ASSUME NEW i \in DOMAIN printed, NEW j \in DOMAIN printed, i < j
        PROVE  InOrder(printed[i], printed[j])
    <3>1. i \in 1..c /\ j \in 1..c
      BY <2>3, <2>4
    <3>2. i \in 1..Len(head) /\ j \in 1..Len(head)
      BY <2>3, <3>1
    <3>3. /\ ShownTrue(head[i].m, snap[head[i].of]) /\ ShownTrue(head[j].m, snap[head[j].of])
          /\ MayPrecede(sort, head[i].m, head[j].m)
      BY <2>1, <2>4, <3>2 DEF HeadTrue
    <3>4. InOrder(print_mem(head[i]), print_mem(head[j]))
      BY <2>1, <3>3, LinesOrdered
    <3> QED
      BY <2>3, <3>1, <3>4
  <2> QED
    BY <1>2, <2>4 DEF ListingSorted
<1>3. CASE at = "ended"
  BY <1>3 DEF ListingInv
<1> QED
  BY <1>1, <1>2, <1>3 DEF ListingInv

\* An entry as openmemdir makes it of a directory entry that says the truth.
LEMMA ListedTrue ==
  ASSUME DirInv, NEW n \in Members
  PROVE  ShownTrue(Listed(n), past[n]) /\ NameShown(Listed(n)) = n
<1> DEFINE e == dir[n]
           m == smde_to_mstat(n, e, Zeroed)
           l == Listed(n)
<1>1. n \in Names /\ n \in Nat /\ n # Nothing /\ EntryTrue(e, past[n])
  BY MemDirAssumption, NothingAssumption DEF Members, DirInv
<1>2. Zeroed \in Mstats /\ Zeroed.has_ext = FALSE /\ Zeroed.ispf_stats = FALSE
  BY EmptyMstats DEF Zeroed
<1>3. l = IF m.name = Nothing THEN [m EXCEPT !.name = Garbage] ELSE m
  BY DEF Listed, mstat_to_mdir, desp_to_mstats, get_desp_all
<1> HIDE DEF e
<1>4. /\ m \in Mstats
      /\ m.name = IF e.alias THEN e.primary ELSE n
      /\ m.alias_name = IF e.alias THEN n ELSE Nothing
      /\ e.ext # Nothing => m.has_ext /\ ExtTrue(m, past[n]) /\ m.ext_changed.day \in Readable
      /\ e.ext = Nothing => m.has_ext = Zeroed.has_ext
      /\ e.user \notin {Nothing, Short} =>
           m.ispf_stats /\ StatsTrue(m, past[n]) /\ m.ispf_changed.day \in Readable
      /\ e.user \in {Nothing, Short} => m.ispf_stats \in {FALSE, Zeroed.ispf_stats}
  BY <1>1, <1>2, EntryToMstat
<1> HIDE DEF m, l
<1>5. ShownTrue(m, past[n])
  BY <1>2, <1>4 DEF ShownTrue
<1>6. NameShown(m) = n /\ (m.name = Nothing => m.alias_name # Nothing)
  BY <1>1, <1>4 DEF NameShown
<1>7. CASE m.name = Nothing
  <2>1. l = [m EXCEPT !.name = Garbage]
    BY <1>3, <1>7
  <2>2. Garbage \in Nat
    BY DEF Garbage
  <2>3. l \in Mstats
    BY <1>4, <2>1, <2>2 DEF Mstats
  <2>4. /\ l.has_ext = m.has_ext /\ l.ext_changed = m.ext_changed
        /\ l.ispf_stats = m.ispf_stats /\ l.ispf_created = m.ispf_created
        /\ l.ispf_changed = m.ispf_changed /\ l.ispf_current_lines = m.ispf_current_lines
        /\ l.alias_name = m.alias_name
    BY <1>4, <2>1 DEF Mstats
  <2>5. ShownTrue(l, past[n])
    BY <1>5, <2>3, <2>4 DEF ShownTrue, ExtTrue, StatsTrue
  <2>6. NameShown(l) = n
    BY <1>6, <1>7, <2>4 DEF NameShown
  <2> QED
    BY <2>5, <2>6 DEF l
<1>8. CASE m.name # Nothing
  BY <1>3, <1>5, <1>6, <1>8 DEF l
<1> QED
  BY <1>7, <1>8

\* What openmemdir has made is a listing of the members there are.
LEMMA OpenListing == ASSUME DirInv, ListingInv, openmemdir PROVE ListingInv'
<1> DEFINE k == Cardinality(Members)
           entries == mstat_to_mdir(desp_to_mstats(get_desp_all))
<1>1. PICK order \in Arrangements(sort', entries) :
        md' = [head |-> [i \in DOMAIN order |-> [of |-> order[i], m |-> Listed(order[i])]], cur |-> 0]
  BY Zenon DEF openmemdir, Listed
<1>2. /\ sort' \in [time: BOOLEAN, reverse: BOOLEAN] /\ snap' = past /\ at' = "reading"
      /\ printed' = printed /\ at = "start"
  BY DEF openmemdir
<1>3. /\ order \in [1..k -> Members]
      /\ \A m \in Members : \E i \in 1..k : order[i] = m
      /\ \A i, j \in 1..k : i < j => MayPrecede(sort', Listed(order[i]), Listed(order[j]))
  BY Zenon DEF Arrangements, Listed
<1>4. k \in Nat
  <2>1. IsFiniteSet(Members)
    <3>1. Members \subseteq Names /\ IsFiniteSet(Names)
      BY MemDirAssumption DEF Members
    <3> QED
      BY <3>1, FS_Subset
  <2> QED
    BY <2>1, FS_CardinalityType
<1>5. Snapped(past) = Members
  <2>1. ASSUME NEW n \in Names PROVE past[n] # Nothing <=> dir[n] # Nothing
    BY NothingAssumption DEF DirInv, EntryTrue
  <2> QED
    BY <2>1 DEF Members, Snapped
<1> HIDE DEF entries
<1> DEFINE head == [i \in 1..k |-> [of |-> order[i], m |-> Listed(order[i])]]
<1>6. md' = [head |-> head, cur |-> 0]
  BY <1>1, <1>3
<1>51. Cardinality(Snapped(past)) = k
  BY <1>5
<1> HIDE DEF k
<1>7. \A i \in 1..k : head[i].of = order[i] /\ head[i].m = Listed(order[i]) /\ order[i] \in Members
  BY <1>3
<1>8. /\ \A i \in 1..k : /\ head[i] \in [of: Names, m: Mstats]
                         /\ ShownTrue(head[i].m, past[head[i].of])
                         /\ NameShown(head[i].m) = head[i].of
  <2> SUFFICES ASSUME NEW i \in 1..k
               PROVE  /\ head[i] \in [of: Names, m: Mstats]
                      /\ ShownTrue(head[i].m, past[head[i].of])
                      /\ NameShown(head[i].m) = head[i].of
    OBVIOUS
  <2>1. ShownTrue(Listed(order[i]), past[order[i]]) /\ NameShown(Listed(order[i])) = order[i]
    BY <1>7, ListedTrue
  <2>2. order[i] \in Names /\ Listed(order[i]) \in Mstats
    BY <1>7, <2>1 DEF Members, ShownTrue
  <2> QED
    BY <1>7, <2>1, <2>2
<1>9. head \in Seq([of: Names, m: Mstats]) /\ Len(head) = k
  <2>1. \A i \in 1..k : head[i] \in [of: Names, m: Mstats]
    BY <1>8
  <2> QED
    BY <1>4, <2>1
<1> HIDE DEF head
<1>10. md' \in Memdirs /\ md'.head = head /\ md'.cur = 0
  BY <1>6, <1>9 DEF Memdirs
<1>11. HeadTrue(head, past, sort')
  BY <1>3, <1>5, <1>51, <1>7, <1>8, <1>9 DEF HeadTrue
<1>12. printed' = <<>>
  BY <1>2 DEF ListingInv
<1>13. printed' = [i \in 1..md'.cur |-> print_mem(md'.head[i])]
  <2>1. 1..0 = {} /\ <<>> = [i \in {} |-> print_mem(md'.head[i])]
    OBVIOUS
  <2> QED
    BY <1>10, <1>12, <2>1
<1>14. md'.cur <= Len(md'.head)
  BY <1>4, <1>9, <1>10
<1> QED
  BY <1>2, <1>10, <1>11, <1>13, <1>14 DEF ListingInv

\* readmemdir prints the next entry.
LEMMA ReadListing == ASSUME ListingInv, readmemdir PROVE ListingInv'
<1> DEFINE head == md.head
           c == md.cur
           S == {print_mem(head[i]) : i \in 1..Len(head)}
           next == c + 1
<1>1. /\ md \in Memdirs /\ HeadTrue(head, snap, sort) /\ c <= Len(head)
      /\ printed = [i \in 1..c |-> print_mem(head[i])]
      /\ sort \in [time: BOOLEAN, reverse: BOOLEAN]
  BY DEF ListingInv, readmemdir
<1>2. /\ at = "reading" /\ at' = at /\ c # Len(head) /\ md' = [md EXCEPT !.cur = @ + 1]
      /\ printed' = Append(printed, print_mem(head[c + 1]))
      /\ sort' = sort /\ snap' = snap
  BY DEF readmemdir
<1>3. head \in Seq([of: Names, m: Mstats]) /\ c \in Nat
  BY <1>1 DEF Memdirs
<1>4. md' \in Memdirs /\ md'.head = head /\ md'.cur = next
  BY <1>1, <1>2, <1>3 DEF Memdirs
<1>5. Len(head) \in Nat
  BY <1>3
<1> HIDE DEF head, c
<1>6. next \in Nat /\ next <= Len(head)
  BY <1>1, <1>2, <1>3, <1>5
<1>7. printed \in Seq(S) /\ Len(printed) = c /\ \A i \in 1..c : printed[i] = print_mem(head[i])
  <2>1. \A i \in 1..c : i \in 1..Len(head)
    BY <1>1, <1>3, <1>5
  <2>2. \A i \in 1..c : print_mem(head[i]) \in S
    BY <2>1
  <2> HIDE DEF S
  <2> QED
    BY <1>1, <1>3, <2>2
<1> HIDE DEF S
<1>8. printed' = [i \in 1..next |-> print_mem(head[i])]
  <2>1. printed' = [i \in 1..c + 1 |-> IF i = c + 1 THEN print_mem(head[c + 1]) ELSE printed[i]]
    BY <1>2, <1>7
  <2>2. \A i \in 1..c + 1 : (IF i = c + 1 THEN print_mem(head[c + 1]) ELSE printed[i]) = print_mem(head[i])
    <3>1. \A i \in 1..c + 1 : i = c + 1 \/ i \in 1..c
      BY <1>3
    <3> QED
      BY <1>7, <3>1
  <2> QED
    BY <2>1, <2>2
<1> HIDE DEF next
<1>9. printed' = [i \in 1..md'.cur |-> print_mem(md'.head[i])]
  BY <1>4, <1>8
<1>10. HeadTrue(md'.head, snap', sort') /\ md'.cur <= Len(md'.head)
  BY <1>1, <1>2, <1>4, <1>6
<1> QED
  BY <1>1, <1>2, <1>4, <1>9, <1>10 DEF ListingInv

\* When closememdir is called all of the listing is printed, and it is of every member.
LEMMA CloseListing == ASSUME ListingInv, closememdir PROVE ListingInv'
<1> DEFINE head == md.head
           c == md.cur
<1>1. /\ md \in Memdirs /\ HeadTrue(head, snap, sort) /\ c = Len(head)
      /\ printed = [i \in 1..c |-> print_mem(head[i])]
      /\ sort \in [time: BOOLEAN, reverse: BOOLEAN]
  BY DEF ListingInv, closememdir
<1>2. at' = "ended" /\ md' = Nothing /\ sort' = sort /\ snap' = snap /\ printed' = printed
  BY DEF closememdir
<1>3. head \in Seq([of: Names, m: Mstats]) /\ c \in Nat
  BY <1>1 DEF Memdirs
<1> HIDE DEF head, c
<1>4. \A i, j \in DOMAIN printed' : i < j => InOrder(printed[i], printed[j])
  BY <1>2, PrintedSorted DEF ListingSorted
<1>5. \A p, q : InOrder(p, q)' <=> InOrder(p, q)
  BY <1>2 DEF InOrder, Shown
<1>6. DOMAIN printed = 1..c /\ Len(printed) = c /\ \A i \in 1..c : printed[i] = print_mem(head[i])
  BY <1>1, <1>3
<1>7. Len(printed) = Cardinality(Snapped(snap))
  BY <1>1, <1>6 DEF HeadTrue
<1>8. ASSUME NEW n \in Snapped(snap)
      PROVE  \E i \in DOMAIN printed :
               n = IF printed[i].alias_name # Nothing THEN printed[i].alias_name ELSE printed[i].name
  <2>1. PICK i \in 1..c : head[i].of = n /\ NameShown(head[i].m) = head[i].of
    BY <1>1 DEF HeadTrue
  <2>2. /\ printed[i].alias_name = head[i].m.alias_name /\ printed[i].name = head[i].m.name
    BY <1>6 DEF print_mem
  <2> QED
    BY <1>6, <2>1, <2>2 DEF NameShown
<1>9. Snapped(snap) = {n \in Names : snap[n] # Nothing}
  BY DEF Snapped
<1>10. ListingSorted'
  BY <1>2, <1>4, <1>5, <1>7, <1>8, <1>9 DEF ListingSorted
<1> QED
  BY <1>1, <1>2, <1>10 DEF ListingInv

\* Nothing else changes the listing.
LEMMA StepListing == DirInv /\ ListingInv /\ [Next]_vars => ListingInv'
<1> SUFFICES ASSUME DirInv, ListingInv, [Next]_vars PROVE ListingInv'
  OBVIOUS
<1>1. ASSUME UNCHANGED mlsx PROVE ListingInv'
  BY <1>1 DEF mlsx, ListingInv, ListingSorted, InOrder, Shown
<1>2. CASE openmemdir
  BY <1>2, OpenListing
<1>3. CASE openmemdir_fails
  <2>1. /\ at = "start" /\ at' = "ended" /\ sort' = sort /\ md' = md /\ snap' = snap /\ printed' = printed
        /\ snap = Nothing /\ printed = <<>> /\ md = Nothing
    BY <1>3 DEF openmemdir_fails, ListingInv
  <2>2. DOMAIN printed' = {}
    BY <2>1
  <2>3. ListingSorted'
    BY <2>1, <2>2 DEF ListingSorted
  <2> QED
    BY <2>1, <2>3 DEF ListingInv
<1>4. CASE readmemdir
  BY <1>4, ReadListing
<1>5. CASE closememdir
  BY <1>5, CloseListing
<1>6. ASSUME NEW n \in Names,
             \/ \E clear \in BOOLEAN : readmemdir_entry(n, clear)
             \/ WriteEntry(n) \/ EditEntry(n) \/ WithoutStats(n) \/ DeleteEntry(n)
             \/ \E p \in Names : AddAlias(n, p)
      PROVE  ListingInv'
  BY <1>1, <1>6, OtherSteps
<1>7. CASE UNCHANGED vars
  BY <1>1, <1>7 DEF vars, mlsx
<1> QED
  BY <1>2, <1>3, <1>4, <1>5, <1>6, <1>7, Zenon DEF Next

-----------------------------------------------------------------------------
(* What holds of every run                                                 *)

MemDirInv == DirInv /\ MstatInv /\ ListingInv /\ StringsInv

\* The invariant at the beginning ...
LEMMA InitMemDir == Init => MemDirInv
<1> SUFFICES ASSUME Init PROVE MemDirInv
  OBVIOUS
<1>1. DirInv
  <2>1. Len(Instants) \in Nat
    BY MemDirAssumption
  <2> QED
    BY <2>1 DEF Init, DirInv
<1>2. MstatInv
  BY EmptyMstats DEF Init, MstatInv, EntryRead
<1>3. ListingInv
  BY DEF Init, ListingInv
<1>4. StringsInv
  BY DEF Init, StringsInv
<1> QED
  BY <1>1, <1>2, <1>3, <1>4 DEF MemDirInv

\* ... and after every step.
LEMMA StepMemDir == MemDirInv /\ [Next]_vars => MemDirInv'
BY StepDir, StepMstat, StepListing, StepStrings DEF MemDirInv

\* Every number that is written into a directory entry fits its field, whatever the
\* time of the change and the length of the member; the MEMDIR and the mstat hold what
\* their types say, with no entry printed that is not in the MEMDIR.
THEOREM MemDirTypes == Spec => []TypeOK
<1>1. MemDirInv => TypeOK
  <2> SUFFICES ASSUME MemDirInv PROVE TypeOK
    OBVIOUS
  <2>1. /\ kind \in {"PDS", "PDSE"} /\ tick \in 0..Len(Instants)
        /\ \A n \in Members : dir[n] \in Smdes /\ past[n] \in Pasts
    BY DEF MemDirInv, DirInv, Members, EntryTrue
  <2>2. mstat \in Mstats /\ zeroed \in BOOLEAN
    BY DEF MemDirInv, MstatInv
  <2>3. /\ at \in {"start", "reading", "ended", "other"}
        /\ sort \in [time: BOOLEAN, reverse: BOOLEAN] \cup {Nothing}
        /\ at # "reading" => md = Nothing
        /\ at = "reading" => /\ md \in Memdirs /\ md.cur <= Len(md.head)
                             /\ printed = [i \in 1..md.cur |-> print_mem(md.head[i])]
    BY DEF MemDirInv, ListingInv
  <2>4. at = "reading" <=> md # Nothing
    BY <2>3, NothingAssumption
  <2>5. md # Nothing => md \in Memdirs /\ md.cur = Len(printed) /\ md.cur <= Len(md.head)
    <3>1. SUFFICES ASSUME md # Nothing PROVE md.cur = Len(printed)
      BY <2>3, <2>4
    <3>2. md.cur \in Nat
      BY <2>3, <2>4, <3>1 DEF Memdirs
    <3>3. \A k \in Nat : \A f : f = [i \in 1..k |-> print_mem(md.head[i])] => Len(f) = k
      OBVIOUS
    <3> QED
      BY <2>3, <2>4, <3>1, <3>2, <3>3
  <2>6. live \subseteq Names \X {"name", "alias_name", "ext_id", "ispf_id"}
    <3>1. CASE at # "reading"
      BY <3>1 DEF MemDirInv, StringsInv
    <3>2. CASE at = "reading"
      <4> DEFINE head == md.head
      <4>1. live = StringsOf(head) /\ head \in Seq([of: Names, m: Mstats])
        BY <2>3, <3>2 DEF MemDirInv, StringsInv, Memdirs
      <4> HIDE DEF head
      <4>2. ASSUME NEW x \in StringsOf(head)
            PROVE  x \in Names \X {"name", "alias_name", "ext_id", "ispf_id"}
        <5>1. PICK i \in DOMAIN head : x \in {<<head[i].of, f>> : f \in Strings(head[i].m)}
          BY DEF StringsOf
        <5>2. PICK f \in Strings(head[i].m) : x = <<head[i].of, f>>
          BY <5>1
        <5>3. f \in {"name", "alias_name", "ext_id", "ispf_id"}
          BY DEF Strings
        <5>4. head[i] \in [of: Names, m: Mstats]
          <6>1. i \in 1..Len(head)
            BY <4>1
          <6>2. \A S : \A s \in Seq(S) : \A k \in 1..Len(s) : s[k] \in S
            OBVIOUS
          <6> QED
            BY <4>1, <6>1, <6>2
        <5> QED
          BY <5>2, <5>3, <5>4
      <4> QED
        BY <4>1, <4>2
    <3> QED
      BY <3>1, <3>2
  <2> QED
    BY <2>1, <2>2, <2>3, <2>4, <2>5, <2>6 DEF TypeOK
<1> QED
  BY <1>1, InitMemDir, StepMemDir, PTL DEF Spec

\* However the directory changes while mlsx reads it, what mlsx prints is in the order
\* asked for by the times and names that it prints, and it prints every entry there was
\* when openmemdir read the directory, once (memdir.c:121-240, 390-486).
THEOREM ListingInOrder == Spec => []ListingSorted
<1>1. MemDirInv => ListingSorted
  BY PrintedSorted DEF MemDirInv
<1> QED
  BY <1>1, InitMemDir, StepMemDir, PTL DEF Spec

\* What a listing says of a member is what was so when it was read: the dates of creation
\* and change through packed Julian dates, the lines through two sets of counts, the time
\* of the extended attributes through the TOD clock; for all times of 1970 to 2099.
THEOREM ListingTellsTruth == Spec => []StatisticsTrue
<1>1. MemDirInv => StatisticsTrue
  <2> SUFFICES ASSUME MemDirInv, md # Nothing, NEW i \in DOMAIN md.head
               PROVE  LET e == md.head[i]
                      IN  /\ e.m.ispf_stats => StatsTrue(e.m, snap[e.of])
                          /\ e.m.has_ext => ExtTrue(e.m, snap[e.of])
    BY DEF StatisticsTrue
  <2> DEFINE head == md.head
  <2>1. head \in Seq([of: Names, m: Mstats]) /\ HeadTrue(head, snap, sort)
    BY DEF MemDirInv, ListingInv, Memdirs
  <2> HIDE DEF head
  <2>2. i \in 1..Len(head)
    <3>1. i \in DOMAIN head
      BY DEF head
    <3> QED
      BY <2>1, <3>1
  <2>3. ShownTrue(head[i].m, snap[head[i].of])
    BY <2>1, <2>2 DEF HeadTrue
  <2> QED
    BY <2>3 DEF ShownTrue, head
<1> QED
  BY <1>1, InitMemDir, StepMemDir, PTL DEF Spec

\* A program that reads an entry into a structure of its own is told what is so of the
\* member, whatever was in the structure before; and if it had cleared it, nothing else
\* (readmemdir_entry, smde_to_mstat).
THEOREM EntryTellsTruth == Spec => []EntryRead
<1>1. MemDirInv => EntryRead
  BY DEF MemDirInv, MstatInv
<1> QED
  BY <1>1, InitMemDir, StepMemDir, PTL DEF Spec

=============================================================================
