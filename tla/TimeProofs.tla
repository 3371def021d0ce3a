----------------------------- MODULE TimeProofs -----------------------------
(***************************************************************************)
(* The calendar and the seconds of TimeOfDay agree, for any clock rate,    *)
(* timers, tasks and times the clock is set to.                            *)
(***************************************************************************)
EXTENDS TimeOfDay, TLAPS

\* Zenon is tried on every leaf that names no other prover.
USE Zenon

-----------------------------------------------------------------------------
DaysInYear(year) == IF Leap(year) THEN 366 ELSE 365

\* The tables of tod.h fit together: a month of _TOD_Days_to_date begins when the
\* one before it has lasted as long as _TOD_Days_per_month says.
LEMMA MonthsFit ==
  ASSUME NEW year \in Nat, NEW month \in 1 .. 12
  PROVE  /\ Days_per_month(year)[month] \in 28 .. 31
         /\ Days_to_date(year)[month] \in 0 .. 335
         /\ month < 12 => /\ Days_per_month(year)[month + 1] \in 28 .. 31
                          /\ Days_to_date(year)[month + 1]
                               = Days_to_date(year)[month] + Days_per_month(year)[month]
<1>1. month = 1 \/ month = 2 \/ month = 3 \/ month = 4 \/ month = 5 \/ month = 6
      \/ month = 7 \/ month = 8 \/ month = 9 \/ month = 10 \/ month = 11 \/ month = 12
  BY SMT
<1>2. CASE Leap(year)
  BY <1>1, <1>2, SMT DEF Days_per_month, Days_to_date
<1>3. CASE ~Leap(year)
  BY <1>1, <1>3, SMT DEF Days_per_month, Days_to_date
<1> QED
  BY <1>2, <1>3

\* The months of a year are its days.
LEMMA YearEnds ==
  ASSUME NEW year \in Nat
  PROVE  /\ Days_per_month(year)[1] = 31 /\ Days_to_date(year)[1] = 0
         /\ Days_to_date(year)[12] + Days_per_month(year)[12] = DaysInYear(year)
BY SMT DEF Days_per_month, Days_to_date, DaysInYear

\* A year is one of four.
LEMMA QuarterFits ==
  ASSUME NEW year \in Nat, year >= 1988
  PROVE  \E q \in Nat, r \in 0 .. 3 : year = 1988 + 4 * q + r
<1> DEFINE n == year - 1988
<1>1. n \in Nat
  BY SMT
<1> HIDE DEF n
<1>2. n \div 4 \in Nat /\ n % 4 \in 0 .. 3
  BY <1>1, SMT
<1>3. n = 4 * (n \div 4) + (n % 4)
  BY <1>1, SMT
<1>4. \E q \in Nat, r \in 0 .. 3 : n = 4 * q + r
  BY <1>2, <1>3, SMT
<1> QED
  BY <1>4, SMT DEF n

\* From one first of January to the next the days of the year are counted.
LEMMA YearsFit ==
  ASSUME NEW year \in Nat, year >= Base_year
  PROVE  /\ DaysToYear(year) \in Nat
         /\ DaysToYear(year + 1) = DaysToYear(year) + DaysInYear(year)
<1>1. PICK q \in Nat, r \in 0 .. 3 : year = 1988 + 4 * q + r
  BY QuarterFits, SMT DEF Base_year
<1>2. CASE r = 0
  <2>1. year % 4 = 0 /\ (year - 1988) \div 4 = q
    BY <1>1, <1>2, SMT
  <2>2. (year + 1) % 4 = 1 /\ (year + 1 - 1988) \div 4 = q
    BY <1>1, <1>2, SMT
  <2> QED
    BY <2>1, <2>2, SMT DEF DaysToYear, Days_since_last_leap_year, DaysInYear, Leap, Base_year
<1>3. CASE r = 1
  <2>1. year % 4 = 1 /\ (year - 1988) \div 4 = q
    BY <1>1, <1>3, SMT
  <2>2. (year + 1) % 4 = 2 /\ (year + 1 - 1988) \div 4 = q
    BY <1>1, <1>3, SMT
  <2> QED
    BY <2>1, <2>2, SMT DEF DaysToYear, Days_since_last_leap_year, DaysInYear, Leap, Base_year
<1>4. CASE r = 2
  <2>1. year % 4 = 2 /\ (year - 1988) \div 4 = q
    BY <1>1, <1>4, SMT
  <2>2. (year + 1) % 4 = 3 /\ (year + 1 - 1988) \div 4 = q
    BY <1>1, <1>4, SMT
  <2> QED
    BY <2>1, <2>2, SMT DEF DaysToYear, Days_since_last_leap_year, DaysInYear, Leap, Base_year
<1>5. CASE r = 3
  <2>1. year % 4 = 3 /\ (year - 1988) \div 4 = q
    BY <1>1, <1>5, SMT
  <2>2. (year + 1) % 4 = 0 /\ (year + 1 - 1988) \div 4 = q + 1
    BY <1>1, <1>5, SMT
  <2> QED
    BY <2>1, <2>2, SMT DEF DaysToYear, Days_since_last_leap_year, DaysInYear, Leap, Base_year
<1> QED
  BY <1>1, <1>2, <1>3, <1>4, <1>5, SMT

-----------------------------------------------------------------------------
\* The day that is not before the end of a month ends it.
LEMMA LastDay ==
  ASSUME NEW day \in Nat, NEW days \in 28 .. 31, day <= days, ~(day < days)
  PROVE  day = days
BY SMT

\* The day after a valid date is a valid date, and one day later.
LEMMA NextDayFits ==
  ASSUME NEW tod \in TODs, ValidDate(tod)
  PROVE  /\ NextDay(tod) \in TODs /\ ValidDate(NextDay(tod))
         /\ Days(tod) \in Nat /\ Days(NextDay(tod)) = Days(tod) + 1
         /\ NextDay(tod).hour = tod.hour /\ NextDay(tod).minute = tod.minute
         /\ NextDay(tod).second = tod.second
<1>1. /\ tod.year \in Nat /\ tod.year >= Base_year /\ tod.month \in 1 .. 12
      /\ tod.day \in Nat /\ tod.day # 0 /\ tod.day <= Days_per_month(tod.year)[tod.month]
      /\ tod.hour < 24 /\ tod.minute < 60 /\ tod.second < 60
  BY SMTT(30) DEF TODs, ValidDate
<1>2. /\ Days_per_month(tod.year)[tod.month] \in 28 .. 31
      /\ Days_to_date(tod.year)[tod.month] \in 0 .. 335
      /\ tod.month < 12 => /\ Days_per_month(tod.year)[tod.month + 1] \in 28 .. 31
                           /\ Days_to_date(tod.year)[tod.month + 1]
                                = Days_to_date(tod.year)[tod.month]
                                  + Days_per_month(tod.year)[tod.month]
  BY <1>1, MonthsFit, ZenonT(30)
<1>3. Days_to_date(tod.year)[12] + Days_per_month(tod.year)[12] = DaysInYear(tod.year)
  BY <1>1, YearEnds
<1>4. /\ DaysToYear(tod.year) \in Nat
      /\ DaysToYear(tod.year + 1) = DaysToYear(tod.year) + DaysInYear(tod.year)
  BY <1>1, YearsFit, SMT
<1>5. Days(tod) \in Nat
  BY <1>1, <1>2, <1>4, SMTT(30) DEF Days
<1> DEFINE next == NextDay(tod)
<1>6. CASE tod.day < DaysOf(tod)
  <2>1. next = [tod EXCEPT !.day = @ + 1]
    BY <1>6 DEF NextDay
  <2>2. /\ next \in TODs /\ next.year = tod.year /\ next.month = tod.month
        /\ next.day = tod.day + 1 /\ next.hour = tod.hour /\ next.minute = tod.minute
        /\ next.second = tod.second
    BY <2>1, SMT DEF TODs
  <2> HIDE DEF next
  <2>3. Days(next) = (tod.day + 1) - 1 + Days_to_date(tod.year)[tod.month]
                     + DaysToYear(tod.year)
    BY <2>2 DEF Days
  <2>4. Days(next) = Days(tod) + 1
    BY <1>1, <1>2, <1>4, <2>3, SMTT(30) DEF Days
  <2>5. ValidDate(next)
    BY <1>1, <1>2, <1>6, <2>2, SMT DEF ValidDate, DaysOf
  <2> QED
    BY <1>5, <2>2, <2>4, <2>5 DEF next
<1>7. CASE ~(tod.day < DaysOf(tod)) /\ tod.month < 12
  <2>1. next = [tod EXCEPT !.day = 1, !.month = @ + 1]
    BY <1>7 DEF NextDay
  <2>2. /\ next \in TODs /\ next.year = tod.year /\ next.month = tod.month + 1
        /\ next.day = 1 /\ next.hour = tod.hour /\ next.minute = tod.minute
        /\ next.second = tod.second
    <3> DEFINE first == [tod EXCEPT !.day = 1]
    <3>1. /\ first \in TODs /\ first.year = tod.year /\ first.month = tod.month
          /\ first.day = 1 /\ first.hour = tod.hour /\ first.minute = tod.minute
          /\ first.second = tod.second
      BY DEF TODs
    <3>2. next = [first EXCEPT !.month = tod.month + 1]
      BY <2>1, ZenonT(30)
    <3> HIDE DEF first, next
    <3> QED
      BY <3>1, <3>2, SMT DEF TODs
  <2> HIDE DEF next
  <2>3. tod.day = Days_per_month(tod.year)[tod.month]
    BY <1>1, <1>2, <1>7, LastDay DEF DaysOf
  <2>4. Days(next) = Days(tod) + 1
    <3>1. Days(next) = 1 - 1 + Days_to_date(tod.year)[tod.month + 1] + DaysToYear(tod.year)
      BY <2>2 DEF Days
    <3>2. Days(tod) = Days_per_month(tod.year)[tod.month] - 1
                      + Days_to_date(tod.year)[tod.month] + DaysToYear(tod.year)
      BY <2>3, SMTT(30) DEF Days
    <3>3. Days_per_month(tod.year)[tod.month] \in Nat /\ Days_to_date(tod.year)[tod.month] \in Nat
      BY <1>2, SMTT(30)
    <3>4. Days_to_date(tod.year)[tod.month + 1]
            = Days_to_date(tod.year)[tod.month] + Days_per_month(tod.year)[tod.month]
      BY <1>2, <1>7
    <3> QED
      BY <1>4, <3>1, <3>2, <3>3, <3>4, SMT
  <2>5. ValidDate(next)
    BY <1>1, <1>2, <1>7, <2>2, SMT DEF ValidDate
  <2> QED
    BY <1>5, <2>2, <2>4, <2>5 DEF next
<1>8. CASE ~(tod.day < DaysOf(tod)) /\ ~(tod.month < 12)
  <2>1. next = [tod EXCEPT !.day = 1, !.month = 1, !.year = @ + 1]
    BY <1>8 DEF NextDay
  <2>2. /\ next \in TODs /\ next.year = tod.year + 1 /\ next.month = 1
        /\ next.day = 1 /\ next.hour = tod.hour /\ next.minute = tod.minute
        /\ next.second = tod.second
    <3> DEFINE first == [tod EXCEPT !.day = 1]
               january == [first EXCEPT !.month = 1]
    <3>1. /\ first \in TODs /\ first.year = tod.year
          /\ first.day = 1 /\ first.hour = tod.hour /\ first.minute = tod.minute
          /\ first.second = tod.second
      BY DEF TODs
    <3>2. next = [january EXCEPT !.year = tod.year + 1]
      BY <2>1
    <3> HIDE DEF first
    <3>3. /\ january \in TODs /\ january.year = tod.year /\ january.month = 1
          /\ january.day = 1 /\ january.hour = tod.hour /\ january.minute = tod.minute
          /\ january.second = tod.second
      BY <3>1, SMTT(30) DEF TODs
    <3> HIDE DEF january, next
    <3> QED
      BY <1>1, <3>2, <3>3, SMT DEF TODs
  <2> HIDE DEF next
  <2>3. tod.month = 12 /\ tod.day = Days_per_month(tod.year)[12]
    BY <1>1, <1>2, <1>8, SMT DEF DaysOf
  <2>4. Days_per_month(tod.year + 1)[1] = 31 /\ Days_to_date(tod.year + 1)[1] = 0
    BY <1>1, YearEnds, SMT
  <2>5. Days(next) = Days(tod) + 1
    <3>1. Days(next) = 1 - 1 + Days_to_date(tod.year + 1)[1] + DaysToYear(tod.year + 1)
      BY <2>2 DEF Days
    <3>2. Days(tod) = Days_per_month(tod.year)[12] - 1
                      + Days_to_date(tod.year)[12] + DaysToYear(tod.year)
      BY <2>3, ZenonT(30) DEF Days
    <3>3. Days_per_month(tod.year)[12] \in Nat /\ Days_to_date(tod.year)[12] \in Nat
      BY <1>2, <2>3, SMT
    <3> QED
      BY <1>3, <1>4, <2>4, <3>1, <3>2, <3>3, SMT
  <2>6. ValidDate(next)
    BY <1>1, <2>2, <2>4, SMT DEF ValidDate, Base_year
  <2> QED
    BY <1>5, <2>2, <2>5, <2>6 DEF next
<1> QED
  BY <1>6, <1>7, <1>8

\* The seconds of a day, an hour, a minute and a second, and their carries.
Count(d, h, m, s) == d * (60 * 60 * 24) + (h * 60 + m) * 60 + s

LEMMA SecondCounts ==
  ASSUME NEW d \in Nat, NEW h \in Nat, NEW m \in Nat, NEW s \in Nat
  PROVE  Count(d, h, m, s + 1) = Count(d, h, m, s) + 1
BY SMT DEF Count

LEMMA MinuteCounts ==
  ASSUME NEW d \in Nat, NEW h \in Nat, NEW m \in Nat
  PROVE  Count(d, h, m + 1, 0) = Count(d, h, m, 59) + 1
BY SMT DEF Count

\* The second after a valid time of day is a valid time of day, and one second
\* later (_TOD_Tickle against _TOD_To_seconds).
LEMMA NextSecondFits ==
  ASSUME NEW tod \in TODs, ValidDate(tod)
  PROVE  /\ NextSecond(tod) \in TODs /\ ValidDate(NextSecond(tod))
         /\ To_seconds(NextSecond(tod)) = To_seconds(tod) + 1
<1>1. /\ tod.year \in Nat /\ tod.month \in Nat /\ tod.day \in Nat
      /\ tod.hour \in 0 .. 23 /\ tod.minute \in 0 .. 59 /\ tod.second \in 0 .. 59
  BY SMT DEF TODs, ValidDate
<1>2. Days(tod) \in Nat
  BY NextDayFits
<1> DEFINE Same(t) == t.year = tod.year /\ t.month = tod.month /\ t.day = tod.day
           now == [tod EXCEPT !.ticks = 0]
           next == NextSecond(tod)
<1>3. /\ now \in TODs /\ Same(now) /\ now.hour = tod.hour /\ now.minute = tod.minute
      /\ now.second = tod.second
  BY DEF TODs
<1>4. ASSUME NEW t \in TODs, Same(t), t.hour < 24, t.minute < 60, t.second < 60
      PROVE  ValidDate(t) /\ Days(t) = Days(tod)
  <2>1. t.year = tod.year /\ t.month = tod.month /\ t.day = tod.day
    BY <1>4
  <2>2. Days(t) = Days(tod)
    BY <2>1 DEF Days
  <2>3. ValidDate(t)
    BY <1>4, <2>1 DEF ValidDate
  <2> QED
    BY <2>2, <2>3
<1>5. tod.hour \in Nat /\ tod.minute \in Nat /\ tod.second \in Nat
  BY <1>1, SMT
<1>6. To_seconds(tod) = Count(Days(tod), tod.hour, tod.minute, tod.second)
  BY DEF To_seconds, Count
<1>7. CASE tod.second + 1 < 60
  <2>1. next = [now EXCEPT !.second = @ + 1]
    BY <1>7 DEF NextSecond
  <2> HIDE DEF now, next
  <2>2. /\ next \in TODs /\ Same(next) /\ next.hour = tod.hour /\ next.minute = tod.minute
        /\ next.second = tod.second + 1
    BY <1>1, <1>3, <2>1, SMT DEF TODs
  <2>3. ValidDate(next) /\ Days(next) = Days(tod)
    BY <1>1, <1>4, <1>7, <2>2, SMT
  <2>4. To_seconds(next) = Count(Days(tod), tod.hour, tod.minute, tod.second + 1)
    BY <2>2, <2>3 DEF To_seconds, Count
  <2>5. To_seconds(next) = To_seconds(tod) + 1
    <3>1. Count(Days(tod), tod.hour, tod.minute, tod.second + 1)
            = Count(Days(tod), tod.hour, tod.minute, tod.second) + 1
      <4> DEFINE d == Days(tod)
                 h == tod.hour
                 m == tod.minute
                 s == tod.second
      <4>1. d \in Nat /\ h \in Nat /\ m \in Nat /\ s \in Nat
        BY <1>2, <1>5
      <4> HIDE DEF d, h, m, s
      <4>2. Count(d, h, m, s + 1) = Count(d, h, m, s) + 1
        BY <4>1, SecondCounts, SMT
      <4> QED
        BY <4>2 DEF d, h, m, s
    <3> QED
      BY <1>6, <2>4, <3>1
  <2> QED
    BY <2>2, <2>3, <2>5 DEF next
<1>8. CASE ~(tod.second + 1 < 60) /\ tod.minute + 1 < 60
  <2>1. next = [now EXCEPT !.second = 0, !.minute = @ + 1]
    BY <1>8 DEF NextSecond
  <2> DEFINE zero == [now EXCEPT !.second = 0]
  <2>2. next = [zero EXCEPT !.minute = now.minute + 1]
    BY <2>1
  <2> HIDE DEF now, next
  <2>3. /\ zero \in TODs /\ Same(zero) /\ zero.hour = tod.hour /\ zero.second = 0
    BY <1>3 DEF TODs
  <2> HIDE DEF zero
  <2>4. /\ next \in TODs /\ Same(next) /\ next.hour = tod.hour
        /\ next.minute = tod.minute + 1 /\ next.second = 0
    BY <1>1, <1>3, <2>2, <2>3, SMT DEF TODs
  <2>5. ValidDate(next) /\ Days(next) = Days(tod)
    BY <1>1, <1>4, <1>8, <2>4, SMT
  <2>6. To_seconds(next) = Count(Days(tod), tod.hour, tod.minute + 1, 0)
    BY <2>4, <2>5 DEF To_seconds, Count
  <2>7. tod.second = 59
    BY <1>1, <1>8, SMT
  <2>8. To_seconds(next) = To_seconds(tod) + 1
    <3>1. Count(Days(tod), tod.hour, tod.minute + 1, 0)
            = Count(Days(tod), tod.hour, tod.minute, 59) + 1
      BY <1>5, <1>2, MinuteCounts
    <3> QED
      BY <1>6, <2>6, <2>7, <3>1
  <2> QED
    BY <2>4, <2>5, <2>8 DEF next
<1>9. CASE ~(tod.second + 1 < 60) /\ ~(tod.minute + 1 < 60) /\ tod.hour + 1 < 24
  <2>1. next = [now EXCEPT !.second = 0, !.minute = 0, !.hour = @ + 1]
    BY <1>9 DEF NextSecond
  <2> DEFINE zero == [now EXCEPT !.second = 0]
             hour == [zero EXCEPT !.minute = 0]
  <2>2. next = [hour EXCEPT !.hour = now.hour + 1]
    BY <2>1
  <2> HIDE DEF now, next
  <2>3. zero \in TODs /\ Same(zero) /\ zero.second = 0
    BY <1>3 DEF TODs
  <2> HIDE DEF zero
  <2>4. hour \in TODs /\ Same(hour) /\ hour.second = 0 /\ hour.minute = 0
    BY <2>3 DEF TODs
  <2> HIDE DEF hour
  <2>5. /\ next \in TODs /\ Same(next) /\ next.hour = tod.hour + 1
        /\ next.minute = 0 /\ next.second = 0
    BY <1>1, <1>3, <2>2, <2>4, SMT DEF TODs
  <2>6. ValidDate(next) /\ Days(next) = Days(tod)
    BY <1>1, <1>4, <1>9, <2>5, SMT
  <2>7. To_seconds(next) = Days(tod) * (60 * 60 * 24) + ((tod.hour + 1) * 60 + 0) * 60 + 0
    BY <2>5, <2>6 DEF To_seconds
  <2>8. To_seconds(next) = To_seconds(tod) + 1
    BY <1>1, <1>2, <1>9, <2>7, SMT DEF To_seconds
  <2> QED
    BY <2>5, <2>6, <2>8 DEF next
<1>10. CASE ~(tod.second + 1 < 60) /\ ~(tod.minute + 1 < 60) /\ ~(tod.hour + 1 < 24)
  <2> DEFINE zero == [now EXCEPT !.second = 0]
             hour == [zero EXCEPT !.minute = 0]
             midnight == [hour EXCEPT !.hour = 0]
  <2>1. next = NextDay(midnight)
    BY <1>10 DEF NextSecond
  <2> HIDE DEF now, next
  <2>2. zero \in TODs /\ Same(zero) /\ zero.second = 0
    BY <1>3 DEF TODs
  <2> HIDE DEF zero
  <2>3. hour \in TODs /\ Same(hour) /\ hour.second = 0 /\ hour.minute = 0
    BY <2>2 DEF TODs
  <2> HIDE DEF hour
  <2>4. /\ midnight \in TODs /\ Same(midnight) /\ midnight.hour = 0
        /\ midnight.minute = 0 /\ midnight.second = 0
    BY <2>3 DEF TODs
  <2> HIDE DEF midnight
  <2>5. ValidDate(midnight) /\ Days(midnight) = Days(tod)
    BY <1>4, <2>4, SMT
  <2>6. /\ next \in TODs /\ ValidDate(next) /\ Days(next) = Days(tod) + 1
        /\ next.hour = 0 /\ next.minute = 0 /\ next.second = 0
    BY <2>1, <2>4, <2>5, NextDayFits
  <2>7. To_seconds(next) = (Days(tod) + 1) * (60 * 60 * 24) + (0 * 60 + 0) * 60 + 0
    BY <2>6 DEF To_seconds
  <2>8. To_seconds(next) = To_seconds(tod) + 1
    BY <1>1, <1>2, <1>10, <2>7, SMT DEF To_seconds
  <2> QED
    BY <2>6, <2>8 DEF next
<1> QED
  BY <1>7, <1>8, <1>9, <1>10

\* A count of ticks does not make a difference to the date and the seconds.
LEMMA TicksDoNotCount ==
  ASSUME NEW tod \in TODs, NEW n \in Nat, ValidDate(tod)
  PROVE  LET later == [tod EXCEPT !.ticks = n]
         IN later \in TODs /\ ValidDate(later) /\ To_seconds(later) = To_seconds(tod)
<1> DEFINE later == [tod EXCEPT !.ticks = n]
<1>1. /\ later \in TODs
      /\ later.year = tod.year /\ later.month = tod.month /\ later.day = tod.day
      /\ later.hour = tod.hour /\ later.minute = tod.minute /\ later.second = tod.second
  BY DEF TODs
<1> HIDE DEF later
<1>2. ValidDate(later)
  BY <1>1 DEF ValidDate
<1>3. To_seconds(later) = To_seconds(tod)
  BY <1>1 DEF To_seconds, Days
<1> QED
  BY <1>1, <1>2, <1>3 DEF later

\* The time the system starts with (_TOD_Handler_initialization).
LEMMA EpochFits == Epoch \in TODs /\ ValidDate(Epoch) /\ To_seconds(Epoch) = 0
<1>1. Epoch \in TODs
  BY SMT DEF Epoch, TOD, TODs, Base_year
<1>2. ValidDate(Epoch)
  BY SMT DEF Epoch, TOD, ValidDate, Base_year, Days_per_month
<1>3. To_seconds(Epoch) = 0
  BY SMT DEF Epoch, TOD, To_seconds, Days, DaysToYear, Days_to_date, Base_year,
         Days_since_last_leap_year
<1> QED
  BY <1>1, <1>2, <1>3

-----------------------------------------------------------------------------
\* The date is always valid; the seconds are those of the date, and in the moment
\* between the two assignments of _TOD_Set the date is the new one.  The seconds
\* do not tick while the clock is set, for _TOD_Seconds_watchdog is off its chain.
IInv ==
  /\ Current \in TODs /\ ValidDate(Current)
  /\ {"pc", "tod"} \subseteq DOMAIN setting
  /\ setting.tod \in TODs /\ ValidDate(setting.tod)
  /\ setting.pc = "current" => To_seconds(Current) = SetTo
  /\ setting.pc # "current" => Seconds = To_seconds(Current)
  /\ setting.pc # "idle" => second_left = 0 /\ isr = "idle"

\* _TOD_Handler_initialization establishes the invariant ...
LEMMA IInvInit == Init => IInv
BY EpochFits, SMT DEF Init, IInv, SetTo

\* What IInv is about, in a step that leaves the clock alone.
LEMMA ClockLeftAlone ==
  ASSUME IInv, UNCHANGED <<Current, Seconds, setting>>,
         second_left' = second_left \/ setting.pc = "idle",
         isr' = isr \/ setting.pc = "idle"
  PROVE  IInv'
BY DEF IInv, SetTo

\* ... and the clock tick, within a second and at its end, ...
LEMMA TickStep == IInv /\ TickWithin => IInv'
<1> SUFFICES ASSUME IInv, TickWithin PROVE IInv'
  OBVIOUS
<1>1. Current \in TODs /\ ValidDate(Current) /\ Current.ticks + 1 \in Nat
  BY SMT DEF IInv, TODs
<1>2. Current' = [Current EXCEPT !.ticks = Current.ticks + 1]
  BY DEF TickWithin
<1>3. Current' \in TODs /\ ValidDate(Current') /\ To_seconds(Current') = To_seconds(Current)
  BY <1>1, <1>2, TicksDoNotCount
<1> QED
  BY <1>3 DEF IInv, TickWithin, SetTo

LEMMA SecondStep == IInv /\ SecondBegins => IInv'
<1> SUFFICES ASSUME IInv, SecondBegins PROVE IInv'
  OBVIOUS
<1>1. Current \in TODs /\ ValidDate(Current) /\ setting.pc = "idle"
  BY SMT DEF IInv, SecondBegins
<1>2. Current' \in TODs /\ ValidDate(Current') /\ To_seconds(Current') = To_seconds(Current) + 1
  BY <1>1, NextSecondFits DEF SecondBegins
<1>3. Seconds' = To_seconds(Current')
  BY <1>1, <1>2 DEF SecondBegins, IInv
<1> QED
  BY <1>1, <1>2, <1>3 DEF IInv, SecondBegins, SetTo

\* ... and _TOD_Set keep it.
LEMMA SetStep ==
  ASSUME IInv, NEW tod \in SetTimes, Set(tod)
  PROVE  IInv'
<1>1. tod \in TODs /\ ValidDate(tod)
  BY TimeAssumption DEF Set, Validate
<1>2. setting.pc = "idle" /\ isr = "idle"
  BY DEF Set, InTask, Locked
<1>3. /\ {"pc", "tod"} \subseteq DOMAIN setting'
      /\ setting'.pc = "deactivated" /\ setting'.tod = tod
  BY DEF Set, IInv
<1> QED
  BY <1>1, <1>2, <1>3 DEF IInv, Set, SetTo

\* _Watchdog_Adjust changes the chain and where _TOD_Set is, no more.
LEMMA AdjustStep ==
  ASSUME IInv,
         \/ AdjustBackward \/ AdjustForward \/ Advance \/ AdjustExpires \/ Fired
         \/ \E tod \in WallTimes : AdjustRearms(tod)
  PROVE  IInv'
<1>1. isr = "idle" /\ UNCHANGED <<Current, Seconds, second_left, isr>>
  BY DEF AdjustBackward, AdjustForward, Advance, AdjustExpires, Fired, AdjustRearms, At, clock
<1>2. setting.pc \in {"deactivated", "forward", "firing"}
  BY DEF AdjustBackward, AdjustForward, Advance, AdjustExpires, Fired, AdjustRearms, At
<1>3. /\ {"pc", "tod"} \subseteq DOMAIN setting' /\ setting'.tod = setting.tod
      /\ setting'.pc \in {"deactivated", "forward", "firing", "adjusted"}
  <2>1. {"pc", "tod"} \subseteq DOMAIN setting
    BY DEF IInv
  <2>2. CASE AdjustBackward
    BY <2>1, <2>2 DEF AdjustBackward
  <2>3. CASE AdjustForward
    BY <2>1, <2>3 DEF AdjustForward
  <2>4. CASE Advance
    BY <2>1, <2>4 DEF Advance, Adjusted
  <2>5. CASE AdjustExpires
    BY <1>2, <2>1, <2>5 DEF AdjustExpires
  <2>6. CASE Fired
    BY <2>1, <2>6 DEF Fired
  <2>7. ASSUME NEW tod \in WallTimes, AdjustRearms(tod)
        PROVE  /\ {"pc", "tod"} \subseteq DOMAIN setting' /\ setting'.tod = setting.tod
               /\ setting'.pc \in {"deactivated", "forward", "firing", "adjusted"}
    BY <1>2, <2>1, <2>7 DEF AdjustRearms
  <2> QED
    BY <2>2, <2>3, <2>4, <2>5, <2>6, <2>7
<1> QED
  BY <1>1, <1>2, <1>3 DEF IInv, SetTo

\* _TOD_Set assigns _TOD_Current ...
LEMMA SetCurrentStep == IInv /\ SetCurrent => IInv'
<1> SUFFICES ASSUME IInv, SetCurrent PROVE IInv'
  OBVIOUS
<1>1. /\ {"pc", "tod"} \subseteq DOMAIN setting'
      /\ setting'.pc = "current" /\ setting'.tod = setting.tod
  BY DEF SetCurrent, IInv
<1>2. setting.pc = "adjusted" /\ isr = "idle"
  BY DEF SetCurrent, At
<1> QED
  BY <1>1, <1>2 DEF IInv, SetCurrent, SetTo

\* ... and _TOD_Seconds_since_epoch ...
LEMMA SetSecondsStep == IInv /\ SetSeconds => IInv'
<1> SUFFICES ASSUME IInv, SetSeconds PROVE IInv'
  OBVIOUS
<1>1. /\ {"pc", "tod"} \subseteq DOMAIN setting'
      /\ setting'.pc = "seconds" /\ setting'.tod = setting.tod
  BY DEF SetSeconds, IInv
<1>2. setting.pc = "current" /\ isr = "idle"
  BY DEF SetSeconds, At
<1> QED
  BY <1>1, <1>2 DEF IInv, SetSeconds, SetTo

\* ... and lets the seconds tick again.
LEMMA ActivateStep == IInv /\ Activate => IInv'
<1> SUFFICES ASSUME IInv, Activate PROVE IInv'
  OBVIOUS
<1>1. /\ {"pc", "tod"} \subseteq DOMAIN setting'
      /\ setting'.pc = "idle" /\ setting'.tod = Epoch
  BY DEF Activate, IInv
<1>2. setting.pc = "seconds"
  BY DEF Activate, At
<1> QED
  BY <1>1, <1>2, EpochFits DEF IInv, Activate, SetTo

\* A handler that arms a timer leaves the clock alone, in _TOD_Set as elsewhere.
LEMMA HandlerStep ==
  ASSUME IInv, NEW t \in Timers, NEW tod \in WallTimes, HandlerFiresWhen(t, tod)
  PROVE  IInv'
<1>1. UNCHANGED <<Current, Seconds, second_left, isr>>
  BY DEF HandlerFiresWhen, clock
<1>2. /\ {"pc", "tod"} \subseteq DOMAIN setting'
      /\ setting'.pc = setting.pc /\ setting'.tod = setting.tod
  <2>1. {"pc", "tod"} \subseteq DOMAIN setting
    BY DEF IInv
  <2>2. CASE setting' = setting
    BY <2>1, <2>2
  <2>3. CASE setting' = [setting EXCEPT !.rearms = @ + 1]
    BY <2>1, <2>3
  <2> QED
    BY <2>2, <2>3 DEF HandlerFiresWhen
<1> QED
  BY <1>1, <1>2 DEF IInv, SetTo

\* Every other step leaves the clock alone.
LEMMA IInvNext == IInv /\ [Next]_vars => IInv'
<1> SUFFICES ASSUME IInv, [Next]_vars PROVE IInv'
  OBVIOUS
<1>1. CASE TickWithin
  BY <1>1, TickStep
<1>2. CASE SecondBegins
  BY <1>2, SecondStep
<1>3. CASE TickExpires
  BY <1>3, ClockLeftAlone DEF TickExpires, clock
<1>4. CASE SecondBegun
  <2>1. setting.pc = "idle"
    BY <1>4 DEF IInv, SecondBegun
  <2> QED
    BY <1>4, <2>1, ClockLeftAlone DEF SecondBegun
<1>5. CASE \E tod \in SetTimes : Set(tod)
  BY <1>5, SetStep
<1>6. CASE \/ AdjustBackward \/ AdjustForward \/ Advance \/ AdjustExpires \/ Fired
           \/ \E tod \in WallTimes : AdjustRearms(tod)
  BY <1>6, AdjustStep, SMT
<1>7. CASE SetCurrent
  BY <1>7, SetCurrentStep
<1>8. CASE SetSeconds
  BY <1>8, SetSecondsStep
<1>9. CASE Activate
  BY <1>9, ActivateStep
<1>10. CASE \E k \in Tasks :
              \/ \E tod \in WallTimes : WakeWhen(k, tod) \/ \E t \in Timers : FireWhen(k, t, tod)
              \/ Disarm(k) \/ Arm(k)
  BY <1>10, ClockLeftAlone DEF WakeWhen, FireWhen, Check, Disarm, Arm, clock
<1>11. CASE \E t \in Timers : \/ Create(t) \/ Delete(t) \/ Cancel(t) \/ Reset(t)
                              \/ \E n \in Intervals : FireAfter(t, n)
  BY <1>11, ClockLeftAlone DEF Create, Delete, Cancel, Reset, FireAfter, clock
<1>12. CASE \E t \in Timers : \E tod \in WallTimes : HandlerFiresWhen(t, tod)
  BY <1>12, HandlerStep
<1>13. CASE UNCHANGED vars
  BY <1>13, ClockLeftAlone DEF vars, clock
<1> QED
  BY <1>1, <1>2, <1>3, <1>4, <1>5, <1>6, <1>7, <1>8, <1>9, <1>10, <1>11, <1>12,
     <1>13, SMT DEF Next

\* For any clock rate, any timers and tasks and any times the clock is set to, the
\* calendar that _TOD_Tickle carries on and _TOD_Seconds_since_epoch agree, except
\* between the two assignments of _TOD_Set.
THEOREM CalendarAgrees == Spec => []TimeAgrees
<1>1. IInv => TimeAgrees
  BY DEF IInv, TimeAgrees
<1> QED
  BY <1>1, IInvInit, IInvNext, PTL DEF Spec
=============================================================================
