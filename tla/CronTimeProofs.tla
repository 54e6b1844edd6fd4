---------------------------- MODULE CronTimeProofs ---------------------------
(***************************************************************************)
(* What createTime returns, for every schedule and every minute.           *)
(*                                                                         *)
(* First the calendar: months follow each other without a gap, so that     *)
(* days and minutes are in the order of years and months, and Tm is the    *)
(* inverse of Minutes.  Then the steps of createTime: each of them leaves  *)
(* a time that is later than the one it was given, or changes nothing but  *)
(* what already matches; where a step can give an earlier time of the same *)
(* day, all fields match in the end.                                       *)
(*                                                                         *)
(* In the lemmas t, u and v are ptimes, and tm is a struct tm, whose day   *)
(* may be beyond the end of its month.                                     *)
(***************************************************************************)
EXTENDS CronTime, WellFoundedInduction, TLAPS

\* The values of a struct tm, and those of a ptime.
Dates == [year : Int, mon : 0..11, mday : 1..31, hour : 0..23, min : 0..59]
Valid(tm) == tm \in Dates /\ IsDate(tm)

\* Months counted through, and the day a month begins with.
MonthOf(tm) == 12 * tm.year + tm.mon
MonthStart(year, mon) == DaysBeforeYear(MarchYear(year, mon)) + DaysBeforeMonth(mon)

-----------------------------------------------------------------------------

\* YearOf is right.
LEMMA YearIs ==
  ASSUME NEW n \in Nat
  PROVE  /\ YearOf(n) \in Int
         /\ DaysBeforeYear(YearOf(n)) <= n
         /\ n < DaysBeforeYear(YearOf(n) + 1)
  BY DEF YearOf, DaysBeforeYear

LEMMA YearLength ==
  ASSUME NEW y \in Int
  PROVE  /\ DaysBeforeYear(y) \in Int
         /\ LeapYear(y) => DaysBeforeYear(y) = DaysBeforeYear(y - 1) + 366
         /\ ~LeapYear(y) => DaysBeforeYear(y) = DaysBeforeYear(y - 1) + 365
  BY DEF DaysBeforeYear, LeapYear

LEMMA YearsApart ==
  ASSUME NEW y \in Int, NEW z \in Int, y < z
  PROVE  /\ DaysBeforeYear(y) + 365 <= DaysBeforeYear(z)
         /\ DaysBeforeYear(y + 1) <= DaysBeforeYear(z)
  BY DEF DaysBeforeYear

LEMMA DaysInRange ==
  ASSUME NEW year \in Int, NEW mon \in 0..11
  PROVE  DaysIn(year, mon) \in 28..31
  BY DEF DaysIn

\* Months within a year that begins in March.
LEMMA MonthsOfYear ==
  ASSUME NEW mon \in 0..11, NEW m \in 0..11
  PROVE  /\ DaysBeforeMonth(mon) \in 0..337
         /\ mon # 1 => \A year \in Int : DaysBeforeMonth(mon) + DaysIn(year, mon) <= 337
         /\ (mon + 10) % 12 < (m + 10) % 12 =>
               \A year \in Int : DaysBeforeMonth(mon) + DaysIn(year, mon) <= DaysBeforeMonth(m)
  BY DEF DaysBeforeMonth, DaysIn

\* February makes up for the length of the year.
LEMMA MonthWithinYear ==
  ASSUME NEW year \in Int, NEW mon \in 0..11
  PROVE  /\ MarchYear(year, mon) \in Int
         /\ MonthStart(year, mon) \in Int
         /\ MonthStart(year, mon) + DaysIn(year, mon) <= DaysBeforeYear(MarchYear(year, mon) + 1)
         /\ DaysBeforeYear(MarchYear(year, mon)) <= MonthStart(year, mon)
<1>1. MarchYear(year, mon) \in Int
  BY DEF MarchYear
<1>2. DaysBeforeMonth(mon) \in 0..337
  BY MonthsOfYear
<1>3. CASE mon = 1
  <2>1. MarchYear(year, mon) = year - 1 /\ DaysBeforeMonth(mon) = 337
    BY <1>3 DEF MarchYear, DaysBeforeMonth
  <2>2. DaysIn(year, mon) = IF LeapYear(year) THEN 29 ELSE 28
    BY <1>3 DEF DaysIn
  <2> QED  BY <1>1, <2>1, <2>2, YearLength DEF MonthStart
<1>4. CASE mon # 1
  <2> DEFINE y == MarchYear(year, mon)
  <2>1. DaysBeforeMonth(mon) + DaysIn(year, mon) <= 337 /\ DaysIn(year, mon) \in 28..31
    BY <1>4, MonthsOfYear, DaysInRange
  <2>2. DaysBeforeYear(y) \in Int /\ DaysBeforeYear(y) + 365 <= DaysBeforeYear(y + 1)
    BY <1>1, YearsApart, YearLength
  <2>3. MonthStart(year, mon) = DaysBeforeYear(y) + DaysBeforeMonth(mon)
    BY DEF MonthStart
  <2>4. DaysBeforeYear(y + 1) \in Int
    BY <1>1, YearLength
  <2> HIDE DEF y
  <2>5. /\ MonthStart(year, mon) \in Int
        /\ MonthStart(year, mon) + DaysIn(year, mon) <= DaysBeforeYear(y + 1)
        /\ DaysBeforeYear(y) <= MonthStart(year, mon)
    BY <1>2, <2>1, <2>2, <2>3, <2>4
  <2> QED  BY <1>1, <2>5 DEF y
<1> QED  BY <1>3, <1>4

\* A month is over before a later one begins.
LEMMA MonthsApart ==
  ASSUME NEW year \in Int, NEW mon \in 0..11, NEW y \in Int, NEW m \in 0..11,
         12 * year + mon < 12 * y + m
  PROVE  MonthStart(year, mon) + DaysIn(year, mon) <= MonthStart(y, m)
<1> DEFINE a == MarchYear(year, mon)
           b == MarchYear(y, m)
<1>1. a \in Int /\ b \in Int
  BY MonthWithinYear
<1>2. a < b \/ (a = b /\ (mon + 10) % 12 < (m + 10) % 12)
  BY DEF MarchYear
<1> HIDE DEF a, b
<1>3. CASE a < b
  <2>1. DaysBeforeYear(a + 1) <= DaysBeforeYear(b)
    BY <1>1, <1>3, YearsApart
  <2>2. DaysBeforeYear(a + 1) \in Int /\ DaysBeforeYear(b) \in Int /\ DaysIn(year, mon) \in Int
    BY <1>1, YearLength, DaysInRange
  <2>3. /\ MonthStart(year, mon) \in Int /\ MonthStart(y, m) \in Int
        /\ MonthStart(year, mon) + DaysIn(year, mon) <= DaysBeforeYear(a + 1)
        /\ DaysBeforeYear(b) <= MonthStart(y, m)
    BY MonthWithinYear DEF a, b
  <2> QED  BY <2>1, <2>2, <2>3
<1>4. CASE a = b /\ (mon + 10) % 12 < (m + 10) % 12
  <2>1. DaysBeforeMonth(mon) + DaysIn(year, mon) <= DaysBeforeMonth(m)
    BY <1>4, MonthsOfYear
  <2>2. DaysBeforeYear(a) \in Int /\ DaysIn(year, mon) \in Int
    BY <1>1, YearLength, DaysInRange
  <2>3. DaysBeforeMonth(mon) \in Int /\ DaysBeforeMonth(m) \in Int
    BY MonthsOfYear
  <2>4. MonthStart(year, mon) = DaysBeforeYear(a) + DaysBeforeMonth(mon)
        /\ MonthStart(y, m) = DaysBeforeYear(a) + DaysBeforeMonth(m)
    BY <1>4 DEF MonthStart, a, b
  <2> QED  BY <2>1, <2>2, <2>3, <2>4
<1> QED  BY <1>2, <1>3, <1>4

-----------------------------------------------------------------------------

LEMMA Fields ==
  ASSUME NEW d \in Dates
  PROVE  /\ d.year \in Int /\ d.mon \in 0..11 /\ d.mday \in 1..31
         /\ d.hour \in 0..23 /\ d.min \in 0..59
         /\ MonthOf(d) \in Int
         /\ MonthStart(d.year, d.mon) \in Int
         /\ DaysIn(d.year, d.mon) \in 28..31
<1>1. /\ d.year \in Int /\ d.mon \in 0..11 /\ d.mday \in 1..31
      /\ d.hour \in 0..23 /\ d.min \in 0..59
  BY DEF Dates
<1>2. MonthStart(d.year, d.mon) \in Int /\ DaysIn(d.year, d.mon) \in 28..31
  BY <1>1, MonthWithinYear, DaysInRange
<1>3. MonthOf(d) \in Int
  BY <1>1 DEF MonthOf
<1> QED  BY <1>1, <1>2, <1>3

\* A minute from its day and its time.
Moment(day, hour, min) == 1440 * day + 60 * hour + min

LEMMA DayBefore ==
  \A a, b \in Int : \A h, g \in 0..23 : \A m, k \in 0..59 :
    a < b => Moment(a, h, m) < Moment(b, g, k)
  BY DEF Moment

LEMMA DayNumberIs ==
  ASSUME NEW d \in Dates
  PROVE  /\ DayNumber(d) = MonthStart(d.year, d.mon) + d.mday - 1
         /\ DayNumber(d) \in Int
         /\ Minutes(d) \in Int
         /\ Minutes(d) = Moment(DayNumber(d), d.hour, d.min)
  BY Fields DEF DayNumber, Minutes, MonthStart, Moment

\* Even a day that is beyond the end of its month.
LEMMA LaterMonth ==
  ASSUME NEW d, Valid(d), NEW e \in Dates, MonthOf(d) < MonthOf(e)
  PROVE  DayNumber(d) < DayNumber(e)
<1>1. d \in Dates /\ d.mday <= DaysIn(d.year, d.mon)
  BY DEF Valid, IsDate
<1>2. MonthStart(d.year, d.mon) + DaysIn(d.year, d.mon) <= MonthStart(e.year, e.mon)
  BY <1>1, Fields, MonthsApart DEF MonthOf
<1> QED  BY <1>1, <1>2, Fields, DayNumberIs

LEMMA SameMonth ==
  ASSUME NEW d \in Dates, NEW e \in Dates, MonthOf(d) = MonthOf(e)
  PROVE  /\ d.year = e.year /\ d.mon = e.mon
         /\ DayNumber(e) - e.mday = DayNumber(d) - d.mday
<1>1. d.year = e.year /\ d.mon = e.mon
  <2>1. 12 * d.year + d.mon = 12 * e.year + e.mon
    BY DEF MonthOf
  <2> QED  BY <2>1, Fields
<1> QED  BY <1>1, Fields, DayNumberIs

LEMMA LaterDay ==
  ASSUME NEW d \in Dates, NEW e \in Dates, DayNumber(d) < DayNumber(e)
  PROVE  Minutes(d) < Minutes(e)
<1>1. DayNumber(d) \in Int /\ DayNumber(e) \in Int
  BY DayNumberIs
<1>2. d.hour \in 0..23 /\ d.min \in 0..59 /\ e.hour \in 0..23 /\ e.min \in 0..59
  BY Fields
<1>3. Moment(DayNumber(d), d.hour, d.min) < Moment(DayNumber(e), e.hour, e.min)
  BY <1>1, <1>2, DayBefore, Zenon
<1> QED  BY <1>3, DayNumberIs

LEMMA SameMinutes ==
  ASSUME NEW d, Valid(d), NEW e, Valid(e), Minutes(d) = Minutes(e)
  PROVE  d = e
<1>1. d \in Dates /\ e \in Dates
  BY DEF Valid
<1>2. DayNumber(d) = DayNumber(e) /\ d.hour = e.hour /\ d.min = e.min
  <2>1. Minutes(d) \in Int /\ DayNumber(d) \in Int /\ DayNumber(e) \in Int
    BY <1>1, DayNumberIs
  <2>2. ~(DayNumber(d) < DayNumber(e)) /\ ~(DayNumber(e) < DayNumber(d))
    BY <1>1, <2>1, LaterDay
  <2>3. DayNumber(d) = DayNumber(e)
    BY <2>1, <2>2
  <2>4. Moment(DayNumber(d), d.hour, d.min) = Moment(DayNumber(d), e.hour, e.min)
    BY <1>1, <2>3, DayNumberIs
  <2>5. d.hour \in 0..23 /\ d.min \in 0..59 /\ e.hour \in 0..23 /\ e.min \in 0..59
    BY <1>1, Fields
  <2>6. d.hour = e.hour /\ d.min = e.min
    <3> DEFINE day == DayNumber(d)
               h   == d.hour
               m   == d.min
               g   == e.hour
               k   == e.min
    <3>1. /\ day \in Int /\ h \in 0..23 /\ m \in 0..59 /\ g \in 0..23 /\ k \in 0..59
          /\ 1440 * day + 60 * h + m = 1440 * day + 60 * g + k
      BY <2>1, <2>4, <2>5 DEF Moment
    <3> HIDE DEF day, h, m, g, k
    <3>2. h = g /\ m = k
      BY <3>1
    <3> QED  BY <3>2 DEF h, m, g, k
  <2> QED  BY <2>3, <2>6
<1>3. MonthOf(d) = MonthOf(e)
  <2>1. ~(MonthOf(d) < MonthOf(e)) /\ ~(MonthOf(e) < MonthOf(d))
    <3>1. DayNumber(d) \in Int
      BY <1>1, DayNumberIs
    <3> QED  BY <1>1, <1>2, <3>1, LaterMonth
  <2> QED  BY <1>1, <2>1, Fields
<1>4. d.year = e.year /\ d.mon = e.mon /\ d.mday = e.mday
  BY <1>1, <1>2, <1>3, SameMonth, Fields, DayNumberIs
<1> QED  BY <1>1, <1>2, <1>4 DEF Dates

\* Tm is a date, and the right one.
LEMMA TmIs ==
  ASSUME NEW n \in Nat
  PROVE  Valid(Tm(n)) /\ Minutes(Tm(n)) = n
<1> DEFINE k    == n \div 1440
           y    == YearOf(k)
           doy  == k - DaysBeforeYear(y)
           mp   == (5 * doy + 2) \div 153
           mon  == (mp + 2) % 12
           year == IF mon < 2 THEN y + 1 ELSE y
           mday == doy - ((153 * mp + 2) \div 5) + 1
           tm   == Tm(n)
<1>1. /\ k \in Nat
      /\ n = 1440 * k + (60 * ((n % 1440) \div 60)) + (n % 60)
      /\ (n % 1440) \div 60 \in 0..23 /\ n % 60 \in 0..59
  OBVIOUS
<1>2. tm = [year |-> year, mon |-> mon, mday |-> mday,
            hour |-> (n % 1440) \div 60, min |-> n % 60]
  BY DEF Tm
<1> HIDE DEF tm, k
<1>3. y \in Int /\ doy \in 0..365 /\ (doy = 365 => LeapYear(y + 1))
  <2>1. /\ YearOf(k) \in Int
        /\ DaysBeforeYear(YearOf(k)) <= k
        /\ k < DaysBeforeYear(YearOf(k) + 1)
    BY <1>1, YearIs
  <2>2. y \in Int /\ DaysBeforeYear(y) \in Int /\ (y + 1) - 1 = y
    BY <2>1, YearLength
  <2>3. /\ LeapYear(y + 1) => DaysBeforeYear(y + 1) = DaysBeforeYear(y) + 366
        /\ ~LeapYear(y + 1) => DaysBeforeYear(y + 1) = DaysBeforeYear(y) + 365
    <3>1. y + 1 \in Int
      BY <2>2
    <3> QED  BY <2>2, <3>1, YearLength
  <2> QED  BY <1>1, <2>1, <2>2, <2>3
<1> HIDE DEF y, doy
<1>4. mp \in 0..11 /\ mon \in 0..11 /\ (mon + 10) % 12 = mp
  BY <1>3
<1>5. mday \in 1..31 /\ (mon # 1 => \A z \in Int : mday <= DaysIn(z, mon))
  BY <1>3 DEF DaysIn
<1>6. mon = 1 => mday <= 29 /\ (mday = 29 => doy = 365)
  BY <1>3
<1>7. year \in Int /\ MarchYear(year, mon) = y
  BY <1>3, <1>4 DEF MarchYear
<1>8. DaysBeforeMonth(mon) = (153 * mp + 2) \div 5
  BY <1>4 DEF DaysBeforeMonth
<1>9. mday <= DaysIn(year, mon)
  <2>1. mon = 1 => year = y + 1
    OBVIOUS
  <2> QED  BY <1>3, <1>4, <1>5, <1>6, <1>7, <2>1 DEF DaysIn
<1>10. DaysBeforeYear(y) + DaysBeforeMonth(mon) + mday - 1 = k
  <2>1. DaysBeforeYear(y) \in Int /\ DaysBeforeYear(y) = k - doy
    BY <1>1, <1>3, YearLength DEF doy
  <2> QED  BY <1>1, <1>3, <1>4, <1>8, <2>1
<1> HIDE DEF mp, mon, year, mday
<1>11. tm \in Dates /\ IsDate(tm)
  BY <1>1, <1>2, <1>4, <1>5, <1>7, <1>9 DEF Dates, IsDate
<1>12. DayNumber(tm) = k
  BY <1>2, <1>7, <1>10 DEF DayNumber
<1>13. Minutes(tm) = n
  <2>1. tm.hour = (n % 1440) \div 60 /\ tm.min = n % 60
    BY <1>2
  <2> QED  BY <1>1, <1>12, <2>1 DEF Minutes
<1> QED  BY <1>11, <1>13 DEF Valid, tm

LEMMA TmOfMinutes ==
  ASSUME NEW d, Valid(d), Minutes(d) \in Nat
  PROVE  Tm(Minutes(d)) = d
  BY TmIs, SameMinutes

\* Months, minutes and days of Boost lead from dates to dates.
LEMMA PlusMonthsIs ==
  ASSUME NEW t, Valid(t), NEW k \in Nat
  PROVE  /\ Valid(PlusMonths(t, k))
         /\ MonthOf(PlusMonths(t, k)) = MonthOf(t) + k
         /\ PlusMonths(t, k).mon = (t.mon + k) % 12
         /\ k = 0 => PlusMonths(t, k) = t
<1> DEFINE year == t.year + ((t.mon + k) \div 12)
           mon  == (t.mon + k) % 12
           last == DaysIn(year, mon)
           mday == IF t.mday = DaysIn(t.year, t.mon) \/ t.mday > last THEN last ELSE t.mday
           u    == PlusMonths(t, k)
<1>1. t \in Dates /\ t.mday <= DaysIn(t.year, t.mon)
  BY DEF Valid, IsDate
<1>2. u = [t EXCEPT !.year = year, !.mon = mon, !.mday = mday]
  BY DEF PlusMonths
<1> HIDE DEF u
<1>3. t.year \in Int /\ t.mon \in 0..11 /\ t.mday \in 1..31
  BY <1>1, Fields
<1>4. year \in Int /\ mon \in 0..11 /\ 12 * year + mon = 12 * t.year + t.mon + k
  <2> DEFINE y == t.year
             m == t.mon
  <2> HIDE DEF y, m
  <2>1. y \in Int /\ m \in 0..11
    BY <1>3 DEF y, m
  <2>2. /\ y + ((m + k) \div 12) \in Int /\ (m + k) % 12 \in 0..11
        /\ 12 * (y + ((m + k) \div 12)) + ((m + k) % 12) = 12 * y + m + k
    BY <2>1
  <2> QED  BY <2>2 DEF y, m
<1>5. k = 0 => year = t.year /\ mon = t.mon
  BY <1>3
<1> HIDE DEF year, mon
<1>6. last \in 28..31
  BY <1>4, DaysInRange
<1>7. mday \in 1..31 /\ mday <= last
  BY <1>3, <1>6
<1>8. k = 0 => mday = t.mday
  <2>1. k = 0 => last = DaysIn(t.year, t.mon)
    BY <1>5
  <2> HIDE DEF last
  <2> QED  BY <1>1, <1>3, <1>6, <2>1
<1> HIDE DEF mday
<1>9. u \in Dates /\ u.year = year /\ u.mon = mon /\ u.mday = mday
  BY <1>1, <1>2, <1>4, <1>7 DEF Dates
<1>10. Valid(u)
  BY <1>7, <1>9 DEF Valid, IsDate
<1>11. MonthOf(u) = MonthOf(t) + k
  BY <1>3, <1>4, <1>9 DEF MonthOf
<1>12. k = 0 => u = t
  BY <1>1, <1>2, <1>5, <1>8 DEF Dates
<1> QED  BY <1>9, <1>10, <1>11, <1>12 DEF u, mon

LEMMA PlusMinutesIs ==
  ASSUME NEW t, Valid(t), Minutes(t) \in Nat, NEW k \in Nat
  PROVE  Valid(PlusMinutes(t, k)) /\ Minutes(PlusMinutes(t, k)) = Minutes(t) + k
  BY TmIs DEF PlusMinutes

LEMMA PlusDaysIs ==
  ASSUME NEW t, Valid(t), Minutes(t) \in Nat, NEW k \in Nat
  PROVE  /\ Valid(PlusDays(t, k))
         /\ DayNumber(PlusDays(t, k)) = DayNumber(t) + k
         /\ k = 0 => PlusDays(t, k) = t
<1> DEFINE u == PlusDays(t, k)
<1>1. Valid(u) /\ Minutes(u) = Minutes(t) + 1440 * k
  BY PlusMinutesIs DEF PlusDays
<1>2. k = 0 => u = t
  BY <1>1, SameMinutes
<1> HIDE DEF u
<1>3. t \in Dates /\ u \in Dates
  BY <1>1 DEF Valid
<1>4. DayNumber(u) = DayNumber(t) + k
  <2> DEFINE a == DayNumber(t)
             h == t.hour
             m == t.min
             b == DayNumber(u)
             g == u.hour
             j == u.min
  <2>1. a \in Int /\ b \in Int /\ h \in 0..23 /\ m \in 0..59 /\ g \in 0..23 /\ j \in 0..59
    BY <1>3, Fields, DayNumberIs
  <2>2. 1440 * b + 60 * g + j = 1440 * a + 60 * h + m + 1440 * k
    BY <1>1, <1>3, DayNumberIs DEF Moment
  <2> HIDE DEF a, h, m, b, g, j
  <2>3. b = a + k
    BY <2>1, <2>2
  <2> QED  BY <2>3 DEF a, b
<1> QED  BY <1>1, <1>2, <1>4 DEF u

\* Another time of the same day.
Hours == 0..23
MinutesOfHour == 0..59
WithTime(u, hour, min) == [u EXCEPT !.hour = hour, !.min = min]

LEMMA WithTimeIs ==
  ASSUME NEW u, Valid(u), NEW h \in Hours, NEW m \in MinutesOfHour
  PROVE  /\ Valid(WithTime(u, h, m))
         /\ DayNumber(WithTime(u, h, m)) = DayNumber(u)
         /\ MonthOf(WithTime(u, h, m)) = MonthOf(u)
         /\ WithTime(u, h, m).mon = u.mon
         /\ WithTime(u, h, m).mday = u.mday
         /\ WithTime(u, h, m).hour = h
         /\ WithTime(u, h, m).min = m
         /\ Wday(WithTime(u, h, m)) = Wday(u)
         /\ h = u.hour /\ m = u.min => WithTime(u, h, m) = u
<1> DEFINE tm == WithTime(u, h, m)
<1>1. u \in Dates /\ u.mday <= DaysIn(u.year, u.mon)
  BY DEF Valid, IsDate
<1>2. /\ tm \in Dates /\ tm.year = u.year /\ tm.mon = u.mon /\ tm.mday = u.mday
      /\ tm.hour = h /\ tm.min = m /\ (h = u.hour /\ m = u.min => tm = u)
  BY <1>1 DEF Dates, WithTime, Hours, MinutesOfHour
<1> HIDE DEF tm
<1>3. Valid(tm)
  BY <1>1, <1>2 DEF Valid, IsDate
<1>4. DayNumber(tm) = DayNumber(u) /\ MonthOf(tm) = MonthOf(u)
  BY <1>2 DEF DayNumber, MonthOf
<1>5. Wday(tm) = Wday(u)
  BY <1>4 DEF Wday
<1> QED  BY <1>2, <1>3, <1>4, <1>5 DEF tm

-----------------------------------------------------------------------------

LEMMA CronFields ==
  ASSUME NEW c, IsCron(c)
  PROVE  /\ c.month # Star => c.month \in 0..11
         /\ c.day # Star => c.day \in 1..31
         /\ c.dow # Star => /\ c.dow \in Seq(0..6) /\ c.day = Star
                            /\ 1 \in DOMAIN c.dow /\ c.dow[1] \in 0..6
         /\ c.hour # Star => c.hour \in 0..23
         /\ c.min \in 0..59
<1>1. c.dow # Star => /\ c.dow \in Seq(0..6) /\ c.dow # <<>>
  BY DEF IsCron
<1>2. c.dow # Star => 1 \in DOMAIN c.dow /\ c.dow[1] \in 0..6
  BY <1>1
<1> QED  BY <1>1, <1>2 DEF IsCron

\* The state of createTime between two steps, whatever dowOk is.
Has(s, t, tm, others) ==
  DOMAIN s = {"t", "tm", "others", "dowOk"} /\ s.t = t /\ s.tm = tm /\ s.others = others

\* The last steps, for a day that is chosen.
TimeOfDay(c, s) == OthersMinute(c, OthersHour(c, s)).tm

\* The time that is set, in tm or, when it is over for the day, in a later t.
TimeOn(c, t, tm, dowOk) ==
  IF c.hour = Star THEN [tm EXCEPT !.min = c.min]
  ELSE IF tm.hour <= c.hour THEN WithTime(tm, c.hour, c.min)
  ELSE WithTime(IF c.day # Star THEN PlusMonths(t, 1) ELSE IF dowOk THEN t ELSE PlusDays(t, 7),
                c.hour, c.min)

LEMMA TimeOfDayCases ==
  ASSUME NEW c, NEW s, NEW t, NEW tm, NEW others \in {"day", "hour"}, Has(s, t, tm, others)
  PROVE  TimeOfDay(c, s) = TimeOn(c, t, tm, s.dowOk)
<1> USE DEF Has, TimeOn
<1>1. CASE c.hour = Star
  <2>1. OthersHour(c, s) = s
    BY <1>1 DEF OthersHour
  <2> QED  BY <1>1, <2>1 DEF TimeOfDay, OthersMinute
<1>2. CASE c.hour # Star /\ tm.hour <= c.hour
  <2>1. OthersHour(c, s) = [s EXCEPT !.tm.hour = c.hour]
    BY <1>2 DEF OthersHour
  <2>2. OthersHour(c, s) = [s EXCEPT !.tm = [tm EXCEPT !.hour = c.hour]]
    BY <2>1
  <2> QED  BY <1>2, <2>2 DEF TimeOfDay, OthersMinute, WithTime
<1>3. CASE c.hour # Star /\ ~(tm.hour <= c.hour)
  <2> DEFINE e == IF c.day # Star THEN PlusMonths(t, 1)
                  ELSE IF s.dowOk THEN t ELSE PlusDays(t, 7)
  <2>1. OthersHour(c, s) = [s EXCEPT !.t = e, !.tm = [e EXCEPT !.hour = c.hour]]
    BY <1>3 DEF OthersHour
  <2> HIDE DEF e
  <2>2. TimeOfDay(c, s) = WithTime(e, c.hour, c.min)
    BY <2>1 DEF TimeOfDay, OthersMinute, WithTime
  <2> QED  BY <1>3, <2>2 DEF e
<1> QED  BY <1>1, <1>2, <1>3

\* What becomes of a day u: a valid time of it or of a later day, and u itself
\* if that has the right time.
OnDay(c, u, tm) ==
  /\ Valid(tm) /\ c.hour \in {Star, tm.hour} /\ tm.min = c.min
  /\ \/ DayNumber(u) < DayNumber(tm)
     \/ /\ DayNumber(tm) = DayNumber(u) /\ Wday(tm) = Wday(u)
        /\ tm.mon = u.mon /\ tm.mday = u.mday
  /\ c.hour \in {Star, u.hour} /\ c.min = u.min => tm = u

LEMMA TimeOfDayIs ==
  ASSUME NEW c, IsCron(c), NEW u, Valid(u), Minutes(u) \in Nat,
         NEW s, NEW others \in {"day", "hour"}, Has(s, u, u, others)
  PROVE  OnDay(c, u, TimeOfDay(c, s))
<1> DEFINE tm == TimeOfDay(c, s)
<1> SUFFICES OnDay(c, u, tm)
  OBVIOUS
<1>1. u \in Dates /\ u.hour \in Hours /\ DayNumber(u) \in Int
  BY Fields, DayNumberIs DEF Valid, Hours
<1>2. c.min \in MinutesOfHour /\ (c.hour # Star => c.hour \in Hours)
  BY CronFields DEF Hours, MinutesOfHour
<1>3. CASE c.hour = Star
  <2>1. tm = WithTime(u, u.hour, c.min)
    <3>1. tm = TimeOn(c, u, u, s.dowOk)
      BY TimeOfDayCases
    <3>2. tm = [u EXCEPT !.min = c.min]
      BY <1>3, <3>1 DEF TimeOn
    <3> HIDE DEF tm
    <3> QED  BY <1>1, <3>2 DEF Dates, WithTime
  <2> HIDE DEF tm
  <2> QED  BY <1>1, <1>2, <1>3, <2>1, WithTimeIs DEF OnDay
<1>4. CASE c.hour # Star /\ u.hour <= c.hour
  <2>1. tm = WithTime(u, c.hour, c.min)
    BY <1>4, TimeOfDayCases DEF TimeOn
  <2> HIDE DEF tm
  <2> QED  BY <1>1, <1>2, <1>4, <2>1, WithTimeIs DEF OnDay
<1>5. CASE c.hour # Star /\ ~(u.hour <= c.hour)
  <2> DEFINE t == IF c.day # Star THEN PlusMonths(u, 1) ELSE IF s.dowOk THEN u ELSE PlusDays(u, 7)
  <2>1. tm = WithTime(t, c.hour, c.min)
    BY <1>5, TimeOfDayCases DEF TimeOn
  <2>2. Valid(t) /\ (t = u \/ DayNumber(u) < DayNumber(t))
    <3>1. Valid(PlusMonths(u, 1)) /\ DayNumber(u) < DayNumber(PlusMonths(u, 1))
      <4>1. Valid(PlusMonths(u, 1)) /\ MonthOf(PlusMonths(u, 1)) = MonthOf(u) + 1
        BY PlusMonthsIs
      <4>2. PlusMonths(u, 1) \in Dates /\ MonthOf(u) < MonthOf(PlusMonths(u, 1))
        BY <1>1, <4>1, Fields DEF Valid
      <4> QED  BY <4>1, <4>2, LaterMonth
    <3>2. Valid(PlusDays(u, 7)) /\ DayNumber(u) < DayNumber(PlusDays(u, 7))
      BY <1>1, PlusDaysIs
    <3> QED  BY <3>1, <3>2
  <2> HIDE DEF tm, t
  <2>3. /\ Valid(tm) /\ DayNumber(tm) = DayNumber(t) /\ tm.hour = c.hour /\ tm.min = c.min
        /\ tm.mon = t.mon /\ tm.mday = t.mday /\ Wday(tm) = Wday(t)
    BY <1>2, <1>5, <2>1, <2>2, WithTimeIs
  <2>4. c.hour # u.hour
    BY <1>1, <1>2, <1>5 DEF Hours
  <2> QED  BY <1>5, <2>2, <2>3, <2>4 DEF OnDay
<1> QED  BY <1>3, <1>4, <1>5

\* The fields of a schedule against those of a date.
Named(c, tm) ==
  /\ c.month \in {Star, tm.mon}
  /\ c.day \in {Star, tm.mday}
  /\ c.dow = Star \/ \E i \in DOMAIN c.dow : c.dow[i] = Wday(tm)
  /\ c.hour \in {Star, tm.hour}
  /\ c.min = tm.min

\* The steps after HourStep.
Finish(c, s) == OthersMinute(c, OthersHour(c, OthersDay(c, MinuteStep(c, s)))).tm

LEMMA WdayIs ==
  ASSUME NEW u \in Dates
  PROVE  Wday(u) \in 0..6
<1>1. DayNumber(u) \in Int
  BY DayNumberIs
<1> QED  BY <1>1 DEF Wday

\* What becomes of u, the day it is or, with a month, the same day of that month.
InMonth(c, u, tm) ==
  /\ tm \in Dates
  /\ MonthOf(u) <= MonthOf(tm) \/ DayNumber(u) <= DayNumber(tm)
  /\ DayNumber(u) < DayNumber(tm) \/ (Valid(tm) /\ (c.month \in {Star, u.mon} => Named(c, tm)))
  /\ Named(c, u) /\ (c.dow = Star \/ Len(c.dow) = 1) => tm = u

LEMMA FinishDay ==
  ASSUME NEW c, IsCron(c), NEW u, Valid(u), Minutes(u) \in Nat,
         NEW s, Has(s, u, u, "day")
  PROVE  InMonth(c, u, Finish(c, s))
<1> DEFINE tm == Finish(c, s)
<1> SUFFICES InMonth(c, u, tm)
  OBVIOUS
<1>1. u \in Dates /\ u.hour \in Hours /\ DayNumber(u) \in Int /\ MonthOf(u) \in Int
  BY Fields, DayNumberIs DEF Valid, Hours
<1>2. c.min \in MinutesOfHour /\ (c.hour # Star => c.hour \in Hours)
  BY CronFields DEF Hours, MinutesOfHour
<1>3. tm = TimeOfDay(c, OthersDay(c, s))
  BY DEF Finish, TimeOfDay, MinuteStep, Has
<1> HIDE DEF tm
<1>4. CASE c.day # Star
  <2> DEFINE hour == IF c.hour = Star THEN u.hour ELSE c.hour
             e    == [u EXCEPT !.mday = c.day]
             t    == PlusMonths(u, 1)
             r    == OthersDay(c, s)
  <2>1. c.dow = Star /\ c.day \in 1..31
    BY <1>4, CronFields
  <2>2. Has(r, u, e, "day")
    <3>1. r = [s EXCEPT !.tm = e]
      BY <1>4 DEF OthersDay, Has
    <3> QED  BY <3>1 DEF Has
  <2>3. e \in Dates /\ e.hour = u.hour
    BY <1>1, <2>1 DEF Dates
  <2>4. CASE c.hour = Star \/ u.hour <= c.hour
    <3>1. tm = WithTime(e, hour, c.min)
      <4> HIDE DEF e, r
      <4>0. tm = TimeOn(c, u, e, r.dowOk)
        BY <1>3, <2>2, TimeOfDayCases DEF r
      <4>1. tm = IF c.hour = Star THEN [e EXCEPT !.min = c.min] ELSE WithTime(e, c.hour, c.min)
        BY <2>3, <2>4, <4>0 DEF TimeOn
      <4>2. [e EXCEPT !.min = c.min] = WithTime(e, u.hour, c.min)
        BY <2>3 DEF Dates, WithTime
      <4> QED  BY <4>1, <4>2
    <3>2. /\ tm \in Dates /\ tm.year = u.year /\ tm.mon = u.mon /\ tm.mday = c.day
          /\ tm.hour = hour /\ tm.min = c.min
      BY <1>1, <1>2, <2>1, <3>1 DEF Dates, Hours, MinutesOfHour, WithTime
    <3>3. MonthOf(tm) = MonthOf(u)
      BY <3>2 DEF MonthOf
    <3>4. u.mday <= DaysIn(u.year, u.mon)
      BY DEF Valid, IsDate
    <3>5. CASE IsDate(tm)
      <4>1. c.month \in {Star, u.mon} => Named(c, tm)
        BY <2>1, <3>2 DEF Named
      <4>2. Named(c, u) => tm = u
        BY <1>1, <1>4, <3>1 DEF Named, Dates, WithTime
      <4> QED  BY <1>1, <3>2, <3>3, <3>5, <4>1, <4>2 DEF Valid, InMonth
    <3>6. CASE ~IsDate(tm)
      <4>1. u.mday < tm.mday
        BY <1>1, <3>2, <3>4, <3>6, Fields DEF IsDate
      <4>2. DayNumber(u) < DayNumber(tm)
        BY <1>1, <3>2, <3>3, <4>1, SameMonth, Fields, DayNumberIs
      <4>3. ~Named(c, u)
        BY <1>1, <1>4, <3>2, <4>1, Fields DEF Named
      <4> QED  BY <1>1, <3>2, <3>3, <4>2, <4>3 DEF InMonth
    <3> QED  BY <3>5, <3>6
  <2>5. CASE c.hour # Star /\ ~(u.hour <= c.hour)
    <3>1. tm = WithTime(t, c.hour, c.min)
      <4> HIDE DEF e, r
      <4>1. ~(e.hour <= c.hour)
        BY <2>3, <2>5
      <4>2. tm = TimeOn(c, u, e, r.dowOk)
        BY <1>3, <2>2, TimeOfDayCases DEF r
      <4> QED  BY <1>4, <2>5, <4>1, <4>2 DEF TimeOn
    <3>2. Valid(t) /\ MonthOf(t) = MonthOf(u) + 1
      BY PlusMonthsIs
    <3> HIDE DEF t
    <3>3. Valid(tm) /\ MonthOf(tm) = MonthOf(u) + 1
      BY <1>2, <2>5, <3>1, <3>2, WithTimeIs
    <3>4. tm \in Dates /\ MonthOf(u) < MonthOf(tm) /\ MonthOf(u) <= MonthOf(tm)
      BY <1>1, <3>3 DEF Valid
    <3>5. DayNumber(u) < DayNumber(tm)
      BY <3>4, LaterMonth
    <3>6. ~Named(c, u)
      BY <1>1, <1>2, <2>5 DEF Named, Hours
    <3> QED  BY <1>1, <3>4, <3>5, <3>6 DEF InMonth
  <2> QED  BY <2>4, <2>5
<1>5. CASE c.day = Star /\ c.dow = Star
  <2>1. tm = TimeOfDay(c, s)
    BY <1>3, <1>5 DEF OthersDay, Has
  <2>2. OnDay(c, u, tm)
    BY <2>1, TimeOfDayIs
  <2>3. tm \in Dates /\ DayNumber(tm) \in Int
    BY <2>2, DayNumberIs DEF OnDay, Valid
  <2> QED  BY <1>1, <1>5, <2>2, <2>3 DEF OnDay, Named, InMonth
<1>6. CASE c.day = Star /\ c.dow # Star
  <2> DEFINE wday == Wday(u)
             k    == (IF c.dow[1] < wday THEN 7 ELSE c.dow[1]) - wday
             t    == PlusDays(u, k)
  <2>1. Has(OthersDay(c, s), t, t, "day")
    <3>1. OthersDay(c, s) = [s EXCEPT !.t = t, !.tm = t]
      BY <1>6 DEF OthersDay, Has
    <3> HIDE DEF t
    <3> QED  BY <3>1 DEF Has
  <2>2. c.dow[1] \in 0..6 /\ 1 \in DOMAIN c.dow /\ wday \in 0..6
    BY <1>1, <1>6, CronFields, WdayIs
  <2>3. k \in Nat /\ (k = 0 => c.dow[1] = wday) /\ (c.dow[1] = wday => k = 0)
    BY <2>2
  <2> HIDE DEF k
  <2>4. Valid(t) /\ DayNumber(t) = DayNumber(u) + k /\ (k = 0 => t = u)
    BY <2>3, PlusDaysIs
  <2> HIDE DEF t
  <2>5. t \in Dates /\ Minutes(t) \in Nat
    <3>1. t \in Dates /\ DayNumber(t) \in Int /\ (t = u \/ DayNumber(u) < DayNumber(t))
      BY <1>1, <2>3, <2>4, DayNumberIs DEF Valid
    <3>2. t = u \/ Minutes(u) < Minutes(t)
      BY <1>1, <3>1, LaterDay
    <3> QED  BY <3>1, <3>2, DayNumberIs
  <2>6. OnDay(c, t, tm)
    BY <1>3, <2>1, <2>4, <2>5, TimeOfDayIs
  <2>7. tm \in Dates /\ DayNumber(tm) \in Int /\ DayNumber(t) \in Int
    BY <2>5, <2>6, DayNumberIs DEF Valid, OnDay
  <2>8. DayNumber(u) <= DayNumber(tm)
    BY <1>1, <2>3, <2>4, <2>6, <2>7 DEF OnDay
  <2>9. DayNumber(u) < DayNumber(tm) \/ (c.month \in {Star, u.mon} => Named(c, tm))
    <3>1. CASE k = 0 /\ ~(DayNumber(t) < DayNumber(tm))
      BY <1>6, <2>2, <2>3, <2>4, <2>6, <3>1 DEF Named, OnDay
    <3>2. CASE k # 0 \/ DayNumber(t) < DayNumber(tm)
      BY <1>1, <2>3, <2>4, <2>6, <2>7, <3>2 DEF OnDay
    <3> QED  BY <3>1, <3>2
  <2>10. Named(c, u) /\ Len(c.dow) = 1 => tm = u
    <3> SUFFICES ASSUME Named(c, u), Len(c.dow) = 1  PROVE tm = u
      OBVIOUS
    <3>1. DOMAIN c.dow = {1}
      BY <1>6, CronFields
    <3>2. c.dow[1] = wday
      BY <1>6, <3>1 DEF Named
    <3> QED  BY <2>3, <2>4, <2>6, <3>2 DEF Named, OnDay
  <2> QED  BY <1>6, <2>6, <2>7, <2>8, <2>9, <2>10 DEF InMonth, OnDay
<1> QED  BY <1>4, <1>5, <1>6

LEMMA FinishHour ==
  ASSUME NEW c, IsCron(c), NEW u, Valid(u), Minutes(u) \in Nat,
         NEW s, Has(s, u, u, "hour")
  PROVE  OnDay(c, u, Finish(c, s))
<1>1. Finish(c, s) = TimeOfDay(c, s)
  BY DEF Finish, TimeOfDay, MinuteStep, OthersDay, Has
<1> QED  BY <1>1, TimeOfDayIs

LEMMA FinishMinute ==
  ASSUME NEW c, IsCron(c), NEW u, Valid(u), NEW s, Has(s, u, u, "minute")
  PROVE  Valid(Finish(c, s)) /\ DayNumber(Finish(c, s)) = DayNumber(u)
<1> DEFINE tm == Finish(c, s)
<1>1. u \in Dates /\ u.hour \in Hours /\ c.min \in MinutesOfHour
  BY Fields, CronFields DEF Valid, Hours, MinutesOfHour
<1>2. tm = [u EXCEPT !.min = c.min]
  <2>1. MinuteStep(c, s) = s /\ OthersDay(c, s) = s /\ OthersHour(c, s) = s
    BY DEF MinuteStep, OthersDay, OthersHour, Has
  <2> QED  BY <2>1 DEF Finish, OthersMinute, Has
<1> HIDE DEF tm
<1>3. tm = WithTime(u, u.hour, c.min)
  BY <1>1, <1>2 DEF Dates, WithTime
<1> QED  BY <1>1, <1>3, WithTimeIs DEF tm

\* Two times of the same hour.
LEMMA SameHour ==
  ASSUME NEW d \in Dates, NEW e \in Dates, DayNumber(d) = DayNumber(e), d.hour = e.hour
  PROVE  Minutes(e) - e.min = Minutes(d) - d.min
<1> DEFINE day == DayNumber(d)
           h   == d.hour
           m   == d.min
           k   == e.min
<1>1. day \in Int /\ h \in 0..23 /\ m \in 0..59 /\ k \in 0..59
  BY Fields, DayNumberIs
<1>2. Minutes(d) = 1440 * day + 60 * h + m /\ Minutes(e) = 1440 * day + 60 * h + k
  BY DayNumberIs DEF Moment
<1> HIDE DEF day, h, m, k
<1>3. Minutes(e) - k = Minutes(d) - m
  BY <1>1, <1>2
<1> QED  BY <1>3 DEF m, k

LEMMA FinishNone ==
  ASSUME NEW c, IsCron(c), NEW u, Valid(u), Minutes(u) \in Nat,
         NEW s, Has(s, u, u, "none")
  PROVE  /\ Valid(Finish(c, s))
         /\ c.min = u.min => Finish(c, s) = u
         /\ c.min # u.min => Minutes(u) < Minutes(Finish(c, s))
<1> DEFINE tm == Finish(c, s)
           v  == IF c.min < u.min THEN PlusMinutes(u, 60) ELSE u
<1>1. u \in Dates /\ u.min \in 0..59 /\ c.min \in 0..59 /\ c.min \in MinutesOfHour
  BY Fields, CronFields DEF Valid, MinutesOfHour
<1>2. tm = [v EXCEPT !.min = c.min]
  <2>1. Has(MinuteStep(c, s), u, [v EXCEPT !.min = c.min], "none")
    <3>1. MinuteStep(c, s) = [s EXCEPT !.tm = [v EXCEPT !.min = c.min]]
      BY DEF MinuteStep, Has
    <3> HIDE DEF v
    <3> QED  BY <3>1 DEF Has
  <2> HIDE DEF v
  <2>2. tm = MinuteStep(c, s).tm
    BY <2>1 DEF Finish, OthersDay, OthersHour, OthersMinute, Has
  <2> QED  BY <2>1, <2>2 DEF Has
<1> HIDE DEF tm
<1>3. Valid(v) /\ (c.min < u.min => Minutes(v) = Minutes(u) + 60) /\ (~(c.min < u.min) => v = u)
  BY <1>1, PlusMinutesIs
<1> HIDE DEF v
<1>4. v \in Dates /\ v.hour \in Hours /\ v.min \in 0..59 /\ Minutes(v) \in Int
  BY <1>3, Fields, DayNumberIs DEF Valid, Hours
<1>5. tm = WithTime(v, v.hour, c.min)
  BY <1>2, <1>4 DEF Dates, WithTime
<1>6. Valid(tm) /\ DayNumber(tm) = DayNumber(v) /\ tm.hour = v.hour /\ tm.min = c.min
      /\ (v.min = c.min => tm = v)
  BY <1>1, <1>3, <1>4, <1>5, WithTimeIs
<1>7. tm \in Dates /\ Minutes(tm) \in Int
  BY <1>6, DayNumberIs DEF Valid
<1>8. Minutes(tm) - c.min = Minutes(v) - v.min
  BY <1>4, <1>6, <1>7, SameHour
<1>9. c.min # u.min => Minutes(u) < Minutes(tm)
  <2> DEFINE a == Minutes(u)
             b == Minutes(v)
             d == Minutes(tm)
             m == c.min
             n == u.min
             k == v.min
  <2>1. /\ a \in Nat /\ b \in Int /\ d \in Int /\ m \in 0..59 /\ n \in 0..59 /\ k \in 0..59
        /\ d - m = b - k
        /\ m < n => b = a + 60
        /\ ~(m < n) => b = a /\ k = n
    BY <1>1, <1>3, <1>4, <1>7, <1>8
  <2> HIDE DEF a, b, d, m, n, k
  <2>2. m # n => a < d
    BY <2>1
  <2> QED  BY <2>2 DEF a, d, m, n
<1>10. c.min = u.min => tm = u
  BY <1>1, <1>3, <1>6
<1> QED  BY <1>6, <1>9, <1>10 DEF tm

\* With a day that is settled, the time of day only moves forward.
LEMMA FromHour ==
  ASSUME NEW c, IsCron(c), NEW u, Valid(u), Minutes(u) \in Nat,
         NEW s, Has(s, u, u, "none")
  PROVE  /\ IsDate(HourStep(c, s).t)
         /\ Valid(Finish(c, HourStep(c, s)))
         /\ c.hour \in {Star, u.hour} /\ c.min = u.min => Finish(c, HourStep(c, s)) = u
         /\ ~(c.hour \in {Star, u.hour} /\ c.min = u.min) =>
              Minutes(u) < Minutes(Finish(c, HourStep(c, s)))
<1> DEFINE h  == HourStep(c, s)
           tm == Finish(c, h)
<1>1. u \in Dates /\ u.hour \in Hours /\ u.min \in MinutesOfHour /\ DayNumber(u) \in Int
  BY Fields, DayNumberIs DEF Valid, Hours, MinutesOfHour
<1>2. c.hour # Star => c.hour \in Hours
  BY CronFields DEF Hours
<1>3. CASE c.hour = Star
  <2>1. h = s
    BY <1>3 DEF HourStep
  <2>2. IsDate(h.t)
    BY <2>1 DEF Has, Valid
  <2> HIDE DEF h
  <2> QED  BY <1>3, <2>1, <2>2, FinishNone DEF h
<1>4. CASE c.hour # Star /\ c.hour < u.hour
  <2> DEFINE v == PlusMonths(u, 1)
             e == WithTime(v, c.hour, v.min)
  <2>1. Valid(v) /\ MonthOf(v) = MonthOf(u) + 1
    BY PlusMonthsIs
  <2>2. v \in Dates /\ v.min \in MinutesOfHour
    BY <2>1, Fields DEF Valid, MinutesOfHour
  <2>3. [v EXCEPT !.hour = c.hour] = e
    BY <1>2, <1>4, <2>2 DEF WithTime, Dates, Hours
  <2>4. Has(h, e, e, "minute")
    <3>1. h = [At([v EXCEPT !.hour = c.hour]) EXCEPT !.others = "minute"]
      BY <1>4 DEF HourStep, Has
    <3> HIDE DEF e, v
    <3> QED  BY <2>3, <3>1 DEF Has, At
  <2> HIDE DEF v
  <2>5. Valid(e) /\ DayNumber(e) = DayNumber(v)
    BY <1>2, <1>4, <2>1, <2>2, WithTimeIs
  <2> HIDE DEF h, e
  <2>6. Valid(tm) /\ DayNumber(tm) = DayNumber(v)
    BY <2>4, <2>5, FinishMinute
  <2>7. IsDate(h.t)
    BY <2>4, <2>5 DEF Has, Valid
  <2>8. DayNumber(u) < DayNumber(v)
    <3>1. MonthOf(u) < MonthOf(v)
      BY <1>1, <2>1, Fields
    <3> QED  BY <2>2, <3>1, LaterMonth
  <2> HIDE DEF tm
  <2>9. tm \in Dates /\ DayNumber(u) < DayNumber(tm)
    BY <2>6, <2>8 DEF Valid
  <2>10. Minutes(u) < Minutes(tm)
    BY <1>1, <2>9, LaterDay
  <2>11. c.hour # u.hour
    BY <1>1, <1>2, <1>4 DEF Hours
  <2> QED  BY <1>4, <2>6, <2>7, <2>10, <2>11 DEF tm, h
<1>5. CASE c.hour # Star /\ ~(c.hour < u.hour)
  <2> DEFINE e == WithTime(u, c.hour, u.min)
  <2>1. [u EXCEPT !.hour = c.hour] = e
    BY <1>1, <1>2, <1>5 DEF WithTime, Dates, Hours
  <2>2. Has(h, e, e, "none")
    <3>1. h = At([u EXCEPT !.hour = c.hour])
      BY <1>5 DEF HourStep, Has
    <3> HIDE DEF e
    <3> QED  BY <2>1, <3>1 DEF Has, At
  <2>3. /\ Valid(e) /\ DayNumber(e) = DayNumber(u) /\ e.hour = c.hour /\ e.min = u.min
        /\ (c.hour = u.hour => e = u)
    BY <1>1, <1>2, <1>5, WithTimeIs
  <2> HIDE DEF h, e
  <2>4. e \in Dates /\ Minutes(e) \in Int /\ Minutes(u) \in Int
    BY <1>1, <2>3, DayNumberIs DEF Valid
  <2>5. c.hour # u.hour => Minutes(u) < Minutes(e)
    <3> DEFINE day == DayNumber(u)
               a   == u.hour
               b   == c.hour
               m   == u.min
    <3>1. /\ day \in Int /\ a \in 0..23 /\ b \in 0..23 /\ m \in 0..59 /\ ~(b < a)
          /\ Minutes(u) = 1440 * day + 60 * a + m /\ Minutes(e) = 1440 * day + 60 * b + m
      BY <1>1, <1>2, <1>5, <2>3, <2>4, DayNumberIs DEF Moment, Hours, MinutesOfHour
    <3> HIDE DEF day, a, b, m
    <3>2. a # b => Minutes(u) < Minutes(e)
      BY <3>1
    <3> QED  BY <3>2 DEF a, b
  <2>6. Minutes(e) \in Nat
    BY <2>3, <2>4, <2>5
  <2>7. /\ Valid(tm)
        /\ c.min = e.min => tm = e
        /\ c.min # e.min => Minutes(e) < Minutes(tm)
    BY <2>2, <2>3, <2>6, FinishNone
  <2>8. IsDate(h.t)
    BY <2>2, <2>3 DEF Has, Valid
  <2> HIDE DEF tm
  <2>9. Minutes(tm) \in Int
    BY <2>7, DayNumberIs DEF Valid
  <2>10. c.hour = u.hour /\ c.min = u.min => tm = u
    BY <2>3, <2>7
  <2>11. ~(c.hour = u.hour /\ c.min = u.min) => Minutes(u) < Minutes(tm)
    BY <2>3, <2>4, <2>5, <2>7, <2>9
  <2> QED  BY <1>5, <2>7, <2>8, <2>10, <2>11 DEF tm, h
<1> QED  BY <1>3, <1>4, <1>5

\* The days of the week are listed in ascending order.
Ascending(c) == c.dow # Star => \A i, j \in DOMAIN c.dow : i < j => c.dow[i] < c.dow[j]

LEMMA FirstOf ==
  ASSUME NEW S, S \subseteq Nat, S # {}
  PROVE  \E i \in S : \A j \in S : i <= j
<1>1. \E i \in S : \A j \in S : ~(<<j, i>> \in OpToRel(<, Nat))
  BY WFMin, NatLessThanWellFounded, Zenon
<1>2. PICK i \in S : \A j \in S : ~(<<j, i>> \in OpToRel(<, Nat))
  BY <1>1
<1>3. \A j \in S : ~(j < i)
  BY <1>2, Zenon DEF OpToRel
<1> QED  BY <1>3, SMT

\* A schedule for any month.
AnyMonthIs(c, u, o, h, tm) ==
  /\ c.day \notin 29..31 => IsDate(o.t)
  /\ IsDate(o.t) => /\ IsDate(h.t) /\ Valid(tm)
                    /\ DayNumber(u) <= DayNumber(tm)
                    /\ Minutes(u) < Minutes(tm) \/ Named(c, tm)
                    /\ Ascending(c) /\ Named(c, u) => tm = u

LEMMA AnyMonth ==
  ASSUME NEW c, IsCron(c), c.month = Star, NEW u, Valid(u), Minutes(u) \in Nat
  PROVE  LET o == DateStep(c, At(u))
             h == HourStep(c, o)
         IN  AnyMonthIs(c, u, o, h, Finish(c, h))
<1> DEFINE s  == At(u)
           o  == DateStep(c, s)
           h  == HourStep(c, o)
           tm == Finish(c, h)
<1> SUFFICES AnyMonthIs(c, u, o, h, tm)
  OBVIOUS
<1>1. Has(s, u, u, "none")
  BY DEF Has, At
<1>2. u \in Dates /\ DayNumber(u) \in Int /\ u.mday <= DaysIn(u.year, u.mon)
  BY DayNumberIs DEF Valid, IsDate
<1> HIDE DEF s
\* A valid day v, and only the time of day left to choose.
<1>3. ASSUME NEW v, Valid(v), Minutes(v) \in Nat, Has(o, v, v, "none"),
             v = u \/ DayNumber(u) < DayNumber(v),
             c.dow = Star, c.day \in {Star, v.mday},
             Named(c, u) => v = u
      PROVE  AnyMonthIs(c, u, o, h, tm)
  <2> HIDE DEF o
  <2>1. /\ IsDate(h.t) /\ Valid(tm)
        /\ c.hour \in {Star, v.hour} /\ c.min = v.min => tm = v
        /\ ~(c.hour \in {Star, v.hour} /\ c.min = v.min) => Minutes(v) < Minutes(tm)
    BY <1>3, FromHour
  <2> HIDE DEF h, tm
  <2>2. /\ v \in Dates /\ tm \in Dates /\ DayNumber(v) \in Int /\ DayNumber(tm) \in Int
        /\ Minutes(u) \in Int /\ Minutes(v) \in Int /\ Minutes(tm) \in Int
    BY <1>2, <1>3, <2>1, DayNumberIs DEF Valid
  <2>3. DayNumber(v) <= DayNumber(tm)
    BY <2>1, <2>2, LaterDay
  <2>4. Minutes(u) <= Minutes(v)
    BY <1>2, <1>3, <2>2, LaterDay
  <2>5. DayNumber(u) <= DayNumber(tm)
    BY <1>2, <1>3, <2>2, <2>3
  <2>6. Minutes(u) < Minutes(tm) \/ Named(c, tm)
    BY <1>3, <2>1, <2>2, <2>4 DEF Named
  <2>7. Named(c, u) => tm = u
    BY <1>3, <2>1 DEF Named
  <2>8. IsDate(o.t)
    BY <1>3 DEF Has, Valid
  <2> QED  BY <2>1, <2>5, <2>6, <2>7, <2>8 DEF AnyMonthIs
\* A later day v, or this one out of a list of days of the week.
<1>4. ASSUME NEW v, Valid(v), Minutes(v) \in Nat, Has(o, v, v, "hour"),
             \/ DayNumber(u) < DayNumber(v)
             \/ v = u /\ c.dow # Star /\ \E i \in DOMAIN c.dow : c.dow[i] = Wday(u),
             Ascending(c) /\ Named(c, u) => v = u
      PROVE  AnyMonthIs(c, u, o, h, tm)
  <2> HIDE DEF o
  <2>1. h = o
    BY <1>4 DEF HourStep, Has
  <2>2. IsDate(o.t) /\ IsDate(h.t)
    BY <1>4, <2>1 DEF Has, Valid
  <2>3. OnDay(c, v, tm)
    BY <1>4, <2>1, FinishHour
  <2> HIDE DEF h, tm
  <2>4. v \in Dates /\ tm \in Dates /\ DayNumber(v) \in Int /\ DayNumber(tm) \in Int
    BY <1>4, <2>3, DayNumberIs DEF Valid, OnDay
  <2>5. DayNumber(u) <= DayNumber(tm)
    BY <1>2, <1>4, <2>3, <2>4 DEF OnDay
  <2>6. DayNumber(u) < DayNumber(tm) \/ Named(c, tm)
    <3>1. CASE DayNumber(u) < DayNumber(v) \/ DayNumber(v) < DayNumber(tm)
      BY <1>2, <1>4, <2>3, <2>4, <3>1 DEF OnDay
    <3>2. CASE ~(DayNumber(u) < DayNumber(v)) /\ ~(DayNumber(v) < DayNumber(tm))
      <4>1. c.day = Star
        BY <1>4, <3>2, CronFields
      <4> QED  BY <1>4, <2>3, <3>2, <4>1 DEF OnDay, Named
    <3> QED  BY <3>1, <3>2
  <2>7. Minutes(u) < Minutes(tm) \/ Named(c, tm)
    BY <1>2, <2>4, <2>6, LaterDay
  <2>8. Ascending(c) /\ Named(c, u) => tm = u
    BY <1>4, <2>3 DEF Named, OnDay
  <2> QED  BY <2>2, <2>3, <2>5, <2>7, <2>8 DEF AnyMonthIs, OnDay
<1>5. CASE c.day # Star
  <2>1. c.day \in 1..31 /\ c.dow = Star
    BY <1>5, CronFields
  <2>2. u.mday \in 1..31
    BY <1>2, Fields
  <2>3. CASE c.day < u.mday
    <3> DEFINE p == PlusMonths(u, 1)
               v == [p EXCEPT !.mday = c.day]
    <3>1. Has(o, v, v, "hour")
      <4>1. o = [At(v) EXCEPT !.others = "hour"]
        BY <1>1, <1>5, <2>3 DEF DateStep, DayStep, Has
      <4> HIDE DEF v
      <4> QED  BY <4>1 DEF Has, At
    <3>2. Valid(p) /\ MonthOf(p) = MonthOf(u) + 1
      BY PlusMonthsIs
    <3> HIDE DEF p, o
    <3>3. v \in Dates /\ v.year = p.year /\ v.mon = p.mon /\ v.mday = c.day
      BY <2>1, <3>2 DEF Valid, Dates
    <3>4. MonthOf(u) < MonthOf(v) /\ MonthOf(v) = MonthOf(p)
      <4>1. MonthOf(v) = MonthOf(p)
        BY <3>3 DEF MonthOf
      <4> QED  BY <1>2, <3>2, <4>1, Fields
    <3>5. c.day \notin 29..31 => IsDate(v)
      <4> HIDE DEF v
      <4>1. DaysIn(v.year, v.mon) \in 28..31
        BY <3>3, Fields
      <4> QED  BY <2>1, <3>3, <4>1 DEF IsDate
    <3> HIDE DEF v
    <3>6. DayNumber(u) < DayNumber(v)
      BY <3>3, <3>4, LaterMonth
    <3>7. CASE IsDate(v)
      <4>1. Valid(v) /\ Minutes(v) \in Nat
        <5>1. Minutes(u) < Minutes(v) /\ Minutes(v) \in Int
          BY <1>2, <3>3, <3>6, LaterDay, DayNumberIs
        <5> QED  BY <3>3, <3>7, <5>1 DEF Valid
      <4>2. ~Named(c, u)
        BY <1>5, <2>1, <2>2, <2>3 DEF Named
      <4> QED  BY <1>4, <3>1, <3>6, <4>1, <4>2
    <3>8. CASE ~IsDate(v)
      BY <3>1, <3>5, <3>8 DEF AnyMonthIs, Has
    <3> QED  BY <3>7, <3>8
  <2>4. CASE ~(c.day < u.mday)
    <3> DEFINE v == [u EXCEPT !.mday = c.day]
    <3>1. Has(o, v, v, "none")
      <4>1. o = At(v)
        BY <1>1, <1>5, <2>4 DEF DateStep, DayStep, Has
      <4> HIDE DEF v
      <4> QED  BY <4>1 DEF Has, At
    <3> HIDE DEF o
    <3>2. /\ v \in Dates /\ v.year = u.year /\ v.mon = u.mon /\ v.mday = c.day
          /\ (c.day = u.mday => v = u)
      BY <1>2, <2>1 DEF Dates
    <3>3. MonthOf(v) = MonthOf(u)
      BY <3>2 DEF MonthOf
    <3>4. c.day \notin 29..31 => IsDate(v)
      <4> HIDE DEF v
      <4>1. DaysIn(v.year, v.mon) \in 28..31
        BY <3>2, Fields
      <4> QED  BY <2>1, <3>2, <4>1 DEF IsDate
    <3> HIDE DEF v
    <3>5. v = u \/ DayNumber(u) < DayNumber(v)
      <4>1. DayNumber(v) - v.mday = DayNumber(u) - u.mday /\ DayNumber(v) \in Int
        BY <1>2, <3>2, <3>3, SameMonth, DayNumberIs
      <4> QED  BY <1>2, <2>1, <2>2, <2>4, <3>2, <4>1
    <3>6. CASE IsDate(v)
      <4>1. Valid(v) /\ Minutes(v) \in Nat
        <5>1. v = u \/ (Minutes(u) < Minutes(v) /\ Minutes(v) \in Int)
          BY <1>2, <3>2, <3>5, LaterDay, DayNumberIs
        <5> QED  BY <3>2, <3>6, <5>1 DEF Valid
      <4>2. Named(c, u) => v = u
        BY <1>5, <3>2 DEF Named
      <4> QED  BY <1>3, <2>1, <3>1, <3>2, <3>5, <4>1, <4>2
    <3>7. CASE ~IsDate(v)
      BY <3>1, <3>4, <3>7 DEF AnyMonthIs, Has
    <3> QED  BY <3>6, <3>7
  <2> QED  BY <2>3, <2>4
<1>6. CASE c.day = Star /\ c.dow = Star
  <2>1. o = s
    BY <1>1, <1>6 DEF DateStep, Has
  <2> QED  BY <1>1, <1>3, <1>6, <2>1
<1>7. CASE c.day = Star /\ c.dow # Star
  <2> DEFINE wday  == Wday(u)
             later == {i \in DOMAIN c.dow : c.dow[i] >= wday}
             next  == CHOOSE i \in later : \A j \in later : i <= j
  <2>1. c.dow \in Seq(0..6) /\ c.dow[1] \in 0..6 /\ wday \in 0..6
    BY <1>2, <1>7, CronFields, WdayIs
  <2>2. CASE later = {}
    <3> DEFINE v == PlusDays(u, 7 - c.dow[1])
    <3>1. o = [At(v) EXCEPT !.others = "hour"]
      BY <1>1, <1>7, <2>2 DEF DateStep, DowStep, Has
    <3>2. 7 - c.dow[1] \in Nat /\ 0 < 7 - c.dow[1]
      BY <2>1
    <3>3. Valid(v) /\ DayNumber(v) = DayNumber(u) + (7 - c.dow[1])
      BY <3>2, PlusDaysIs
    <3> HIDE DEF v, o
    <3>4. Has(o, v, v, "hour")
      BY <3>1 DEF Has, At
    <3>5. v \in Dates /\ DayNumber(u) < DayNumber(v)
      BY <1>2, <3>2, <3>3 DEF Valid
    <3>6. Minutes(v) \in Nat
      <4>1. Minutes(u) < Minutes(v) /\ Minutes(v) \in Int
        BY <1>2, <3>5, LaterDay, DayNumberIs
      <4> QED  BY <4>1
    <3>7. ~Named(c, u)
      BY <1>7, <2>1, <2>2 DEF Named
    <3> QED  BY <1>4, <3>3, <3>4, <3>5, <3>6, <3>7
  <2>3. CASE later # {}
    <3> DEFINE v == PlusDays(u, c.dow[next] - wday)
    <3>1. o = [At(v) EXCEPT !.others = "hour", !.dowOk = TRUE]
      BY <1>1, <1>7, <2>3 DEF DateStep, DowStep, Has
    <3>2. next \in later /\ \A j \in later : next <= j
      <4>1. later \subseteq Nat
        BY <2>1
      <4> HIDE DEF later
      <4>2. \E i \in later : \A j \in later : i <= j
        BY <2>3, <4>1, FirstOf
      <4> QED  BY <4>2
    <3> HIDE DEF next
    <3>3. next \in DOMAIN c.dow /\ c.dow[next] \in 0..6 /\ c.dow[next] - wday \in Nat
      BY <2>1, <3>2
    <3>4. /\ Valid(v) /\ DayNumber(v) = DayNumber(u) + (c.dow[next] - wday)
          /\ c.dow[next] - wday = 0 => v = u
      BY <3>3, PlusDaysIs
    <3> HIDE DEF v, o
    <3>5. Has(o, v, v, "hour")
      BY <3>1 DEF Has, At
    <3>6. v \in Dates /\ (DayNumber(u) < DayNumber(v) \/ (v = u /\ c.dow[next] = wday))
      BY <1>2, <2>1, <3>3, <3>4 DEF Valid
    <3>7. Minutes(v) \in Nat
      <4>1. v = u \/ (Minutes(u) < Minutes(v) /\ Minutes(v) \in Int)
        BY <1>2, <3>6, LaterDay, DayNumberIs
      <4> QED  BY <4>1
    <3>8. Ascending(c) /\ Named(c, u) => v = u
      <4> SUFFICES ASSUME Ascending(c), Named(c, u)  PROVE c.dow[next] = wday
        BY <2>1, <3>3, <3>4
      <4>1. PICK i \in DOMAIN c.dow : c.dow[i] = wday
        BY <1>7 DEF Named
      <4>2. i \in later /\ next <= i
        BY <2>1, <3>2, <4>1
      <4>3. next = i \/ c.dow[next] < c.dow[i]
        BY <1>7, <2>1, <3>3, <4>2 DEF Ascending
      <4> QED  BY <2>1, <3>2, <3>3, <4>1, <4>3
    <3> QED  BY <1>4, <1>7, <3>3, <3>4, <3>5, <3>6, <3>7, <3>8
  <2> QED  BY <2>2, <2>3
<1> QED  BY <1>5, <1>6, <1>7

\* A schedule for one month of the year.
LEMMA GivenMonth ==
  ASSUME NEW c, IsCron(c), c.month # Star, NEW u, Valid(u), Minutes(u) \in Nat
  PROVE  LET m  == MonthStep(c, At(u))
             tm == Finish(c, m)
         IN  /\ DateStep(c, m) = m /\ HourStep(c, m) = m
             /\ IsDate(m.t) =>
                  /\ tm \in Dates
                  /\ Minutes(u) < Minutes(tm) \/ (Valid(tm) /\ Named(c, tm))
                  /\ Named(c, u) /\ (c.dow = Star \/ Len(c.dow) = 1) => tm = u
<1> DEFINE ahead == (IF c.month < u.mon THEN 12 ELSE c.month) - u.mon
           p  == PlusMonths(u, ahead)
           v  == [p EXCEPT !.mon = c.month]
           m  == MonthStep(c, At(u))
           tm == Finish(c, m)
<1>1. u \in Dates /\ u.mon \in 0..11 /\ u.year \in Int /\ DayNumber(u) \in Int
  BY Fields, DayNumberIs DEF Valid
<1>2. c.month \in 0..11
  BY CronFields
<1>3. Has(m, v, v, "day")
  <2>1. m = [At(v) EXCEPT !.others = "day"]
    BY DEF MonthStep, At
  <2> HIDE DEF v
  <2> QED  BY <2>1 DEF Has, At
<1> HIDE DEF m
<1>4. DateStep(c, m) = m /\ HourStep(c, m) = m
  BY <1>3 DEF DateStep, HourStep, Has
<1>5. ahead \in Nat /\ (c.month = u.mon => ahead = 0)
  BY <1>1, <1>2
<1>6. /\ Valid(p) /\ MonthOf(p) = MonthOf(u) + ahead /\ p.mon = (u.mon + ahead) % 12
      /\ (ahead = 0 => p = u)
  BY <1>5, PlusMonthsIs
<1> HIDE DEF p
<1>7. v \in Dates /\ v.year = p.year /\ v.mon = c.month /\ v.mday = p.mday
  BY <1>2, <1>6 DEF Valid, Dates
<1>8. c.month = u.mon => v = u
  BY <1>1, <1>5, <1>6 DEF Dates
<1> HIDE DEF v
<1>9. c.month # u.mon => MonthOf(u) < MonthOf(v)
  <2> DEFINE a == u.mon
             b == c.month
             y == u.year
             z == p.year
  <2>1. p \in Dates /\ p.year \in Int
    BY <1>6, Fields DEF Valid
  <2>2. /\ a \in 0..11 /\ b \in 0..11 /\ y \in Int /\ z \in Int
        /\ ahead = (IF b < a THEN 12 ELSE b) - a
        /\ 12 * z + ((a + ahead) % 12) = 12 * y + a + ahead
        /\ MonthOf(u) = 12 * y + a /\ MonthOf(v) = 12 * z + b
    BY <1>1, <1>2, <1>6, <1>7, <2>1 DEF MonthOf
  <2> HIDE DEF a, b, y, z, ahead
  <2>3. CASE b < a
    <3>1. a + ahead = 12
      BY <2>2, <2>3
    <3> QED  BY <2>2, <2>3, <3>1
  <2>4. CASE ~(b < a)
    <3>1. a + ahead = b
      BY <2>2, <2>4
    <3>2. z = y
      BY <2>2, <3>1
    <3>3. a # b => MonthOf(u) < MonthOf(v)
      BY <2>2, <2>4, <3>2
    <3> QED  BY <3>3 DEF a, b
  <2> QED  BY <2>3, <2>4
<1>10. ASSUME IsDate(m.t)
       PROVE  /\ tm \in Dates
              /\ Minutes(u) < Minutes(tm) \/ (Valid(tm) /\ Named(c, tm))
              /\ Named(c, u) /\ (c.dow = Star \/ Len(c.dow) = 1) => tm = u
  <2>1. Valid(v)
    BY <1>3, <1>7, <1>10 DEF Valid, Has
  <2>2. v = u \/ (MonthOf(u) < MonthOf(v) /\ DayNumber(u) < DayNumber(v))
    BY <1>7, <1>8, <1>9, LaterMonth
  <2>3. DayNumber(v) \in Int /\ Minutes(v) \in Int /\ MonthOf(v) \in Int /\ MonthOf(u) \in Int
    BY <1>1, <1>7, DayNumberIs, Fields
  <2>4. Minutes(v) \in Nat
    <3>1. v = u \/ Minutes(u) < Minutes(v)
      BY <1>1, <1>7, <2>2, LaterDay
    <3> QED  BY <2>3, <3>1
  <2>5. InMonth(c, v, tm)
    BY <1>3, <2>1, <2>4, FinishDay
  <2> HIDE DEF tm
  <2>6. tm \in Dates /\ MonthOf(tm) \in Int /\ DayNumber(tm) \in Int
    BY <2>5, Fields, DayNumberIs DEF InMonth
  <2>7. CASE v = u
    <3>1. DayNumber(u) < DayNumber(tm) => Minutes(u) < Minutes(tm)
      BY <1>1, <2>6, LaterDay
    <3>2. c.month = u.mon
      BY <1>7, <2>7
    <3> QED  BY <2>5, <2>6, <2>7, <3>1, <3>2 DEF InMonth
  <2>8. CASE MonthOf(u) < MonthOf(v) /\ DayNumber(u) < DayNumber(v)
    <3>1. MonthOf(u) < MonthOf(tm) \/ DayNumber(u) < DayNumber(tm)
      BY <1>1, <2>3, <2>5, <2>6, <2>8 DEF InMonth
    <3>2. Minutes(u) < Minutes(tm)
      BY <1>1, <2>6, <3>1, LaterMonth, LaterDay
    <3>3. ~Named(c, u)
      BY <1>8, <2>3, <2>8 DEF Named
    <3> QED  BY <2>6, <3>2, <3>3
  <2> QED  BY <2>2, <2>7, <2>8
<1> QED  BY <1>4, <1>10 DEF m, tm

-----------------------------------------------------------------------------

\* createTime, step by step.
Month(c, now) == MonthStep(c, At(Tm(now)))
Date(c, now) == DateStep(c, Month(c, now))
Hour(c, now) == HourStep(c, Date(c, now))
NoThrow(c, now) == IsDate(Month(c, now).t) /\ IsDate(Date(c, now).t) /\ IsDate(Hour(c, now).t)

LEMMA CreateTimeIs ==
  ASSUME NEW c, NEW now
  PROVE  createTime(c, now) =
           IF NoThrow(c, now) THEN Minutes(Finish(c, Hour(c, now))) ELSE OutOfRange
  BY DEF createTime, Finish, NoThrow, Month, Date, Hour

\* What the steps make of any moment.
LEMMA StepsAre ==
  ASSUME NEW c, IsCron(c), NEW now \in Nat
  PROVE  LET tm == Finish(c, Hour(c, now))
         IN  /\ NoThrow(c, now) =>
                  /\ tm \in Dates
                  /\ now < Minutes(tm) \/ (Valid(tm) /\ Named(c, tm))
                  /\ Ascending(c) /\ (c.month = Star \/ c.dow = Star \/ Len(c.dow) = 1)
                       /\ Named(c, Tm(now)) => tm = Tm(now)
             /\ c.month = Star /\ c.day \notin 29..31 => NoThrow(c, now)
             /\ c.month = Star /\ NoThrow(c, now) => Minutes(tm) \in Nat
<1> DEFINE u  == Tm(now)
           m  == Month(c, now)
           o  == Date(c, now)
           h  == Hour(c, now)
           tm == Finish(c, h)
<1>1. Valid(u) /\ Minutes(u) = now /\ Minutes(u) \in Nat
  BY TmIs
<1>2. u \in Dates /\ DayNumber(u) \in Int /\ u.hour \in 0..23 /\ u.min \in 0..59
  BY <1>1, Fields, DayNumberIs DEF Valid
<1>3. m = MonthStep(c, At(u)) /\ o = DateStep(c, m) /\ h = HourStep(c, o)
  BY DEF Month, Date, Hour
<1>4. CASE c.month = Star
  <2>1. m = At(u)
    BY <1>3, <1>4 DEF MonthStep
  <2>2. IsDate(m.t)
    BY <1>1, <2>1 DEF At, Valid
  <2>3. AnyMonthIs(c, u, o, h, tm)
    BY <1>1, <1>3, <1>4, <2>1, AnyMonth
  <2>4. NoThrow(c, now) <=> IsDate(o.t)
    BY <2>2, <2>3 DEF NoThrow, AnyMonthIs
  <2> HIDE DEF u, m, o, h, tm
  <2>5. IsDate(o.t) => tm \in Dates /\ Minutes(tm) \in Nat
    <3> SUFFICES ASSUME IsDate(o.t)  PROVE tm \in Dates /\ Minutes(tm) \in Nat
      OBVIOUS
    <3>1. tm \in Dates /\ DayNumber(u) <= DayNumber(tm)
      BY <2>3 DEF AnyMonthIs, Valid
    <3>2. tm.hour \in 0..23 /\ tm.min \in 0..59 /\ DayNumber(tm) \in Int
      BY <3>1, Fields, DayNumberIs
    <3> DEFINE a == DayNumber(u)
               d == u.hour
               e == u.min
               b == DayNumber(tm)
               f == tm.hour
               g == tm.min
    <3>3. /\ a \in Int /\ d \in 0..23 /\ e \in 0..59 /\ b \in Int /\ f \in 0..23 /\ g \in 0..59
          /\ a <= b /\ 1440 * a + 60 * d + e \in Nat
          /\ Minutes(tm) = 1440 * b + 60 * f + g
      BY <1>1, <1>2, <3>1, <3>2, DayNumberIs DEF Moment
    <3> HIDE DEF a, b, d, e, f, g
    <3>4. Minutes(tm) \in Nat
      BY <3>3
    <3> QED  BY <3>1, <3>4
  <2>6. /\ c.day \notin 29..31 => IsDate(o.t)
        /\ IsDate(o.t) => /\ now < Minutes(tm) \/ (Valid(tm) /\ Named(c, tm))
                          /\ Ascending(c) /\ Named(c, u) => tm = u
    BY <1>1, <2>3 DEF AnyMonthIs
  <2> QED  BY <1>4, <2>4, <2>5, <2>6 DEF u, h, tm
<1>5. CASE c.month # Star
  <2>1. /\ DateStep(c, m) = m /\ HourStep(c, m) = m
        /\ IsDate(m.t) =>
             /\ Finish(c, m) \in Dates
             /\ Minutes(u) < Minutes(Finish(c, m))
                  \/ (Valid(Finish(c, m)) /\ Named(c, Finish(c, m)))
             /\ Named(c, u) /\ (c.dow = Star \/ Len(c.dow) = 1) => Finish(c, m) = u
    BY <1>1, <1>3, <1>5, GivenMonth
  <2>2. h = m
    BY <1>3, <2>1
  <2>3. NoThrow(c, now) => IsDate(m.t)
    BY DEF NoThrow
  <2> HIDE DEF u, m, o, h
  <2> QED  BY <1>1, <1>5, <2>1, <2>2, <2>3 DEF u, h
<1> QED  BY <1>4, <1>5

\* What Matches reads of a minute.
LEMMA MatchesIs ==
  ASSUME NEW c, NEW minute
  PROVE  Matches(c, minute) <=> Named(c, Tm(minute))
  BY DEF Matches, Named

\* The schedules createTime is right about: days of the week in order, and with
\* a month one day of the week at most, as O_DAY looks at the first one only.
Supported(c) ==
  IsCron(c) /\ Ascending(c) /\ (c.month = Star \/ c.dow = Star \/ Len(c.dow) = 1)

\* What createTime returns is a minute that matches the schedule in every field,
\* unless it is still to come.
THEOREM ResultMatches ==
  ASSUME NEW c, IsCron(c), NEW now \in Nat, createTime(c, now) \in 0..now
  PROVE  Matches(c, createTime(c, now))
<1> DEFINE tm == Finish(c, Hour(c, now))
<1>1. createTime(c, now) = Minutes(tm) /\ NoThrow(c, now)
  BY CreateTimeIs DEF OutOfRange
<1>2. tm \in Dates /\ (now < Minutes(tm) \/ (Valid(tm) /\ Named(c, tm)))
  BY <1>1, StepsAre
<1> HIDE DEF tm
<1>3. Valid(tm) /\ Named(c, tm) /\ Minutes(tm) \in Nat
  BY <1>1, <1>2
<1> QED  BY <1>1, <1>3, TmOfMinutes, MatchesIs

\* Called in a minute that matches the schedule, createTime returns just that.
THEOREM MatchIsNamed ==
  ASSUME NEW c, Supported(c), NEW now \in Nat, Matches(c, now),
         createTime(c, now) # OutOfRange
  PROVE  createTime(c, now) = now
<1> DEFINE tm == Finish(c, Hour(c, now))
<1>1. createTime(c, now) = Minutes(tm) /\ NoThrow(c, now)
  BY CreateTimeIs
<1>2. Named(c, Tm(now))
  BY MatchesIs
<1>3. tm = Tm(now)
  BY <1>1, <1>2, StepsAre DEF Supported
<1> QED  BY <1>1, <1>3, TmIs

\* createTime throws only for schedules with a month, or a day from 29 on.
THEOREM ThrowIsRare ==
  ASSUME NEW c, IsCron(c), NEW now \in Nat, createTime(c, now) = OutOfRange
  PROVE  c.month # Star \/ c.day \in 29..31
<1> SUFFICES ASSUME c.month = Star, c.day \notin 29..31  PROVE FALSE
  OBVIOUS
<1>1. NoThrow(c, now) /\ Minutes(Finish(c, Hour(c, now))) \in Nat
  BY StepsAre
<1> QED  BY <1>1, CreateTimeIs DEF OutOfRange
====
