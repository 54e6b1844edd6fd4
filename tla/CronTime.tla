------------------------------- MODULE CronTime ------------------------------
(***************************************************************************)
(* createTime: the time a cron schedule of LDAP names next, seen from a    *)
(* given minute.  The code is there twice with the same text,              *)
(* CronConfiguration::createTime for shutdowns and                         *)
(* VmBackupConfiguration::createTime for backups.                          *)
(*                                                                         *)
(* A time is a number of minutes since 1 March 2000, local time without    *)
(* summer time.  Years are counted from 2000, months from 0, as the code   *)
(* does (tm_mon), days of the week from Sunday = 0.                        *)
(***************************************************************************)
EXTENDS Integers, Sequences

CONSTANT Star   \* "*" in a field of a schedule

\* A schedule: month, day, dow, hour and min, each a number or Star; dow is a
\* sequence of days, as in "1,4".  Minutes and one of day and dow as createTime
\* wants them; with anything else it returns 0 at once.
IsCron(c) ==
  /\ c.month \in 0..11 \cup {Star}
  /\ c.day \in 1..31 \cup {Star}
  /\ c.dow = Star \/ c.dow \in Seq(0..6) \ {<<>>}
  /\ c.hour \in 0..23 \cup {Star}
  /\ c.min \in 0..59
  /\ c.day = Star \/ c.dow = Star

-----------------------------------------------------------------------------
\* The calendar of Boost and libc.

\* Years begin in March, so that the leap day is the last one.
MarchYear(year, mon) == IF mon < 2 THEN year - 1 ELSE year
DaysBeforeMonth(mon) == (153 * ((mon + 10) % 12) + 2) \div 5
DaysBeforeYear(y) == 365 * y + (y \div 4) - (y \div 100) + (y \div 400)

\* A day beyond the end of its month falls into the next one (mktime).
DayNumber(d) ==
  DaysBeforeYear(MarchYear(d.year, d.mon)) + DaysBeforeMonth(d.mon) + d.mday - 1

Minutes(tm) == 1440 * DayNumber(tm) + 60 * tm.hour + tm.min

\* The year day n is in, guessed from the mean length of a year: right or one
\* too late.
YearOf(n) ==
  LET guess == (400 * n + 700) \div 146097
  IN  IF DaysBeforeYear(guess) > n THEN guess - 1 ELSE guess

Tm(minutes) ==
  LET n    == minutes \div 1440
      y    == YearOf(n)
      doy  == n - DaysBeforeYear(y)
      mp   == (5 * doy + 2) \div 153
      mon  == (mp + 2) % 12
  IN  [year |-> IF mon < 2 THEN y + 1 ELSE y,
       mon  |-> mon,
       mday |-> doy - ((153 * mp + 2) \div 5) + 1,
       hour |-> (minutes % 1440) \div 60,
       min  |-> minutes % 60]

\* 1 March 2000 was a Wednesday.
Wday(tm) == (DayNumber(tm) + 3) % 7

LeapYear(year) == year % 4 = 0 /\ (year % 100 # 0 \/ year % 400 = 0)
DaysIn(year, mon) ==
  CASE mon = 1 -> IF LeapYear(year) THEN 29 ELSE 28
    [] mon \in {3, 5, 8, 10} -> 30
    [] OTHER -> 31

\* What ptime_from_tm accepts; with any other date it throws std::out_of_range.
IsDate(tm) == tm.mday <= DaysIn(tm.year, tm.mon)

\* The end of a month stays an end of month, other days are cut to fit.
PlusMonths(t, k) ==
  LET year == t.year + ((t.mon + k) \div 12)
      mon  == (t.mon + k) % 12
      last == DaysIn(year, mon)
  IN  [t EXCEPT !.year = year, !.mon = mon,
                !.mday = IF t.mday = DaysIn(t.year, t.mon) \/ t.mday > last
                         THEN last ELSE t.mday]

PlusMinutes(t, k) == Tm(Minutes(t) + k)
PlusDays(t, k) == PlusMinutes(t, 1440 * k)

-----------------------------------------------------------------------------
\* The steps of createTime.  They work on t, a ptime, and tm, the struct tm it
\* is written to in between; `others' is O_NONE, O_DAY, O_HOUR or O_MINUTE.

At(t) == [t |-> t, tm |-> t, others |-> "none", dowOk |-> FALSE]

MonthStep(c, s) ==
  IF c.month = Star THEN s
  ELSE LET ahead == (IF c.month < s.tm.mon THEN 12 ELSE c.month) - s.tm.mon
       IN  [At([PlusMonths(s.t, ahead) EXCEPT !.mon = c.month])
              EXCEPT !.others = "day"]

\* Mutant of DayStep: a day of this month is not written to tm.
DayStepLater(c, s) ==
  IF c.day < s.tm.mday
  THEN [At([PlusMonths(s.t, 1) EXCEPT !.mday = c.day]) EXCEPT !.others = "hour"]
  ELSE s

DayStep(c, s) ==
  IF c.day < s.tm.mday
  THEN [At([PlusMonths(s.t, 1) EXCEPT !.mday = c.day]) EXCEPT !.others = "hour"]
  ELSE At([s.tm EXCEPT !.mday = c.day])

\* Mutant of DowStep: an off-by-one in the comparison.
DowStepAfter(c, s) ==
  LET wday  == Wday(s.tm)
      later == {i \in DOMAIN c.dow : c.dow[i] > wday}
      next  == CHOOSE i \in later : \A j \in later : i <= j
  IN  IF later = {}
      THEN [At(PlusDays(s.t, 7 - c.dow[1])) EXCEPT !.others = "hour"]
      ELSE [At(PlusDays(s.t, c.dow[next] - wday))
              EXCEPT !.others = "hour", !.dowOk = TRUE]

\* The first day listed that is not over, or else a day next week.
DowStep(c, s) ==
  LET wday  == Wday(s.tm)
      later == {i \in DOMAIN c.dow : c.dow[i] >= wday}
      next  == CHOOSE i \in later : \A j \in later : i <= j
  IN  IF later = {}
      THEN [At(PlusDays(s.t, 7 - c.dow[1])) EXCEPT !.others = "hour"]
      ELSE [At(PlusDays(s.t, c.dow[next] - wday))
              EXCEPT !.others = "hour", !.dowOk = TRUE]

DateStep(c, s) ==
  IF s.others # "none" THEN s
  ELSE IF c.day # Star THEN DayStep(c, s)
  ELSE IF c.dow # Star THEN DowStep(c, s)
  ELSE s

\* Mutant of HourStep: the month is counted up in tm, where days are not cut.
HourStepInTm(c, s) ==
  IF s.others # "none" \/ c.hour = Star THEN s
  ELSE IF c.hour < s.tm.hour
  THEN [At([s.tm EXCEPT !.mon = (s.tm.mon + 1) % 12, !.hour = c.hour])
          EXCEPT !.others = "minute"]
  ELSE At([s.tm EXCEPT !.hour = c.hour])

HourStep(c, s) ==
  IF s.others # "none" \/ c.hour = Star THEN s
  ELSE IF c.hour < s.tm.hour
  THEN [At([PlusMonths(s.t, 1) EXCEPT !.hour = c.hour]) EXCEPT !.others = "minute"]
  ELSE At([s.tm EXCEPT !.hour = c.hour])

MinuteStep(c, s) ==
  IF s.others # "none" THEN s
  ELSE [s EXCEPT !.tm = [(IF c.min < s.tm.min THEN PlusMinutes(s.t, 60) ELSE s.tm)
                           EXCEPT !.min = c.min]]

\* case O_DAY: of a list of days of the week, atoi takes the first.
OthersDay(c, s) ==
  IF s.others # "day" THEN s
  ELSE IF c.day # Star THEN [s EXCEPT !.tm.mday = c.day]
  ELSE IF c.dow # Star
  THEN LET wday == Wday(s.tm)
           t    == PlusDays(s.t, (IF c.dow[1] < wday THEN 7 ELSE c.dow[1]) - wday)
       IN  [s EXCEPT !.t = t, !.tm = t]
  ELSE s

\* case O_HOUR: the new day is taken from t, whatever O_DAY has put into tm.
OthersHour(c, s) ==
  IF s.others \notin {"day", "hour"} \/ c.hour = Star THEN s
  ELSE IF s.tm.hour <= c.hour THEN [s EXCEPT !.tm.hour = c.hour]
  ELSE LET t == IF c.day # Star THEN PlusMonths(s.t, 1)
                ELSE IF s.dowOk THEN s.t
                ELSE PlusDays(s.t, 7)
       IN  [s EXCEPT !.t = t, !.tm = [t EXCEPT !.hour = c.hour]]

OthersMinute(c, s) ==
  IF s.others = "none" THEN s ELSE [s EXCEPT !.tm.min = c.min]

\* In place of a result: createTime throws std::out_of_range.
OutOfRange == -1

createTime(c, now) ==
  LET inMonth == MonthStep(c, At(Tm(now)))
      onDate  == DateStep(c, inMonth)
      inHour  == HourStep(c, onDate)
      done    == OthersMinute(c, OthersHour(c, OthersDay(c, MinuteStep(c, inHour))))
  IN  IF \A s \in {inMonth, onDate, inHour} : IsDate(s.t)
      THEN Minutes(done.tm) ELSE OutOfRange

\* VmBackupConfiguration::createTime.
backupTime(c, now) == createTime(c, now)

-----------------------------------------------------------------------------

\* Reference: the schedule names this minute.
Matches(c, minute) ==
  LET tm == Tm(minute)
  IN  /\ c.month \in {Star, tm.mon}
      /\ c.day \in {Star, tm.mday}
      /\ c.dow = Star \/ \E i \in DOMAIN c.dow : c.dow[i] = Wday(tm)
      /\ c.hour \in {Star, tm.hour}
      /\ c.min = tm.min
=============================================================================
