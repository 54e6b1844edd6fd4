---------------------------- MODULE MCRoundTiming ----------------------------
(* Schedules of every kind, and rounds on both sides of what they name: the   *)
(* end of a day, of a week, of a month with and without the day, of a year.   *)
EXTENDS RoundTiming

Cron(month, day, dow, hour, min) ==
  [month |-> month, day |-> day, dow |-> dow, hour |-> hour, min |-> min]

Hourly   == Cron(Star, Star, Star, Star, 0)
Nightly  == Cron(Star, Star, Star, 0, 0)
Weekly   == Cron(Star, Star, <<0, 3>>, 0, 0)
FirstDay == Cron(Star, 1, Star, 0, 0)
LastDay  == Cron(Star, 31, Star, 0, 0)
Saturdays == Cron(2, Star, <<6>>, 0, 0)
NewYear  == Cron(0, 1, Star, 0, 0)
Leap     == Cron(1, 29, Star, 0, 0)

\* Minute `min' of an hour on a date.
On(year, month, day, hour, min) ==
  Minutes([year |-> year, mon |-> month - 1, mday |-> day, hour |-> hour, min |-> min])

Evenings == {On(13, 12, 30, 23, 59), On(13, 12, 31, 23, 59), On(14, 2, 28, 23, 59),
             On(14, 5, 31, 23, 59), On(16, 2, 28, 23, 59), On(14, 7, 8, 23, 59)}

Same(start, cron) ==
  [start |-> start, own |-> [v \in Vm |-> NoCron], pool |-> cron, global |-> Hourly,
   shutdown |-> cron]

\* One machine with its own schedule, the others with the global one.
Own(start, v, cron) ==
  [start |-> start, own |-> [w \in Vm |-> IF w = v THEN cron ELSE NoCron],
   pool |-> NoCron, global |-> Hourly, shutdown |-> NoCron]

MCSettings ==
  {Same(start, cron) : start \in Evenings,
                       cron \in {Nightly, Weekly, FirstDay, LastDay, Saturdays, NewYear, Leap}}
    \cup {Own(start, CHOOSE v \in Vm : TRUE, cron) :
             start \in {On(14, 5, 31, 23, 59), On(14, 7, 8, 23, 59)}, cron \in {Weekly, FirstDay}}
=============================================================================
