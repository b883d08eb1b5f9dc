------------------------------ MODULE MCClock ------------------------------
(* Instances of AutomationClock for TLC.  A day has two hours of a minute,
   a month three days, a week two; a tick is a minute, half of which is slack. *)
EXTENDS AutomationClock

\* Five days whose clocks never change.
Steady == [k \in 1 .. 10 |-> <<(k - 1) \div 2, (k - 1) % 2>>]

\* On the second day the first hour is skipped: the clocks are put forward.
Forward == <<<<0, 0>>, <<0, 1>>, <<1, 1>>, <<2, 0>>, <<2, 1>>, <<3, 0>>, <<3, 1>>>>

Every(f) == {[lo |-> Bounds[f][1], hi |-> Bounds[f][2], step |-> 1]}
Only(v) == {[lo |-> v, hi |-> v, step |-> 1]}

EveryMinute ==
  [minute |-> Every("minute"), hour |-> Every("hour"), dayOfMonth |-> Every("dayOfMonth"),
   month |-> Every("month"), dayOfWeek |-> Every("dayOfWeek"),
   domRestricted |-> FALSE, dowRestricted |-> FALSE]

EveryHour == [EveryMinute EXCEPT !.minute = Only(0)]

\* The first of the month, and every Sunday, by its second number.
FirstAndSunday ==
  [EveryHour EXCEPT !.hour = Only(1), !.dayOfMonth = Only(1), !.dayOfWeek = Only(DaysInWeek),
                    !.domRestricted = TRUE, !.dowRestricted = TRUE]

Schedules == {EveryMinute, FirstAndSunday}
Hourly == {EveryHour}
=============================================================================
