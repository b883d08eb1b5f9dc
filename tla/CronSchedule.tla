---------------------------- MODULE CronSchedule ----------------------------
(***************************************************************************)
(* The arithmetic of schedules (electron/automation/cron.mjs): what an     *)
(* expression permits, and the moments it names in an interval.            *)
(*                                                                         *)
(* Calendar and clock are constants.  Clockface lists the hours as they    *)
(* pass, each as the wall clock reads it: where an hour is skipped or      *)
(* repeated, the clocks change.  The calendar may be smaller than ours:    *)
(* nothing in the code depends on its sizes.                               *)
(***************************************************************************)
EXTENDS Integers, Sequences, FiniteSets, SequencesExt

CONSTANTS
  Clockface,   \* <<day, hour>> of each hour that passes, days from 0
  Hours, Minutes, DaysInMonth, DaysInWeek,
  Fine,        \* units of time in a minute
  Expression   \* the expressions at hand

ASSUME CalendarAssumption ==
  /\ Clockface \in Seq(Nat \X (0 .. Hours - 1)) \ {<<>>}
  /\ {Hours, Minutes, DaysInMonth, DaysInWeek, Fine} \subseteq Nat \ {0}

Days == 0 .. Clockface[Len(Clockface)][1]

\* What a Date says of a day.
MonthOf(d) == (d \div DaysInMonth) + 1
DateOf(d) == (d % DaysInMonth) + 1
WeekdayOf(d) == d % DaysInWeek

\* The instant of a wall-clock time as `new Date(y, m, d, h, min)` computes it:
\* of a repeated hour the first, of a skipped one the hour that follows.
Instant(d, h, min) ==
  LET before == {k \in DOMAIN Clockface :
                   \/ Clockface[k][1] < d
                   \/ Clockface[k][1] = d /\ Clockface[k][2] < h}
  IN (Cardinality(before) * Minutes + min) * Fine

-----------------------------------------------------------------------------
(***************************************************************************)
(* An expression: for each field a set of pieces lo-hi/step, and whether a *)
(* day field is anything but "*".                                          *)
(***************************************************************************)
Bounds == [minute |-> <<0, Minutes - 1>>, hour |-> <<0, Hours - 1>>,
           dayOfMonth |-> <<1, DaysInMonth>>, month |-> <<1, 12>>,
           dayOfWeek |-> <<0, DaysInWeek - 1>>]

\* Sunday has a second number, one past the last day of the week.
Spelled(f, v) == IF f = "dayOfWeek" /\ v = DaysInWeek THEN 0 ELSE v

IsPiece(f, p) ==
  LET lo == Spelled(f, p.lo)  hi == Spelled(f, p.hi)
  IN p.step >= 1 /\ Bounds[f][1] <= lo /\ lo <= hi /\ hi <= Bounds[f][2]

Permits(f, p) == {v \in Spelled(f, p.lo) .. Spelled(f, p.hi) : (v - Spelled(f, p.lo)) % p.step = 0}

Parses(e) == \A f \in DOMAIN Bounds : e[f] # {} /\ \A p \in e[f] : IsPiece(f, p)

Values(e, f) == UNION {Permits(f, p) : p \in e[f]}

\* Mutant: two restricted day fields must both match.
DayMatches_both(e, d) ==
  /\ MonthOf(d) \in Values(e, "month")
  /\ DateOf(d) \in Values(e, "dayOfMonth") /\ WeekdayOf(d) \in Values(e, "dayOfWeek")

DayMatches(e, d) ==
  LET dom == DateOf(d) \in Values(e, "dayOfMonth")
      dow == WeekdayOf(d) \in Values(e, "dayOfWeek")
  IN /\ MonthOf(d) \in Values(e, "month")
     /\ IF e.domRestricted /\ e.dowRestricted THEN dom \/ dow ELSE dom /\ dow

\* The elements of a sequence at some of its places, in order: what SelectSeq
\* returns, defined without recursion so that it can be reasoned about.
AtPlaces(s, places) ==
  LET place(n) == CHOOSE i \in places : Cardinality({j \in places : j <= i}) = n
  IN [n \in 1 .. Cardinality(places) |-> s[place(n)]]

\* The minutes of the calendar, numbered from 0 as a clock that never changes
\* would pass them.
CalendarMinutes == 0 .. Cardinality(Days) * Hours * Minutes - 1
HourOf(n) == n \div Minutes

\* The walk by day, then by hours and minutes in ascending order.
Walk[e \in Expression] ==
  LET day(n) == HourOf(n) \div Hours
      hour(n) == HourOf(n) % Hours
      named == {n \in CalendarMinutes :
                  /\ DayMatches(e, day(n))
                  /\ hour(n) \in Values(e, "hour") /\ n % Minutes \in Values(e, "minute")}
  IN AtPlaces([n \in CalendarMinutes |-> Instant(day(n), hour(n), n % Minutes)], named)

\* Mutant: the lower bound counts as due.
Between_closed(after, until) == after .. until

Between(after, until) == after + 1 .. until

\* fireTimesBetween; a limit of 0 stands for none.
FireTimes(e, after, until, limit) ==
  LET due == AtPlaces(Walk[e], {i \in DOMAIN Walk[e] : Walk[e][i] \in Between(after, until)})
      cut == limit # 0 /\ Len(due) > limit
  IN [times |-> IF cut THEN SubSeq(due, 1, limit) ELSE due, truncated |-> cut]

-----------------------------------------------------------------------------
\* For reference: what the wall clock reads at an instant, and whether that
\* is a time the expression names.
Wall(t) == Clockface[(t \div (Minutes * Fine)) + 1]

\* A day is named when one of its restricted fields names it, or none is.
NamedDay(e, d) ==
  /\ MonthOf(d) \in Values(e, "month")
  /\ \/ e.domRestricted /\ DateOf(d) \in Values(e, "dayOfMonth")
     \/ e.dowRestricted /\ WeekdayOf(d) \in Values(e, "dayOfWeek")
     \/ ~e.domRestricted /\ ~e.dowRestricted

Named(e, t) ==
  /\ t % Fine = 0 /\ (t \div Fine) % Minutes \in Values(e, "minute")
  /\ Wall(t)[2] \in Values(e, "hour") /\ NamedDay(e, Wall(t)[1])
=============================================================================
