------------------------------ MODULE Calendar ------------------------------
(***************************************************************************)
(* CommonModules/ИгровойКалендарь: the game minute, counted from 1 Хаммер  *)
(* of year 1, and the date of Harptos it stands for.  The machine walks    *)
(* through game time with the pure additions of CommonModules/ИгровоеВремя *)
(* and looks at the date after every step.                                 *)
(*                                                                         *)
(* Months are their numbers 1..12 and feasts their codes 1..6, 0 is the    *)
(* empty reference.                                                        *)
(***************************************************************************)
EXTENDS Integers

CONSTANTS
  Walks   \* bound: where a walk starts and ends, the page of the calendar it
          \* starts at, and the amounts it adds

ASSUME WalksAssumption ==
  \A w \in Walks :
    /\ w.from \in Nat /\ w.upto \in Nat
    /\ w.minutes \subseteq Nat /\ w.hours \subseteq Nat /\ w.days \subseteq Nat

Months == 1..12
Feasts == 1..6
Shieldmeet == 6
DayMinutes == 24 * 60
YearMinutes == (12 * 30 + 5) * DayMinutes

LeapYear(year) == year % 4 = 0

-----------------------------------------------------------------------------
(* Years.                                                                  *)

\* МинутДоНачалаГода: a leap day has passed in every complete cycle.
YearStart(year) ==
  (year - 1) * YearMinutes + ((year - 1) \div 4) * DayMinutes

\* ГодПоИгровойМинуте: only the last year of a cycle of four is longer.
YearOf(minute) ==
  LET cycle == 4 * YearMinutes + DayMinutes
      past == minute \div cycle
      rest == minute % cycle
  IN 4 * past + (IF rest < 3 * YearMinutes THEN rest \div YearMinutes + 1 ELSE 4)

-----------------------------------------------------------------------------
(* Days of a year, counted from 0.                                         *)

\* КоличествоМеждудневийДоНачалаМесяца, Shieldmeet left out.
FeastsBefore(month) ==
  CASE month <= 1 -> 0
    [] month \in 2..4 -> 1
    [] month \in 5..7 -> 2
    [] month \in 8..9 -> 3
    [] month \in 10..11 -> 4
    [] month > 11 -> 5

\* СмещениеНачалаМесяца.  The code compares with ">", so Элеасис (8) itself
\* does not start later in a leap year.
MonthStart(month, leap) ==
  (month - 1) * 30 + FeastsBefore(month) + (IF leap /\ month > 8 THEN 1 ELSE 0)

\* Mutant: the feasts after Shieldmeet left on their days of an ordinary year.
FeastDayUnshifted(feast, leap) ==
  CASE feast = 1 -> 1 * 30
    [] feast = 2 -> 4 * 30 + 1
    [] feast = 3 -> 7 * 30 + 2
    [] feast = 4 -> MonthStart(9, FALSE) + 30
    [] feast = 5 -> MonthStart(11, FALSE) + 30
    [] feast = Shieldmeet -> 7 * 30 + 2 + 1

\* ДеньГодаМеждуденья.
FeastDay(feast, leap) ==
  CASE feast = 1 -> 1 * 30
    [] feast = 2 -> 4 * 30 + 1
    [] feast = 3 -> 7 * 30 + 2
    [] feast = 4 -> MonthStart(9, leap) + 30
    [] feast = 5 -> MonthStart(11, leap) + 30
    [] feast = Shieldmeet -> 7 * 30 + 2 + 1

\* КодМеждуденьяПоДнюГода: the feast on a day, if there is one.
FeastsOn(day, leap) ==
  {f \in Feasts : FeastDay(f, leap) = day /\ (f = Shieldmeet => leap)}

\* The loop of ОписатьПериодДняГода: the last month that has begun.
MonthOn(day, leap) ==
  CHOOSE n \in Months :
    /\ MonthStart(n, leap) <= day
    /\ \A later \in Months : later > n => MonthStart(later, leap) > day

\* Mutant: the days of a month counted from 0.
PeriodFromZero(day, leap) ==
  IF FeastsOn(day, leap) # {}
  THEN [month |-> 0, day |-> 0, feast |-> CHOOSE f \in FeastsOn(day, leap) : TRUE]
  ELSE [month |-> MonthOn(day, leap),
        day   |-> day - MonthStart(MonthOn(day, leap), leap),
        feast |-> 0]

\* ОписатьПериодДняГода.
PeriodOf(day, leap) ==
  IF FeastsOn(day, leap) # {}
  THEN [month |-> 0, day |-> 0, feast |-> CHOOSE f \in FeastsOn(day, leap) : TRUE]
  ELSE [month |-> MonthOn(day, leap),
        day   |-> day - MonthStart(MonthOn(day, leap), leap) + 1,
        feast |-> 0]

-----------------------------------------------------------------------------
(* Dates.                                                                  *)

\* ПолучитьДату, without the inscription.
DateOf(minute) ==
  LET year == YearOf(minute)
      inside == minute - YearStart(year)
      time == inside % DayMinutes
  IN [year   |-> year,
      period |-> PeriodOf(inside \div DayMinutes, LeapYear(year)),
      hour   |-> time \div 60,
      minute |-> time % 60]

\* ПроверитьГодМесяцДеньЧасМинуту and ПроверитьМеждуденье: the dates a minute
\* is worked out for, others are refused with an exception.
Accepted(date) ==
  /\ date.year >= 1
  /\ date.hour \in 0..23 /\ date.minute \in 0..59
  /\ \/ date.period.month \in Months /\ date.period.day \in 1..30
     \/ /\ date.period.feast \in Feasts
        /\ date.period.feast = Shieldmeet => LeapYear(date.year)

\* ПолучитьИгровуюМинуту and ПолучитьИгровуюМинутуМеждуденья.
MinuteOf(date) ==
  LET leap == LeapYear(date.year)
      day == IF date.period.feast = 0
             THEN MonthStart(date.period.month, leap) + date.period.day - 1
             ELSE FeastDay(date.period.feast, leap)
  IN YearStart(date.year) + day * DayMinutes + date.hour * 60 + date.minute

-----------------------------------------------------------------------------
(* Walking through game time.                                              *)

VARIABLES
  minute,  \* ИгроваяМинута
  walk     \* the walk it belongs to

vars == <<minute, walk>>

Init == walk \in Walks /\ minute = walk.from

\* Bound: a walk ends.
Reach(next) == next <= walk.upto /\ minute' = next /\ UNCHANGED walk

AddMinutes == \E n \in walk.minutes : Reach(minute + n)
AddHours == \E n \in walk.hours : Reach(minute + n * 60)
AddDays == \E n \in walk.days : Reach(minute + n * 24 * 60)

Next == AddMinutes \/ AddHours \/ AddDays

Spec == Init /\ [][Next]_vars

-----------------------------------------------------------------------------
(* Properties.                                                             *)

\* Type invariant: ПроверитьИгровуюМинуту never refuses a minute time is added to.
TypeOK == minute \in Nat /\ walk \in Walks

\* The minute belongs to the year worked out for it: the two independent rules
\* for leap days, the cycle of ГодПоИгровойМинуте and the quotient of
\* МинутДоНачалаГода, agree on both ends of every year.
YearsAreExact ==
  /\ YearStart(YearOf(minute)) <= minute
  /\ minute < YearStart(YearOf(minute) + 1)

\* What ПолучитьДату shows can be typed in again: ПолучитьИгровуюМинуту either
\* refuses the date or gives back the very minute it was shown for.
DatesLeadBack ==
  Accepted(DateOf(minute)) => MinuteOf(DateOf(minute)) = minute

\* In a year that is not a leap year no date ПолучитьДату shows is refused.
OrdinaryDatesAreAccepted ==
  ~LeapYear(YearOf(minute)) => Accepted(DateOf(minute))

\* The description of ПолучитьДату: the day of a month is 1..30, so that what is
\* shown is a date that can be typed in, in every year.
DatesAreAccepted == Accepted(DateOf(minute))

\* The page of the wall calendar the date of a minute is on.
PageOf(m) ==
  LET date == DateOf(m)
  IN [year |-> date.year, month |-> date.period.month,
      day |-> date.period.day, feast |-> date.period.feast]

ShownPage == PageOf(minute)

Wall == INSTANCE Harptos WITH
  FirstPages <- {w.page : w \in Walks},
  page <- ShownPage

\* However time is added, the dates shown turn like the pages of the calendar:
\* no day is skipped, shown twice or out of order, and every feast is on its day.
FollowsTheCalendar == Wall!Spec
=============================================================================
