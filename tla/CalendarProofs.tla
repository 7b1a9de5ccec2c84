---------------------------- MODULE CalendarProofs ----------------------------
(***************************************************************************)
(* What holds of the calendar for every game minute, not only for the      *)
(* years the walks visit.                                                  *)
(***************************************************************************)
EXTENDS Calendar, TLAPS

\* The minutes walked through are minutes ПолучитьДату accepts.
THEOREM TypeCorrect == Spec => []TypeOK
<1>1. Init => TypeOK
  BY WalksAssumption DEF Init, TypeOK
<1>2. TypeOK /\ [Next]_vars => TypeOK'
  <2> SUFFICES ASSUME TypeOK, [Next]_vars PROVE TypeOK'
    OBVIOUS
  <2> USE DEF TypeOK
  <2>1. CASE AddMinutes
    BY <2>1, WalksAssumption DEF AddMinutes, Reach
  <2>2. CASE AddHours
    BY <2>2, WalksAssumption DEF AddHours, Reach
  <2>3. CASE AddDays
    BY <2>3, WalksAssumption DEF AddDays, Reach
  <2>4. CASE UNCHANGED vars
    BY <2>4 DEF vars
  <2> QED
    BY <2>1, <2>2, <2>3, <2>4 DEF Next
<1> QED
  BY <1>1, <1>2, PTL DEF Spec

-----------------------------------------------------------------------------
(* Years.                                                                  *)

\* ГодПоИгровойМинуте and МинутДоНачалаГода agree: every minute lies in the year
\* it is said to lie in.  A minute is split into complete cycles of four years,
\* complete years of the cycle, and the rest.
LEMMA YearsExactFor ==
  ASSUME NEW m \in Nat
  PROVE  /\ YearOf(m) \in Nat \ {0}
         /\ YearStart(YearOf(m)) <= m
         /\ m < YearStart(YearOf(m) + 1)
<1>1. PICK past \in Nat, rest \in Nat :
        /\ past = m \div 2103840 /\ rest = m % 2103840
        /\ m = past * 2103840 + rest /\ rest < 2103840
  BY SMT
<1>2. PICK years \in 0..3 :
        /\ years * 525600 <= rest
        /\ rest < (years + 1) * 525600 + (IF years = 3 THEN 1440 ELSE 0)
        /\ (IF rest < 3 * 525600 THEN rest \div 525600 + 1 ELSE 4) = years + 1
  BY <1>1, SMT
<1>3. YearOf(m) = 4 * past + years + 1
  BY <1>1, <1>2, SMT DEF YearOf, YearMinutes, DayMinutes
<1>4. /\ (4 * past + years) \div 4 = past
      /\ (4 * past + years + 1) \div 4 = past + (IF years = 3 THEN 1 ELSE 0)
  BY <1>1, <1>2, SMT
<1>5. YearStart(YearOf(m)) = (4 * past + years) * 525600 + past * 1440
  BY <1>1, <1>2, <1>3, <1>4, SMT DEF YearStart, YearMinutes, DayMinutes
<1>6. YearStart(YearOf(m) + 1) = (4 * past + years + 1) * 525600
                                 + (past + (IF years = 3 THEN 1 ELSE 0)) * 1440
  BY <1>1, <1>2, <1>3, <1>4, SMT DEF YearStart, YearMinutes, DayMinutes
<1> QED
  BY <1>1, <1>2, <1>3, <1>5, <1>6, SMT

\* Every minute lies in the year worked out for it.
THEOREM YearsAreExactHolds == Spec => []YearsAreExact
<1>1. TypeOK => YearsAreExact
  BY YearsExactFor DEF TypeOK, YearsAreExact
<1> QED
  BY <1>1, TypeCorrect, PTL
-----------------------------------------------------------------------------
(* Time of day and day of the year.                                        *)

\* The parts ПолучитьДату takes a minute apart into make up the minute again.
LEMMA PartsOfMinute ==
  ASSUME NEW inside \in Nat
  PROVE  /\ inside \div DayMinutes \in Nat
         /\ (inside % DayMinutes) \div 60 \in 0..23
         /\ (inside % DayMinutes) % 60 \in 0..59
         /\ inside = (inside \div DayMinutes) * DayMinutes
                     + ((inside % DayMinutes) \div 60) * 60
                     + ((inside % DayMinutes) % 60)
<1>1. DayMinutes = 1440
  BY SMT DEF DayMinutes
<1>2. PICK day \in Nat, time \in Nat :
        /\ time < 1440 /\ inside \div 1440 = day /\ inside % 1440 = time
        /\ inside = day * 1440 + time
  <2>1. inside \div 1440 \in Nat /\ inside % 1440 \in Nat
        /\ inside % 1440 < 1440
        /\ inside = (inside \div 1440) * 1440 + (inside % 1440)
    BY SMT
  <2> QED
    BY <2>1, SMT
<1>3. PICK hour \in 0..23, min \in 0..59 :
        time \div 60 = hour /\ time % 60 = min /\ time = hour * 60 + min
  <2>1. time \div 60 \in 0..23 /\ time % 60 \in 0..59
        /\ time = (time \div 60) * 60 + (time % 60)
    BY <1>2, SMT
  <2> QED
    BY <2>1, SMT
<1> QED
  BY <1>1, <1>2, <1>3, SMT

\* The feasts counted before each month.
LEMMA FeastCounts ==
  /\ FeastsBefore(1) = 0
  /\ \A n \in 2..4 : FeastsBefore(n) = 1
  /\ \A n \in 5..7 : FeastsBefore(n) = 2
  /\ \A n \in 8..9 : FeastsBefore(n) = 3
  /\ \A n \in 10..11 : FeastsBefore(n) = 4
  /\ FeastsBefore(12) = 5
<1>1. FeastsBefore(1) = 0
  BY DEF FeastsBefore
<1>2. \A n \in 2..4 : FeastsBefore(n) = 1
  BY DEF FeastsBefore
<1>3. \A n \in 5..7 : FeastsBefore(n) = 2
  BY DEF FeastsBefore
<1>4. \A n \in 8..9 : FeastsBefore(n) = 3
  BY DEF FeastsBefore
<1>5. \A n \in 10..11 : FeastsBefore(n) = 4
  BY DEF FeastsBefore
<1>6. FeastsBefore(12) = 5
  BY DEF FeastsBefore
<1> QED
  BY <1>1, <1>2, <1>3, <1>4, <1>5, <1>6

\* The day each month begins on, a day later after Элеасис in a leap year.
LEMMA MonthStarts ==
  ASSUME NEW leap \in BOOLEAN
  PROVE  /\ MonthStart(1, leap) = 0
         /\ MonthStart(2, leap) = 31
         /\ MonthStart(3, leap) = 61
         /\ MonthStart(4, leap) = 91
         /\ MonthStart(5, leap) = 122
         /\ MonthStart(6, leap) = 152
         /\ MonthStart(7, leap) = 182
         /\ MonthStart(8, leap) = 213
         /\ MonthStart(9, leap) = 243 + (IF leap THEN 1 ELSE 0)
         /\ MonthStart(10, leap) = 274 + (IF leap THEN 1 ELSE 0)
         /\ MonthStart(11, leap) = 304 + (IF leap THEN 1 ELSE 0)
         /\ MonthStart(12, leap) = 335 + (IF leap THEN 1 ELSE 0)
  BY FeastCounts, SMT DEF MonthStart

LEMMA MonthStartIsNat ==
  ASSUME NEW leap \in BOOLEAN, NEW n \in Months
  PROVE  MonthStart(n, leap) \in Nat
  BY MonthStarts, SMT DEF Months

\* A date that is accepted leads back to its minute.
LEMMA LeadsBackFor ==
  ASSUME NEW m \in Nat, Accepted(DateOf(m))
  PROVE  MinuteOf(DateOf(m)) = m
<1> DEFINE year == YearOf(m)
           inside == m - YearStart(year)
           leap == LeapYear(year)
           day == inside \div DayMinutes
           time == inside % DayMinutes
           hour == time \div 60
           min == time % 60
           p == PeriodOf(day, leap)
<1>1. year \in Nat /\ YearStart(year) \in Int /\ inside \in Nat
  <2>1. year \in Nat /\ YearStart(year) <= m
    BY YearsExactFor
  <2>2. YearStart(year) \in Int
    BY <2>1, SMT DEF YearStart, YearMinutes, DayMinutes
  <2> QED
    BY <2>1, <2>2
<1>2. leap \in BOOLEAN
  BY <1>1 DEF LeapYear
<1>3. DateOf(m) = [year |-> year, period |-> p, hour |-> hour, minute |-> min]
  BY DEF DateOf
<1>4. day \in Nat /\ hour \in Int /\ min \in Int
      /\ inside = day * DayMinutes + hour * 60 + min
  BY <1>1, PartsOfMinute, SMT
<1>5. DayMinutes \in Nat
  BY SMT DEF DayMinutes
<1> HIDE DEF year, inside, leap, day, time, hour, min, p
<1>6. YearStart(year) + day * DayMinutes + hour * 60 + min = m
  <2>1. m = YearStart(year) + inside
    BY <1>1, SMT DEF inside
  <2>2. day * DayMinutes \in Int
    BY <1>4, <1>5, SMT
  <2> QED
    BY <1>1, <1>4, <2>1, <2>2, SMT
<1>7. CASE FeastsOn(day, leap) # {}
  <2>1. PICK f \in Feasts : FeastDay(f, leap) = day /\ p.feast = f
    BY <1>7 DEF FeastsOn, PeriodOf, p
  <2>2. f # 0
    BY <2>1, SMT DEF Feasts
  <2>3. MinuteOf(DateOf(m)) = YearStart(year) + day * DayMinutes + hour * 60 + min
    BY <1>3, <2>1, <2>2 DEF MinuteOf, leap
  <2> QED
    BY <2>3, <1>6
<1>8. CASE FeastsOn(day, leap) = {}
  <2> DEFINE n == MonthOn(day, leap)
  <2>1. p = [month |-> n, day |-> day - MonthStart(n, leap) + 1, feast |-> 0]
    BY <1>8 DEF PeriodOf, p
  <2>2. n \in Months
    BY <1>3, <2>1 DEF Accepted, Feasts
  <2>3. MonthStart(n, leap) \in Nat
    BY <1>2, <2>2, MonthStartIsNat
  <2> HIDE DEF n
  <2>4. MonthStart(n, leap) + p.day - 1 = day
    BY <1>4, <2>1, <2>3, SMT
  <2>5. MinuteOf(DateOf(m)) = YearStart(year) + day * DayMinutes + hour * 60 + min
    BY <1>3, <2>1, <2>4 DEF MinuteOf, leap
  <2> QED
    BY <2>5, <1>6
<1> QED
  BY <1>7, <1>8

\* Whatever minute is shown, the date shown for it is refused or leads back to it.
THEOREM DatesLeadBackHolds == Spec => []DatesLeadBack
<1>1. TypeOK => DatesLeadBack
  BY LeadsBackFor DEF TypeOK, DatesLeadBack
<1> QED
  BY <1>1, TypeCorrect, PTL
-----------------------------------------------------------------------------
(* Ordinary years.                                                         *)

\* An ordinary year has 365 days.
LEMMA OrdinaryYearLength ==
  ASSUME NEW year \in Nat \ {0}, ~LeapYear(year)
  PROVE  YearStart(year + 1) = YearStart(year) + YearMinutes
<1>1. year \div 4 = (year - 1) \div 4 /\ year \div 4 \in Int
  BY SMT DEF LeapYear
<1>2. (year + 1) - 1 = year
  BY SMT
<1>3. /\ YearStart(year + 1) = year * YearMinutes + (year \div 4) * DayMinutes
      /\ YearStart(year) = (year - 1) * YearMinutes + (year \div 4) * DayMinutes
  BY <1>1, <1>2 DEF YearStart
<1> QED
  BY <1>1, <1>3, SMT DEF YearMinutes, DayMinutes

\* The days the months of an ordinary year begin on.
LEMMA OrdinaryMonthStarts ==
  /\ MonthStart(1, FALSE) = 0
  /\ MonthStart(2, FALSE) = 31
  /\ MonthStart(3, FALSE) = 61
  /\ MonthStart(4, FALSE) = 91
  /\ MonthStart(5, FALSE) = 122
  /\ MonthStart(6, FALSE) = 152
  /\ MonthStart(7, FALSE) = 182
  /\ MonthStart(8, FALSE) = 213
  /\ MonthStart(9, FALSE) = 243
  /\ MonthStart(10, FALSE) = 274
  /\ MonthStart(11, FALSE) = 304
  /\ MonthStart(12, FALSE) = 335
  BY FeastCounts, SMT DEF MonthStart

\* The days of the feasts in an ordinary year.
LEMMA OrdinaryFeastDays ==
  /\ FeastDay(1, FALSE) = 30 /\ FeastDay(2, FALSE) = 121
  /\ FeastDay(3, FALSE) = 212 /\ FeastDay(4, FALSE) = 273
  /\ FeastDay(5, FALSE) = 334
<1> DEFINE F(f) == FeastDay(f, FALSE)
           S(n) == MonthStart(n, FALSE)
<1>1. S(9) = 243 /\ S(11) = 304
  BY OrdinaryMonthStarts
<1>2. F(1) = 30 /\ F(2) = 121 /\ F(3) = 212
  BY SMT DEF FeastDay, Shieldmeet
<1>3. F(4) = S(9) + 30
  BY DEF FeastDay, Shieldmeet
<1>4. F(5) = S(11) + 30
  BY DEF FeastDay, Shieldmeet
<1> SUFFICES F(1) = 30 /\ F(2) = 121 /\ F(3) = 212 /\ F(4) = 273 /\ F(5) = 334
  OBVIOUS
<1> HIDE DEF F, S
<1> QED
  BY <1>1, <1>2, <1>3, <1>4, SMT

\* A day of an ordinary year that is not a feast is one of the thirty days of the
\* month found for it: a month with a feast after it ends before the feast.
LEMMA OrdinaryDayOfMonth ==
  ASSUME NEW day \in Nat, day < 365, FeastsOn(day, FALSE) = {}
  PROVE  /\ MonthOn(day, FALSE) \in Months
         /\ day - MonthStart(MonthOn(day, FALSE), FALSE) + 1 \in 1..30
<1> DEFINE n == MonthOn(day, FALSE)
           S(k) == MonthStart(k, FALSE)
           Begun(k) == S(k) <= day /\ \A later \in Months : later > k => S(later) > day
<1>1. /\ S(1) = 0
      /\ S(2) = 31
      /\ S(3) = 61
      /\ S(4) = 91
      /\ S(5) = 122
      /\ S(6) = 152
      /\ S(7) = 182
      /\ S(8) = 213
      /\ S(9) = 243
      /\ S(10) = 274
      /\ S(11) = 304
      /\ S(12) = 335
  BY OrdinaryMonthStarts
<1>2. (\E k \in Months : Begun(k)) => n \in Months /\ Begun(n)
  BY DEF MonthOn
<1>3. day \notin {30, 121, 212, 273, 334}
  <2> DEFINE F(f) == FeastDay(f, FALSE)
  <2>1. \A f \in Feasts : f # Shieldmeet => F(f) # day
    BY DEF FeastsOn
  <2>2. F(1) = 30 /\ F(2) = 121 /\ F(3) = 212 /\ F(4) = 273 /\ F(5) = 334
    BY OrdinaryFeastDays
  <2> HIDE DEF F
  <2> QED
    BY <2>1, <2>2, SMT DEF Feasts, Shieldmeet
<1> HIDE DEF n, S
<1>4. n \in Months /\ Begun(n)
  <2>1. CASE 0 <= day /\ day < 31
    <3>1. Begun(1)
      BY <1>1, <2>1, SMT DEF Months
    <3> QED
      BY <1>2, <3>1 DEF Months
  <2>2. CASE 31 <= day /\ day < 61
    <3>1. Begun(2)
      BY <1>1, <2>2, SMT DEF Months
    <3> QED
      BY <1>2, <3>1 DEF Months
  <2>3. CASE 61 <= day /\ day < 91
    <3>1. Begun(3)
      BY <1>1, <2>3, SMT DEF Months
    <3> QED
      BY <1>2, <3>1 DEF Months
  <2>4. CASE 91 <= day /\ day < 122
    <3>1. Begun(4)
      BY <1>1, <2>4, SMT DEF Months
    <3> QED
      BY <1>2, <3>1 DEF Months
  <2>5. CASE 122 <= day /\ day < 152
    <3>1. Begun(5)
      BY <1>1, <2>5, SMT DEF Months
    <3> QED
      BY <1>2, <3>1 DEF Months
  <2>6. CASE 152 <= day /\ day < 182
    <3>1. Begun(6)
      BY <1>1, <2>6, SMT DEF Months
    <3> QED
      BY <1>2, <3>1 DEF Months
  <2>7. CASE 182 <= day /\ day < 213
    <3>1. Begun(7)
      BY <1>1, <2>7, SMT DEF Months
    <3> QED
      BY <1>2, <3>1 DEF Months
  <2>8. CASE 213 <= day /\ day < 243
    <3>1. Begun(8)
      BY <1>1, <2>8, SMT DEF Months
    <3> QED
      BY <1>2, <3>1 DEF Months
  <2>9. CASE 243 <= day /\ day < 274
    <3>1. Begun(9)
      BY <1>1, <2>9, SMT DEF Months
    <3> QED
      BY <1>2, <3>1 DEF Months
  <2>10. CASE 274 <= day /\ day < 304
    <3>1. Begun(10)
      BY <1>1, <2>10, SMT DEF Months
    <3> QED
      BY <1>2, <3>1 DEF Months
  <2>11. CASE 304 <= day /\ day < 335
    <3>1. Begun(11)
      BY <1>1, <2>11, SMT DEF Months
    <3> QED
      BY <1>2, <3>1 DEF Months
  <2>12. CASE 335 <= day /\ day < 365
    <3>1. Begun(12)
      BY <1>1, <2>12, SMT DEF Months
    <3> QED
      BY <1>2, <3>1 DEF Months
  <2> QED
    BY <2>1, <2>2, <2>3, <2>4, <2>5, <2>6, <2>7, <2>8, <2>9, <2>10, <2>11, <2>12, SMT
<1>5. ASSUME NEW k \in Months, Begun(k)
      PROVE  day - S(k) + 1 \in 1..30
  <2>1. CASE k = 1
    BY <1>1, <1>3, <1>5, <2>1, SMT DEF Months
  <2>2. CASE k = 2
    BY <1>1, <1>3, <1>5, <2>2, SMT DEF Months
  <2>3. CASE k = 3
    BY <1>1, <1>3, <1>5, <2>3, SMT DEF Months
  <2>4. CASE k = 4
    BY <1>1, <1>3, <1>5, <2>4, SMT DEF Months
  <2>5. CASE k = 5
    BY <1>1, <1>3, <1>5, <2>5, SMT DEF Months
  <2>6. CASE k = 6
    BY <1>1, <1>3, <1>5, <2>6, SMT DEF Months
  <2>7. CASE k = 7
    BY <1>1, <1>3, <1>5, <2>7, SMT DEF Months
  <2>8. CASE k = 8
    BY <1>1, <1>3, <1>5, <2>8, SMT DEF Months
  <2>9. CASE k = 9
    BY <1>1, <1>3, <1>5, <2>9, SMT DEF Months
  <2>10. CASE k = 10
    BY <1>1, <1>3, <1>5, <2>10, SMT DEF Months
  <2>11. CASE k = 11
    BY <1>1, <1>3, <1>5, <2>11, SMT DEF Months
  <2>12. CASE k = 12
    BY <1>1, <1>3, <1>5, <2>12, SMT DEF Months
  <2> QED
    BY <2>1, <2>2, <2>3, <2>4, <2>5, <2>6, <2>7, <2>8, <2>9, <2>10, <2>11, <2>12, SMT DEF Months
<1> QED
  BY <1>4, <1>5 DEF n, S

\* No date shown in an ordinary year is refused.
LEMMA AcceptedFor ==
  ASSUME NEW m \in Nat, ~LeapYear(YearOf(m))
  PROVE  Accepted(DateOf(m))
<1> DEFINE year == YearOf(m)
           inside == m - YearStart(year)
           day == inside \div DayMinutes
           time == inside % DayMinutes
           p == PeriodOf(day, FALSE)
<1>1. year \in Nat \ {0} /\ inside \in Nat /\ inside < YearMinutes
  <2>1. /\ year \in Nat \ {0}
        /\ YearStart(year) <= m /\ m < YearStart(year + 1)
    BY YearsExactFor
  <2>2. YearStart(year + 1) = YearStart(year) + YearMinutes
    BY <2>1, OrdinaryYearLength
  <2>3. YearStart(year) \in Int /\ YearMinutes \in Int
    BY <2>1, SMT DEF YearStart, YearMinutes, DayMinutes
  <2> QED
    BY <2>1, <2>2, <2>3, SMT
<1>2. DateOf(m) = [year |-> year, period |-> p,
                   hour |-> time \div 60, minute |-> time % 60]
  BY DEF DateOf, LeapYear
<1>3. /\ day \in Nat
      /\ time \div 60 \in 0..23 /\ time % 60 \in 0..59
      /\ inside = day * DayMinutes + (time \div 60) * 60 + (time % 60)
  BY <1>1, PartsOfMinute
<1> HIDE DEF year, inside, day, time, p
<1>4. day < 365
  <2>1. PICK h \in 0..23, min \in 0..59 : inside = day * 1440 + h * 60 + min
    BY <1>3, SMT DEF DayMinutes
  <2> QED
    BY <1>1, <1>3, <2>1, SMT DEF YearMinutes, DayMinutes
<1>5. CASE FeastsOn(day, FALSE) # {}
  <2>1. PICK f \in Feasts : p.feast = f /\ f # Shieldmeet
    BY <1>5 DEF FeastsOn, PeriodOf, p
  <2> QED
    BY <1>1, <1>2, <1>3, <2>1 DEF Accepted
<1>6. CASE FeastsOn(day, FALSE) = {}
  <2>1. p.month \in Months /\ p.day \in 1..30
    BY <1>3, <1>4, <1>6, OrdinaryDayOfMonth DEF PeriodOf, p
  <2> QED
    BY <1>1, <1>2, <1>3, <2>1 DEF Accepted
<1> QED
  BY <1>5, <1>6

\* In an ordinary year every date shown is accepted, and so leads back.
THEOREM OrdinaryDatesAreAcceptedHolds == Spec => []OrdinaryDatesAreAccepted
<1>1. TypeOK => OrdinaryDatesAreAccepted
  BY AcceptedFor DEF TypeOK, OrdinaryDatesAreAccepted
<1> QED
  BY <1>1, TypeCorrect, PTL
-----------------------------------------------------------------------------
(* The pages of the calendar.                                              *)

\* The day of the year a minute lies in, and the page of a day of a year.
DayOfYear(m) == (m - YearStart(YearOf(m))) \div DayMinutes

PageOn(year, day) ==
  LET period == PeriodOf(day, LeapYear(year))
  IN [year |-> year, month |-> period.month, day |-> period.day, feast |-> period.feast]

LEMMA PageOfDay ==
  ASSUME NEW m \in Nat
  PROVE  PageOf(m) = PageOn(YearOf(m), DayOfYear(m))
BY DEF PageOf, DateOf, PageOn, DayOfYear

\* The days of the feasts, a day later after Shieldmeet.
LEMMA FeastDays ==
  ASSUME NEW leap \in BOOLEAN
  PROVE  /\ FeastDay(1, leap) = 30
         /\ FeastDay(2, leap) = 121
         /\ FeastDay(3, leap) = 212
         /\ FeastDay(4, leap) = 273 + (IF leap THEN 1 ELSE 0)
         /\ FeastDay(5, leap) = 334 + (IF leap THEN 1 ELSE 0)
         /\ FeastDay(6, leap) = 213
<1> DEFINE F(f) == FeastDay(f, leap)
           S(n) == MonthStart(n, leap)
<1>1. S(9) = 243 + (IF leap THEN 1 ELSE 0) /\ S(11) = 304 + (IF leap THEN 1 ELSE 0)
  BY MonthStarts
<1>2. F(1) = 30 /\ F(2) = 121 /\ F(3) = 212 /\ F(6) = 213
  BY SMT DEF FeastDay, Shieldmeet
<1>3. F(4) = S(9) + 30
  BY DEF FeastDay, Shieldmeet
<1>4. F(5) = S(11) + 30
  BY DEF FeastDay, Shieldmeet
<1> SUFFICES /\ F(1) = 30 /\ F(2) = 121 /\ F(3) = 212 /\ F(6) = 213
             /\ F(4) = 273 + (IF leap THEN 1 ELSE 0)
             /\ F(5) = 334 + (IF leap THEN 1 ELSE 0)
  OBVIOUS
<1> HIDE DEF F, S
<1> QED
  BY <1>1, <1>2, <1>3, <1>4, SMT

\* Each of the thirty days of a month is shown as such, but for Элеасис in a leap
\* year, whose first day is that of Shieldmeet.
LEMMA DaysOfMonths ==
  ASSUME NEW leap \in BOOLEAN, NEW n \in Months, ~(leap /\ n = 8), NEW d \in 1..30,
         NEW day, day = MonthStart(n, leap) + d - 1
  PROVE  PeriodOf(day, leap) = [month |-> n, day |-> d, feast |-> 0]
<1> DEFINE F(f) == FeastDay(f, leap)
           S(k) == MonthStart(k, leap)
           late == IF leap THEN 1 ELSE 0
<1>1. /\ S(1) = 0 /\ S(2) = 31 /\ S(3) = 61 /\ S(4) = 91 /\ S(5) = 122 /\ S(6) = 152
      /\ S(7) = 182 /\ S(8) = 213 /\ S(9) = 243 + late /\ S(10) = 274 + late
      /\ S(11) = 304 + late /\ S(12) = 335 + late
  BY MonthStarts
<1>2. /\ F(1) = 30 /\ F(2) = 121 /\ F(3) = 212 /\ F(4) = 273 + late
      /\ F(5) = 334 + late /\ F(6) = 213
  BY FeastDays
<1>3. late \in 0..1 /\ (late = 1 <=> leap)
  OBVIOUS
<1>4. day = S(n) + d - 1
  OBVIOUS
<1> HIDE DEF F, S, late
<1>5. \A f \in Feasts : F(f) = day => f = Shieldmeet /\ ~leap
  <2> SUFFICES ASSUME NEW f \in Feasts, F(f) = day PROVE f = Shieldmeet /\ ~leap
    OBVIOUS
  <2>1. S(n) <= F(f) /\ F(f) < S(n) + 30 /\ S(n) \in Int
    BY <1>1, <1>3, <1>4 DEF Months
  <2>2. f \in {1, 2, 3, 4, 5, 6} /\ n \in {1, 2, 3, 4, 5, 6, 7, 8, 9, 10, 11, 12}
    BY DEF Feasts, Months
  <2> QED BY <1>1, <1>2, <1>3, <2>1, <2>2 DEF Shieldmeet
<1>6. FeastsOn(day, leap) = {}
  BY <1>5 DEF FeastsOn, F
<1>7. /\ S(n) <= day
      /\ \A later \in Months : later > n => S(later) > day
  <2>1. n \in {1, 2, 3, 4, 5, 6, 7, 8, 9, 10, 11, 12} /\ S(n) \in Int
    BY <1>1, <1>3 DEF Months
  <2>2. ASSUME NEW later \in Months, later > n PROVE S(later) >= S(n) + 30
    <3>1. later \in {1, 2, 3, 4, 5, 6, 7, 8, 9, 10, 11, 12}
      BY DEF Months
    <3> QED BY <1>1, <1>3, <2>1, <2>2, <3>1
  <2>3. ASSUME NEW later \in Months PROVE S(later) \in Int
    BY <1>1, <1>3 DEF Months
  <2> QED BY <1>4, <2>1, <2>2, <2>3
<1>8. ASSUME NEW k \in Months, S(k) <= day,
             \A later \in Months : later > k => S(later) > day
      PROVE  k = n
  <2>1. k \in Int /\ n \in Int /\ S(k) \in Int /\ S(n) \in Int /\ day \in Int
    BY <1>1, <1>3, <1>4 DEF Months
  <2>2. ~(k < n) /\ ~(n < k)
    BY <1>7, <1>8, <2>1
  <2> QED BY <2>1, <2>2
<1>9. MonthOn(day, leap) = n
  BY <1>7, <1>8 DEF MonthOn, S
<1>10. day - S(n) + 1 = d
  BY <1>1, <1>3, <1>4 DEF Months
<1> QED BY <1>6, <1>9, <1>10 DEF PeriodOf, S

\* The days of the feasts are shown as feasts.
LEMMA DaysOfFeasts ==
  ASSUME NEW leap \in BOOLEAN, NEW f \in Feasts, f = Shieldmeet => leap,
         NEW day, day = FeastDay(f, leap)
  PROVE  PeriodOf(day, leap) = [month |-> 0, day |-> 0, feast |-> f]
<1> DEFINE F(g) == FeastDay(g, leap)
           late == IF leap THEN 1 ELSE 0
<1>1. /\ F(1) = 30 /\ F(2) = 121 /\ F(3) = 212 /\ F(4) = 273 + late
      /\ F(5) = 334 + late /\ F(6) = 213
  BY FeastDays
<1>2. late \in 0..1
  OBVIOUS
<1> HIDE DEF F, late
<1>3. \A g, h \in Feasts : F(g) = F(h) => g = h
  <2> SUFFICES ASSUME NEW g \in Feasts, NEW h \in Feasts, F(g) = F(h) PROVE g = h
    OBVIOUS
  <2>1. g \in {1, 2, 3, 4, 5, 6} /\ h \in {1, 2, 3, 4, 5, 6}
    BY DEF Feasts
  <2> QED BY <1>1, <1>2, <2>1
<1>4. FeastsOn(day, leap) = {f}
  BY <1>3 DEF FeastsOn, F
<1> QED BY <1>4 DEF PeriodOf

\* Every day of a year is one of the days above, or lies in Элеасис of a leap year
\* or on the day after it, the two of which share thirty days.
LEMMA EveryDayHasAName ==
  ASSUME NEW leap \in BOOLEAN, NEW day \in 0..(IF leap THEN 365 ELSE 364),
         leap => day \notin 214..243
  PROVE  \/ \E n \in Months, d \in 1..30 : ~(leap /\ n = 8) /\ day = MonthStart(n, leap) + d - 1
         \/ \E f \in Feasts : (f = Shieldmeet => leap) /\ day = FeastDay(f, leap)
<1> DEFINE F(f) == FeastDay(f, leap)
           S(k) == MonthStart(k, leap)
           late == IF leap THEN 1 ELSE 0
           Named == \/ \E n \in Months, d \in 1..30 : ~(leap /\ n = 8) /\ day = S(n) + d - 1
                    \/ \E f \in Feasts : (f = Shieldmeet => leap) /\ day = F(f)
<1>1. /\ S(1) = 0 /\ S(2) = 31 /\ S(3) = 61 /\ S(4) = 91 /\ S(5) = 122 /\ S(6) = 152
      /\ S(7) = 182 /\ S(8) = 213 /\ S(9) = 243 + late /\ S(10) = 274 + late
      /\ S(11) = 304 + late /\ S(12) = 335 + late
  BY MonthStarts
<1>2. /\ F(1) = 30 /\ F(2) = 121 /\ F(3) = 212 /\ F(4) = 273 + late
      /\ F(5) = 334 + late /\ F(6) = 213
  BY FeastDays
<1>3. late \in 0..1 /\ (late = 1 <=> leap) /\ day \in 0..(364 + late)
  OBVIOUS
<1> DEFINE In(n) == S(n) <= day /\ day < S(n) + 30
<1>4. \A n \in Months : S(n) \in Int
  BY <1>1, <1>3 DEF Months
<1>5. ASSUME NEW n \in Months, ~(leap /\ n = 8), In(n)
      PROVE  Named
  <2>1. day - S(n) + 1 \in 1..30 /\ day = S(n) + (day - S(n) + 1) - 1
    BY <1>3, <1>4, <1>5
  <2> QED BY <1>5, <2>1
<1>6. ASSUME NEW f \in Feasts, f = Shieldmeet => leap, day = F(f)
      PROVE  Named
  BY <1>6
<1>7. \/ In(1) \/ In(2) \/ In(3) \/ In(4) \/ In(5) \/ In(6) \/ In(7) \/ (In(8) /\ ~leap)
      \/ In(9) \/ In(10) \/ In(11) \/ In(12)
      \/ day = F(1) \/ day = F(2) \/ day = F(3) \/ day = F(4) \/ day = F(5)
      \/ (day = F(6) /\ leap)
  <2> HIDE DEF F, S, late, Named
  <2>1. leap => day <= 213 \/ day >= 244
    BY <1>3
  <2> QED BY <1>1, <1>2, <1>3, <2>1
<1> HIDE DEF F, S, late, Named, In
<1>8. /\ \A n \in 1..12 : n \in Months
      /\ \A f \in 1..6 : f \in Feasts
      /\ \A f \in 1..5 : f # Shieldmeet
  BY DEF Months, Feasts, Shieldmeet
<1>9. ASSUME NEW n \in 1..12, ~(leap /\ n = 8), In(n) PROVE Named
  BY <1>5, <1>8, <1>9
<1>10. ASSUME NEW f \in 1..6, f = 6 => leap, day = F(f) PROVE Named
  BY <1>6, <1>8, <1>10 DEF Shieldmeet
<1>11. Named
  BY <1>7, <1>9, <1>10
<1> QED BY <1>11 DEF Named, F, S

\* Turning the page of a day of a month ...
LEMMA AfterADay ==
  ASSUME NEW year \in Nat, NEW n \in Months, NEW d \in 1..30
  PROVE  Wall!Following(Wall!Day(year, n, d)) =
           IF d < 30 THEN Wall!Day(year, n, d + 1)
           ELSE IF n \in {1, 4, 7, 9, 11} THEN Wall!Feast(year, Wall!FeastAfter[n])
           ELSE IF n = 12 THEN Wall!Day(year + 1, 1, 1) ELSE Wall!Day(year, n + 1, 1)
<1> DEFINE p == Wall!Day(year, n, d)
<1>1. /\ p.year = year /\ p.month = n /\ p.day = d /\ p.feast = 0
      /\ n # 0 /\ n \in Nat
  BY DEF Wall!Day, Months
<1>2. DOMAIN Wall!FeastAfter = {1, 4, 7, 9, 11} /\ Wall!Midsummer = 3
  BY DEF Wall!FeastAfter, Wall!Midsummer
<1> HIDE DEF p
<1>3. d < 30 => Wall!Following(p) = Wall!Day(year, n, d + 1)
  BY <1>1, <1>2 DEF Wall!Following
<1>4. d = 30 /\ n \in {1, 4, 7, 9, 11} =>
        Wall!Following(p) = Wall!Feast(year, Wall!FeastAfter[n])
  BY <1>1, <1>2 DEF Wall!Following
<1>5. d = 30 /\ n \notin {1, 4, 7, 9, 11} =>
        Wall!Following(p) = IF n = 12 THEN Wall!Day(year + 1, 1, 1)
                            ELSE Wall!Day(year, n + 1, 1)
  BY <1>1, <1>2 DEF Wall!Following, Wall!FirstOfNextMonth
<1>6. d < 30 \/ d = 30
  OBVIOUS
<1> QED BY <1>3, <1>4, <1>5, <1>6 DEF p

\* ... and that of a feast.
LEMMA AfterAFeast ==
  ASSUME NEW year \in Nat, NEW f \in Feasts
  PROVE  Wall!Following(Wall!Feast(year, f)) =
           IF f = 3 /\ LeapYear(year) THEN Wall!Feast(year, Shieldmeet)
           ELSE Wall!Day(year, (CASE f = 1 -> 2 [] f = 2 -> 5 [] f = 3 -> 8
                                  [] f = 4 -> 10 [] f = 5 -> 12 [] f = 6 -> 8), 1)
<1> DEFINE p == Wall!Feast(year, f)
<1>1. /\ p.year = year /\ p.month = 0 /\ p.day = 0 /\ p.feast = f
      /\ f # 0 /\ f \in {1, 2, 3, 4, 5, 6}
  BY DEF Wall!Feast, Feasts
<1>2. /\ DOMAIN Wall!FeastAfter = {1, 4, 7, 9, 11}
      /\ Wall!FeastAfter[1] = 1 /\ Wall!FeastAfter[4] = 2 /\ Wall!FeastAfter[7] = 3
      /\ Wall!FeastAfter[9] = 4 /\ Wall!FeastAfter[11] = 5
  BY DEF Wall!FeastAfter
<1>3. LeapYear(year) = Wall!LeapYear(year) /\ Wall!Midsummer = 3
      /\ Wall!Shieldmeet = 6 /\ Shieldmeet = 6
  BY DEF LeapYear, Wall!LeapYear, Wall!Midsummer, Wall!Shieldmeet, Shieldmeet
<1>4. Wall!MonthBefore(f) = CASE f = 1 -> 1 [] f = 2 -> 4 [] f = 3 -> 7
                              [] f = 4 -> 9 [] f = 5 -> 11 [] f = 6 -> 7
  <2>1. CASE f = 6  BY <1>3, <2>1 DEF Wall!MonthBefore
  <2>2. CASE f # 6
    <3>1. \A n, k \in DOMAIN Wall!FeastAfter :
            Wall!FeastAfter[n] = Wall!FeastAfter[k] => n = k
      BY <1>2
    <3> QED BY <1>1, <1>2, <1>3, <2>2, <3>1 DEF Wall!MonthBefore
  <2> QED BY <2>1, <2>2
<1> HIDE DEF p
<1>5. CASE f = 3 /\ LeapYear(year)
  <2>1. Wall!Following(p) = Wall!Feast(year, Shieldmeet)
    BY <1>1, <1>2, <1>3, <1>5 DEF Wall!Following
  <2> QED BY <1>5, <2>1 DEF p
<1>6. CASE ~(f = 3 /\ LeapYear(year))
  <2>1. Wall!Following(p) = Wall!FirstOfNextMonth(year, Wall!MonthBefore(f))
    BY <1>1, <1>2, <1>3, <1>6 DEF Wall!Following
  <2> QED BY <1>1, <1>4, <1>6, <2>1 DEF Wall!FirstOfNextMonth, p
<1> QED BY <1>5, <1>6 DEF p

\* The page of a day by its name.
LEMMA PagesByName ==
  ASSUME NEW year \in Nat
  PROVE  /\ \A n \in Months, d \in 1..30 : ~(LeapYear(year) /\ n = 8) =>
              PageOn(year, MonthStart(n, LeapYear(year)) + d - 1) = Wall!Day(year, n, d)
         /\ \A f \in Feasts : (f = Shieldmeet => LeapYear(year)) =>
              PageOn(year, FeastDay(f, LeapYear(year))) = Wall!Feast(year, f)
<1>1. LeapYear(year) \in BOOLEAN
  BY DEF LeapYear
<1>2. ASSUME NEW n \in Months, NEW d \in 1..30, ~(LeapYear(year) /\ n = 8)
      PROVE  PageOn(year, MonthStart(n, LeapYear(year)) + d - 1) = Wall!Day(year, n, d)
  <2>1. PeriodOf(MonthStart(n, LeapYear(year)) + d - 1, LeapYear(year))
          = [month |-> n, day |-> d, feast |-> 0]
    BY <1>1, <1>2, DaysOfMonths
  <2> QED BY <2>1 DEF PageOn, Wall!Day
<1>3. ASSUME NEW f \in Feasts, f = Shieldmeet => LeapYear(year)
      PROVE  PageOn(year, FeastDay(f, LeapYear(year))) = Wall!Feast(year, f)
  <2>1. PeriodOf(FeastDay(f, LeapYear(year)), LeapYear(year))
          = [month |-> 0, day |-> 0, feast |-> f]
    BY <1>1, <1>3, DaysOfFeasts
  <2> QED BY <2>1 DEF PageOn, Wall!Feast
<1> QED BY <1>2, <1>3

\* From a day of a year to the next the page turns ...
LEMMA PageTurns ==
  ASSUME NEW year \in Nat, NEW day \in Nat, day < (IF LeapYear(year) THEN 365 ELSE 364),
         LeapYear(year) => day \notin 214..243 /\ day + 1 \notin 214..243
  PROVE  PageOn(year, day + 1) = Wall!Following(PageOn(year, day))
<1> DEFINE leap == LeapYear(year)
           F(f) == FeastDay(f, leap)
           S(k) == MonthStart(k, leap)
           late == IF leap THEN 1 ELSE 0
           On(x) == PageOn(year, x)
<1>1. leap \in BOOLEAN
  BY DEF LeapYear
<1>2. /\ S(1) = 0 /\ S(2) = 31 /\ S(3) = 61 /\ S(4) = 91 /\ S(5) = 122 /\ S(6) = 152
      /\ S(7) = 182 /\ S(8) = 213 /\ S(9) = 243 + late /\ S(10) = 274 + late
      /\ S(11) = 304 + late /\ S(12) = 335 + late
  BY <1>1, MonthStarts
<1>3. /\ F(1) = 30 /\ F(2) = 121 /\ F(3) = 212 /\ F(4) = 273 + late
      /\ F(5) = 334 + late /\ F(6) = 213
  BY <1>1, FeastDays
<1>4. /\ \A n \in Months, d \in 1..30 : ~(leap /\ n = 8) =>
           On(S(n) + d - 1) = Wall!Day(year, n, d)
      /\ \A f \in Feasts : (f = Shieldmeet => leap) => On(F(f)) = Wall!Feast(year, f)
  BY PagesByName
<1>5. \/ \E n \in Months, d \in 1..30 : ~(leap /\ n = 8) /\ day = S(n) + d - 1
      \/ \E f \in Feasts : (f = Shieldmeet => leap) /\ day = F(f)
  BY <1>1, EveryDayHasAName
<1>6. late \in 0..1 /\ (late = 1 <=> leap) /\ day < 364 + late
      /\ (leap => day + 1 \notin 214..243)
  BY <1>1
<1>7. \A n \in Months : S(n) \in Int
  BY <1>2, <1>6 DEF Months
<1> HIDE DEF leap, F, S, late, On
<1>8. ASSUME NEW n \in Months, NEW d \in 1..30, ~(leap /\ n = 8), day = S(n) + d - 1
      PROVE  On(day + 1) = Wall!Following(On(day))
  <2>1. On(day) = Wall!Day(year, n, d)
    BY <1>4, <1>8
  <2>2. CASE d < 30
    <3>1. d + 1 \in 1..30 /\ day + 1 = S(n) + (d + 1) - 1
      BY <1>7, <1>8, <2>2
    <3>2. On(S(n) + (d + 1) - 1) = Wall!Day(year, n, d + 1)
      BY <1>4, <1>8, <3>1
    <3> QED BY <2>1, <2>2, <3>1, <3>2, AfterADay
  <2>3. CASE d = 30 /\ n \in {1, 4, 7, 9, 11}
    <3> DEFINE f == Wall!FeastAfter[n]
    <3>1. f \in Feasts /\ f # Shieldmeet /\ day + 1 = F(f)
      BY <1>2, <1>3, <1>6, <1>8, <2>3 DEF Wall!FeastAfter, Feasts, Shieldmeet
    <3>2. On(F(f)) = Wall!Feast(year, f)
      BY <1>4, <3>1
    <3> HIDE DEF f
    <3>3. Wall!Following(Wall!Day(year, n, d)) = Wall!Feast(year, f)
      BY <2>3, AfterADay DEF f
    <3> QED BY <2>1, <3>1, <3>2, <3>3
  <2>4. CASE d = 30 /\ n \notin {1, 4, 7, 9, 11}
    <3>1. n \in {2, 3, 5, 6, 8, 10}
      <4>1. n \in {2, 3, 5, 6, 8, 10, 12}
        BY <2>4 DEF Months
      <4>2. n # 12
        BY <1>2, <1>6, <1>8, <2>4
      <4> QED BY <4>1, <4>2
    <3>2. /\ n + 1 \in Months /\ ~(leap /\ n + 1 = 8) /\ 1 \in 1..30 /\ n # 12
          /\ day + 1 = S(n + 1) + 1 - 1
      BY <1>2, <1>6, <1>8, <2>4, <3>1 DEF Months
    <3>3. On(S(n + 1) + 1 - 1) = Wall!Day(year, n + 1, 1)
      BY <1>4, <3>2
    <3>4. Wall!Following(Wall!Day(year, n, d)) = Wall!Day(year, n + 1, 1)
      BY <2>4, <3>2, AfterADay
    <3> QED BY <2>1, <3>2, <3>3, <3>4
  <2>5. d < 30 \/ d = 30
    OBVIOUS
  <2> QED BY <2>2, <2>3, <2>4, <2>5
<1>9. ASSUME NEW f \in Feasts, f = Shieldmeet => leap, day = F(f)
      PROVE  On(day + 1) = Wall!Following(On(day))
  <2>1. On(day) = Wall!Feast(year, f)
    BY <1>4, <1>9
  <2>2. CASE f = 3 /\ leap
    <3>1. day + 1 = F(Shieldmeet) /\ Shieldmeet \in Feasts
      BY <1>3, <1>9, <2>2 DEF Shieldmeet, Feasts
    <3>2. On(F(Shieldmeet)) = Wall!Feast(year, Shieldmeet)
      BY <1>4, <2>2, <3>1
    <3>3. Wall!Following(Wall!Feast(year, f)) = Wall!Feast(year, Shieldmeet)
      BY <2>2, AfterAFeast DEF leap
    <3> QED BY <2>1, <3>1, <3>2, <3>3
  <2>3. CASE ~(f = 3 /\ leap)
    <3>1. f \in {1, 2, 3, 4, 5} /\ (f = 3 => ~leap)
      <4>1. f \in {1, 2, 3, 4, 5, 6}
        BY DEF Feasts
      <4>2. f # 6
        BY <1>3, <1>6, <1>9 DEF Shieldmeet
      <4> QED BY <2>3, <4>1, <4>2
    <3>2. PICK n \in {2, 5, 8, 10, 12} :
            n = CASE f = 1 -> 2 [] f = 2 -> 5 [] f = 3 -> 8
                  [] f = 4 -> 10 [] f = 5 -> 12 [] f = 6 -> 8
      BY <3>1
    <3>3. n \in Months /\ ~(leap /\ n = 8) /\ 1 \in 1..30 /\ day + 1 = S(n) + 1 - 1
      BY <1>2, <1>3, <1>6, <1>9, <3>1, <3>2 DEF Months
    <3>4. On(S(n) + 1 - 1) = Wall!Day(year, n, 1)
      BY <1>4, <3>3
    <3>5. Wall!Following(Wall!Feast(year, f)) = Wall!Day(year, n, 1)
      BY <2>3, <3>2, AfterAFeast DEF leap
    <3> QED BY <2>1, <3>3, <3>4, <3>5
  <2> QED BY <2>2, <2>3
<1>10. On(day + 1) = Wall!Following(On(day))
  BY <1>5, <1>8, <1>9
<1> QED BY <1>10 DEF On

\* ... and so it does from the last day to the first of the next year.
LEMMA YearTurns ==
  ASSUME NEW year \in Nat
  PROVE  PageOn(year + 1, 0)
           = Wall!Following(PageOn(year, IF LeapYear(year) THEN 365 ELSE 364))
<1> DEFINE leap == LeapYear(year)
           next == LeapYear(year + 1)
           last == IF leap THEN 365 ELSE 364
<1>1. leap \in BOOLEAN /\ next \in BOOLEAN
  BY DEF LeapYear
<1>2. MonthStart(12, leap) + 30 - 1 = last
  BY <1>1, MonthStarts
<1>3. MonthStart(1, next) + 1 - 1 = 0
  BY <1>1, MonthStarts
<1>4. /\ 1 \in Months /\ 12 \in Months /\ year + 1 \in Nat /\ 1 \in 1..30 /\ 30 \in 1..30
      /\ 12 # 8 /\ 1 # 8 /\ 12 \notin {1, 4, 7, 9, 11} /\ ~(30 < 30)
  BY DEF Months
<1>5. PageOn(year, MonthStart(12, leap) + 30 - 1) = Wall!Day(year, 12, 30)
  BY <1>4, PagesByName
<1>6. PageOn(year + 1, MonthStart(1, next) + 1 - 1) = Wall!Day(year + 1, 1, 1)
  BY <1>4, PagesByName
<1>7. Wall!Following(Wall!Day(year, 12, 30)) = Wall!Day(year + 1, 1, 1)
  BY <1>4, AfterADay
<1> HIDE DEF leap, next, last
<1>8. PageOn(year + 1, 0) = Wall!Following(PageOn(year, last))
  BY <1>2, <1>3, <1>5, <1>6, <1>7
<1> QED BY <1>8 DEF last, leap

\* A year has 365 days, a leap year one more.
LEMMA YearLength ==
  ASSUME NEW year \in Nat \ {0}
  PROVE  YearStart(year + 1)
           = YearStart(year) + (IF LeapYear(year) THEN 366 ELSE 365) * 1440
<1>1. year \div 4 = (year - 1) \div 4 + (IF LeapYear(year) THEN 1 ELSE 0)
  BY SMT DEF LeapYear
<1>2. (year + 1) - 1 = year /\ year \div 4 \in Int /\ (year - 1) \div 4 \in Int
  BY SMT
<1> QED BY <1>1, <1>2, SMT DEF YearStart, YearMinutes, DayMinutes

\* A later year starts later.
LEMMA YearStartsGrow ==
  ASSUME NEW year \in Nat \ {0}, NEW later \in Nat, year <= later
  PROVE  YearStart(year) \in Int /\ YearStart(later) \in Int
         /\ YearStart(year) <= YearStart(later)
<1>1. PICK a \in Int, b \in Int : a = (year - 1) \div 4 /\ b = (later - 1) \div 4 /\ a <= b
  BY SMT
<1> QED BY <1>1, SMT DEF YearStart, YearMinutes, DayMinutes

\* Where at most a day later is: on the same day, on the next day of the year, or on
\* the first day of the next year after the last.
LEMMA ADayLater ==
  ASSUME NEW m \in Nat, NEW next \in m..(m + 1440)
  PROVE  LET year == YearOf(m)
             day == DayOfYear(m)
             last == IF LeapYear(year) THEN 365 ELSE 364
         IN  /\ year \in Nat /\ day \in 0..last
             /\ \/ YearOf(next) = year /\ DayOfYear(next) = day
                \/ YearOf(next) = year /\ DayOfYear(next) = day + 1 /\ day < last
                \/ YearOf(next) = year + 1 /\ DayOfYear(next) = 0 /\ day = last
<1> DEFINE year == YearOf(m)
           then == YearOf(next)
           length == IF LeapYear(year) THEN 366 ELSE 365
<1>1. /\ year \in Nat \ {0} /\ YearStart(year) <= m /\ m < YearStart(year + 1)
      /\ then \in Nat \ {0} /\ YearStart(then) <= next /\ next < YearStart(then + 1)
  BY YearsExactFor
<1>2. /\ YearStart(year) \in Int /\ length \in {365, 366}
      /\ YearStart(year + 1) = YearStart(year) + length * 1440
  BY <1>1, YearLength, YearStartsGrow
<1>3. YearStart(year + 2) >= YearStart(year + 1) + 365 * 1440
  <2>1. year + 1 \in Nat \ {0} /\ (year + 1) + 1 = year + 2
    BY <1>1
  <2>2. YearStart((year + 1) + 1)
          = YearStart(year + 1) + (IF LeapYear(year + 1) THEN 366 ELSE 365) * 1440
    BY <2>1, YearLength
  <2> QED BY <1>2, <2>1, <2>2
<1>4. ~(then < year)
  <2> SUFFICES ASSUME then < year PROVE FALSE
    OBVIOUS
  <2>1. then + 1 \in Nat \ {0} /\ then + 1 <= year
    BY <1>1
  <2>2. YearStart(then + 1) <= YearStart(year) /\ YearStart(then + 1) \in Int
    BY <1>1, <2>1, YearStartsGrow
  <2> QED BY <1>1, <1>2, <2>2
<1>5. ~(year + 2 <= then)
  <2> SUFFICES ASSUME year + 2 <= then PROVE FALSE
    OBVIOUS
  <2>1. YearStart(year + 2) <= YearStart(then) /\ YearStart(then) \in Int
        /\ YearStart(year + 2) \in Int
    BY <1>1, YearStartsGrow
  <2> QED BY <1>1, <1>2, <1>3, <2>1
<1>6. then = year \/ then = year + 1
  BY <1>1, <1>4, <1>5
<1>7. /\ DayOfYear(m) = (m - YearStart(year)) \div 1440
      /\ DayOfYear(next) = (next - YearStart(then)) \div 1440
  BY DEF DayOfYear, DayMinutes
<1> HIDE DEF year, then, length
<1>8. PICK start \in Int, inside \in Nat :
        start = YearStart(year) /\ inside = m - start /\ inside < length * 1440
  BY <1>1, <1>2
<1>9. DayOfYear(m) = inside \div 1440 /\ inside \div 1440 \in 0..(length - 1)
  BY <1>2, <1>7, <1>8
<1>10. CASE then = year
  <2>1. PICK k \in 0..1440 : next = m + k
    <3>1. next - m \in 0..1440 /\ next = m + (next - m)
      OBVIOUS
    <3> QED BY <3>1
  <2>2. next - start = inside + k /\ inside + k < length * 1440
    BY <1>1, <1>2, <1>8, <1>10, <2>1
  <2>3. DayOfYear(next) = (inside + k) \div 1440
    BY <1>7, <1>8, <1>10, <2>2
  <2>4. \/ (inside + k) \div 1440 = inside \div 1440
        \/ (inside + k) \div 1440 = inside \div 1440 + 1 /\ inside \div 1440 < length - 1
    BY <1>2, <2>2
  <2> QED BY <1>1, <1>2, <1>9, <1>10, <2>3, <2>4 DEF year, then, length
<1>11. CASE then = year + 1
  <2>1. PICK j \in 0..1439 : j = next - YearStart(then)
    <3>1. next - YearStart(then) \in 0..1439
      BY <1>1, <1>2, <1>11
    <3> QED BY <3>1
  <2>2. DayOfYear(next) = 0
    BY <1>7, <2>1
  <2>3. inside \div 1440 = length - 1
    <3>1. inside >= (length - 1) * 1440
      BY <1>1, <1>2, <1>8, <1>11
    <3> QED BY <1>2, <1>8, <1>9, <3>1
  <2> QED BY <1>1, <1>2, <1>9, <1>11, <2>2, <2>3 DEF year, then, length
<1> QED BY <1>6, <1>10, <1>11

\* What a minute must not be for the calendar to be right: on a day of Элеасис of a
\* leap year, or on 1 Элейнт, which ends up as the 31st of Элеасис.
Shifted(m) == LeapYear(YearOf(m)) /\ DayOfYear(m) \in 214..243

LEMMA PageFollows ==
  ASSUME NEW m \in Nat, NEW next \in m..(m + 1440), ~Shifted(m), ~Shifted(next)
  PROVE  PageOf(next) = PageOf(m) \/ PageOf(next) = Wall!Following(PageOf(m))
<1> DEFINE year == YearOf(m)
           day == DayOfYear(m)
           last == IF LeapYear(year) THEN 365 ELSE 364
<1>1. next \in Nat /\ last \in {364, 365}
  OBVIOUS
<1>2. /\ year \in Nat /\ day \in 0..last
      /\ \/ YearOf(next) = year /\ DayOfYear(next) = day
         \/ YearOf(next) = year /\ DayOfYear(next) = day + 1 /\ day < last
         \/ YearOf(next) = year + 1 /\ DayOfYear(next) = 0 /\ day = last
  BY ADayLater
<1>3. /\ PageOf(m) = PageOn(year, day)
      /\ PageOf(next) = PageOn(YearOf(next), DayOfYear(next))
  BY <1>1, PageOfDay
<1>4. CASE YearOf(next) = year /\ DayOfYear(next) = day
  BY <1>3, <1>4
<1>5. CASE YearOf(next) = year /\ DayOfYear(next) = day + 1 /\ day < last
  <2>1. LeapYear(year) => day \notin 214..243 /\ day + 1 \notin 214..243
    BY <1>5 DEF Shifted
  <2>2. day \in Nat
    BY <1>1, <1>2
  <2> HIDE DEF day, year
  <2>3. PageOn(year, day + 1) = Wall!Following(PageOn(year, day))
    BY <1>2, <1>5, <2>1, <2>2, PageTurns
  <2> QED BY <1>3, <1>5, <2>3
<1>6. CASE YearOf(next) = year + 1 /\ DayOfYear(next) = 0 /\ day = last
  BY <1>2, <1>3, <1>6, YearTurns
<1> QED BY <1>2, <1>4, <1>5, <1>6

\* Time walked through by steps of at most a day, outside the shifted days, turns the
\* pages of the calendar of Harptos one by one, in every year.
THEOREM FollowsTheCalendarHolds ==
  ASSUME \A w \in Walks :
           /\ w.minutes \subseteq 0..1440 /\ w.hours \subseteq 0..24 /\ w.days \subseteq 0..1
           /\ w.page = PageOf(w.from)
           /\ \A m \in w.from..w.upto : ~Shifted(m)
  PROVE  Spec => FollowsTheCalendar
<1> DEFINE Within == minute \in Nat /\ walk \in Walks /\ walk.from <= minute
<1>1. Init => Within /\ Wall!Init
  BY WalksAssumption DEF Init, Wall!Init, ShownPage
<1>2. Within /\ [Next]_vars => Within' /\ [Wall!Turn]_ShownPage
  <2> SUFFICES ASSUME Within, [Next]_vars PROVE Within' /\ [Wall!Turn]_ShownPage
    OBVIOUS
  <2>1. walk.from \in Nat /\ walk.upto \in Nat
    BY WalksAssumption
  <2>2. ASSUME NEW next \in minute..(minute + 1440), Reach(next)
        PROVE  Within' /\ [Wall!Turn]_ShownPage
    <3>1. next \in walk.from..walk.upto /\ minute \in walk.from..walk.upto
          /\ minute' = next /\ walk' = walk
      BY <2>1, <2>2 DEF Reach
    <3>2. ~Shifted(minute) /\ ~Shifted(next)
      BY <3>1
    <3>3. PageOf(next) = PageOf(minute) \/ PageOf(next) = Wall!Following(PageOf(minute))
      BY <2>2, <3>2, PageFollows
    <3>4. ShownPage' = PageOf(next) /\ ShownPage = PageOf(minute)
      BY <3>1 DEF ShownPage
    <3>5. Within'
      BY <2>1, <3>1
    <3> QED BY <3>3, <3>4, <3>5 DEF Wall!Turn
  <2>3. CASE AddMinutes
    <3>1. PICK n \in walk.minutes : Reach(minute + n)
      BY <2>3 DEF AddMinutes
    <3>2. n \in 0..1440
      OBVIOUS
    <3>3. minute + n \in minute..(minute + 1440)
      BY <3>2
    <3> QED BY <2>2, <3>1, <3>3
  <2>4. CASE AddHours
    BY <2>2, <2>4 DEF AddHours
  <2>5. CASE AddDays
    BY <2>2, <2>5 DEF AddDays
  <2>6. CASE UNCHANGED vars
    BY <2>6 DEF vars, ShownPage
  <2> QED BY <2>3, <2>4, <2>5, <2>6 DEF Next
<1> QED BY <1>1, <1>2, PTL DEF Spec, FollowsTheCalendar, Wall!Spec
-----------------------------------------------------------------------------
(* The shifted days.                                                       *)

\* The days 214 to 243 of a leap year are shown as 2 to 31 Элеасис.
LEMMA DaysOfEleasis ==
  ASSUME NEW leap \in BOOLEAN, NEW day \in 214..243
  PROVE  leap => PeriodOf(day, leap) = [month |-> 8, day |-> day - 212, feast |-> 0]
<1> DEFINE F(f) == FeastDay(f, leap)
           S(k) == MonthStart(k, leap)
           late == IF leap THEN 1 ELSE 0
<1>1. /\ S(1) = 0 /\ S(2) = 31 /\ S(3) = 61 /\ S(4) = 91 /\ S(5) = 122 /\ S(6) = 152
      /\ S(7) = 182 /\ S(8) = 213 /\ S(9) = 243 + late /\ S(10) = 274 + late
      /\ S(11) = 304 + late /\ S(12) = 335 + late
  BY MonthStarts
<1>2. /\ F(1) = 30 /\ F(2) = 121 /\ F(3) = 212 /\ F(4) = 273 + late
      /\ F(5) = 334 + late /\ F(6) = 213
  BY FeastDays
<1> SUFFICES ASSUME leap
             PROVE  PeriodOf(day, leap) = [month |-> 8, day |-> day - 212, feast |-> 0]
  OBVIOUS
<1> late = 1
  OBVIOUS
<1> HIDE DEF F, S, late
<1>3. ASSUME NEW f \in Feasts PROVE F(f) # day
  <2>1. f \in {1, 2, 3, 4, 5, 6}
    BY DEF Feasts
  <2> QED BY <1>2, <2>1
<1>4. FeastsOn(day, leap) = {}
  BY <1>3 DEF FeastsOn, F
<1>5. ASSUME NEW k \in Months
      PROVE  S(k) <= day /\ (\A later \in Months : later > k => S(later) > day) <=> k = 8
  <2>1. \A n \in Months : n \in {1, 2, 3, 4, 5, 6, 7, 8, 9, 10, 11, 12}
    BY DEF Months
  <2>2. 8 \in Months
    BY DEF Months
  <2>3. CASE k < 8
    BY <1>1, <2>2, <2>3
  <2>4. CASE k = 8
    <3>1. ASSUME NEW later \in Months, later > 8 PROVE S(later) > day
      BY <1>1, <2>1, <3>1
    <3> QED BY <1>1, <2>4, <3>1
  <2>5. CASE k > 8
    BY <1>1, <2>1, <2>5
  <2> QED BY <2>1, <2>3, <2>4, <2>5
<1>6. MonthOn(day, leap) = 8
  <2>1. 8 \in Months
    BY DEF Months
  <2> QED BY <1>5, <2>1 DEF MonthOn, S
<1>7. day - S(8) + 1 = day - 212
  BY <1>1
<1> QED BY <1>4, <1>6, <1>7 DEF PeriodOf, S

\* The date of a minute is refused on one day only, the first after Элеасис of a leap
\* year, which СмещениеНачалаМесяца makes its 31st.
LEMMA RefusedFor ==
  ASSUME NEW m \in Nat
  PROVE  Accepted(DateOf(m)) <=> ~(LeapYear(YearOf(m)) /\ DayOfYear(m) = 243)
<1> DEFINE year == YearOf(m)
           day == DayOfYear(m)
           leap == LeapYear(year)
           last == IF leap THEN 365 ELSE 364
           p == PeriodOf(day, leap)
           time == (m - YearStart(year)) % DayMinutes
<1>1. year \in Nat \ {0} /\ m - YearStart(year) \in Nat
  <2>1. year \in Nat \ {0} /\ YearStart(year) <= m
    BY YearsExactFor
  <2>2. YearStart(year) \in Int
    BY <2>1, YearStartsGrow
  <2> QED BY <2>1, <2>2
<1>2. day \in 0..last
  <2>1. m \in m..(m + 1440)
    OBVIOUS
  <2> QED BY <2>1, ADayLater
<1>3. leap \in BOOLEAN
  BY DEF LeapYear
<1>4. DateOf(m) = [year |-> year, period |-> p,
                   hour |-> time \div 60, minute |-> time % 60]
  BY DEF DateOf, DayOfYear
<1>5. time \div 60 \in 0..23 /\ time % 60 \in 0..59
  BY <1>1, PartsOfMinute
<1> HIDE DEF year, day, leap, last, p, time
<1>6. Accepted(DateOf(m)) <=>
        \/ p.month \in Months /\ p.day \in 1..30
        \/ p.feast \in Feasts /\ (p.feast = Shieldmeet => leap)
  BY <1>1, <1>4, <1>5 DEF Accepted, leap
<1>7. CASE leap => day \notin 214..243
  <2>1. \/ \E n \in Months, d \in 1..30 : ~(leap /\ n = 8) /\ day = MonthStart(n, leap) + d - 1
        \/ \E f \in Feasts : (f = Shieldmeet => leap) /\ day = FeastDay(f, leap)
    BY <1>2, <1>3, <1>7, EveryDayHasAName DEF last
  <2>2. \/ \E n \in Months, d \in 1..30 : p = [month |-> n, day |-> d, feast |-> 0]
        \/ \E f \in Feasts : (f = Shieldmeet => leap) /\ p = [month |-> 0, day |-> 0, feast |-> f]
    BY <1>3, <2>1, DaysOfMonths, DaysOfFeasts DEF p
  <2>3. ~(leap /\ day = 243)
    BY <1>7
  <2> QED BY <1>6, <2>2, <2>3 DEF year, leap, day
<1>8. CASE leap /\ day \in 214..243
  <2>1. p = [month |-> 8, day |-> day - 212, feast |-> 0]
    BY <1>3, <1>8, DaysOfEleasis DEF p
  <2>2. Accepted(DateOf(m)) <=> day # 243
    BY <1>6, <1>8, <2>1 DEF Months, Feasts
  <2> QED BY <1>8, <2>2 DEF year, leap, day
<1> QED BY <1>7, <1>8

\* How far the disagreement of the run calendar_leap goes: no other date is refused.
THEOREM RefusedDates ==
  Spec => [](DatesAreAccepted <=> ~(LeapYear(YearOf(minute)) /\ DayOfYear(minute) = 243))
<1>1. TypeOK =>
        (DatesAreAccepted <=> ~(LeapYear(YearOf(minute)) /\ DayOfYear(minute) = 243))
  BY RefusedFor DEF TypeOK, DatesAreAccepted
<1> QED BY <1>1, TypeCorrect, PTL
=============================================================================
