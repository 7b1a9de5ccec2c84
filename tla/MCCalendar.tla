------------------------------ MODULE MCCalendar ------------------------------
(***************************************************************************)
(* Walks through game time, each from a page that is known independently.  *)
(***************************************************************************)
EXTENDS Calendar

Walk(days, count, page, minutes, hours, extra) ==
  [from |-> days * 24 * 60, upto |-> (days + count) * 24 * 60 - 1, page |-> page,
   minutes |-> minutes, hours |-> hours, days |-> extra]

Page(year, month, day, feast) ==
  [year |-> year, month |-> month, day |-> day, feast |-> feast]

\* From the first day to Shieldmeet of the first leap year, in steps that stay
\* short of a day and so come by every hour; from that year's 1 Элейнт over the
\* end of the year; the pages around year 1489, where games are played, by days;
\* and the ends of a leap year and of an ordinary year minute by minute.
OutsideEleasis ==
  {Walk(0, 1095 + 214, Page(1, 1, 1, 0), {}, {23}, {}),
   Walk(1095 + 244, 150, Page(4, 9, 1, 0), {}, {1}, {1}),
   Walk(372 * 1461, 1095 + 214, Page(1489, 1, 1, 0), {1439}, {}, {}),
   Walk(372 * 1461 - 1, 2, Page(1488, 12, 30, 0), {1, 60}, {}, {}),
   Walk(372 * 1461 + 364, 2, Page(1489, 12, 30, 0), {1, 60}, {}, {})}

\* The first leap year by days, from the first to the last.
LeapYearByDays == {Walk(1095, 366, Page(4, 1, 1, 0), {}, {}, {1})}
=============================================================================
