------------------------------- MODULE Harptos -------------------------------
(***************************************************************************)
(* What the calendar module promises its callers: the calendar of Harptos  *)
(* as a wall calendar with a page for every day.  Twelve months of thirty  *)
(* days, five feasts between them, and in every fourth year Shieldmeet     *)
(* after Midsummer.  Time passes on a page, then the page is turned.       *)
(***************************************************************************)
EXTENDS Integers

CONSTANT FirstPages   \* the pages the calendar may be opened at

VARIABLE page         \* [year, month, day, feast]; no month on a feast's page

\* Code of the feast that follows a month, for the months a feast follows.
FeastAfter == [n \in {1, 4, 7, 9, 11} |->
  CASE n = 1 -> 1 [] n = 4 -> 2 [] n = 7 -> 3 [] n = 9 -> 4 [] n = 11 -> 5]

Midsummer == 3
Shieldmeet == 6

\* The month a feast follows.
MonthBefore(feast) ==
  IF feast = Shieldmeet THEN 7
  ELSE CHOOSE n \in DOMAIN FeastAfter : FeastAfter[n] = feast

LeapYear(year) == year % 4 = 0

Day(year, month, day) == [year |-> year, month |-> month, day |-> day, feast |-> 0]
Feast(year, feast) == [year |-> year, month |-> 0, day |-> 0, feast |-> feast]

FirstOfNextMonth(year, month) ==
  IF month = 12 THEN Day(year + 1, 1, 1) ELSE Day(year, month + 1, 1)

Following(p) ==
  CASE p.month # 0 /\ p.day < 30 -> Day(p.year, p.month, p.day + 1)
    [] p.month \in DOMAIN FeastAfter /\ p.day = 30 ->
         Feast(p.year, FeastAfter[p.month])
    [] p.month \notin DOMAIN FeastAfter \cup {0} /\ p.day = 30 ->
         FirstOfNextMonth(p.year, p.month)
    [] p.feast = Midsummer /\ LeapYear(p.year) -> Feast(p.year, Shieldmeet)
    [] p.feast # 0 /\ ~(p.feast = Midsummer /\ LeapYear(p.year)) ->
         FirstOfNextMonth(p.year, MonthBefore(p.feast))

Init == page \in FirstPages
Turn == page' = Following(page)
Spec == Init /\ [][Turn]_page
=============================================================================
