--------------------------- MODULE MCCalendarEvents ---------------------------
(***************************************************************************)
(* Three events, two campaigns and two sessions.  In the form one of the   *)
(* events can lose its end or be given one before its start.               *)
(***************************************************************************)
EXTENDS CalendarEvents, TLC

CONSTANTS s1, s2, here, abroad

Minute == 0..2

\* Calls that end before they start are refused.
Called == {<<0, None>>, <<0, 2>>, <<2, None>>, <<2, 1>>}

\* A point event, and an event that ends before it starts.
Entered == {<<1, 0>>, <<2, 1>>}

AnyOrder == Permutations(Sessions) \cup Permutations(Campaigns)
=============================================================================
