------------------------- MODULE CalendarEventsProofs -------------------------
(***************************************************************************)
(* The module ends only events that are due, and the agendas show what     *)
(* takes place, for any sessions, campaigns, events and minutes.           *)
(***************************************************************************)
EXTENDS CalendarEvents, FiniteSetTheorems, TLAPS

\* What a call relies on between check and write.
CallFits(c, items) ==
  c.pc = "write" =>
    /\ c.event \in DOMAIN items
    /\ c.stale \/ (items[c.event].status \notin Final /\ items[c.event].owner = c.campaign)

CallsFit == \A s \in Sessions : CallFits(call[s], events)

IInv == TypeOK /\ CallsFit

\* The step property, without the brackets.
DueStep ==
  \A e \in DOMAIN events :
    events'[e].status # events[e].status =>
      \/ \A s \in Sessions : call'[s].pc = call[s].pc
      \/ \E s \in Sessions :
           /\ call[s].pc = "write" /\ call[s].event = e
           /\ \/ call[s].stale
              \/ events[e].status \notin Final /\ events[e].owner = call[s].campaign

LEMMA CallsAreCalls ==
  ASSUME IInv, NEW s \in Sessions, call[s].pc = "write"
  PROVE  call[s] \in Call
BY DEF IInv, TypeOK, Idle

\* Overtaking a call only sets its mark.
LEMMA OvertakenFits ==
  ASSUME IInv, NEW e \in DOMAIN events, NEW event \in Event,
         events' = [events EXCEPT ![e] = event]
  PROVE  /\ Overtaken(e) \in [Sessions -> {Idle} \cup Call]
         /\ \A s \in Sessions : CallFits(Overtaken(e)[s], events')
         /\ \A s \in Sessions : Overtaken(e)[s].pc = call[s].pc
         /\ DOMAIN events' \subseteq Events /\ events' \in [DOMAIN events' -> Event]
<1>1. DOMAIN events' = DOMAIN events /\ events' \in [DOMAIN events' -> Event]
  BY DEF IInv, TypeOK
<1>2. ASSUME NEW s \in Sessions
      PROVE  /\ Overtaken(e)[s] \in {Idle} \cup Call
             /\ CallFits(Overtaken(e)[s], events')
             /\ Overtaken(e)[s].pc = call[s].pc
  <2>1. CASE call[s].pc = "write" /\ call[s].event = e
    <3>1. call[s] \in Call
      BY <2>1, CallsAreCalls
    <3>2. Overtaken(e)[s] = [call[s] EXCEPT !.stale = TRUE]
      BY <2>1 DEF Overtaken
    <3>3. /\ Overtaken(e)[s] \in Call /\ Overtaken(e)[s].pc = call[s].pc
          /\ Overtaken(e)[s].stale = TRUE /\ Overtaken(e)[s].event = e
      BY <2>1, <3>1, <3>2 DEF Call
    <3> QED BY <1>1, <3>3 DEF CallFits
  <2>2. CASE ~(call[s].pc = "write" /\ call[s].event = e)
    <3>1. Overtaken(e)[s] = call[s]
      BY <2>2 DEF Overtaken
    <3>2. call[s].pc = "write" => call[s].event # e /\ call[s].event \in DOMAIN events
      BY <2>2 DEF IInv, CallsFit, CallFits
    <3>3. call[s].pc = "write" => events'[call[s].event] = events[call[s].event]
      BY <3>2 DEF IInv, TypeOK
    <3> QED BY <1>1, <3>1, <3>2, <3>3 DEF IInv, TypeOK, CallsFit, CallFits
  <2> QED BY <2>1, <2>2
<1>3. DOMAIN Overtaken(e) = Sessions /\ Overtaken(e) = [t \in Sessions |-> Overtaken(e)[t]]
  BY DEF Overtaken
<1> QED BY <1>1, <1>2, <1>3 DEF IInv, TypeOK

\* A step of the form on one event.
LEMMA EditKeepsIt ==
  ASSUME IInv, NEW e, NEW event \in Event, Edit(e, event)
  PROVE  IInv' /\ DueStep
<1>1. e \in DOMAIN events /\ events' = [events EXCEPT ![e] = event] /\ call' = Overtaken(e)
  BY DEF Edit
<1>2. /\ Overtaken(e) \in [Sessions -> {Idle} \cup Call]
      /\ \A s \in Sessions : CallFits(Overtaken(e)[s], events')
      /\ \A s \in Sessions : Overtaken(e)[s].pc = call[s].pc
      /\ DOMAIN events' \subseteq Events /\ events' \in [DOMAIN events' -> Event]
  BY <1>1, OvertakenFits
<1>3. TypeOK'
  BY <1>1, <1>2 DEF TypeOK
<1>4. CallsFit'
  BY <1>1, <1>2 DEF CallsFit
<1>5. DueStep
  BY <1>1, <1>2 DEF DueStep
<1> QED BY <1>3, <1>4, <1>5 DEF IInv

LEMMA StepsKeepIt ==
  ASSUME IInv, [Next]_vars
  PROVE  IInv' /\ DueStep
<1>1. ASSUME NEW e \in Events, NEW campaign \in Campaigns, NEW times \in NewTimes,
             Create(e, campaign, times[1], times[2])
      PROVE  IInv' /\ DueStep
  <2> DEFINE end == IF times[2] = None THEN times[1] ELSE times[2]
             made == New(campaign, times[1], end)
  <2>1. made \in Event
    BY BoundsAssumption DEF New, Event, Final
  <2> HIDE DEF made
  <2>2. /\ e \notin DOMAIN events /\ UNCHANGED call
        /\ events' = [x \in DOMAIN events \cup {e} |-> IF x = e THEN made ELSE events[x]]
    BY <1>1 DEF Create, made
  <2>3. TypeOK'
    BY <2>1, <2>2 DEF IInv, TypeOK
  <2>4. \A x \in DOMAIN events : x \in DOMAIN events' /\ events'[x] = events[x]
    BY <2>2
  <2> QED BY <2>2, <2>3, <2>4 DEF IInv, CallsFit, CallFits, DueStep
<1>2. ASSUME NEW s \in Sessions, NEW e \in Events, NEW status \in Final,
             NEW campaign \in Campaigns, Ask(s, e, status, campaign)
      PROVE  IInv' /\ DueStep
  <2> DEFINE c == [pc |-> "write", event |-> e, status |-> status,
                   campaign |-> campaign, stale |-> FALSE]
  <2>1. c \in Call /\ CallFits(c, events)
    BY <1>2 DEF Ask, MayChange, Call, CallFits
  <2>2. call' = [call EXCEPT ![s] = c] /\ UNCHANGED events
    BY <1>2 DEF Ask
  <2> HIDE DEF c
  <2>3. TypeOK' /\ CallsFit'
    BY <2>1, <2>2 DEF IInv, TypeOK, CallsFit, CallFits
  <2> QED BY <2>2, <2>3 DEF IInv, DueStep
<1>3. ASSUME NEW s \in Sessions, SetStatus(s)
      PROVE  IInv' /\ DueStep
  <2> DEFINE e == call[s].event
             event == [events[e] EXCEPT !.status = call[s].status]
  <2>1. call[s] \in Call /\ call[s].pc = "write" /\ e \in DOMAIN events
    BY <1>3, CallsAreCalls DEF SetStatus, IInv, CallsFit, CallFits
  <2>2. event \in Event
    BY <2>1 DEF IInv, TypeOK, Event, Call
  <2>3. events' = [events EXCEPT ![e] = event] /\ call' = [Overtaken(e) EXCEPT ![s] = Idle]
    BY <1>3, <2>1 DEF SetStatus
  <2> HIDE DEF event
  <2>4. /\ Overtaken(e) \in [Sessions -> {Idle} \cup Call]
        /\ \A t \in Sessions : CallFits(Overtaken(e)[t], events')
        /\ DOMAIN events' \subseteq Events /\ events' \in [DOMAIN events' -> Event]
    BY <2>1, <2>2, <2>3, OvertakenFits
  <2>5. TypeOK'
    BY <2>3, <2>4 DEF TypeOK
  <2>6. CallsFit'
    <3> SUFFICES ASSUME NEW t \in Sessions PROVE CallFits(call'[t], events')
      BY DEF CallsFit
    <3>1. CASE t = s
      BY <2>3, <2>4, <3>1 DEF CallFits, Idle
    <3>2. CASE t # s
      <4>1. call'[t] = Overtaken(e)[t]
        BY <2>3, <2>4, <3>2
      <4> QED BY <2>4, <4>1
    <3> QED BY <3>1, <3>2
  <2>7. DueStep
    BY <2>1, <2>3 DEF DueStep, IInv, TypeOK, CallsFit, CallFits
  <2> QED BY <2>5, <2>6, <2>7 DEF IInv
<1>4. ASSUME NEW s \in Sessions, Refused(s)
      PROVE  IInv' /\ DueStep
  BY <1>4 DEF Refused, IInv, TypeOK, CallsFit, CallFits, DueStep, Idle
<1>5. ASSUME NEW e \in Editable, NEW times \in FormTimes, Reschedule(e, times)
      PROVE  IInv' /\ DueStep
  <2>1. times[1] \in Times /\ times[2] \in Times
    BY BoundsAssumption
  <2>2. events[e] \in Event
    BY <1>5 DEF Reschedule, Edit, IInv, TypeOK
  <2>3. [events[e] EXCEPT !.start = times[1], !.end = times[2]] \in Event
    BY <2>1, <2>2 DEF Event
  <2> QED BY <1>5, <2>3, EditKeepsIt DEF Reschedule
<1>6. ASSUME NEW e \in Editable, NEW status \in Final \cup {"planned"}, Restate(e, status)
      PROVE  IInv' /\ DueStep
  <2>1. [events[e] EXCEPT !.status = status] \in Event
    BY <1>6 DEF Restate, Edit, IInv, TypeOK, Event
  <2> QED BY <1>6, <2>1, EditKeepsIt DEF Restate
<1>7. ASSUME NEW e \in Editable, Mark(e)
      PROVE  IInv' /\ DueStep
  <2>1. [events[e] EXCEPT !.marked = ~@] \in Event
    BY <1>7 DEF Mark, Edit, IInv, TypeOK, Event
  <2> QED BY <1>7, <2>1, EditKeepsIt DEF Mark
<1>8. ASSUME NEW e \in Editable, NEW campaign \in Campaigns, Move(e, campaign)
      PROVE  IInv' /\ DueStep
  <2>1. [events[e] EXCEPT !.owner = campaign] \in Event
    BY <1>8 DEF Move, Edit, IInv, TypeOK, Event
  <2> QED BY <1>8, <2>1, EditKeepsIt DEF Move
<1>9. CASE UNCHANGED vars
  BY <1>9 DEF vars, IInv, TypeOK, CallsFit, CallFits, DueStep
<1> QED BY <1>1, <1>2, <1>3, <1>4, <1>5, <1>6, <1>7, <1>8, <1>9 DEF Next

LEMMA StartsRight == Init => IInv
<1> SUFFICES ASSUME Init PROVE IInv
  OBVIOUS
<1>1. events = <<>> /\ call = [s \in Sessions |-> Idle]
  BY DEF Init
<1>2. DOMAIN events = {} /\ events \in [DOMAIN events -> Event]
  BY <1>1
<1>3. call \in [Sessions -> {Idle} \cup Call]
  BY <1>1
<1>4. \A s \in Sessions : call[s].pc = "idle"
  BY <1>1 DEF Idle
<1> QED BY <1>2, <1>3, <1>4 DEF IInv, TypeOK, CallsFit, CallFits

\* ИзменитьСтатусСобытия ends only what is not over and belongs to the campaign of
\* the caller, however the calls of any number of sessions interleave.
THEOREM StatusChangesAreDueHolds == Spec => StatusChangesAreDue
<1>1. IInv /\ [Next]_vars => IInv' /\ DueStep
  BY StepsKeepIt
<1>2. DueStep => [\A e \in DOMAIN events :
       events'[e].status # events[e].status =>
         \/ \A s \in Sessions : call'[s].pc = call[s].pc
         \/ \E s \in Sessions :
              /\ call[s].pc = "write" /\ call[s].event = e
              /\ \/ call[s].stale
                 \/ events[e].status \notin Final /\ events[e].owner = call[s].campaign]_vars
  BY DEF DueStep
<1> QED BY StartsRight, <1>1, <1>2, PTL DEF Spec, StatusChangesAreDue

\* The two queries of the agenda and the one of СобытияКалендаря, written with
\* different conditions, agree with the minutes at which an event takes place.
LEMMA SelectionsAreTrue ==
  ASSUME TypeOK
  PROVE  AgendaIsTrue
<1> SUFFICES ASSUME NEW campaign \in Campaigns, NEW from \in Times, NEW to \in Times,
                    NEW e \in Listed(campaign), Takes(e)
             PROVE  /\ e \in Onwards(campaign, from) <=> \E m \in Minutes(e) : m >= from
                    /\ from <= to =>
                         /\ e \in Within(campaign, from, to)
                              <=> \E m \in Minutes(e) : m \in from..to
                         /\ events[e].end >= events[e].start =>
                              (e \in OfPeriod(campaign, from, to)
                                 <=> e \in Within(campaign, from, to))
  BY DEF AgendaIsTrue
<1> DEFINE start == events[e].start
           end == events[e].end
           last == IF end = 0 THEN start ELSE end
<1>1. from \in Nat /\ to \in Nat /\ start \in Nat /\ end \in Nat
  BY BoundsAssumption DEF Listed, TypeOK, Event
<1>2. last \in Nat /\ start <= last /\ Minutes(e) = start..last
  BY <1>1 DEF Takes, Minutes
<1>3. e \in Onwards(campaign, from) <=> last >= from
  BY <1>1, <1>2 DEF Onwards, GoingOn
<1>4. (\E m \in Minutes(e) : m >= from) <=> last >= from
  <2>1. ASSUME last >= from PROVE \E m \in Minutes(e) : m >= from
    <3>1. last \in Minutes(e)
      BY <1>1, <1>2
    <3> QED BY <2>1, <3>1
  <2>2. ASSUME NEW m \in Minutes(e), m >= from PROVE last >= from
    BY <1>1, <1>2, <2>2
  <2> QED BY <2>1, <2>2
<1>5. ASSUME from <= to
      PROVE  e \in Within(campaign, from, to) <=> start <= to /\ last >= from
  BY <1>1, <1>2 DEF Within
<1>6. ASSUME from <= to
      PROVE  (\E m \in Minutes(e) : m \in from..to) <=> start <= to /\ last >= from
  <2>1. ASSUME start <= to, last >= from PROVE \E m \in Minutes(e) : m \in from..to
    <3>1. CASE start >= from
      <4>1. start \in Minutes(e) /\ start \in from..to
        BY <1>1, <1>2, <2>1, <3>1
      <4> QED BY <4>1
    <3>2. CASE start < from
      <4>1. from \in Minutes(e) /\ from \in from..to
        BY <1>1, <1>2, <1>6, <2>1, <3>2
      <4> QED BY <4>1
    <3> QED BY <1>1, <3>1, <3>2
  <2>2. ASSUME NEW m \in Minutes(e), m \in from..to PROVE start <= to /\ last >= from
    BY <1>1, <1>2, <2>2
  <2> QED BY <2>1, <2>2
<1>7. ASSUME from <= to, end >= start
      PROVE  e \in OfPeriod(campaign, from, to) <=> start <= to /\ last >= from
  BY <1>1, <1>7 DEF OfPeriod
<1> QED BY <1>3, <1>4, <1>5, <1>6, <1>7

\* An agenda shows exactly what takes place in its period, in every state.
THEOREM AgendaIsTrueHolds == Spec => []AgendaIsTrue
<1>1. IInv /\ [Next]_vars => IInv'
  BY StepsKeepIt
<1>2. IInv => AgendaIsTrue
  BY SelectionsAreTrue DEF IInv
<1> QED BY StartsRight, <1>1, <1>2, PTL DEF Spec

----------------------------------------------------------------------------
(* The pages of the agenda.                                                 *)

\* There are finitely many events: each was made by a step.
Finitely == IsFiniteSet(DOMAIN events)

LEMMA EventsStayFinite ==
  ASSUME IInv, Finitely, [Next]_vars
  PROVE  Finitely'
<1>1. ASSUME NEW e, DOMAIN events' = DOMAIN events \cup {e}
      PROVE  Finitely'
  BY <1>1, FS_AddElement DEF Finitely
<1>2. ASSUME DOMAIN events' = DOMAIN events
      PROVE  Finitely'
  BY <1>2 DEF Finitely
<1>3. CASE \E e \in Events, campaign \in Campaigns, times \in NewTimes :
             Create(e, campaign, times[1], times[2])
  BY <1>1, <1>3 DEF Create
<1>4. CASE \E s \in Sessions : SetStatus(s) \/ Refused(s)
  BY <1>2, <1>4 DEF SetStatus, Refused
<1>5. CASE \E s \in Sessions, e \in Events, status \in Final, campaign \in Campaigns :
             Ask(s, e, status, campaign)
  BY <1>2, <1>5 DEF Ask
<1>6. ASSUME NEW e, NEW event, Edit(e, event)
      PROVE  Finitely'
  BY <1>2, <1>6 DEF Edit
<1>7. CASE UNCHANGED vars
  BY <1>2, <1>7 DEF vars
<1> QED
  BY <1>3, <1>4, <1>5, <1>6, <1>7 DEF Next, Reschedule, Restate, Mark, Move

\* In a finite set with a strict total order, the number of smaller elements
\* numbers the elements from zero on, without gaps.
LEMMA PlacesAreNumbers ==
  ASSUME NEW S, IsFiniteSet(S), NEW before \in SUBSET (S \X S),
         \A x \in S : <<x, x>> \notin before,
         \A x, y, z \in S : <<x, y>> \in before /\ <<y, z>> \in before => <<x, z>> \in before,
         \A x, y \in S : x # y => <<x, y>> \in before \/ <<y, x>> \in before,
         NEW place, place = [x \in S |-> Cardinality({y \in S : <<y, x>> \in before})]
  PROVE  /\ Cardinality(S) \in Nat
         /\ place \in Bijection(S, 0..(Cardinality(S) - 1))
         /\ \A x, y \in S : <<x, y>> \in before => place[x] < place[y]
<1> DEFINE Below(x) == {y \in S : <<y, x>> \in before}
           n == Cardinality(S)
<1>1. n \in Nat
  BY FS_CardinalityType
<1>2. ASSUME NEW x \in S
      PROVE  IsFiniteSet(Below(x)) /\ Cardinality(Below(x)) \in 0..(n - 1)
  <2>1. Below(x) \in SUBSET S /\ x \notin Below(x)
    OBVIOUS
  <2>2. IsFiniteSet(Below(x)) /\ Cardinality(Below(x)) <= n
        /\ (n = Cardinality(Below(x)) => S = Below(x))
    BY <2>1, FS_Subset
  <2>3. Cardinality(Below(x)) \in Nat /\ Cardinality(Below(x)) # n
    BY <2>1, <2>2, FS_CardinalityType
  <2> QED BY <1>1, <2>2, <2>3
<1>3. ASSUME NEW x \in S, NEW y \in S, <<x, y>> \in before
      PROVE  Cardinality(Below(x)) < Cardinality(Below(y))
  <2>1. Below(x) \in SUBSET Below(y) /\ x \in Below(y) /\ x \notin Below(x)
    BY <1>3
  <2>2. Cardinality(Below(x)) <= Cardinality(Below(y))
        /\ (Cardinality(Below(y)) = Cardinality(Below(x)) => Below(y) = Below(x))
    BY <1>2, <2>1, FS_Subset
  <2>3. Cardinality(Below(x)) # Cardinality(Below(y))
    BY <2>1, <2>2
  <2> HIDE DEF Below, n
  <2>4. Cardinality(Below(x)) \in Nat /\ Cardinality(Below(y)) \in Nat
    BY <1>1, <1>2
  <2> QED BY <2>2, <2>3, <2>4
<1>4. \A x \in S : place[x] = Cardinality(Below(x))
  OBVIOUS
<1>5. \A x, y \in S : <<x, y>> \in before => place[x] < place[y]
  BY <1>3, <1>4
<1>6. place \in [S -> 0..(n - 1)]
  BY <1>2, <1>4
<1>7. \A x, y \in S : place[x] = place[y] => x = y
  <2> SUFFICES ASSUME NEW x \in S, NEW y \in S, place[x] = place[y], x # y PROVE FALSE
    OBVIOUS
  <2>1. place[x] < place[y] \/ place[y] < place[x]
    BY <1>5
  <2>2. place[x] \in Int /\ place[y] \in Int
    BY <1>6
  <2> QED BY <2>1, <2>2
<1>8. place \in Injection(S, 0..(n - 1))
  BY <1>6, <1>7 DEF Injection, IsInjective
<1>9. IsFiniteSet(0..(n - 1)) /\ Cardinality(0..(n - 1)) = n
  <2>1. 0 \in Int /\ n - 1 \in Int
    BY <1>1
  <2>2. IsFiniteSet(0..(n - 1))
        /\ Cardinality(0..(n - 1)) = IF 0 > n - 1 THEN 0 ELSE (n - 1) - 0 + 1
    BY <2>1, FS_Interval
  <2> QED BY <1>1, <2>2
<1>10. place \in Surjection(S, 0..(n - 1))
  BY <1>8, <1>9, FS_Injection
<1> QED BY <1>1, <1>5, <1>8, <1>10 DEF Bijection

\* The first elements of a numbering without gaps are as many as their limit says,
\* or all there are.
LEMMA FirstPlaces ==
  ASSUME NEW S, NEW n \in Nat, NEW numbers, numbers = 0..(n - 1),
         NEW place \in Bijection(S, numbers), NEW limit \in Nat,
         NEW first \in SUBSET S, \A x \in S : x \in first <=> place[x] < limit
  PROVE  /\ (\E x \in S : place[x] = limit) <=> \E x \in S : x \notin first
         /\ (\E x \in S : place[x] = limit) => Cardinality(first) = limit
<1>1. /\ \A x \in S : place[x] \in 0..(n - 1)
      /\ \A x, y \in S : place[x] = place[y] => x = y
      /\ \A i \in 0..(n - 1) : \E x \in S : place[x] = i
  BY DEF Bijection, Injection, IsInjective, Surjection
<1>2. (\E x \in S : place[x] = limit) <=> \E x \in S : x \notin first
  <2>1. ASSUME NEW x \in S, x \notin first PROVE \E y \in S : place[y] = limit
    <3>1. place[x] \in 0..(n - 1) /\ ~(place[x] < limit)
      BY <1>1, <2>1
    <3>2. limit \in 0..(n - 1)
      BY <3>1
    <3> QED BY <1>1, <3>2
  <2>2. ASSUME NEW x \in S, place[x] = limit PROVE x \notin first
    BY <2>2
  <2> QED BY <2>1, <2>2
<1>3. ASSUME NEW x \in S, place[x] = limit
      PROVE  Cardinality(first) = limit
  <2>1. limit \in 0..(n - 1)
    BY <1>1, <1>3
  <2> DEFINE part == [y \in first |-> place[y]]
  <2>2. part \in [first -> 0..(limit - 1)]
    BY <1>1, <2>1
  <2>3. \A y, z \in first : part[y] = part[z] => y = z
    BY <1>1
  <2>4. \A i \in 0..(limit - 1) : \E y \in first : part[y] = i
    BY <1>1, <2>1
  <2> HIDE DEF part
  <2>5. part \in Injection(first, 0..(limit - 1)) /\ part \in Surjection(first, 0..(limit - 1))
    BY <2>2, <2>3, <2>4 DEF Injection, IsInjective, Surjection
  <2>6. IsFiniteSet(0..(limit - 1)) /\ Cardinality(0..(limit - 1)) = limit
    <3>1. 0 \in Int /\ limit - 1 \in Int
      OBVIOUS
    <3>2. IsFiniteSet(0..(limit - 1))
          /\ Cardinality(0..(limit - 1)) = IF 0 > limit - 1 THEN 0 ELSE (limit - 1) - 0 + 1
      BY <3>1, FS_Interval
    <3> QED BY <3>2
  <2> QED BY <2>5, <2>6, FS_Injection
<1> QED BY <1>2, <1>3

\* The order of the agenda: group, start, end, reference.
LEMMA EarlierIsLexicographic ==
  ASSUME NEW k \in Nat \X Nat \X Nat \X Nat, NEW o \in Nat \X Nat \X Nat \X Nat
  PROVE  Earlier(k, o) <=>
           \/ k[1] < o[1]
           \/ k[1] = o[1] /\ k[2] < o[2]
           \/ k[1] = o[1] /\ k[2] = o[2] /\ k[3] < o[3]
           \/ k[1] = o[1] /\ k[2] = o[2] /\ k[3] = o[3] /\ k[4] < o[4]
<1>1. DOMAIN k = {1, 2, 3, 4}
  OBVIOUS
<1>2. 1..(1 - 1) = {} /\ 1..(2 - 1) = {1} /\ 1..(3 - 1) = {1, 2} /\ 1..(4 - 1) = {1, 2, 3}
  OBVIOUS
<1> QED BY <1>1, <1>2 DEF Earlier

LEMMA PagesOfAnyLimit ==
  ASSUME TypeOK, Finitely, NEW campaign \in Campaigns, NEW from \in Times,
         NEW to \in Times \cup {None}, NEW limit \in Nat
  PROVE  PageIsWhole(campaign, from, to, limit)
<1> DEFINE selected == Selected(campaign, from, to)
           Group(e) == IF to = None /\ GoingOn(e, from) THEN 1 ELSE 2
           Key(e) == SortKey(e, from, to)
           before == {pair \in selected \X selected : Earlier(Key(pair[1]), Key(pair[2]))}
           place == [e \in selected |-> Cardinality({f \in selected : <<f, e>> \in before})]
           page == Agenda(campaign, from, to, limit)
<1>1. selected \in SUBSET (DOMAIN events)
  BY DEF Selected, Onwards, Within, Listed
<1>2. ASSUME NEW e \in selected
      PROVE  /\ Group(e) \in Nat /\ events[e].start \in Nat /\ events[e].end \in Nat /\ e \in Nat
             /\ Key(e) = <<Group(e), events[e].start, events[e].end, e>>
  <2>1. events[e] \in Event /\ e \in Events
    BY <1>1 DEF TypeOK
  <2> QED BY <2>1, BoundsAssumption DEF Event, SortKey
<1>3. ASSUME NEW e \in selected, NEW f \in selected
      PROVE  <<e, f>> \in before <=>
               \/ Group(e) < Group(f)
               \/ Group(e) = Group(f) /\ events[e].start < events[f].start
               \/ /\ Group(e) = Group(f) /\ events[e].start = events[f].start
                  /\ events[e].end < events[f].end
               \/ /\ Group(e) = Group(f) /\ events[e].start = events[f].start
                  /\ events[e].end = events[f].end /\ e < f
  <2>1. <<e, f>> \in before <=> Earlier(Key(e), Key(f))
    OBVIOUS
  <2> HIDE DEF Group, Key, before
  <2>2. /\ Key(e) \in Nat \X Nat \X Nat \X Nat
        /\ Key(e)[1] = Group(e) /\ Key(e)[2] = events[e].start
        /\ Key(e)[3] = events[e].end /\ Key(e)[4] = e
    BY <1>2
  <2>3. /\ Key(f) \in Nat \X Nat \X Nat \X Nat
        /\ Key(f)[1] = Group(f) /\ Key(f)[2] = events[f].start
        /\ Key(f)[3] = events[f].end /\ Key(f)[4] = f
    BY <1>2
  <2> QED BY <2>1, <2>2, <2>3, EarlierIsLexicographic
<1>4. before \in SUBSET (selected \X selected)
  OBVIOUS
<1>5. IsFiniteSet(selected)
  BY <1>1, FS_Subset DEF Finitely
<1> HIDE DEF Group, before, selected
<1>6. \A x \in selected : <<x, x>> \notin before
  BY <1>2, <1>3
<1>7. \A x, y, z \in selected :
        <<x, y>> \in before /\ <<y, z>> \in before => <<x, z>> \in before
  BY <1>2, <1>3
<1>8. \A x, y \in selected : x # y => <<x, y>> \in before \/ <<y, x>> \in before
  BY <1>2, <1>3
<1>9. /\ Cardinality(selected) \in Nat
      /\ place \in Bijection(selected, 0..(Cardinality(selected) - 1))
      /\ \A x, y \in selected : <<x, y>> \in before => place[x] < place[y]
  BY <1>4, <1>5, <1>6, <1>7, <1>8, PlacesAreNumbers
<1>10. ASSUME NEW e \in selected
       PROVE  Cardinality({f \in selected : Earlier(SortKey(f, from, to), SortKey(e, from, to))})
                = place[e]
  <2>1. {f \in selected : Earlier(SortKey(f, from, to), SortKey(e, from, to))}
          = {f \in selected : <<f, e>> \in before}
    BY DEF before
  <2> QED BY <2>1
<1>11. /\ page.items = {e \in selected : place[e] < limit}
       /\ page.more <=> \E e \in selected : place[e] = limit
  <2>1. page = [items |-> {e \in selected :
                  Cardinality({f \in selected :
                                 Earlier(SortKey(f, from, to), SortKey(e, from, to))}) < limit},
                more |-> \E e \in selected :
                  Cardinality({f \in selected :
                                 Earlier(SortKey(f, from, to), SortKey(e, from, to))}) = limit]
    BY DEF Agenda, selected
  <2> HIDE DEF page, place
  <2> QED BY <1>10, <2>1
<1> HIDE DEF place, page
<1>12. /\ page.more <=> page.items # selected
       /\ page.more => Cardinality(page.items) = limit
  <2>1. PICK n, numbers :
          n \in Nat /\ numbers = 0..(n - 1) /\ place \in Bijection(selected, numbers)
    BY <1>9
  <2>2. PICK first : first = page.items
    OBVIOUS
  <2>3. first \in SUBSET selected /\ \A x \in selected : x \in first <=> place[x] < limit
    BY <1>11, <2>2
  <2>4. /\ (\E x \in selected : place[x] = limit) <=> \E x \in selected : x \notin first
        /\ (\E x \in selected : place[x] = limit) => Cardinality(first) = limit
    BY <2>1, <2>3, FirstPlaces
  <2>5. first # selected <=> \E x \in selected : x \notin first
    BY <2>3
  <2> QED BY <1>11, <2>2, <2>4, <2>5
<1>13. ASSUME NEW e \in page.items, NEW f \in selected \ page.items
       PROVE  IF to = None /\ GoingOn(e, from) # GoingOn(f, from) THEN GoingOn(e, from)
              ELSE events[e].start <= events[f].start
  <2>1. e \in selected /\ f \in selected /\ e # f /\ place[e] < limit /\ ~(place[f] < limit)
    BY <1>11, <1>13
  <2>2. place[e] \in Nat /\ place[f] \in Nat
    BY <1>9, <2>1 DEF Bijection, Injection
  <2>3. ~(place[f] < place[e])
    BY <2>1, <2>2
  <2>4. <<f, e>> \notin before
    BY <1>9, <2>1, <2>3
  <2>5. <<e, f>> \in before
    BY <1>8, <2>1, <2>4
  <2>6. Group(e) < Group(f) \/ (Group(e) = Group(f) /\ events[e].start <= events[f].start)
    BY <1>2, <1>3, <2>1, <2>5
  <2>7. GoingOn(e, from) \in BOOLEAN /\ GoingOn(f, from) \in BOOLEAN
    BY DEF GoingOn
  <2>8. CASE to = None /\ GoingOn(e, from) # GoingOn(f, from)
    BY <2>6, <2>7, <2>8 DEF Group
  <2>9. CASE ~(to = None /\ GoingOn(e, from) # GoingOn(f, from))
    <3>1. Group(e) = Group(f)
      BY <2>7, <2>9 DEF Group
    <3>2. ~(Group(e) < Group(f))
      BY <1>2, <2>1, <3>1
    <3> QED BY <2>6, <2>9, <3>2
  <2> QED BY <2>8, <2>9
<1> QED BY <1>12, <1>13 DEF PageIsWhole, selected, page

\* A page of the agenda is full or holds everything, says which, and leaves out only
\* what comes later, whatever the limit and however many events there are.
THEOREM PagesAreWholeHolds ==
  Spec => [](/\ PagesAreWhole
             /\ \A campaign \in Campaigns, from \in Times, to \in Times \cup {None}, limit \in Nat :
                  PageIsWhole(campaign, from, to, limit))
<1>1. Init => Finitely
  BY FS_EmptySet DEF Init, Finitely
<1>2. IInv /\ Finitely /\ [Next]_vars => IInv' /\ Finitely'
  BY StepsKeepIt, EventsStayFinite
<1>3. IInv /\ Finitely =>
        /\ PagesAreWhole
        /\ \A campaign \in Campaigns, from \in Times, to \in Times \cup {None}, limit \in Nat :
             PageIsWhole(campaign, from, to, limit)
  <2>1. 1..2 \subseteq Nat
    OBVIOUS
  <2> QED BY <2>1, PagesOfAnyLimit DEF PagesAreWhole, IInv
<1> QED BY StartsRight, <1>1, <1>2, <1>3, PTL DEF Spec
=============================================================================
