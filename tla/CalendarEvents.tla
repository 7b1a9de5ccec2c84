---------------------------- MODULE CalendarEvents ----------------------------
(***************************************************************************)
(* The events of campaigns: СобытияКалендаря makes them and ends them, the *)
(* standard form changes anything about them, and get_calendar_agenda      *)
(* selects what takes place in a period or from a minute on.               *)
(***************************************************************************)
EXTENDS Integers, FiniteSets

CONSTANTS
  Sessions,     \* sessions that call the module
  Campaigns,    \* the campaigns
  Events,       \* the events there can be: numbers, in the order of references
  Times,        \* bound: the game minutes that occur
  NewTimes,     \* bound: the starts and ends СоздатьСобытие is called with
  FormTimes,    \* bound: the starts and ends entered in the form
  Editable,     \* bound: the events that are changed in the form
  None          \* Неопределено

ASSUME BoundsAssumption ==
  /\ Events \subseteq Nat /\ Times \subseteq Nat /\ Editable \subseteq Events
  /\ NewTimes \subseteq Times \X (Times \cup {None}) /\ None \notin Times
  /\ FormTimes \subseteq Times \X Times

VARIABLES
  events,   \* the items of the catalog there are
  call      \* what each session is doing

vars == <<events, call>>

\* Завершено and Отменено; Запланировано is the third.
Final == {"completed", "cancelled"}

Idle == [pc |-> "idle"]

Init == events = <<>> /\ call = [s \in Sessions |-> Idle]

\* Whoever has read the status and the owner of an event has read old values once
\* it is written by someone else; the history is kept with the call.
Overtaken(e) ==
  [t \in Sessions |-> IF call[t].pc = "write" /\ call[t].event = e
                      THEN [call[t] EXCEPT !.stale = TRUE] ELSE call[t]]

----------------------------------------------------------------------------
(* СобытияКалендаря.                                                        *)

New(campaign, start, end) ==
  [owner |-> campaign, start |-> start, end |-> end, status |-> "planned", marked |-> FALSE]

\* СоздатьСобытие: an event without an end ends when it starts.
Create(e, campaign, start, end) ==
  /\ e \notin DOMAIN events
  /\ end # None => end >= start
  /\ events' = [x \in DOMAIN events \cup {e} |->
                  IF x = e THEN New(campaign, start, IF end = None THEN start ELSE end)
                  ELSE events[x]]
  /\ UNCHANGED call

\* Mutant: only the status asked for is compared.
MayChangeTwice(e, status, campaign) ==
  events[e].status # status /\ events[e].owner = campaign

\* The checks of ИзменитьСтатусСобытия: nothing is left to do, the status is
\* final, or the event is of another campaign than the session's.
MayChange(e, status, campaign) ==
  /\ events[e].status # status
  /\ events[e].status \notin Final
  /\ events[e].owner = campaign

\* ЗавершитьСобытие and ОтменитьСобытие read status and owner, and go on ...
Ask(s, e, status, campaign) ==
  /\ call[s].pc = "idle" /\ e \in DOMAIN events
  /\ MayChange(e, status, campaign)
  /\ call' = [call EXCEPT ![s] = [pc |-> "write", event |-> e, status |-> status,
                                  campaign |-> campaign, stale |-> FALSE]]
  /\ UNCHANGED events

\* ... to get the object and write it with the new status ...
SetStatus(s) ==
  /\ call[s].pc = "write"
  /\ LET e == call[s].event
     IN  /\ events' = [events EXCEPT ![e].status = call[s].status]
         /\ call' = [Overtaken(e) EXCEPT ![s] = Idle]

\* ... or the platform refuses to write an object that is open in a form.
Refused(s) ==
  /\ call[s].pc = "write"
  /\ call' = [call EXCEPT ![s] = Idle]
  /\ UNCHANGED events

----------------------------------------------------------------------------
(* The standard form, which checks nothing.                                 *)

Edit(e, event) ==
  /\ e \in DOMAIN events
  /\ events' = [events EXCEPT ![e] = event]
  /\ call' = Overtaken(e)

Reschedule(e, times) == Edit(e, [events[e] EXCEPT !.start = times[1], !.end = times[2]])
Restate(e, status) == Edit(e, [events[e] EXCEPT !.status = status])
Mark(e) == Edit(e, [events[e] EXCEPT !.marked = ~@])
Move(e, campaign) == Edit(e, [events[e] EXCEPT !.owner = campaign])

Next ==
  \/ \E e \in Events, campaign \in Campaigns, times \in NewTimes :
       Create(e, campaign, times[1], times[2])
  \/ \E s \in Sessions, e \in Events, status \in Final, campaign \in Campaigns :
       Ask(s, e, status, campaign)
  \/ \E s \in Sessions : SetStatus(s) \/ Refused(s)
  \/ \E e \in Editable, times \in FormTimes : Reschedule(e, times)
  \/ \E e \in Editable, status \in Final \cup {"planned"} : Restate(e, status)
  \/ \E e \in Editable : Mark(e)
  \/ \E e \in Editable, campaign \in Campaigns : Move(e, campaign)

Spec == Init /\ [][Next]_vars

----------------------------------------------------------------------------
(* The lists.                                                               *)

Listed(campaign) ==
  {e \in DOMAIN events : events[e].owner = campaign /\ ~events[e].marked}

\* ПолучитьСобытияПериода.
OfPeriod(campaign, from, to) ==
  {e \in Listed(campaign) : events[e].start <= to /\ events[e].end >= from}

\* Mutant: point events are not told from the others.
WithinOneRule(campaign, from, to) == OfPeriod(campaign, from, to)

\* ТекстЗапросаАгендыОграниченный: an event without an end takes place at once.
Within(campaign, from, to) ==
  {e \in Listed(campaign) :
     IF events[e].end = 0 THEN events[e].start \in from..to
     ELSE events[e].start <= to /\ events[e].end >= from}

\* ТекстЗапросаАгендыОткрытой: what goes on already, and what begins later.
GoingOn(e, from) == events[e].end # 0 /\ events[e].start < from /\ events[e].end >= from
Onwards(campaign, from) ==
  {e \in Listed(campaign) : GoingOn(e, from) \/ events[e].start >= from}

Selected(campaign, from, to) ==
  IF to = None THEN Onwards(campaign, from) ELSE Within(campaign, from, to)

\* Mutant: the reference does not decide between equal events.
SortKeyWithoutReference(e, from, to) ==
  <<IF to = None /\ GoingOn(e, from) THEN 1 ELSE 2, events[e].start, events[e].end>>

\* УПОРЯДОЧИТЬ ПО: the group in an open agenda, start, end, reference.
SortKey(e, from, to) ==
  <<IF to = None /\ GoingOn(e, from) THEN 1 ELSE 2, events[e].start, events[e].end, e>>

Earlier(key, other) ==
  \E i \in DOMAIN key : key[i] < other[i] /\ \A j \in 1..(i - 1) : key[j] = other[j]

\* ПолучитьАгенду: the first events of the selection, up to the limit, and
\* whether one more was found.
Agenda(campaign, from, to, limit) ==
  LET selected == Selected(campaign, from, to)
      Place(e) == Cardinality({f \in selected :
                                 Earlier(SortKey(f, from, to), SortKey(e, from, to))})
  IN  [items |-> {e \in selected : Place(e) < limit},
       more |-> \E e \in selected : Place(e) = limit]

----------------------------------------------------------------------------
Event ==
  [owner : Campaigns, start : Times, end : Times,
   status : Final \cup {"planned"}, marked : BOOLEAN]
Call ==
  [pc : {"write"}, event : Events, status : Final, campaign : Campaigns, stale : BOOLEAN]

TypeOK ==
  /\ DOMAIN events \subseteq Events /\ events \in [DOMAIN events -> Event]
  /\ call \in [Sessions -> {Idle} \cup Call]

\* However the calls of several sessions interleave, the module ends an event only
\* if it is not over and belongs to the campaign of the caller - unless the event
\* was written by someone else between the check and the write.  What is completed
\* is not cancelled afterwards.
StatusChangesAreDue ==
  [][\A e \in DOMAIN events :
       events'[e].status # events[e].status =>
         \/ \A s \in Sessions : call'[s].pc = call[s].pc
         \/ \E s \in Sessions :
              /\ call[s].pc = "write" /\ call[s].event = e
              /\ \/ call[s].stale
                 \/ events[e].status \notin Final /\ events[e].owner = call[s].campaign]_vars

\* The minutes at which an event takes place, and the events that have some: the
\* form lets an event end before it starts.
Minutes(e) == events[e].start..(IF events[e].end = 0 THEN events[e].start ELSE events[e].end)
Takes(e) == events[e].end = 0 \/ events[e].end >= events[e].start

\* An agenda shows the events that take place in its period, an open one those that
\* are not over at its minute, and the list of the module agrees with them on every
\* event that was made by the module.
AgendaIsTrue ==
  \A campaign \in Campaigns, from \in Times, to \in Times :
    \A e \in {e \in Listed(campaign) : Takes(e)} :
      /\ e \in Onwards(campaign, from) <=> \E m \in Minutes(e) : m >= from
      /\ from <= to =>
           /\ e \in Within(campaign, from, to) <=> \E m \in Minutes(e) : m \in from..to
           /\ events[e].end >= events[e].start =>
                (e \in OfPeriod(campaign, from, to) <=> e \in Within(campaign, from, to))

\* A limited agenda is full or holds everything, says which of the two, and leaves
\* out only what comes later: in an open one nothing that goes on already before
\* what only begins.
PageIsWhole(campaign, from, to, limit) ==
  LET selected == Selected(campaign, from, to)
      page == Agenda(campaign, from, to, limit)
  IN  /\ page.more <=> page.items # selected
      /\ page.more => Cardinality(page.items) = limit
      /\ \A e \in page.items, f \in selected \ page.items :
           IF to = None /\ GoingOn(e, from) # GoingOn(f, from) THEN GoingOn(e, from)
           ELSE events[e].start <= events[f].start
PagesAreWhole ==
  \A campaign \in Campaigns, from \in Times, to \in Times \cup {None}, limit \in 1..2 :
    PageIsWhole(campaign, from, to, limit)
=============================================================================
