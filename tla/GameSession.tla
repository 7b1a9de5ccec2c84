---------------------------- MODULE GameSession ----------------------------
(***************************************************************************)
(* The sessions of one user in the 1C base: which campaign and which       *)
(* character a session works with (УправлениеКампаниями,                   *)
(* УправлениеПерсонажем), the clock and the current location of a campaign *)
(* (ИгровоеВремя, ТекущаяЛокация), and the context that is put together    *)
(* from them for the assistant (КонтекстАссистента).                       *)
(*                                                                         *)
(* A session carries out one call at a time.  Every access to the base is  *)
(* a step: between two of them other sessions call, catalog items are      *)
(* edited, and a session may end and start anew with empty parameters.     *)
(* An access may raise: a setting that cannot be saved for want of the     *)
(* right, a lock, a lost connection.  The call ends there, and session     *)
(* parameters set before it stay as they are.  A call that raises in its   *)
(* first access has no action.                                             *)
(***************************************************************************)
EXTENDS Integers, FiniteSets

CONSTANTS Sessions, Campaigns, Characters, Locations,
          None,                  \* the empty reference, and Неопределено
          Minutes,               \* the minutes the clocks are kept within
          Shifts,                \* by how many minutes a clock is moved
          MaxCalls, MaxEdits     \* bounds on the calls and edits of a run

ASSUME NoneIsNothing == None \notin Campaigns \cup Characters \cup Locations
ASSUME MinutesAreNumbers == Minutes \subseteq Nat /\ Shifts \subseteq Int

VARIABLES
  open,            \* the campaigns that are active and not marked for deletion
  home,            \* the campaign of a character; None: marked, or a group
  place,           \* the campaign of a location; None: marked for deletion
  clock, current,  \* the minute and the current location of each campaign
  savedCampaign, savedCharacter,    \* the settings of the user
  campaign, character,              \* the parameters of each session
  step, then, arg,                  \* where a session is in its call, where a
                                    \* call within it returns to, and its local
  context,                          \* the last context of a session
  calls, edits,                     \* counted for the bounds
  edited, chosen,                   \* history: items edited, items picked by
                                    \* the user
  by, amount, overlapped,           \* history: the shift under way, what the
                                    \* changes of a clock come to, and the
                                    \* clocks two changes overlapped on
  strayed,                          \* history: sessions whose change of the
                                    \* campaign raised before the character
                                    \* of the former one was put away
  disturbed                         \* history: all sessions but those with a
                                    \* context no write came after

catalogs  == <<open, home, place>>
registers == <<clock, current>>
settings  == <<savedCampaign, savedCharacter>>
played    == <<character, strayed>>
params    == <<campaign, played>>
control   == <<step, then, arg>>
clockLog  == <<by, amount, overlapped>>
vars == <<catalogs, registers, settings, params, control, context,
          calls, edits, edited, chosen, clockLog, disturbed>>

NoContext == [campaign |-> None, character |-> None,
              minute |-> None, location |-> None]

Steps == {"idle", "checkSaved", "onlyCampaign", "saveCampaign",
          "loadCharacter", "checkCharacter", "onlyCharacter",
          "saveCharacter", "getCharacter", "readClock", "readLocation",
          "writeClock", "writeLocation"}

Init ==
  /\ open \in SUBSET Campaigns
  /\ home \in [Characters -> Campaigns \cup {None}]
  /\ place \in [Locations -> Campaigns \cup {None}]
  /\ clock \in [Campaigns -> Minutes \cup {None}]
  /\ current = [c \in Campaigns |-> None]
  /\ savedCampaign \in Campaigns \cup {None}
  /\ savedCharacter \in [Campaigns -> Characters \cup {None}]
  /\ campaign = [s \in Sessions |-> None]
  /\ character = [s \in Sessions |-> None]
  /\ step = [s \in Sessions |-> "idle"]
  /\ then = [s \in Sessions |-> "idle"]
  /\ arg = [s \in Sessions |-> None]
  /\ context = [s \in Sessions |-> NoContext]
  /\ calls = 0 /\ edits = 0
  /\ edited = {}
  /\ chosen = {savedCampaign} \cup {savedCharacter[c] : c \in Campaigns}
  /\ by = [s \in Sessions |-> 0]
  /\ amount = clock
  /\ overlapped = {}
  /\ strayed = {}
  /\ disturbed = Sessions

-----------------------------------------------------------------------------
(* Control of a call.                                                      *)

Goto(s, where, what) ==
  /\ step' = [step EXCEPT ![s] = where]
  /\ arg' = [arg EXCEPT ![s] = what]

\* A session begins a call; what it knew of the context is outdated.
Begin(s, where, back, what) ==
  /\ step[s] = "idle"
  /\ calls < MaxCalls
  /\ calls' = calls + 1
  /\ Goto(s, where, what)
  /\ then' = [then EXCEPT ![s] = back]
  /\ context' = [context EXCEPT ![s] = NoContext]

\* The call that was made within another one is over.
Return(s) ==
  /\ Goto(s, then[s], None)
  /\ then' = [then EXCEPT ![s] = "idle"]
  /\ UNCHANGED <<context, calls>>

Continue(s, where, what) ==
  Goto(s, where, what) /\ UNCHANGED <<then, context, calls>>

\* Steps that read; the first of a call ends the watch over the last context.
KeepsBase == UNCHANGED <<catalogs, registers, settings, edits, edited, chosen>>
Reads == KeepsBase /\ UNCHANGED <<clockLog, disturbed>>
FirstReads(s) ==
  KeepsBase /\ UNCHANGED clockLog /\ disturbed' = disturbed \cup {s}

\* An access raises: nothing is written and the call is over, with the one it
\* was made within; it comes to no context to watch over.
Raised(s) ==
  /\ Goto(s, "idle", None)
  /\ then' = [then EXCEPT ![s] = "idle"]
  /\ disturbed' = disturbed \cup {s}
  /\ UNCHANGED <<catalogs, settings, context, calls, edits, edited>>

\* A write to the base, seen by whoever is collecting a context.
Writes == disturbed' = Sessions /\ UNCHANGED <<catalogs, edits, edited>>

-----------------------------------------------------------------------------
(* УправлениеКампаниями and УправлениеПерсонажем.                          *)

Members(c) == {p \in Characters : home[p] = c}

\* The parameter АктивныйПерсонаж is set.
Plays(s, p) ==
  /\ character' = [character EXCEPT ![s] = p]
  /\ strayed' = strayed \ {s}

\* Mutant: the first of several is taken.
FirstOf(S) == IF S = {} THEN None ELSE CHOOSE x \in S : TRUE

\* ЕдинственнаяАктивнаяКампания, ЕдинственныйПерсонажКампании.
TheOnly(S) == IF \E x \in S : S = {x} THEN CHOOSE x \in S : TRUE ELSE None

\* ПолучитьАктивнуюКампанию in a session that has none.
GetCampaign(s) ==
  /\ campaign[s] = None
  /\ Begin(s, "checkSaved", "idle", savedCampaign)
  /\ FirstReads(s) /\ UNCHANGED params

\* The saved campaign is taken when it is still available.
CheckSavedCampaign(s) ==
  /\ step[s] = "checkSaved"
  /\ IF arg[s] \in open
       THEN /\ campaign' = [campaign EXCEPT ![s] = arg[s]]
            /\ Continue(s, "loadCharacter", None)
       ELSE Continue(s, "onlyCampaign", None) /\ UNCHANGED campaign
  /\ Reads /\ UNCHANGED played

PickOnlyCampaign(s) ==
  /\ step[s] = "onlyCampaign"
  /\ campaign' = [campaign EXCEPT ![s] = TheOnly(open)]
  /\ IF TheOnly(open) = None THEN Return(s)
                             ELSE Continue(s, "loadCharacter", None)
  /\ Reads /\ UNCHANGED played

\* УстановитьАктивнуюКампанию: the check, then the choice and what follows.
SetCampaign(s, c) ==
  /\ c \in open
  /\ Begin(s, "saveCampaign", "idle", c)
  /\ FirstReads(s) /\ UNCHANGED params

\* Mutant: the character of the former campaign stays.
CharacterStays(s) ==
  /\ step[s] = "saveCampaign"
  /\ campaign' = [campaign EXCEPT ![s] = arg[s]]
  /\ savedCampaign' = arg[s]
  /\ chosen' = chosen \cup {arg[s]}
  /\ Return(s)
  /\ Writes /\ UNCHANGED <<registers, savedCharacter, clockLog, played>>

\* The parameter is set and the setting saved; only then is the character of the
\* former campaign put away.  When Сохранить raises, it stays.
SaveCampaign(s) ==
  /\ step[s] = "saveCampaign"
  /\ campaign' = [campaign EXCEPT ![s] = arg[s]]
  /\ chosen' = chosen \cup {arg[s]}
  /\ \/ /\ savedCampaign' = arg[s] /\ UNCHANGED savedCharacter /\ Writes
        /\ IF campaign[s] = arg[s]
             THEN Return(s) /\ UNCHANGED played
             ELSE Plays(s, None) /\ Continue(s, "loadCharacter", None)
     \/ /\ Raised(s) /\ UNCHANGED character
        /\ strayed' = strayed \cup (IF campaign[s] # arg[s] /\ character[s] # None
                                    THEN {s} ELSE {})
  /\ UNCHANGED <<registers, clockLog>>

\* ПолучитьАктивногоПерсонажа in a session that has none.
GetCharacter(s) ==
  /\ campaign[s] # None /\ character[s] = None
  /\ Begin(s, "loadCharacter", "idle", None)
  /\ FirstReads(s) /\ UNCHANGED params

\* ИнициализироватьАктивногоПерсонажа in a session whose character has left
\* the campaign; one that still belongs to it is kept.
RecheckCharacter(s) ==
  /\ campaign[s] # None /\ character[s] # None
  /\ home[character[s]] # campaign[s]
  /\ Begin(s, "loadCharacter", "idle", None)
  /\ FirstReads(s) /\ UNCHANGED params

LoadCharacter(s) ==
  /\ step[s] = "loadCharacter"
  /\ Continue(s, "checkCharacter", savedCharacter[campaign[s]])
  /\ Reads /\ UNCHANGED params

CheckSavedCharacter(s) ==
  /\ step[s] = "checkCharacter"
  /\ IF arg[s] \in Members(campaign[s])
       THEN Plays(s, arg[s]) /\ Return(s)
       ELSE Continue(s, "onlyCharacter", None) /\ UNCHANGED played
  /\ Reads /\ UNCHANGED campaign

PickOnlyCharacter(s) ==
  /\ step[s] = "onlyCharacter"
  /\ Plays(s, TheOnly(Members(campaign[s])))
  /\ Return(s)
  /\ Reads /\ UNCHANGED campaign

\* УстановитьАктивногоПерсонажа.
SetCharacter(s, p) ==
  /\ campaign[s] # None
  /\ p \in Members(campaign[s])
  /\ Begin(s, "saveCharacter", "idle", p)
  /\ FirstReads(s) /\ UNCHANGED params

\* Here, too, the parameter is set before the setting is saved.
SaveCharacter(s) ==
  /\ step[s] = "saveCharacter"
  /\ Plays(s, arg[s])
  /\ chosen' = chosen \cup {arg[s]}
  /\ \/ /\ savedCharacter' = [savedCharacter EXCEPT ![campaign[s]] = arg[s]]
        /\ Return(s) /\ Writes /\ UNCHANGED savedCampaign
     \/ Raised(s)
  /\ UNCHANGED <<registers, clockLog, campaign>>

\* СброситьАктивногоПерсонажа clears the parameter, then deletes the setting.
ResetCharacter(s) ==
  /\ Begin(s, "idle", "idle", None)
  /\ Plays(s, None)
  /\ \/ /\ savedCharacter' = [c \in Campaigns |->
                               IF c = campaign[s] THEN None ELSE savedCharacter[c]]
        /\ Writes /\ UNCHANGED <<savedCampaign, chosen>>
     \/ KeepsBase /\ disturbed' = disturbed \cup {s}
  /\ UNCHANGED <<registers, clockLog, campaign>>

-----------------------------------------------------------------------------
(* ИгровоеВремя.  A write replaces the records of the campaign only.       *)

\* Another session is between its reading of this clock and its writing.
InTheMiddle(s) ==
  \E t \in Sessions \ {s} : step[t] = "writeClock" /\ campaign[t] = campaign[s]


\* Mutant: the record set is written without its filter.
WrittenWithoutFilter(s, minute) ==
  [c \in Campaigns |-> IF c = campaign[s] THEN minute ELSE None]

Written(s, minute) == [clock EXCEPT ![campaign[s]] = minute]

WriteMinute(s, minute, total) ==
  /\ clock' = Written(s, minute)
  /\ amount' = [amount EXCEPT ![campaign[s]] = total]
  /\ overlapped' = IF InTheMiddle(s) THEN overlapped \cup {campaign[s]}
                                     ELSE overlapped
  /\ Writes /\ UNCHANGED <<current, settings, chosen, params>>

\* УстановитьТекущееВремя.
SetClock(s, minute) ==
  /\ campaign[s] # None
  /\ Begin(s, "idle", "idle", None)
  /\ WriteMinute(s, minute, minute)
  /\ UNCHANGED by

\* ИзменитьВремя reads the clock, and writes what comes out in another step.
MoveClock(s, shift) ==
  /\ campaign[s] # None
  /\ clock[campaign[s]] # None
  /\ clock[campaign[s]] + shift \in Minutes
  /\ Begin(s, "writeClock", "idle", clock[campaign[s]] + shift)
  /\ by' = [by EXCEPT ![s] = shift]
  /\ disturbed' = disturbed \cup {s}
  /\ KeepsBase /\ UNCHANGED <<params, amount, overlapped>>

WriteClock(s) ==
  /\ step[s] = "writeClock"
  /\ WriteMinute(s, arg[s], amount[campaign[s]] + by[s])
  /\ by' = [by EXCEPT ![s] = 0]
  /\ Return(s)

-----------------------------------------------------------------------------
(* ТекущаяЛокация.                                                         *)

WriteCurrent(s, location) ==
  /\ current' = [current EXCEPT ![campaign[s]] = location]
  /\ Writes /\ UNCHANGED <<clock, settings, chosen, clockLog, params>>

\* Установить: the attributes of the location are read before it is written.
SetLocation(s, l) ==
  /\ campaign[s] # None
  /\ place[l] = campaign[s]
  /\ Begin(s, "writeLocation", "idle", l)
  /\ FirstReads(s) /\ UNCHANGED params

WriteLocation(s) ==
  step[s] = "writeLocation" /\ WriteCurrent(s, arg[s]) /\ Return(s)

\* Очистить.
ClearLocation(s) ==
  /\ campaign[s] # None
  /\ Begin(s, "idle", "idle", None)
  /\ WriteCurrent(s, None)

-----------------------------------------------------------------------------
(* КонтекстАссистента.ПолучитьКонтекст.                                    *)

GetContext(s) ==
  /\ IF campaign[s] = None
       THEN Begin(s, "checkSaved", "getCharacter", savedCampaign)
       ELSE Begin(s, "getCharacter", "idle", None)
  /\ disturbed' = disturbed \ {s}
  /\ KeepsBase /\ UNCHANGED <<params, clockLog>>

\* Mutant: the parameter is read without looking for a character first.
TrustedCharacter(s) ==
  /\ step[s] = "getCharacter"
  /\ Goto(s, IF campaign[s] = None THEN "idle" ELSE "readClock", None)
  /\ UNCHANGED <<then, context, calls, params>> /\ Reads

\* Without a campaign the call raises; without a character one is looked for.
ContextCharacter(s) ==
  /\ step[s] = "getCharacter"
  /\ IF campaign[s] = None
       THEN Goto(s, "idle", None) /\ UNCHANGED then
       ELSE IF character[s] = None
         THEN /\ Goto(s, "loadCharacter", None)
              /\ then' = [then EXCEPT ![s] = "readClock"]
         ELSE Goto(s, "readClock", None) /\ UNCHANGED then
  /\ UNCHANGED <<context, calls, params>> /\ Reads

ContextMinute(s) ==
  /\ step[s] = "readClock"
  /\ Continue(s, "readLocation", clock[campaign[s]])
  /\ Reads /\ UNCHANGED params

ContextLocation(s) ==
  /\ step[s] = "readLocation"
  /\ context' = [context EXCEPT ![s] =
       [campaign |-> campaign[s], character |-> character[s],
        minute |-> arg[s], location |-> current[campaign[s]]]]
  /\ Goto(s, "idle", None)
  /\ UNCHANGED <<then, calls, params>> /\ Reads

-----------------------------------------------------------------------------
(* What happens around the calls.                                          *)

\* Any other access after the first raises: of what the call was to do, nothing
\* follows.
Raises(s) ==
  /\ step[s] \notin {"idle", "saveCampaign", "saveCharacter"}
  /\ Raised(s)
  /\ by' = [by EXCEPT ![s] = 0]
  /\ UNCHANGED <<registers, params, chosen, amount, overlapped>>

\* A session ends, in the middle of a call or between two; the next one
\* starts without parameters.
Restart(s) ==
  /\ calls < MaxCalls
  /\ calls' = calls + 1
  /\ campaign' = [campaign EXCEPT ![s] = None]
  /\ Plays(s, None)
  /\ Goto(s, "idle", None)
  /\ then' = [then EXCEPT ![s] = "idle"]
  /\ context' = [context EXCEPT ![s] = NoContext]
  /\ FirstReads(s)

Edit(item) ==
  /\ edits < MaxEdits
  /\ edits' = edits + 1
  /\ edited' = edited \cup {item}
  /\ disturbed' = Sessions
  /\ UNCHANGED <<registers, settings, params, control, context, calls, chosen,
                 clockLog>>

\* A campaign is closed, marked, reopened; a character or a location is
\* marked, unmarked or given to another campaign.
EditCampaign(c) ==
  /\ open' = IF c \in open THEN open \ {c} ELSE open \cup {c}
  /\ Edit(c) /\ UNCHANGED <<home, place>>

EditCharacter(p, c) ==
  /\ home[p] # c
  /\ home' = [home EXCEPT ![p] = c]
  /\ Edit(p) /\ UNCHANGED <<open, place>>

EditLocation(l, c) ==
  /\ place[l] # c
  /\ place' = [place EXCEPT ![l] = c]
  /\ Edit(l) /\ UNCHANGED <<open, home>>

SessionStep(s) ==
  \/ GetCampaign(s) \/ CheckSavedCampaign(s) \/ PickOnlyCampaign(s)
  \/ (\E c \in Campaigns : SetCampaign(s, c)) \/ SaveCampaign(s)
  \/ GetCharacter(s) \/ RecheckCharacter(s) \/ LoadCharacter(s)
  \/ CheckSavedCharacter(s) \/ PickOnlyCharacter(s)
  \/ (\E p \in Characters : SetCharacter(s, p)) \/ SaveCharacter(s)
  \/ ResetCharacter(s)
  \/ (\E m \in Minutes : SetClock(s, m))
  \/ (\E d \in Shifts : MoveClock(s, d)) \/ WriteClock(s)
  \/ (\E l \in Locations : SetLocation(s, l)) \/ WriteLocation(s)
  \/ ClearLocation(s)
  \/ GetContext(s) \/ ContextCharacter(s) \/ ContextMinute(s)
  \/ ContextLocation(s)
  \/ Raises(s) \/ Restart(s)

CatalogStep ==
  \/ \E c \in Campaigns : EditCampaign(c)
  \/ \E p \in Characters, c \in Campaigns \cup {None} : EditCharacter(p, c)
  \/ \E l \in Locations, c \in Campaigns \cup {None} : EditLocation(l, c)

Next == (\E s \in Sessions : SessionStep(s)) \/ CatalogStep

Spec == Init /\ [][Next]_vars

-----------------------------------------------------------------------------
(* Properties.                                                             *)

TypeOK ==
  /\ open \subseteq Campaigns
  /\ home \in [Characters -> Campaigns \cup {None}]
  /\ place \in [Locations -> Campaigns \cup {None}]
  /\ current \in [Campaigns -> Locations \cup {None}]
  /\ savedCampaign \in Campaigns \cup {None}
  /\ savedCharacter \in [Campaigns -> Characters \cup {None}]
  /\ campaign \in [Sessions -> Campaigns \cup {None}]
  /\ character \in [Sessions -> Characters \cup {None}]
  /\ step \in [Sessions -> Steps]
  /\ then \in [Sessions -> {"idle", "getCharacter", "readClock"}]
  /\ DOMAIN arg = Sessions
  /\ strayed \subseteq Sessions

\* Checked once, trusted as long as the session lasts: the campaign of a
\* session is available, its character belongs to this campaign, and so does
\* the current location of a campaign, unless someone edited the very item.
\* A campaign is changed in several steps, and the character of the former one
\* survives into the new one in one case only: Сохранить raised in between
\* (against the comment at УправлениеКампаниями:49, which has it put away
\* whenever the campaign changes).  From then on it is handed out unchecked
\* until the parameter of the character is set again.
ChoicesWereValid ==
  /\ \A s \in Sessions : campaign[s] # None => campaign[s] \in open \cup edited
  /\ \A s \in Sessions : character[s] # None =>
       /\ campaign[s] # None
       /\ home[character[s]] = campaign[s] \/ character[s] \in edited \/ s \in strayed
  /\ \A c \in Campaigns : current[c] # None =>
       place[current[c]] = c \/ current[c] \in edited

\* A campaign or a character nobody ever picked is used only while it is the
\* only one there is: with a second candidate that was there all the time,
\* the parameter is left empty (ЕдинственнаяАктивнаяКампания,
\* ЕдинственныйПерсонажКампании).  A character that strayed was the only one of
\* its own campaign.
NothingChosenArbitrarily ==
  \A s \in Sessions :
    /\ campaign[s] \notin chosen \cup {None} => open \subseteq edited \cup {campaign[s]}
    /\ character[s] \notin chosen \cup {None} /\ s \notin strayed =>
         Members(campaign[s]) \subseteq edited \cup {character[s]}

\* A session without a character has none saved and none that is the only one.
LooksRight(s) ==
  character[s] = None =>
    /\ savedCharacter[campaign[s]] \notin Members(campaign[s])
    /\ TheOnly(Members(campaign[s])) = None

\* The context is collected in several reads; when nothing was written from
\* its beginning on, it is the state of the campaign in every part, and it
\* lacks a character only if none is saved and none is the only one.
UndisturbedContextIsTrue ==
  \A s \in Sessions \ disturbed : context[s] # NoContext =>
    /\ context[s] = [campaign |-> campaign[s], character |-> character[s],
                     minute |-> clock[campaign[s]], location |-> current[campaign[s]]]
    /\ LooksRight(s)

\* The clock of a campaign shows what its changes amount to, in the order they
\* were made, as long as no two of them overlapped: ИзменитьВремя reads and
\* writes in two steps without a lock, and a change in between is lost.
ClockAddsUp == \A c \in Campaigns \ overlapped : clock[c] = amount[c]
=============================================================================
