--------------------------- MODULE GameSessionProofs ---------------------------
(***************************************************************************)
(* What sessions and registers refer to was valid when it was chosen,      *)
(* clocks lose no change that did not overlap another, and a context       *)
(* nothing was written under is the state of the campaign: for any number  *)
(* of sessions, campaigns, characters and locations, and for any bounds.   *)
(***************************************************************************)
EXTENDS GameSession, TLAPS

\* What a call in progress relies on: what it is about to save passed its
\* check, and the parameters stay as they were when the call began.
StepsFit ==
  \A s \in Sessions :
    /\ step[s] = "saveCampaign" => arg[s] \in Campaigns /\ arg[s] \in open \cup edited
    /\ step[s] = "saveCharacter" =>
         /\ arg[s] \in Characters /\ campaign[s] # None
         /\ home[arg[s]] = campaign[s] \/ arg[s] \in edited
    /\ step[s] = "writeLocation" =>
         /\ arg[s] \in Locations /\ campaign[s] # None
         /\ place[arg[s]] = campaign[s] \/ arg[s] \in edited
    /\ step[s] \in {"checkSaved", "onlyCampaign"} => campaign[s] = None
    /\ step[s] \in {"loadCharacter", "checkCharacter", "onlyCharacter"} => campaign[s] # None

IInv == TypeOK /\ StepsFit /\ ChoicesWereValid

LEMMA TheOnlyIsIn ==
  ASSUME NEW S PROVE TheOnly(S) = None \/ TheOnly(S) \in S
BY DEF TheOnly

LEMMA Initially == Init => IInv
<1> SUFFICES ASSUME Init PROVE IInv
  OBVIOUS
<1>1. TypeOK
  BY DEF Init, TypeOK, Steps
<1>2. StepsFit
  BY DEF Init, StepsFit
<1>3. ChoicesWereValid
  BY DEF Init, ChoicesWereValid
<1> QED BY <1>1, <1>2, <1>3 DEF IInv

LEMMA GetCampaignKeeps ==
  ASSUME IInv, NEW s \in Sessions, GetCampaign(s) PROVE IInv'
<1> USE NoneIsNothing DEF IInv, GetCampaign, Begin, Goto, Return, Continue, Reads, FirstReads, KeepsBase, Writes, catalogs, registers, settings, played, params, Plays, Raised, clockLog
<1>1. TypeOK'
  BY DEF TypeOK, Steps, StepsFit
<1>2. StepsFit'
  BY DEF TypeOK, StepsFit
<1>3. ChoicesWereValid'
  BY DEF TypeOK, StepsFit, ChoicesWereValid
<1> QED BY <1>1, <1>2, <1>3 DEF IInv

LEMMA CheckSavedCampaignKeeps ==
  ASSUME IInv, NEW s \in Sessions, CheckSavedCampaign(s) PROVE IInv'
<1> USE NoneIsNothing DEF IInv, CheckSavedCampaign, Begin, Goto, Return, Continue, Reads, FirstReads, KeepsBase, Writes, catalogs, registers, settings, played, params, Plays, Raised, clockLog
<1>1. TypeOK'
  BY DEF TypeOK, Steps, StepsFit
<1>2. StepsFit'
  BY DEF TypeOK, StepsFit
<1>3. ChoicesWereValid'
  BY DEF TypeOK, StepsFit, ChoicesWereValid
<1> QED BY <1>1, <1>2, <1>3 DEF IInv

LEMMA PickOnlyCampaignKeeps ==
  ASSUME IInv, NEW s \in Sessions, PickOnlyCampaign(s) PROVE IInv'
<1> USE NoneIsNothing DEF IInv, PickOnlyCampaign, Begin, Goto, Return, Continue, Reads, FirstReads, KeepsBase, Writes, catalogs, registers, settings, played, params, Plays, Raised, clockLog
<1>1. TypeOK'
  BY TheOnlyIsIn DEF TypeOK, Steps, StepsFit
<1>2. StepsFit'
  <2>1. CASE TheOnly(open) = None
    BY TheOnlyIsIn, <2>1 DEF TypeOK, StepsFit
  <2>2. CASE ~(TheOnly(open) = None)
    BY TheOnlyIsIn, <2>2 DEF TypeOK, StepsFit
  <2> QED BY <2>1, <2>2
<1>3. ChoicesWereValid'
  BY TheOnlyIsIn DEF TypeOK, StepsFit, ChoicesWereValid
<1> QED BY <1>1, <1>2, <1>3 DEF IInv

LEMMA SetCampaignKeeps ==
  ASSUME IInv, NEW s \in Sessions, NEW c \in Campaigns, SetCampaign(s, c) PROVE IInv'
<1> USE NoneIsNothing DEF IInv, SetCampaign, Begin, Goto, Return, Continue, Reads, FirstReads, KeepsBase, Writes, catalogs, registers, settings, played, params, Plays, Raised, clockLog
<1>1. TypeOK'
  BY DEF TypeOK, Steps, StepsFit
<1>2. StepsFit'
  BY DEF TypeOK, StepsFit
<1>3. ChoicesWereValid'
  BY DEF TypeOK, StepsFit, ChoicesWereValid
<1> QED BY <1>1, <1>2, <1>3 DEF IInv

LEMMA SaveCampaignKeeps ==
  ASSUME IInv, NEW s \in Sessions, SaveCampaign(s) PROVE IInv'
<1> USE NoneIsNothing DEF IInv, SaveCampaign, Begin, Goto, Return, Continue, Reads, FirstReads, KeepsBase, Writes, catalogs, registers, settings, played, params, Plays, Raised, clockLog
<1>1. TypeOK'
  BY DEF TypeOK, Steps, StepsFit
<1>2. StepsFit'
  <2>1. CASE step'[s] = "idle"
    BY <2>1 DEF TypeOK, StepsFit
  <2>2. CASE campaign[s] = arg[s] /\ step'[s] = then[s]
    BY <2>2 DEF TypeOK, StepsFit
  <2>3. CASE step'[s] = "loadCharacter"
    BY <2>3 DEF TypeOK, StepsFit
  <2> QED BY <2>1, <2>2, <2>3 DEF TypeOK
<1>3. ChoicesWereValid'
  BY DEF TypeOK, StepsFit, ChoicesWereValid
<1> QED BY <1>1, <1>2, <1>3 DEF IInv

LEMMA GetCharacterKeeps ==
  ASSUME IInv, NEW s \in Sessions, GetCharacter(s) PROVE IInv'
<1> USE NoneIsNothing DEF IInv, GetCharacter, Begin, Goto, Return, Continue, Reads, FirstReads, KeepsBase, Writes, catalogs, registers, settings, played, params, Plays, Raised, clockLog
<1>1. TypeOK'
  BY DEF TypeOK, Steps, StepsFit
<1>2. StepsFit'
  BY DEF TypeOK, StepsFit
<1>3. ChoicesWereValid'
  BY DEF TypeOK, StepsFit, ChoicesWereValid
<1> QED BY <1>1, <1>2, <1>3 DEF IInv

LEMMA RecheckCharacterKeeps ==
  ASSUME IInv, NEW s \in Sessions, RecheckCharacter(s) PROVE IInv'
<1> USE NoneIsNothing DEF IInv, RecheckCharacter, Begin, Goto, Return, Continue, Reads, FirstReads, KeepsBase, Writes, catalogs, registers, settings, played, params, Plays, Raised, clockLog
<1>1. TypeOK'
  BY DEF TypeOK, Steps, StepsFit
<1>2. StepsFit'
  BY DEF TypeOK, StepsFit
<1>3. ChoicesWereValid'
  BY DEF TypeOK, StepsFit, ChoicesWereValid
<1> QED BY <1>1, <1>2, <1>3 DEF IInv

LEMMA LoadCharacterKeeps ==
  ASSUME IInv, NEW s \in Sessions, LoadCharacter(s) PROVE IInv'
<1> USE NoneIsNothing DEF IInv, LoadCharacter, Begin, Goto, Return, Continue, Reads, FirstReads, KeepsBase, Writes, catalogs, registers, settings, played, params, Plays, Raised, clockLog
<1>1. TypeOK'
  BY DEF TypeOK, Steps, StepsFit
<1>2. StepsFit'
  BY DEF TypeOK, StepsFit
<1>3. ChoicesWereValid'
  BY DEF TypeOK, StepsFit, ChoicesWereValid
<1> QED BY <1>1, <1>2, <1>3 DEF IInv

LEMMA CheckSavedCharacterKeeps ==
  ASSUME IInv, NEW s \in Sessions, CheckSavedCharacter(s) PROVE IInv'
<1> USE NoneIsNothing DEF IInv, CheckSavedCharacter, Begin, Goto, Return, Continue, Reads, FirstReads, KeepsBase, Writes, catalogs, registers, settings, played, params, Plays, Raised, clockLog, Members
<1>1. TypeOK'
  BY DEF TypeOK, Steps, StepsFit
<1>2. StepsFit'
  <2>1. CASE arg[s] \in Members(campaign[s])
    BY <2>1 DEF TypeOK, StepsFit
  <2>2. CASE ~(arg[s] \in Members(campaign[s]))
    BY <2>2 DEF TypeOK, StepsFit
  <2> QED BY <2>1, <2>2
<1>3. ChoicesWereValid'
  BY DEF TypeOK, StepsFit, ChoicesWereValid
<1> QED BY <1>1, <1>2, <1>3 DEF IInv

LEMMA PickOnlyCharacterKeeps ==
  ASSUME IInv, NEW s \in Sessions, PickOnlyCharacter(s) PROVE IInv'
<1> USE NoneIsNothing DEF IInv, PickOnlyCharacter, Begin, Goto, Return, Continue, Reads, FirstReads, KeepsBase, Writes, catalogs, registers, settings, played, params, Plays, Raised, clockLog, Members
<1>1. TypeOK'
  BY TheOnlyIsIn DEF TypeOK, Steps, StepsFit
<1>2. StepsFit'
  BY TheOnlyIsIn DEF TypeOK, StepsFit
<1>3. ChoicesWereValid'
  BY TheOnlyIsIn DEF TypeOK, StepsFit, ChoicesWereValid
<1> QED BY <1>1, <1>2, <1>3 DEF IInv

LEMMA SetCharacterKeeps ==
  ASSUME IInv, NEW s \in Sessions, NEW p \in Characters, SetCharacter(s, p) PROVE IInv'
<1> USE NoneIsNothing DEF IInv, SetCharacter, Begin, Goto, Return, Continue, Reads, FirstReads, KeepsBase, Writes, catalogs, registers, settings, played, params, Plays, Raised, clockLog, Members
<1>1. TypeOK'
  BY DEF TypeOK, Steps, StepsFit
<1>2. StepsFit'
  BY DEF TypeOK, StepsFit
<1>3. ChoicesWereValid'
  BY DEF TypeOK, StepsFit, ChoicesWereValid
<1> QED BY <1>1, <1>2, <1>3 DEF IInv

LEMMA SaveCharacterKeeps ==
  ASSUME IInv, NEW s \in Sessions, SaveCharacter(s) PROVE IInv'
<1> USE NoneIsNothing DEF IInv, SaveCharacter, Begin, Goto, Return, Continue, Reads, FirstReads, KeepsBase, Writes, catalogs, registers, settings, played, params, Plays, Raised, clockLog
<1>1. TypeOK'
  BY DEF TypeOK, Steps, StepsFit
<1>2. StepsFit'
  BY DEF TypeOK, StepsFit
<1>3. ChoicesWereValid'
  BY DEF TypeOK, StepsFit, ChoicesWereValid
<1> QED BY <1>1, <1>2, <1>3 DEF IInv

LEMMA ResetCharacterKeeps ==
  ASSUME IInv, NEW s \in Sessions, ResetCharacter(s) PROVE IInv'
<1> USE NoneIsNothing DEF IInv, ResetCharacter, Begin, Goto, Return, Continue, Reads, FirstReads, KeepsBase, Writes, catalogs, registers, settings, played, params, Plays, Raised, clockLog
<1>1. TypeOK'
  BY DEF TypeOK, Steps, StepsFit
<1>2. StepsFit'
  BY DEF TypeOK, StepsFit
<1>3. ChoicesWereValid'
  BY DEF TypeOK, StepsFit, ChoicesWereValid
<1> QED BY <1>1, <1>2, <1>3 DEF IInv

LEMMA SetClockKeeps ==
  ASSUME IInv, NEW s \in Sessions, NEW m \in Minutes, SetClock(s, m) PROVE IInv'
<1> USE NoneIsNothing DEF IInv, SetClock, Begin, Goto, Return, Continue, Reads, FirstReads, KeepsBase, Writes, catalogs, registers, settings, played, params, Plays, Raised, clockLog, WriteMinute, Written
<1>1. TypeOK'
  BY DEF TypeOK, Steps, StepsFit
<1>2. StepsFit'
  BY DEF TypeOK, StepsFit
<1>3. ChoicesWereValid'
  BY DEF TypeOK, StepsFit, ChoicesWereValid
<1> QED BY <1>1, <1>2, <1>3 DEF IInv

LEMMA MoveClockKeeps ==
  ASSUME IInv, NEW s \in Sessions, NEW d \in Shifts, MoveClock(s, d) PROVE IInv'
<1> USE NoneIsNothing DEF IInv, MoveClock, Begin, Goto, Return, Continue, Reads, FirstReads, KeepsBase, Writes, catalogs, registers, settings, played, params, Plays, Raised, clockLog
<1>1. TypeOK'
  BY DEF TypeOK, Steps, StepsFit
<1>2. StepsFit'
  BY DEF TypeOK, StepsFit
<1>3. ChoicesWereValid'
  BY DEF TypeOK, StepsFit, ChoicesWereValid
<1> QED BY <1>1, <1>2, <1>3 DEF IInv

LEMMA WriteClockKeeps ==
  ASSUME IInv, NEW s \in Sessions, WriteClock(s) PROVE IInv'
<1> USE NoneIsNothing DEF IInv, WriteClock, Begin, Goto, Return, Continue, Reads, FirstReads, KeepsBase, Writes, catalogs, registers, settings, played, params, Plays, Raised, clockLog, WriteMinute, Written
<1>1. TypeOK'
  BY DEF TypeOK, Steps, StepsFit
<1>2. StepsFit'
  BY DEF TypeOK, StepsFit
<1>3. ChoicesWereValid'
  BY DEF TypeOK, StepsFit, ChoicesWereValid
<1> QED BY <1>1, <1>2, <1>3 DEF IInv

LEMMA SetLocationKeeps ==
  ASSUME IInv, NEW s \in Sessions, NEW l \in Locations, SetLocation(s, l) PROVE IInv'
<1> USE NoneIsNothing DEF IInv, SetLocation, Begin, Goto, Return, Continue, Reads, FirstReads, KeepsBase, Writes, catalogs, registers, settings, played, params, Plays, Raised, clockLog
<1>1. TypeOK'
  BY DEF TypeOK, Steps, StepsFit
<1>2. StepsFit'
  BY DEF TypeOK, StepsFit
<1>3. ChoicesWereValid'
  BY DEF TypeOK, StepsFit, ChoicesWereValid
<1> QED BY <1>1, <1>2, <1>3 DEF IInv

LEMMA WriteLocationKeeps ==
  ASSUME IInv, NEW s \in Sessions, WriteLocation(s) PROVE IInv'
<1> USE NoneIsNothing DEF IInv, WriteLocation, Begin, Goto, Return, Continue, Reads, FirstReads, KeepsBase, Writes, catalogs, registers, settings, played, params, Plays, Raised, clockLog, WriteCurrent
<1>1. TypeOK'
  BY DEF TypeOK, Steps, StepsFit
<1>2. StepsFit'
  BY DEF TypeOK, StepsFit
<1>3. ChoicesWereValid'
  BY DEF TypeOK, StepsFit, ChoicesWereValid
<1> QED BY <1>1, <1>2, <1>3 DEF IInv

LEMMA ClearLocationKeeps ==
  ASSUME IInv, NEW s \in Sessions, ClearLocation(s) PROVE IInv'
<1> USE NoneIsNothing DEF IInv, ClearLocation, Begin, Goto, Return, Continue, Reads, FirstReads, KeepsBase, Writes, catalogs, registers, settings, played, params, Plays, Raised, clockLog, WriteCurrent
<1>1. TypeOK'
  BY DEF TypeOK, Steps, StepsFit
<1>2. StepsFit'
  BY DEF TypeOK, StepsFit
<1>3. ChoicesWereValid'
  BY DEF TypeOK, StepsFit, ChoicesWereValid
<1> QED BY <1>1, <1>2, <1>3 DEF IInv

LEMMA GetContextKeeps ==
  ASSUME IInv, NEW s \in Sessions, GetContext(s) PROVE IInv'
<1> USE NoneIsNothing DEF IInv, GetContext, Begin, Goto, Return, Continue, Reads, FirstReads, KeepsBase, Writes, catalogs, registers, settings, played, params, Plays, Raised, clockLog
<1>1. TypeOK'
  BY DEF TypeOK, Steps, StepsFit
<1>2. StepsFit'
  <2>1. CASE campaign[s] = None
    BY <2>1 DEF TypeOK, StepsFit
  <2>2. CASE campaign[s] # None
    BY <2>2 DEF TypeOK, StepsFit
  <2> QED BY <2>1, <2>2
<1>3. ChoicesWereValid'
  BY DEF TypeOK, StepsFit, ChoicesWereValid
<1> QED BY <1>1, <1>2, <1>3 DEF IInv

LEMMA ContextCharacterKeeps ==
  ASSUME IInv, NEW s \in Sessions, ContextCharacter(s) PROVE IInv'
<1> USE NoneIsNothing DEF IInv, ContextCharacter, Begin, Goto, Return, Continue, Reads, FirstReads, KeepsBase, Writes, catalogs, registers, settings, played, params, Plays, Raised, clockLog
<1>1. TypeOK'
  BY DEF TypeOK, Steps, StepsFit
<1>2. StepsFit'
  <2>1. CASE campaign[s] = None
    BY <2>1 DEF TypeOK, StepsFit
  <2>2. CASE campaign[s] # None /\ character[s] = None
    BY <2>2 DEF TypeOK, StepsFit
  <2>3. CASE campaign[s] # None /\ character[s] # None
    BY <2>3 DEF TypeOK, StepsFit
  <2> QED BY <2>1, <2>2, <2>3
<1>3. ChoicesWereValid'
  BY DEF TypeOK, StepsFit, ChoicesWereValid
<1> QED BY <1>1, <1>2, <1>3 DEF IInv

LEMMA ContextMinuteKeeps ==
  ASSUME IInv, NEW s \in Sessions, ContextMinute(s) PROVE IInv'
<1> USE NoneIsNothing DEF IInv, ContextMinute, Begin, Goto, Return, Continue, Reads, FirstReads, KeepsBase, Writes, catalogs, registers, settings, played, params, Plays, Raised, clockLog
<1>1. TypeOK'
  BY DEF TypeOK, Steps, StepsFit
<1>2. StepsFit'
  BY DEF TypeOK, StepsFit
<1>3. ChoicesWereValid'
  BY DEF TypeOK, StepsFit, ChoicesWereValid
<1> QED BY <1>1, <1>2, <1>3 DEF IInv

LEMMA ContextLocationKeeps ==
  ASSUME IInv, NEW s \in Sessions, ContextLocation(s) PROVE IInv'
<1> USE NoneIsNothing DEF IInv, ContextLocation, Begin, Goto, Return, Continue, Reads, FirstReads, KeepsBase, Writes, catalogs, registers, settings, played, params, Plays, Raised, clockLog
<1>1. TypeOK'
  BY DEF TypeOK, Steps, StepsFit
<1>2. StepsFit'
  BY DEF TypeOK, StepsFit
<1>3. ChoicesWereValid'
  BY DEF TypeOK, StepsFit, ChoicesWereValid
<1> QED BY <1>1, <1>2, <1>3 DEF IInv

LEMMA RaisesKeeps ==
  ASSUME IInv, NEW s \in Sessions, Raises(s) PROVE IInv'
<1> USE NoneIsNothing DEF IInv, Raises, Begin, Goto, Return, Continue, Reads, FirstReads, KeepsBase, Writes, catalogs, registers, settings, played, params, Plays, Raised, clockLog
<1>1. TypeOK'
  BY DEF TypeOK, Steps, StepsFit
<1>2. StepsFit'
  BY DEF TypeOK, StepsFit
<1>3. ChoicesWereValid'
  BY DEF TypeOK, StepsFit, ChoicesWereValid
<1> QED BY <1>1, <1>2, <1>3 DEF IInv

LEMMA RestartKeeps ==
  ASSUME IInv, NEW s \in Sessions, Restart(s) PROVE IInv'
<1> USE NoneIsNothing DEF IInv, Restart, Begin, Goto, Return, Continue, Reads, FirstReads, KeepsBase, Writes, catalogs, registers, settings, played, params, Plays, Raised, clockLog
<1>1. TypeOK'
  BY DEF TypeOK, Steps, StepsFit
<1>2. StepsFit'
  BY DEF TypeOK, StepsFit
<1>3. ChoicesWereValid'
  BY DEF TypeOK, StepsFit, ChoicesWereValid
<1> QED BY <1>1, <1>2, <1>3 DEF IInv

LEMMA EditsKeep ==
  ASSUME IInv, CatalogStep PROVE IInv'
<1> USE NoneIsNothing DEF IInv, Edit, registers, settings, played, params, control
<1>1. ASSUME NEW c \in Campaigns, EditCampaign(c) PROVE IInv'
  BY <1>1 DEF EditCampaign, TypeOK, StepsFit, ChoicesWereValid
<1>2. ASSUME NEW p \in Characters, NEW c \in Campaigns \cup {None}, EditCharacter(p, c)
      PROVE  IInv'
  BY <1>2 DEF EditCharacter, TypeOK, StepsFit, ChoicesWereValid
<1>3. ASSUME NEW l \in Locations, NEW c \in Campaigns \cup {None}, EditLocation(l, c)
      PROVE  IInv'
  BY <1>3 DEF EditLocation, TypeOK, StepsFit, ChoicesWereValid
<1> QED BY <1>1, <1>2, <1>3 DEF CatalogStep

LEMMA StutterKeeps ==
  ASSUME IInv, UNCHANGED vars PROVE IInv'
<1> USE DEF IInv, vars, catalogs, registers, settings, played, params, control
<1>1. TypeOK'
  BY DEF TypeOK
<1>2. StepsFit'
  BY DEF StepsFit
<1>3. ChoicesWereValid'
  BY DEF ChoicesWereValid
<1> QED BY <1>1, <1>2, <1>3

LEMMA Inductive == IInv /\ [Next]_vars => IInv'
<1> SUFFICES ASSUME IInv, [Next]_vars PROVE IInv'
  OBVIOUS
<1>1. CASE UNCHANGED vars
  BY <1>1, StutterKeeps
<1>2. CASE CatalogStep
  BY <1>2, EditsKeep
<1>3. ASSUME NEW s \in Sessions, SessionStep(s) PROVE IInv'
  <2>1. CASE GetCampaign(s)
    BY <2>1, GetCampaignKeeps
  <2>2. CASE CheckSavedCampaign(s)
    BY <2>2, CheckSavedCampaignKeeps
  <2>3. CASE PickOnlyCampaign(s)
    BY <2>3, PickOnlyCampaignKeeps
  <2>4. ASSUME NEW c \in Campaigns, SetCampaign(s, c) PROVE IInv'
    BY <2>4, SetCampaignKeeps
  <2>5. CASE SaveCampaign(s)
    BY <2>5, SaveCampaignKeeps
  <2>6. CASE GetCharacter(s)
    BY <2>6, GetCharacterKeeps
  <2>7. CASE RecheckCharacter(s)
    BY <2>7, RecheckCharacterKeeps
  <2>8. CASE LoadCharacter(s)
    BY <2>8, LoadCharacterKeeps
  <2>9. CASE CheckSavedCharacter(s)
    BY <2>9, CheckSavedCharacterKeeps
  <2>10. CASE PickOnlyCharacter(s)
    BY <2>10, PickOnlyCharacterKeeps
  <2>11. ASSUME NEW p \in Characters, SetCharacter(s, p) PROVE IInv'
    BY <2>11, SetCharacterKeeps
  <2>12. CASE SaveCharacter(s)
    BY <2>12, SaveCharacterKeeps
  <2>13. CASE ResetCharacter(s)
    BY <2>13, ResetCharacterKeeps
  <2>14. ASSUME NEW m \in Minutes, SetClock(s, m) PROVE IInv'
    BY <2>14, SetClockKeeps
  <2>15. ASSUME NEW d \in Shifts, MoveClock(s, d) PROVE IInv'
    BY <2>15, MoveClockKeeps
  <2>16. CASE WriteClock(s)
    BY <2>16, WriteClockKeeps
  <2>17. ASSUME NEW l \in Locations, SetLocation(s, l) PROVE IInv'
    BY <2>17, SetLocationKeeps
  <2>18. CASE WriteLocation(s)
    BY <2>18, WriteLocationKeeps
  <2>19. CASE ClearLocation(s)
    BY <2>19, ClearLocationKeeps
  <2>20. CASE GetContext(s)
    BY <2>20, GetContextKeeps
  <2>21. CASE ContextCharacter(s)
    BY <2>21, ContextCharacterKeeps
  <2>22. CASE ContextMinute(s)
    BY <2>22, ContextMinuteKeeps
  <2>23. CASE ContextLocation(s)
    BY <2>23, ContextLocationKeeps
  <2>24. CASE Restart(s)
    BY <2>24, RestartKeeps
  <2>25. CASE Raises(s)
    BY <2>25, RaisesKeeps
  <2> QED BY <1>3, <2>1, <2>2, <2>3, <2>4, <2>5, <2>6, <2>7, <2>8, <2>9, <2>10, <2>11, <2>12, <2>13, <2>14, <2>15, <2>16, <2>17, <2>18, <2>19, <2>20, <2>21, <2>22, <2>23, <2>24, <2>25 DEF SessionStep
<1> QED BY <1>1, <1>2, <1>3 DEF Next

\* Sessions, characters and locations: what a session works with, and what the
\* register shows as current, was available and of its campaign when it was
\* chosen, and is still unless that very item was edited since, whichever
\* accesses to the base raise.  The one exception is named: a session whose
\* change of the campaign raised when it was saved keeps the former character
\* (УправлениеКампаниями, УправлениеПерсонажем, ТекущаяЛокация).
THEOREM ChoicesWereValidHolds == Spec => []ChoicesWereValid
<1>1. IInv => ChoicesWereValid
  BY DEF IInv
<1> QED BY Initially, Inductive, <1>1, PTL DEF Spec

-----------------------------------------------------------------------------
(* The clocks.                                                             *)

\* A move under way writes what the clock still shows plus its shift, unless
\* another change of the same clock came in between.
MovesFit ==
  \A s \in Sessions : step[s] = "writeClock" =>
    /\ campaign[s] # None
    /\ campaign[s] \notin overlapped => arg[s] = clock[campaign[s]] + by[s]

ClockInv ==
  /\ clock = [c \in Campaigns |-> clock[c]]
  /\ amount = [c \in Campaigns |-> amount[c]]
  /\ by = [s \in Sessions |-> by[s]]
  /\ MovesFit /\ ClockAddsUp

\* Nothing but the steps of ИгровоеВремя touches a clock or a move under way.
NoMove ==
  /\ UNCHANGED <<clock, clockLog>>
  /\ \A s \in Sessions : step'[s] = "writeClock" =>
       step[s] = "writeClock" /\ arg'[s] = arg[s] /\ campaign'[s] = campaign[s]

LEMMA NoMoveKeepsClocks ==
  ASSUME ClockInv, NoMove PROVE ClockInv'
BY DEF ClockInv, NoMove, MovesFit, ClockAddsUp, clockLog

LEMMA OtherStepsMoveNothing ==
  ASSUME IInv, NEW s \in Sessions, SessionStep(s),
         ~ \E m \in Minutes : SetClock(s, m),
         ~ \E d \in Shifts : MoveClock(s, d),
         ~ WriteClock(s), ~ Raises(s)
  PROVE  NoMove
<1> USE DEF NoMove, IInv, TypeOK, StepsFit, Begin, Goto, Return, Continue, Reads, FirstReads, KeepsBase, Writes, catalogs, registers, settings, played, params, Plays, Raised, clockLog
<1>1. CASE GetCampaign(s)
  BY <1>1 DEF GetCampaign
<1>2. CASE CheckSavedCampaign(s)
  BY <1>2 DEF CheckSavedCampaign
<1>3. CASE PickOnlyCampaign(s)
  BY <1>3 DEF PickOnlyCampaign
<1>4. ASSUME NEW c \in Campaigns, SetCampaign(s, c) PROVE NoMove
  BY <1>4 DEF SetCampaign
<1>5. CASE SaveCampaign(s)
  BY <1>5 DEF SaveCampaign
<1>6. CASE GetCharacter(s)
  BY <1>6 DEF GetCharacter
<1>7. CASE RecheckCharacter(s)
  BY <1>7 DEF RecheckCharacter
<1>8. CASE LoadCharacter(s)
  BY <1>8 DEF LoadCharacter
<1>9. CASE CheckSavedCharacter(s)
  BY <1>9 DEF CheckSavedCharacter
<1>10. CASE PickOnlyCharacter(s)
  BY <1>10 DEF PickOnlyCharacter
<1>11. ASSUME NEW p \in Characters, SetCharacter(s, p) PROVE NoMove
  BY <1>11 DEF SetCharacter
<1>12. CASE SaveCharacter(s)
  BY <1>12 DEF SaveCharacter
<1>13. CASE ResetCharacter(s)
  BY <1>13 DEF ResetCharacter
<1>14. ASSUME NEW l \in Locations, SetLocation(s, l) PROVE NoMove
  BY <1>14 DEF SetLocation
<1>15. CASE WriteLocation(s)
  BY <1>15 DEF WriteLocation, WriteCurrent
<1>16. CASE ClearLocation(s)
  BY <1>16 DEF ClearLocation, WriteCurrent
<1>17. CASE GetContext(s)
  BY <1>17 DEF GetContext
<1>18. CASE ContextCharacter(s)
  BY <1>18 DEF ContextCharacter
<1>19. CASE ContextMinute(s)
  BY <1>19 DEF ContextMinute
<1>20. CASE ContextLocation(s)
  BY <1>20 DEF ContextLocation
<1>21. CASE Restart(s)
  BY <1>21 DEF Restart
<1> QED BY <1>1, <1>2, <1>3, <1>4, <1>5, <1>6, <1>7, <1>8, <1>9, <1>10, <1>11, <1>12, <1>13, <1>14, <1>15, <1>16, <1>17, <1>18, <1>19, <1>20, <1>21 DEF SessionStep

\* One session writes a clock and is done.
LEMMA ClockWriteAddsUp ==
  ASSUME IInv, ClockInv, NEW s \in Sessions, NEW minute, NEW total,
         campaign[s] # None, WriteMinute(s, minute, total),
         campaign[s] \notin overlapped => minute = total,
         by' = [t \in Sessions |-> by'[t]],
         \A t \in Sessions : step'[t] = "writeClock" =>
           t # s /\ step[t] = "writeClock" /\ arg'[t] = arg[t] /\ by'[t] = by[t]
  PROVE  ClockInv'
<1> DEFINE c == campaign[s]
<1>1. c \in Campaigns
  BY DEF IInv, TypeOK
<1>2. /\ clock' = [clock EXCEPT ![c] = minute]
      /\ amount' = [amount EXCEPT ![c] = total]
      /\ overlapped \subseteq overlapped'
      /\ InTheMiddle(s) => c \in overlapped'
      /\ campaign' = campaign
  BY DEF WriteMinute, Written, params
<1>3. clock' = [d \in Campaigns |-> clock'[d]] /\ amount' = [d \in Campaigns |-> amount'[d]]
  BY <1>2 DEF ClockInv
<1>4. ClockAddsUp'
  BY <1>1, <1>2 DEF ClockInv, ClockAddsUp
<1>5. ASSUME NEW t \in Sessions, step'[t] = "writeClock"
      PROVE  /\ campaign'[t] # None
             /\ campaign'[t] \notin overlapped' => arg'[t] = clock'[campaign'[t]] + by'[t]
  <2>1. t # s /\ step[t] = "writeClock" /\ arg'[t] = arg[t] /\ by'[t] = by[t]
    BY <1>5
  <2>2. campaign[t] # None /\ (campaign[t] \notin overlapped => arg[t] = clock[campaign[t]] + by[t])
    BY <2>1 DEF ClockInv, MovesFit
  <2>3. campaign[t] = c => c \in overlapped'
    BY <1>2, <2>1 DEF InTheMiddle
  <2>4. campaign[t] # c => clock'[campaign[t]] = clock[campaign[t]]
    BY <1>2, <2>2 DEF ClockInv, IInv, TypeOK
  <2> QED BY <1>2, <2>1, <2>2, <2>3, <2>4
<1>6. MovesFit'
  BY <1>5 DEF MovesFit
<1> QED BY <1>3, <1>4, <1>6 DEF ClockInv

LEMMA ClocksInductive == IInv /\ ClockInv /\ [Next]_vars => ClockInv'
<1> SUFFICES ASSUME IInv, ClockInv, [Next]_vars PROVE ClockInv'
  OBVIOUS
<1> USE DEF Begin, Goto, Return, Continue
<1>1. CASE UNCHANGED vars
  <2>1. NoMove
    BY <1>1 DEF vars, NoMove, control, played, params, registers, clockLog
  <2> QED BY <2>1, NoMoveKeepsClocks
<1>2. CASE CatalogStep
  <2>1. NoMove
    BY <1>2 DEF CatalogStep, EditCampaign, EditCharacter, EditLocation, Edit,
                NoMove, control, played, params, registers, clockLog
  <2> QED BY <2>1, NoMoveKeepsClocks
<1>3. ASSUME NEW s \in Sessions, SessionStep(s) PROVE ClockInv'
  <2>1. ASSUME NEW m \in Minutes, SetClock(s, m) PROVE ClockInv'
    <3>1. step' = [step EXCEPT ![s] = "idle"] /\ arg' = [arg EXCEPT ![s] = None] /\ by' = by
      BY <2>1 DEF SetClock
    <3>2. \A t \in Sessions : step'[t] = "writeClock" =>
             t # s /\ step[t] = "writeClock" /\ arg'[t] = arg[t] /\ by'[t] = by[t]
      BY <3>1 DEF IInv, TypeOK
    <3>3. campaign[s] # None /\ WriteMinute(s, m, m)
      BY <2>1 DEF SetClock
    <3> QED BY <3>1, <3>2, <3>3, ClockWriteAddsUp DEF ClockInv
  <2>2. ASSUME NEW d \in Shifts, MoveClock(s, d) PROVE ClockInv'
    <3>1. /\ UNCHANGED <<clock, amount, overlapped, campaign>>
          /\ campaign[s] # None
          /\ step' = [step EXCEPT ![s] = "writeClock"]
          /\ arg' = [arg EXCEPT ![s] = clock[campaign[s]] + d]
          /\ by' = [by EXCEPT ![s] = d]
      BY <2>2 DEF MoveClock, KeepsBase, registers, played, params
    <3>2. MovesFit'
      BY <3>1 DEF MovesFit, ClockInv, IInv, TypeOK
    <3>3. ClockAddsUp'
      BY <3>1 DEF ClockAddsUp, ClockInv
    <3>4. by' = [t \in Sessions |-> by'[t]]
      BY <3>1 DEF ClockInv
    <3> QED BY <3>1, <3>2, <3>3, <3>4 DEF ClockInv
  <2>3. CASE WriteClock(s)
    <3>1. /\ step[s] = "writeClock"
          /\ step' = [step EXCEPT ![s] = then[s]] /\ then[s] # "writeClock"
          /\ arg' = [arg EXCEPT ![s] = None] /\ by' = [by EXCEPT ![s] = 0]
          /\ WriteMinute(s, arg[s], amount[campaign[s]] + by[s])
      BY <2>3 DEF WriteClock, IInv, TypeOK
    <3>2. campaign[s] \in Campaigns /\ campaign[s] # None
      BY <3>1 DEF ClockInv, MovesFit, IInv, TypeOK
    <3>3. campaign[s] \notin overlapped => arg[s] = amount[campaign[s]] + by[s]
      BY <3>1, <3>2 DEF ClockInv, MovesFit, ClockAddsUp
    <3>4. \A t \in Sessions : step'[t] = "writeClock" =>
             t # s /\ step[t] = "writeClock" /\ arg'[t] = arg[t] /\ by'[t] = by[t]
      BY <3>1 DEF IInv, TypeOK, ClockInv
    <3>5. by' = [t \in Sessions |-> by'[t]]
      BY <3>1 DEF ClockInv
    <3> QED BY <3>1, <3>2, <3>3, <3>4, <3>5, ClockWriteAddsUp
  <2>4. CASE Raises(s)
    <3>1. /\ UNCHANGED <<clock, amount, overlapped, campaign>>
          /\ step' = [step EXCEPT ![s] = "idle"] /\ arg' = [arg EXCEPT ![s] = None]
          /\ by' = [by EXCEPT ![s] = 0]
      BY <2>4 DEF Raises, Raised, registers, params
    <3>2. MovesFit'
      BY <3>1 DEF MovesFit, ClockInv, IInv, TypeOK
    <3>3. ClockAddsUp' /\ by' = [t \in Sessions |-> by'[t]]
      BY <3>1 DEF ClockAddsUp, ClockInv
    <3> QED BY <3>1, <3>2, <3>3 DEF ClockInv
  <2> QED BY <1>3, <2>1, <2>2, <2>3, <2>4, OtherStepsMoveNothing, NoMoveKeepsClocks
<1> QED BY <1>1, <1>2, <1>3 DEF Next

\* The clock of a campaign shows what its changes come to, in the order they
\* were made, unless two of them overlapped (ИгровоеВремя.ИзменитьВремя).
THEOREM ClockAddsUpHolds == Spec => []ClockAddsUp
<1>1. Init => ClockInv
  BY DEF Init, ClockInv, MovesFit, ClockAddsUp
<1>2. ClockInv => ClockAddsUp
  BY DEF ClockInv
<1> QED BY Initially, Inductive, ClocksInductive, <1>1, <1>2, PTL DEF Spec

-----------------------------------------------------------------------------
(* The context.                                                            *)

\* How far a context has come that nothing was written under.
Fit(s) ==
  /\ context[s] # NoContext =>
       /\ step[s] = "idle"
       /\ context[s] = [campaign |-> campaign[s], character |-> character[s],
                        minute |-> clock[campaign[s]], location |-> current[campaign[s]]]
       /\ LooksRight(s)
  /\ step[s] \in {"checkSaved", "onlyCampaign"} => then[s] # "readClock"
  /\ step[s] \in {"loadCharacter", "checkCharacter", "onlyCharacter"} => character[s] = None
  /\ step[s] = "checkCharacter" => arg[s] = savedCharacter[campaign[s]]
  /\ step[s] = "onlyCharacter" => savedCharacter[campaign[s]] \notin Members(campaign[s])
  /\ step[s] \in {"readClock", "readLocation"} => LooksRight(s)
  /\ step[s] = "readLocation" => arg[s] = clock[campaign[s]]

ContextInv ==
  /\ DOMAIN context = Sessions
  /\ \A s \in Sessions \ disturbed : Fit(s)

\* A step of one session either writes, or leaves the others and the base as
\* they are.
Calm(s) ==
  \/ disturbed' = Sessions
  \/ /\ UNCHANGED <<home, clock, current, savedCharacter>>
     /\ disturbed \subseteq disturbed' \cup {s}
     /\ \A t \in Sessions \ {s} :
          /\ step'[t] = step[t] /\ arg'[t] = arg[t] /\ context'[t] = context[t]
          /\ campaign'[t] = campaign[t] /\ character'[t] = character[t]
          /\ then'[t] = then[t]
     /\ s \notin disturbed' => Fit(s)'

LEMMA CalmKeepsContexts ==
  ASSUME ContextInv, NEW s \in Sessions, Calm(s), DOMAIN context' = Sessions
  PROVE  ContextInv'
<1>1. CASE disturbed' = Sessions
  BY <1>1 DEF ContextInv
<1>2. CASE disturbed' # Sessions
  <2>1. ASSUME NEW t \in Sessions, t # s, t \notin disturbed' PROVE Fit(t)'
    <3>1. Fit(t) /\ t \notin disturbed
      BY <1>2, <2>1 DEF ContextInv, Calm
    <3>2. /\ step'[t] = step[t] /\ arg'[t] = arg[t] /\ context'[t] = context[t]
          /\ campaign'[t] = campaign[t] /\ character'[t] = character[t]
          /\ then'[t] = then[t]
          /\ UNCHANGED <<home, clock, current, savedCharacter>>
      BY <1>2, <2>1 DEF Calm
    <3>3. LooksRight(t)' <=> LooksRight(t)
      BY <3>2 DEF LooksRight, Members, TheOnly
    <3>4. Members(campaign[t])' = Members(campaign[t])
      BY <3>2 DEF Members
    <3> QED BY <3>1, <3>2, <3>3, <3>4 DEF Fit
  <2>2. s \notin disturbed' => Fit(s)'
    BY <1>2 DEF Calm
  <2> QED BY <2>1, <2>2 DEF ContextInv
<1> QED BY <1>1, <1>2

LEMMA StepsAreCalm ==
  ASSUME IInv, ContextInv, NEW s \in Sessions, SessionStep(s) PROVE Calm(s)
<1> USE DEF Calm, IInv, TypeOK, Begin, Goto, Return, Continue, Reads, FirstReads, KeepsBase, Writes, catalogs, registers, settings, played, params, Plays, Raised, clockLog
<1>1. CASE GetCampaign(s)
  BY <1>1 DEF GetCampaign, ContextInv
<1>2. ASSUME NEW c \in Campaigns, SetCampaign(s, c) PROVE Calm(s)
  BY <1>2 DEF SetCampaign, ContextInv
<1>3. CASE GetCharacter(s)
  BY <1>3 DEF GetCharacter, ContextInv
<1>4. CASE RecheckCharacter(s)
  BY <1>4 DEF RecheckCharacter, ContextInv
<1>5. ASSUME NEW p \in Characters, SetCharacter(s, p) PROVE Calm(s)
  BY <1>5 DEF SetCharacter, ContextInv
<1>6. ASSUME NEW l \in Locations, SetLocation(s, l) PROVE Calm(s)
  BY <1>6 DEF SetLocation, ContextInv
<1>7. CASE Restart(s)
  BY <1>7 DEF Restart, ContextInv
<1>8. ASSUME NEW d \in Shifts, MoveClock(s, d) PROVE Calm(s)
  BY <1>8 DEF MoveClock, ContextInv
<1>9. CASE SaveCampaign(s)
  BY <1>9 DEF SaveCampaign, ContextInv
<1>10. CASE SaveCharacter(s)
  BY <1>10 DEF SaveCharacter, ContextInv
<1>11. CASE ResetCharacter(s)
  BY <1>11 DEF ResetCharacter, ContextInv
<1>12. ASSUME NEW m \in Minutes, SetClock(s, m) PROVE Calm(s)
  BY <1>12 DEF SetClock, WriteMinute, ContextInv
<1>13. CASE WriteClock(s)
  BY <1>13 DEF WriteClock, WriteMinute, ContextInv
<1>14. CASE WriteLocation(s)
  BY <1>14 DEF WriteLocation, WriteCurrent, ContextInv
<1>15. CASE ClearLocation(s)
  BY <1>15 DEF ClearLocation, WriteCurrent, ContextInv
<1>16. CASE CheckSavedCampaign(s)
  <2> SUFFICES ASSUME s \notin disturbed PROVE Calm(s)
    BY <1>16 DEF CheckSavedCampaign
  <2>1. Fit(s) /\ context[s] = NoContext
    BY <1>16 DEF CheckSavedCampaign, ContextInv, Fit
  <2>2. CASE arg[s] \in open
    BY <1>16, <2>1, <2>2, NoneIsNothing DEF CheckSavedCampaign, StepsFit, ChoicesWereValid, Fit, LooksRight, Members
  <2>3. CASE ~(arg[s] \in open)
    BY <1>16, <2>1, <2>3, NoneIsNothing DEF CheckSavedCampaign, StepsFit, ChoicesWereValid, Fit, LooksRight, Members
  <2> QED BY <2>2, <2>3
<1>17. CASE PickOnlyCampaign(s)
  <2> SUFFICES ASSUME s \notin disturbed PROVE Calm(s)
    BY <1>17 DEF PickOnlyCampaign
  <2>1. Fit(s) /\ context[s] = NoContext
    BY <1>17 DEF PickOnlyCampaign, ContextInv, Fit
  <2>2. CASE TheOnly(open) = None
    BY <1>17, <2>1, <2>2, NoneIsNothing, TheOnlyIsIn DEF PickOnlyCampaign, StepsFit, ChoicesWereValid, Fit, LooksRight, Members
  <2>3. CASE ~(TheOnly(open) = None)
    BY <1>17, <2>1, <2>3, NoneIsNothing, TheOnlyIsIn DEF PickOnlyCampaign, StepsFit, ChoicesWereValid, Fit, LooksRight, Members
  <2> QED BY <2>2, <2>3
<1>18. CASE LoadCharacter(s)
  BY <1>18, NoneIsNothing, TheOnlyIsIn DEF LoadCharacter, ContextInv, StepsFit, ChoicesWereValid, Fit, LooksRight, Members
<1>19. CASE CheckSavedCharacter(s)
  <2> SUFFICES ASSUME s \notin disturbed PROVE Calm(s)
    BY <1>19 DEF CheckSavedCharacter
  <2>1. Fit(s) /\ context[s] = NoContext
    BY <1>19 DEF CheckSavedCharacter, ContextInv, Fit
  <2>2. CASE arg[s] \in Members(campaign[s])
    BY <1>19, <2>1, <2>2, NoneIsNothing DEF CheckSavedCharacter, StepsFit, ChoicesWereValid, Fit, LooksRight, Members
  <2>3. CASE ~(arg[s] \in Members(campaign[s]))
    BY <1>19, <2>1, <2>3, NoneIsNothing DEF CheckSavedCharacter, StepsFit, ChoicesWereValid, Fit, LooksRight, Members
  <2> QED BY <2>2, <2>3
<1>20. CASE PickOnlyCharacter(s)
  BY <1>20, NoneIsNothing, TheOnlyIsIn DEF PickOnlyCharacter, ContextInv, StepsFit, ChoicesWereValid, Fit, LooksRight, Members
<1>21. CASE GetContext(s)
  BY <1>21, NoneIsNothing, TheOnlyIsIn DEF GetContext, ContextInv, StepsFit, ChoicesWereValid, Fit, LooksRight, Members
<1>22. CASE ContextCharacter(s)
  <2> SUFFICES ASSUME s \notin disturbed PROVE Calm(s)
    BY <1>22 DEF ContextCharacter
  <2>1. Fit(s) /\ context[s] = NoContext
    BY <1>22 DEF ContextCharacter, ContextInv, Fit
  <2>2. CASE campaign[s] = None
    BY <1>22, <2>1, <2>2, NoneIsNothing DEF ContextCharacter, StepsFit, ChoicesWereValid, Fit, LooksRight, Members
  <2>3. CASE campaign[s] # None /\ character[s] = None
    BY <1>22, <2>1, <2>3, NoneIsNothing DEF ContextCharacter, StepsFit, ChoicesWereValid, Fit, LooksRight, Members
  <2>4. CASE campaign[s] # None /\ character[s] # None
    BY <1>22, <2>1, <2>4, NoneIsNothing DEF ContextCharacter, StepsFit, ChoicesWereValid, Fit, LooksRight, Members
  <2> QED BY <2>2, <2>3, <2>4
<1>23. CASE ContextMinute(s)
  <2> SUFFICES ASSUME s \notin disturbed PROVE Calm(s)
    BY <1>23 DEF ContextMinute
  <2>1. Fit(s) /\ context[s] = NoContext
    BY <1>23 DEF ContextMinute, ContextInv, Fit
  <2> QED BY <1>23, <2>1, NoneIsNothing DEF ContextMinute, StepsFit, ChoicesWereValid, Fit, LooksRight, Members
<1>24. CASE ContextLocation(s)
  <2> SUFFICES ASSUME s \notin disturbed PROVE Calm(s)
    BY <1>24 DEF ContextLocation
  <2>1. Fit(s) /\ LooksRight(s) /\ arg[s] = clock[campaign[s]] /\ DOMAIN context = Sessions
    BY <1>24 DEF ContextLocation, ContextInv, Fit
  <2>2. /\ UNCHANGED <<home, clock, current, savedCharacter, campaign, character, then, disturbed>>
        /\ step' = [step EXCEPT ![s] = "idle"] /\ arg' = [arg EXCEPT ![s] = None]
        /\ context' = [context EXCEPT ![s] =
             [campaign |-> campaign[s], character |-> character[s],
              minute |-> arg[s], location |-> current[campaign[s]]]]
    BY <1>24 DEF ContextLocation
  <2>3. LooksRight(s)'
    BY <2>1, <2>2 DEF LooksRight, Members, TheOnly
  <2>4. Fit(s)'
    BY <2>1, <2>2, <2>3 DEF Fit
  <2> QED BY <2>2, <2>4
<1>25. CASE Raises(s)
  BY <1>25 DEF Raises, ContextInv
<1> QED BY <1>1, <1>2, <1>3, <1>4, <1>5, <1>6, <1>7, <1>8, <1>9, <1>10, <1>11, <1>12, <1>13, <1>14, <1>15, <1>16, <1>17, <1>18, <1>19, <1>20, <1>21, <1>22, <1>23, <1>24, <1>25 DEF SessionStep

LEMMA ContextsInductive == IInv /\ ContextInv /\ [Next]_vars => ContextInv'
<1> SUFFICES ASSUME IInv, ContextInv, [Next]_vars PROVE ContextInv'
  OBVIOUS
<1>1. CASE UNCHANGED vars
  BY <1>1 DEF vars, catalogs, registers, settings, played, params, control,
              ContextInv, Fit, LooksRight, Members, TheOnly
<1>2. CASE CatalogStep
  BY <1>2 DEF CatalogStep, EditCampaign, EditCharacter, EditLocation, Edit, ContextInv
<1>3. ASSUME NEW s \in Sessions, SessionStep(s) PROVE ContextInv'
  <2>1. DOMAIN context' = Sessions
    BY <1>3 DEF SessionStep, ContextInv, GetCampaign, CheckSavedCampaign, PickOnlyCampaign,
         SetCampaign, SaveCampaign, GetCharacter, RecheckCharacter, LoadCharacter,
         CheckSavedCharacter, PickOnlyCharacter, SetCharacter, SaveCharacter, ResetCharacter,
         SetClock, MoveClock, WriteClock, SetLocation, WriteLocation, ClearLocation, GetContext,
         ContextCharacter, ContextMinute, ContextLocation, Raises, Restart, Begin, Return,
         Continue, Raised
  <2> QED BY <1>3, <2>1, StepsAreCalm, CalmKeepsContexts
<1> QED BY <1>1, <1>2, <1>3 DEF Next

\* The context of the assistant is a snapshot whenever nothing was written while
\* it was collected and since, however many calls it took to find the campaign
\* and the character of the session (КонтекстАссистента.ПолучитьКонтекст).
THEOREM UndisturbedContextIsTrueHolds == Spec => []UndisturbedContextIsTrue
<1>1. Init => ContextInv
  BY DEF Init, ContextInv
<1>2. ContextInv => UndisturbedContextIsTrue
  BY DEF ContextInv, Fit, UndisturbedContextIsTrue
<1> QED BY Initially, Inductive, ContextsInductive, <1>1, <1>2, PTL DEF Spec

-----------------------------------------------------------------------------
(* What is used without having been picked is the only one.                *)

\* Every saved reference was picked once, so a call that trusts one trusts a
\* choice; what was taken as the only candidate had no other beside it but
\* those edited since.
ChoiceInv ==
  /\ savedCampaign \in chosen \cup {None}
  /\ \A c \in Campaigns : savedCharacter[c] \in chosen \cup {None}
  /\ \A s \in Sessions :
       step[s] \in {"checkSaved", "checkCharacter"} => arg[s] \in chosen \cup {None}
  /\ NothingChosenArbitrarily

LEMMA OnlyOne ==
  ASSUME NEW S, TheOnly(S) # None PROVE S = {TheOnly(S)}
BY DEF TheOnly

LEMMA StepsKeepChoices ==
  ASSUME IInv, ChoiceInv, NEW s \in Sessions, SessionStep(s) PROVE ChoiceInv'
<1> USE NoneIsNothing DEF IInv, TypeOK, StepsFit, ChoicesWereValid, ChoiceInv,
        NothingChosenArbitrarily, Members, Begin, Goto, Return, Continue, Reads, FirstReads,
        KeepsBase, Writes, catalogs, registers, settings, played, params, Plays, Raised, clockLog
<1>1. CASE GetCampaign(s)
  BY <1>1 DEF GetCampaign
<1>2. CASE CheckSavedCampaign(s)
  <2>1. CASE arg[s] \in open
    BY <1>2, <2>1 DEF CheckSavedCampaign
  <2>2. CASE ~(arg[s] \in open)
    BY <1>2, <2>2 DEF CheckSavedCampaign
  <2> QED BY <2>1, <2>2
<1>3. CASE PickOnlyCampaign(s)
  <2>1. CASE TheOnly(open) = None
    BY <1>3, <2>1, OnlyOne DEF PickOnlyCampaign
  <2>2. CASE ~(TheOnly(open) = None)
    BY <1>3, <2>2, OnlyOne DEF PickOnlyCampaign
  <2> QED BY <2>1, <2>2
<1>4. CASE SaveCampaign(s)
  <2>1. CASE campaign[s] = arg[s]
    BY <1>4, <2>1 DEF SaveCampaign
  <2>2. CASE ~(campaign[s] = arg[s])
    BY <1>4, <2>2 DEF SaveCampaign
  <2> QED BY <2>1, <2>2
<1>5. CASE GetCharacter(s)
  BY <1>5 DEF GetCharacter
<1>6. CASE RecheckCharacter(s)
  BY <1>6 DEF RecheckCharacter
<1>7. CASE LoadCharacter(s)
  BY <1>7 DEF LoadCharacter
<1>8. CASE CheckSavedCharacter(s)
  <2>1. CASE arg[s] \in Members(campaign[s])
    BY <1>8, <2>1 DEF CheckSavedCharacter
  <2>2. CASE ~(arg[s] \in Members(campaign[s]))
    BY <1>8, <2>2 DEF CheckSavedCharacter
  <2> QED BY <2>1, <2>2
<1>9. CASE PickOnlyCharacter(s)
  <2>1. Members(campaign[s])' = Members(campaign[s]) /\ campaign' = campaign
    BY <1>9 DEF PickOnlyCharacter
  <2>2. TheOnly(Members(campaign[s])) = None
        \/ Members(campaign[s]) = {TheOnly(Members(campaign[s]))}
    BY OnlyOne
  <2>3. character' = [character EXCEPT ![s] = TheOnly(Members(campaign[s]))]
    BY <1>9 DEF PickOnlyCharacter
  <2>4. /\ character'[s] \notin chosen \cup {None} =>
             Members(campaign[s]) \subseteq edited \cup {character'[s]}
        /\ \A t \in Sessions \ {s} : character'[t] = character[t]
    <3> HIDE DEF Members
    <3> QED BY <2>2, <2>3
  <2>5. /\ step[s] = "onlyCharacter" /\ step' = [step EXCEPT ![s] = then[s]]
        /\ then[s] \notin {"checkSaved", "checkCharacter"} /\ arg' = [arg EXCEPT ![s] = None]
        /\ strayed' = strayed \ {s}
        /\ UNCHANGED <<home, open, edited, chosen, savedCampaign, savedCharacter, campaign>>
    BY <1>9 DEF PickOnlyCharacter
  <2>6. \A t \in Sessions :
          /\ campaign[t] \notin chosen \cup {None} => open \subseteq edited \cup {campaign[t]}
          /\ character'[t] \notin chosen \cup {None} /\ t \notin strayed' =>
               Members(campaign[t]) \subseteq edited \cup {character'[t]}
    <3> HIDE DEF Members
    <3> QED BY <2>4, <2>5
  <2>7. NothingChosenArbitrarily'
    BY <2>5, <2>6
  <2> QED BY <2>5, <2>7
<1>10. CASE SaveCharacter(s)
  BY <1>10 DEF SaveCharacter
<1>11. CASE ResetCharacter(s)
  BY <1>11 DEF ResetCharacter
<1>12. CASE WriteClock(s)
  BY <1>12 DEF WriteClock, WriteMinute
<1>13. CASE WriteLocation(s)
  BY <1>13 DEF WriteLocation, WriteCurrent
<1>14. CASE ClearLocation(s)
  BY <1>14 DEF ClearLocation, WriteCurrent
<1>15. CASE GetContext(s)
  BY <1>15 DEF GetContext
<1>16. CASE ContextCharacter(s)
  BY <1>16 DEF ContextCharacter
<1>17. CASE ContextMinute(s)
  BY <1>17 DEF ContextMinute
<1>18. CASE ContextLocation(s)
  BY <1>18 DEF ContextLocation
<1>19. CASE Restart(s)
  BY <1>19 DEF Restart
<1>20. ASSUME NEW c \in Campaigns, SetCampaign(s, c) PROVE ChoiceInv'
  BY <1>20 DEF SetCampaign
<1>21. ASSUME NEW p \in Characters, SetCharacter(s, p) PROVE ChoiceInv'
  BY <1>21 DEF SetCharacter
<1>22. ASSUME NEW m \in Minutes, SetClock(s, m) PROVE ChoiceInv'
  BY <1>22 DEF SetClock, WriteMinute
<1>23. ASSUME NEW d \in Shifts, MoveClock(s, d) PROVE ChoiceInv'
  BY <1>23 DEF MoveClock
<1>24. ASSUME NEW l \in Locations, SetLocation(s, l) PROVE ChoiceInv'
  BY <1>24 DEF SetLocation
<1>25. CASE Raises(s)
  BY <1>25 DEF Raises
<1> QED BY <1>1, <1>2, <1>3, <1>4, <1>5, <1>6, <1>7, <1>8, <1>9, <1>10, <1>11, <1>12, <1>13, <1>14, <1>15, <1>16, <1>17, <1>18, <1>19, <1>20, <1>21, <1>22, <1>23, <1>24, <1>25 DEF SessionStep

LEMMA ChoicesInductive == IInv /\ ChoiceInv /\ [Next]_vars => ChoiceInv'
<1> SUFFICES ASSUME IInv, ChoiceInv, [Next]_vars PROVE ChoiceInv'
  OBVIOUS
<1>1. CASE UNCHANGED vars
  BY <1>1 DEF vars, catalogs, registers, settings, played, params, control,
              ChoiceInv, NothingChosenArbitrarily, Members
<1>2. CASE CatalogStep
  <2> USE DEF Edit, registers, settings, played, params, control, ChoiceInv,
              NothingChosenArbitrarily, Members, IInv, TypeOK
  <2>1. ASSUME NEW c \in Campaigns, EditCampaign(c) PROVE ChoiceInv'
    BY <2>1 DEF EditCampaign
  <2>2. ASSUME NEW p \in Characters, NEW c \in Campaigns \cup {None}, EditCharacter(p, c)
        PROVE  ChoiceInv'
    BY <2>2 DEF EditCharacter
  <2>3. ASSUME NEW l \in Locations, NEW c \in Campaigns \cup {None}, EditLocation(l, c)
        PROVE  ChoiceInv'
    BY <2>3 DEF EditLocation
  <2> QED BY <1>2, <2>1, <2>2, <2>3 DEF CatalogStep
<1>3. ASSUME NEW s \in Sessions, SessionStep(s) PROVE ChoiceInv'
  BY <1>3, StepsKeepChoices
<1> QED BY <1>1, <1>2, <1>3 DEF Next

\* Without a choice of the user a campaign or a character is used only when no
\* other was there to choose from: with several candidates the session is left
\* without one; only a character that a failed change of the campaign left
\* behind was the only one of another campaign (ЕдинственнаяАктивнаяКампания, ЕдинственныйПерсонажКампании).
THEOREM NothingChosenArbitrarilyHolds == Spec => []NothingChosenArbitrarily
<1>1. Init => ChoiceInv
  BY DEF Init, ChoiceInv, NothingChosenArbitrarily
<1>2. ChoiceInv => NothingChosenArbitrarily
  BY DEF ChoiceInv
<1> QED BY Initially, Inductive, ChoicesInductive, <1>1, <1>2, PTL DEF Spec
=============================================================================
