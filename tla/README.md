# DnDAssistant: a verification development

DnDAssistant helps a game master run a D&D campaign.  It has two programs:

* a **1C configuration** (`src/` of the repository, BSL modules and metadata) that
  owns all campaign data: characters, wallets, relations, locations, game time,
  calendar, journal;
* a **Python bridge** (`ai-bridge/`) that lets a local language model answer
  questions over that data through read-only tools the configuration publishes
  over HTTP.

The modules in this directory model the parts of both whose behaviour is decided
by order, interleaving, limits, arithmetic and failure.  TLC checks them on small
instances, TLAPS proves the theorems of the `*Proofs` modules for every value of
the constants.  `PROJECT.json` lists, machine-readably, the components, the runs,
the source lines of every definition, the hazards and the theorems.

Paths below are relative to the repository; `bridge` stands for
`ai-bridge/src/dnd_ai_bridge`, `CM` for `src/CommonModules`.

## 1. Inventory

### 1.1 The Python bridge

| component | state it keeps | operations | hard behaviour | what makes it correct |
|---|---|---|---|---|
| Agent runtime (`bridge/agent`, `bridge/tool_registry.py`) | per run: transcript, registry snapshot, two counters, the batch being executed | `run` | three awaits per turn with cancellation at each, limits, a registry that moves meanwhile, tool results without call ids | read-only policy, limits on what is *started*, an ordered transcript, batches refused as a whole, honest errors, termination |
| HTTP API and composition (`bridge/api`, `composition.py`, `service/`) | process phase, the two HTTP clients | lifespan start and stop, `POST /v1/agent/run`, `/health` | runs in flight while the process stops, closing one client fails | one answer per request, its status says how the run ended, clients outlive runs and are closed |
| Ollama client and provider (`ollama_client.py`, `ollama_provider.py`) | per stream: what was read, first meaningful time | `chat`, `stream_chat`, diagnostics | NDJSON that ends early, goes on after its end or is cut; hidden chunks; measuring | exactly one final chunk, no word lost, measurements that fit the chunks |
| Offline benchmark (`bridge/benchmark`) | progress through scenarios, modes and repetitions; JSONL file | `run` | the model's load state belongs to another process; kill between two records | cold means cold and warm means warm, synced records survive, every repetition has its record |
| 1C client (`onec_client.py`) | connection pool | `health`, `list_tools`, `call_tool` | a request given up by its timeout is still on its way, statuses, bodies that are not the contract | every failure is typed, no call is repeated, a refusal is told from a failed call |
| CLI and configuration (`cli.py`, `config.py`) | the command in progress | diagnostics, `benchmark`, `serve` | settings missing or malformed, a command that fails half-way | the exit status and what is printed say what was done |
| Conversion of tools for Ollama | none | – | pure function | – |

### 1.2 The 1C configuration

| component | state it keeps | operations | hard behaviour | what makes it correct |
|---|---|---|---|---|
| Wallet (`CM/КошелекПерсонажа`, `Documents/ОперацияКошелька`) | coins per character, an accumulation register | post, post again, unpost an operation; change-making | greedy payment with change, concurrent postings, withdrawal of spent income | value conserved by change, the price charged exactly, no coin spent twice |
| Game calendar (`CM/ИгровойКалендарь`) | none | minute to date and back | leap years, feasts between months | the conversions are inverse, days follow each other as in the calendar |
| Relations (`CM/СвязиСущностей`, `get_relations`) | register of typed links | add (or update), delete, list | symmetric pairs stored one way, check then write, a form that bypasses the module | no link across campaigns, a relation listed once and at both ends |
| Active campaign and character (`CM/УправлениеКампаниями`, `CM/УправлениеПерсонажем`) | session parameters, saved settings | set, get, initialise | items deleted or moved after they were chosen | a session never works with a character of another campaign |
| Game time (`CM/ИгровоеВремя`) | minute of each campaign | get, set, change | read, add, write without a lock | no change that overlaps no other is lost |
| Location and context (`CM/ТекущаяЛокация`, `CM/КонтекстАссистента`) | current location of a campaign | get, set, clear; collect the context | reads of state others change, one after the other | undisturbed, the context is the state of one campaign |
| Journal (`CM/ЖурналКампании`, `CM/СвязиЖурнала`) | entries with a game minute, links | add, list by period, link (nothing calls them) | minute 0 means "no time" and the first minute | every timed entry belongs to a period |
| Events (`CM/СобытияКалендаря`, `CM/СобытияКампанииСервер`) | events with a status | create, complete, cancel, period, agenda | check then write, closed intervals, events without an end, a sorted list cut to a limit | no ended event ends otherwise, period and agenda agree, a page leaves out only what comes later |
| Locations (`Catalogs/Локации`) | the tree of places | write | two simultaneous moves | no cycle, one campaign per tree |
| HTTP service and tools (`CM/HTTPИнтерфейсАссистентаСервер`, `CM/ИнструментыАссистентаСервер`, `CM/ПоискСущностей`) | none | one HTTP request, one tool | order of the checks, sorted lists cut to a limit | one status per failure, tools only read |
| Library БСП, forms, roles | – | – | third-party or metadata | – |

### 1.3 Interactions

Inside each program components call each other.  The bridge sends HTTP requests to
1C (`list_tools`, `call_tool`) and to Ollama (`chat`, `stream_chat`); both ends fail
independently, nothing is retried and the bridge persists nothing but the JSONL file.
In 1C every call runs in a session; sessions share the database only.  Document
handlers run in the transaction of the write, the procedures of common modules run
without one, and no module takes a managed lock - which decides where steps of two
sessions may interleave.

## 2. Modules

### 2.1 `ToolLoop`, `AgentRuntime`, `AssistantApi`, `OneCExchange`, `AgentExchange`

`ToolLoop` is the abstract promise of an agent run: one model or tool at work at a
time, a bounded number of completions and calls, permitted tools only, the
permission decided once, nothing after the end.

`AgentRuntime` is `AgentRuntime.run` with `ToolRegistry.load_tools` and
`_validate_tool_calls`.  `Runs` of one object share nothing but the registry of 1C.
A step is what the coroutine does between two awaits: `ToolsLoaded`/`LoadFails`
after `list_tools`, `ModelAnswers`/`ModelFails` after `complete`, `ToolAnswers`/
`ToolFails` after `call_tool`; `Cancel` at any of them; `RegistryChanges` is 1C
changing its tools at any moment.  `conversation` is the transcript, `pending` the rest
of the batch with the call in flight at its head, `iterations` and
`total_tool_calls` the counters of the code, `asked` and `sent` count what was
*started* and are history.  Message text is abstracted to blank or not, arguments are
left out.  The refinement is `KeepsPromise`.

`AssistantApi` EXTENDS `AgentRuntime` with the process around it: `Startup`, `Request` and
`InvalidRequest`, the exception handlers that answer in the step that ends a run
(`Proceed`, `ReplyFor`), cancellation by the server, draining, and the two closes
with the `finally` between them.  uvicorn's waiting for requests is external.

`OneCExchange` is one HTTP exchange between a caller of `OneCClient` and the HTTP
service of 1C.  `wire` holds the message of each caller, the request and later the
response; `served` is history and lists the calls that reached the dispatcher of 1C.
`ServeHealth`, `ServeTools` and `ServeCall` are the handlers of the service,
`Refusal` its checks in their order, `Publication` the web server that answers in place
of 1C.  `Code` is what the client makes of a response (`_validate_http_status`,
`_safe_transport_error`, `_parse_success_json`).  A message that is never handled or
never received is a lost one, and a caller that gives up leaves its request on the wire.

`AgentExchange` composes the two: `AgentRuntime` with an exchange in place of the
assumption that 1C answers or fails.  Its actions are those of `AgentRuntime` joined
with what happens on the wire (`Begin`, `Loaded`, `NotLoaded`, `ModelSpeaks`, `Answers`,
`CallFails`, `NotEncoded`, `GiveUp`, `Abandon`) and the steps of the service (`Serve`), so
what 1C has carried out can be compared with what the run and its model know.  The
theorem `ExchangeImplementsLoop` says that it implements `AgentRuntime`, which
implements `ToolLoop`.

A failure of 1C while the tools are listed reaches the client of the API as 500
`internal_error`; the same failure during a call is 503 `tool_transport_failure`
(`runtime.py:49` against `:121`).  The model has both answers as the code gives them.

### 2.2 `Coins`, `MoneyExpense`, `Wallet`

`Coins` holds the operators of `КошелекПерсонажа`: nominals, what an exchange gives
(PP into GP, GP into SP, EP into SP, SP into CP), which coins fit a sum, and `Turn`, one turn of
the payment loop, which the document takes until nothing is due.

`MoneyExpense` is `РассчитатьДенежныйРасход` as a machine: one step is one turn of its
`Пока` loop, `TakeCoins` when a coin fits, else `ExchangeCoin`.

`Wallet` is the document `ОперацияКошелька` and its register.  `Read` is the part of a
posting up to the change - `ПередЗаписью`, the checks, the balance without the
document's own movements - `Pay` a turn of the payment loop of a money expense, and
`Commit` the movements becoming visible; `balance` holds the totals the platform keeps of
the movements.  Other transactions may commit in between, because the balance query takes no lock and the
configuration uses the managed lock mode (read committed).  `Rollback`, `Unpost` and
posting again are there; clearing a document's own movements is the platform's default
(the `.mdo` does not change it).  `raced` and `withdrawn` are history and name the
characters for whom a posting used a stale balance or lost a posting.

Two remarks on the code.  The check "Ошибка авторазмена" (`ObjectModule.bsl:263`)
compares СтоимостьДо + СтоимостьИзменения with СтоимостьДо - СтоимостьРасхода: it does
not depend on the balance and fires exactly when the change of coins is not worth minus
the price.  `ValueKept`, a conjunct of the proved `PaymentInvariant`, says with due = 0
that this never happens, so `Wallet` has no branch for it.  ИгроваяМинута is stamped in
the model but read by nothing in it.

### 2.3 `Harptos`, `Calendar`

`Harptos` is a wall calendar: twelve months of thirty days, five feasts, Shieldmeet in
every fourth year, and the page that follows a page.  `Calendar` has the arithmetic of
`ИгровойКалендарь` (`YearOf`, `YearStart`, `MonthStart`, `FeastDay`, `DateOf`,
`MinuteOf`, the checks of typed dates) and walks through game time with the additions of
`ИгровоеВремя`; `FollowsTheCalendar` says that the dates it shows turn like the pages of
`Harptos`, page by page (`PageOf`).

### 2.4 `OllamaStream`

One streamed completion: Ollama sends any lines and the connection closes, breaks or
falls silent at any point; `Read` is one turn of the loop of `stream_chat` together
with the body of the loop of `OllamaProvider.stream`, `Finish` what follows the loops,
`Refused`, `TimedOut` and `ConnectionLost` the error paths.  A line is a chunk (text of
words and white space, tool calls, final or not), an empty line or garbage.  What httpx
does when the body of a streamed response is read too late (`ResponseNotRead`) is
knowledge about the library, not about this repository.

`AnswerIsWhole` compares what was yielded with what the model sent up to white space,
chunk by chunk at the same place among those that say something (`Telling`, `Place`):
a chunk of white space only is hidden (`ollama_provider.py:98`), so two words sent with
a separate space between them arrive joined, whereas `complete` keeps the text as it is
(`:103`).

### 2.5 `BenchmarkRunner`, `Cli`

The loops of `BenchmarkRunner.run` flattened into `Plan`, and the steps of one
repetition: `Unload` or `WarmUp`, `Verify` against `/api/ps`, `Measure`, `Streamed`,
`Inspect`, then `Write` and `Sync` of `JsonlResultWriter`.  `Chunk` is a chunk of the
warm-up or of the measured stream and the loop asking for the next: there may be any
number, because the timeout of httpx bounds each read and nothing bounds the reads.
`OtherUse` is any other program loading or unloading the model, and `Begin` starts the
command again on the same file.  `streams`, `state` and `disturbed` are history kept per
repetition.  That a stream which ends has had a final chunk is
`EndsWithItsOnlyFinalChunk` of `OllamaStream`.

The file is a text, the sequence of its pieces: the JSON of a record, a torn part of one,
the end of a line.  `WriteFails` (an `OSError` of the write, or of fsync after it) and
`Kill` leave any of them at its end, and `Write` puts its line behind whatever is there,
as `append` does.  A reader of JSONL finds a record only where its JSON is all a line
holds (`Readable`, `Records`), and all properties of the file speak of these records.  So
a benchmark begun behind an unfinished line loses its first record, which becomes part
of that line, and it ends with exit status 0 and reports the record all the same: this
the code does (`output.py:23`), against `ai-bridge/README.md:210` ("каждый repetition -
отдельная JSONL-запись").  `ReportIsTrue` says that this is the only record ever lost
(`Lost`) and `RecordsAreDurable` that a confirmed one never is.

`Cli` EXTENDS it with the command line: one command after another at one terminal.
Every command loads its settings first (`Loads`, `Misconfigured`; of a value only
missing, malformed and good are told apart); `health`, `tools` and `call` are one request
over an instance of `OneCExchange` (`Request`, `Answer`, `BridgeError`, `GiveUp`),
`benchmark run` is the machine of `BenchmarkRunner` (`StartBenchmark`, `BenchmarkStep`,
`WriterRaises`, `Killed`), `list-models` and `serve` are a step and a state.  `exit` is
the exit status: "ok" 0, "error" 1, "usage" 2, or a traceback or a kill.

### 2.6 `Relations`

The register of relations by its dimensions, and the procedures of `СвязиСущностей` as
sessions run them: `Add` and `Delete` pass the checks and read whether the type is
symmetric, `Find` runs the query, and `Create`, `ReadRecord`/`WriteRecord` or `Remove`
follow, each a step of its own.  `Enter` and `Erase` are the standard form of the
register: it is the only writer the configuration has today and bypasses the module,
whose procedures no other module calls yet.  Around them entities are marked (`Mark`) or
given to another campaign (`Move`), and types become symmetric or directed (`Switch`).
`Items` is the list of `get_relations` from `ПолучитьСвязи` over the direction and the
key of deduplication to the filter by campaign and deletion mark.  A relation is
`Standing` while both its ends belong to its campaign and are not marked: that is what
`ShownAtBothEnds` expects to see, and all it expects.  It does not follow a relation whose
two ends moved to another campaign together: the register keeps it under the former
campaign, and no list shows it.  `disturbed` and
`moved` are history: calls overlapped or a form changed something; entities moved while
calls were in progress.

### 2.7 `GameSession`

The sessions of one user: `campaign` and `character` are the session parameters,
`savedCampaign` and `savedCharacter` the saved settings, `clock` and `current` the
registers of game time and current location, `open`, `home` and `place` what catalog items
say of themselves.  A session carries out one call at a time and every access to the
base is a step (`step` is where it is in its call, `then` where a call within the call
returns to, `arg` its local): `GetCampaign` over the saved setting and the only active
campaign, `SetCampaign` and `SaveCampaign` with the character of the former campaign
dropped, the same for characters, `SetClock` and `MoveClock`/`WriteClock`,
`SetLocation`/`WriteLocation`, and `GetContext` with its reads in their order.  `Restart`
ends a session at any point, `Edit*` are users changing catalog items.  `by`, `amount`,
`overlapped`, `edited`, `chosen`, `strayed` and `disturbed` are history.

An access to the base may raise (`Raises`, and the second halves of `SaveCampaign`,
`SaveCharacter` and `ResetCharacter`).  For the settings the vendored library says when:
a user without the right СохранениеДанныхПользователя gets an error from Сохранить, which
its wrapper avoids (`CM/ОбщегоНазначения`) and these modules do not use.  The call ends
there, and the session parameters set before stay as they are - that the platform does
not roll them back is an assumption about it.  In `УстановитьАктивнуюКампанию` this
leaves the new campaign (`:67`) with the character of the former one, whose reset (`:73`)
is not reached, against the comment at `:49`.  `ПолучитьАктивногоПерсонажа`
(`УправлениеПерсонажем:99`) returns it without a check, and choosing the same campaign
again does not help, since КампанияСменилась is false then; `RecheckCharacter`
(`ИнициализироватьАктивногоПерсонажа`), a new choice of the character or a new session
does.  `ChoicesWereValid` names these sessions (`strayed`) as its one exception: in every
other case the character belongs to the campaign or was edited itself.

`УстановкаПараметровСеанса` of these modules is referred to by no handler table of the
configuration, so a session starts with empty parameters and initialises them on the
first access; that an unset parameter reads as empty is an assumption about the
platform.  The comment of the context speaks of a consistent set ("согласованный
набор"): it is one only if nothing is written while it is collected, as
`UndisturbedContextIsTrue` says.

### 2.8 `CalendarEvents`

The catalog of events, the module that makes and ends them (`Create`; `Ask` checks
status and owner, `SetStatus` or `Refused` fetches the object and writes or raises), and
the standard form that changes anything (`Reschedule`, `Restate`, `Mark`, `Move`).  That the
platform refuses to write an object changed since it was fetched is an assumption about
it; the fetch and the write are therefore one step, the check before them another.
`OfPeriod` is `ПолучитьСобытияПериода`, `Within`, `Onwards`, `SortKey` and `Agenda` are the
queries, the order and the limit of `get_calendar_agenda`.

Remarks on the code.  An event entered in the form without an end has Окончание = 0,
whereas `СоздатьСобытие` sets Окончание = Начало; the agenda shows both, the list of the
module leaves the former out.  An event the form made end before it starts is still
listed in the open agenda, as long as its start is not past.  Completing a
cancelled event is refused with "Событие уже завершено", ending an event as it is ended
already returns silently.  An agenda asked for with an end only, while the clock is
later, gets a start after its end and shows the events that last from one to the other.
The limit of the agenda is the query parameter in "ВЫБРАТЬ ПЕРВЫЕ &Предел"; whether
every release of the platform takes one there is not decided in the repository
(`СвязиЖурнала` writes the number into the text instead).

### 2.9 Modules for TLC and for TLAPS

`MC*` modules give constants their values.  The theorems are in a module beside each
part: `AgentProofs` (the loop, the service and the exchange), `WalletProofs` (payment and
documents), `CalendarProofs`, `OllamaStreamProofs`, `RelationsProofs`,
`GameSessionProofs`, `CalendarEventsProofs` and `CliProofs` (the benchmark, the commands
and their exchange with 1C).  Each EXTENDS the modules it proves about.  No module is recursive: the payment, which is a
loop in the code, is taken turn by turn.

## 3. What TLC checks

Every property of a passing run has a mutant: a plausible bug in a definition
(`PROJECT.json`, "mutants") under which TLC finds the property violated.  The mutants
are the operators marked `Mutant:` in the modules.

| run | instance | properties | what it shows |
|---|---|---|---|
| `agent_runtime` | `MCAgentExchange`: one run, two tools, 3 completions, 3 calls, batches up to 2, a caller that replays an unfinished exchange | `OnlyReadOnlyToolsSent`, `LimitsKept`, `ModelSeesEveryResult`, `RefusedBatchNeverStarted`, `ModelSeesWhatWasDone`, `CarriedOutOnce`, `RunsEndWithoutOneC` | the policy, the limits and the transcript, with 1C behind a wire that delays, loses and falsifies, and a run that ends although 1C never answers |
| `api` | two requests, one tool, 2 completions, 1 call, batches up to 2 | `KeepsPromise`, `ClientsOpenWhileAtWork`, `StopsClean`, `EveryRequestIsAnswered` | the loop implements `ToolLoop`; requests, shutdown and failing closes in every order |
| `money_expense` | purses with 0-4 of each coin, overdrawn ones included; prices around every nominal | `PaymentInvariant`, `NoNeedlessChange`, `PaymentEnds` | exact value, change only when it is needed, no internal error, an end |
| `wallet` | three documents of one character, two transactions at a time, entries of all four kinds and two that are refused | `PriceIsCharged`, `SolventUnlessDisturbed` | postings, repostings, withdrawals and rollbacks in every order |
| `calendar` | walks over the ends of years, a leap year from 1 Элейнт on, the years 1489 to 1492, ends of years by minutes | `DatesLeadBack`, `FollowsTheCalendar` | outside Элеасис of a leap year dates are those of the calendar and lead back |
| `ollama_stream` | up to four lines of every kind, a clock of three readings | `EndsWithItsOnlyFinalChunk`, `AnswerIsWhole`, `MetricsFitTheChunks`, `WholeAnswersAreAccepted` | streams whole or cut at any point, and every way a connection ends |
| `benchmark` | `MCCli`: a diagnostic command, or two benchmarks of one scenario, cold and warm, into one file | `CompletionsAccountedFor`, `UndisturbedMeasurementsAreTrue`, `CallOutcomeIsTold`, `ReportIsTrue`, `FailureAddsNothing`, `RecordsAreDurable`, `CommandsEnd` | what exit status and output tell the user is true, under failures of 1C, of Ollama and of the file, streams without an end, other users of Ollama and kills at every step; the one record a later benchmark may lose |
| `game_session` | two sessions, two campaigns, two characters, one location, minutes 0..2; 5 calls, 1 edit | `ChoicesWereValid`, `NothingChosenArbitrarily`, `UndisturbedContextIsTrue`, `ClockAddsUp` | interleaved calls, each access of which may raise, restarts in the middle of a call, catalog items edited at any moment |
| `relations` | two sessions, two entities of a campaign, one of which may be marked or moved, a symmetric and a directed type, the former switchable | `CallsTakeEffect`, `ShownOnce`, `ShownAtBothEnds`, `CampaignsStayApart` | interleaved calls, records made by hand, entities and types that change meanwhile |
| `calendar_events` | two sessions, two campaigns, three events, one of them edited in the form, minutes 0..2, limits 1 and 2 | `AgendaIsTrue`, `PagesAreWhole`, `StatusChangesAreDue` | races of completing and cancelling, point and reversed events, pages cut anywhere |

Runs that end in a violation, each a disagreement between the code and its own words:

| run | property | disagreement |
|---|---|---|
| `wallet_race` | `SolventUnlessWithdrawn` | two concurrent postings pass the same check of the balance and spend the same coins |
| `calendar_leap` | `DatesAreAccepted` | in a leap year the month after Shieldmeet starts a day early in `СмещениеНачалаМесяца`, so a date is shown with day 31, which cannot be typed in |

### Bounds, and why they are enough

* *Agent.*  Two tools make a batch with one permitted and one refused call; limits of
  three let each limit be reached before the other and inside a batch, and leave a call
  answered, one given up and still on its way, and none after it.  One run is enough on
  the wire, because each call has its own message.  The proofs remove the bounds.  Two concurrent runs (`api`) suffice for interference, as
  runs share only the registry and the server.
* *Payment.*  Every exchange happens from some purse of the set, and prices lie at,
  below and above each nominal; the proofs remove both bounds.
* *Wallet.*  An income and two expenses are the smallest history in which coins are
  spent twice, so three documents; two open transactions make the race.  Characters do
  not interact except by being in one campaign.  `Minutes` is the one value 0, the
  unset clock: nothing in the model reads it.
* *Calendar.*  The arithmetic has a period of four years, and both kinds of year are
  walked over; the theorems cover every minute.
* *Stream.*  An empty line, a hidden chunk, a shown one and the final one: four lines.
  Final-chunk safety is proved for any number.
* *Benchmark and command line.*  A kill or a failed write in the first run and a second run
  behind what it left, the unfinished line included; a cold and a warm repetition one
  after the other, so one record is lost and one is not.  Only the benchmark leaves anything
  behind for a later command, so the other commands are explored as the first one.
* *Sessions.*  Two sessions make every race of two steps; two campaigns and two
  characters make a choice between several and a character of the wrong campaign.  Five
  calls let each session choose, change and read; one edit spoils any one choice.
  `SmallInit` starts with both campaigns open, no character saved and clocks at 0: what
  is saved or closed otherwise is saved or closed by a step.  The theorems have neither
  bound.
* *Relations.*  `Asked` bounds the keys: both directions of the symmetric relation and a
  directed one.  `Markable`, `Movable` and `Switchable` name the one entity and the one
  type that change; one record across campaigns comes from a move.
* *Events.*  Three events exceed both limits, and two that are equal in time leave the
  order to the reference.  `NewTimes` has a point event, one that lasts and one that is
  refused, `FormTimes` an event without an end and one that ends before it starts.
  Minutes 0 to 2 give before, within and after.

Deadlock is not an error in these models: runs, requests, payments, walks and streams
end.

### Fairness

* `FairExchangeSpec`: the steps of the client (`ClientStep`) are weakly fair, its giving up
  among them: every request of both clients has a timeout.  Nothing is assumed of 1C or
  of the network.
* `FairApiSpec`: a run's awaits end, for the same reason; uvicorn's shutdown goes on by
  itself.  Requests, the decision to stop and cancellations are not fair.
* `MoneyExpense!FairPaymentSpec`: the `Пока` loop runs inside a procedure call.
* `OllamaStream!FairSpec`: the iteration goes on while there is something to read.
  Ollama itself is not fair - it may stay silent, and no total timeout bounds an
  answer, see the hazards.
* `FairCliSpec`: the steps of a command (`Progress`) are weakly fair: each read of an
  answer returns or times out, and writes return.  Nothing is assumed of the number of
  chunks, a stream may go on for ever (`Chunk` is such a step).  So `CommandsEnd` says
  that a command ends unless it reads one single stream for ever: `CommandsEnd` without
  this exception is violated.  A kill ends a command too, which counts as an end.

Answers that are not streamed are taken as one read.  A server that sends the bytes of
such an answer one by one for ever, each within the timeout, is outside the models.

## 4. What is proved

All theorems hold for every value of the constants that satisfies the named
assumptions of the module (`LimitsAssumption`, `NoToolAssumption`,
`ConversationsAssumption`, `PaymentAssumption`, `WalletAssumption`, `WalksAssumption`,
`StreamAssumption`, `BenchmarkAssumption`, `BoundsAssumption` of `Relations` and of `CalendarEvents`, `NoneIsNothing`,
`MinutesAreNumbers`), which only type the constants and keep the special values apart
from the ordinary ones.

One theorem has a hypothesis of its own, `FollowsTheCalendarHolds`.

### The agent: `AgentProofs`

* **The loop.**  `LoopInvariantHolds` for any number of runs and tools.  The safety
  properties are not inductive: the limits follow only if the counters agree with what
  is in flight (`CountersAgree`: a live run has requested exactly one more than was
  answered), and the read-only policy only if the whole batch being executed is permitted
  by the snapshot (`BatchPermitted`).  `LoopInvariant` is their conjunction;
  `OnlyReadOnlyToolsSentHolds`, `LimitsKeptHolds` and `ErrorsAreHonest` follow.
  `LoopKeepsPromise` is the refinement of `ToolLoop`, with one lemma for the part all
  steps share (`NextCallKeepsPromise`).
* **The transcript.**  `ModelSeesEveryResultHolds`: `TranscriptFits` says of every state
  where the transcript stands - whole while the model is asked, and during a batch whole
  but for one assistant message, whose calls are answered up to the rest that is pending
  (`BatchAt`).
* **The service.**  `ClientsOpenWhileAtWorkHolds`: what is in flight keeps the lifespan
  from going on to its closes, and until then both clients are open
  (`ServiceInvariant`).  `ServiceImplementsLoop`: the requests of the service are runs of
  `AgentRuntime`, hence `ServiceKeepsPromise`.
* **The exchange.**  `CarriedOutOnceHolds`, for any number of runs and tools: what 1C
  carried out agrees with what the run has sent, and a call on the wire is the one sent
  last and not carried out yet, while an answer is that of the call carried out last
  (`ExchangeInvariant`).  So no call is carried out twice, out of turn or uninvited,
  however late the wire delivers it.  `ModelSeesWhatWasDoneHolds` needs that the results
  in the transcript are as many as the answered calls and each the answer 1C gave at
  that place (`Reported`).  `ExchangeImplementsLoop` is the refinement: every step of the
  composition is a step of `AgentRuntime` or leaves it alone (`StepIsLoopStep`), so the
  theorems about the loop hold with the wire in place.

### The wallet: `WalletProofs`

* **A payment.**  `PaymentInvariantHolds`: `ValueKept` and `EnoughLeft` carry the rest - as
  long as something is due, the purse is worth it, so some coin is positive and, when
  none fits, is worth more than the sum, hence is not copper (`SomethingToBreak`):
  `NeverStuckHolds`.  `EveryTurnShrinksHolds` is a variant: `due + Weight` decreases with
  every turn, which bounds the loop.  `NoDeeperDebtHolds`, `OnlyTooLargeCoinsBrokenHolds`.
* **No needless change.**  `NoNeedlessChangeHolds`: the invariant `StaysExact` says that
  while the price can be paid exactly out of the wallet, what is due can be paid exactly
  out of the purse, and nothing has been exchanged.  Taking the largest coins first keeps
  it because every kind but copper is worth a whole number of the next smaller one:
  chosen coins that are worth enough hold some worth exactly the coins taken instead
  (`SilverMadeUp`, `ElectrumMadeUp`, `GoldMadeUp`, `CoinsMadeUp`), so the others pay the
  rest (`TakingLeavesAChoice`).
* **The documents.**  `PriceIsChargedHolds` and `SolventUnlessDisturbedHolds`, for any
  number of documents, characters and open transactions and any sums.  `WalletInvariant`
  adds what an open transaction may rely on (`WorkedOut`): its entry was accepted, and the
  purse it pays from is short of what was paid and of nothing else.  The loop of the
  payment is part of the machine, so no fact about a whole payment is assumed.

### The calendar: `CalendarProofs`

* `YearsAreExactHolds`, `DatesLeadBackHolds`, `OrdinaryDatesAreAcceptedHolds` and
  `TypeCorrect`, for every minute.  They rest on lemmas about the years of a cycle
  (`YearsExactFor`) and about the days of a year (`MonthStarts`, `OrdinaryFeastDays`,
  `OrdinaryDayOfMonth`).
* `FollowsTheCalendarHolds` is the refinement of `Harptos`.  Its hypothesis is on `Walks`:
  they start at their right page, step by at most a day and visit no day from 214 to 243
  of a leap year (`Shifted`), which are the days the code shows wrongly
  (`DatesAreAccepted` is violated there).  The walks of the run `calendar` satisfy it.
  Two minutes at most a day apart are on one day, on two successive days of a year or on
  the last of a year and the first of the next (`ADayLater`); and the page of a day is
  followed by that of the next (`PageTurns`, `YearTurns`), because every day of a year is
  one of the thirty of a month or a feast (`EveryDayHasAName`).  There is no bound on the
  year.
* `RefusedDates` says how far the disagreement of `calendar_leap` goes: the date of day 243
  of a leap year is refused, and no other.

### The stream: `OllamaStreamProofs`

* `TypeCorrect` and `EndsWithItsOnlyFinalChunkHolds`, for streams of any length; the
  invariant is that a final chunk among those yielded is the last and that `sawDone` says
  so (`FinalIsLast`).
* `AnswerIsWholeHolds`: the chunks yielded agree with the lines read so far, one by one
  among those that say something (`Whole`).  `MetricsFitTheChunksHolds`: the first time is
  that of the first chunk that says something, and lies between start and clock
  (`Timed`).

### Benchmark and command line: `CliProofs`

* `CompletionsAccountedForHolds` and `UndisturbedMeasurementsAreTrueHolds`, for any plan of
  scenarios, modes and repetitions: `RunnerInvariant` says how many completions were
  requested at each place of the loops and in which state, and that every record in the
  file was true when it was made.  `RecordsAreDurableHolds` needs that what is confirmed
  ends with a line (`SyncedLines`): then a confirmed record has confirmed neighbours, and
  no later step can put anything on its line.  `CommandLineRunsTheRunner` carries all
  three over to the command line.
* `CallOutcomeIsToldHolds`: `ExchangeInvariant` relates what is on the wire to what 1C has
  carried out, so that a refusal is proof that nothing was and nothing will be.
* `ReportIsTrueHolds` and `FailureAddsNothingHolds`: the file has grown by a record and a
  line end for every repetition so far, each at its place, and the report counts them
  (`Counted` in `ReportInvariant`); no earlier record has the same run_id (`RunsAreNew`).
  Each of these records stands between two line ends, but for the first when the text
  before it does not end a line (`WhatCanBeRead`): that one is `Lost`, and the report
  exceeds the records a reader finds by it (`OneLess`).

### Sessions, relations, events

* **GameSessionProofs.**  `ChoicesWereValidHolds` for any number of sessions and without
  the bounds on calls: what a session is about to save passed its check (`StepsFit`), and
  the parameters stay as they were when its call began.  An access that raises keeps both
  but in one place, which `strayed` records: saving a change of the campaign.
  `NothingChosenArbitrarilyHolds`:
  whatever is saved was picked once, so a call that trusts a saved reference trusts a
  choice, and what was taken unasked had no other beside it but those edited since
  (`ChoiceInv`).  `ClockAddsUpHolds`: a move under way writes what the
  clock still shows plus its shift, unless another change overlapped it (`MovesFit`).
  `UndisturbedContextIsTrueHolds`: what a session has read so far is still the state of
  the campaign (`Fit`), because a step of another session either writes, and disturbs it,
  or changes nothing it reads (`Calm`).
* **RelationsProofs.**  `CampaignsStayApartHolds`.  The property is about what a step
  writes; the invariant says what a call in progress may rely on (`CallFits`): the key it
  adds passed `ПроверитьВозможностьОперации`, or one of its entities moved since
  (`Allowed`), and so would the record it is about to update, since that is another form
  of the same relation (`SameRelationFits`).  `CallsTakeEffectHolds`: as long as nothing
  interferes, one call at most is in progress, the register holds no relation twice
  (`NoTwins`), and the call knows the record it is about (`InStep`).  `ShownOnceHolds` and
  `ShownAtBothEndsHolds` are about the list, for every register whatsoever, also one with
  a relation stored twice or moved at both ends, which the run is too small to reach.
* **CalendarEventsProofs.**  `StatusChangesAreDueHolds`, from an invariant on calls that
  have passed their check: the event exists and, unless it was written since, is not
  over and of the caller's campaign (`CallsFit`).  `AgendaIsTrueHolds`: the two rules for
  the overlap of an event with a period mean that it takes place at a minute of it, for
  all minutes.  `PagesAreWholeHolds`: the events are finitely many (`Finitely`), so the
  places in the total order of the agenda are numbers without a gap (`PlacesAreNumbers`),
  and a page of any limit is the first of them.

### What is left to TLC

Every invariant and action property of the passing runs is stated by a theorem.  Left to
TLC are liveness (`PaymentEnds`, `StopsClean`, `EveryRequestIsAnswered`,
`WholeAnswersAreAccepted`, `RunsEndWithoutOneC`, `CommandsEnd`) and the two violated
properties.  Three things about the provers have shaped the modules: the induction
theorems of the library take an operator and cannot be used, so arguments over the whole
of a sequence are put as invariants of the step that adds an element, or as counting
(`FiniteSetTheorems`); `SelectSeq` means nothing to the provers, so properties of a
filtered sequence compare sets of places (`Telling`, `Place`); and the payment is a
machine, not a recursive function.  `EveryTurnShrinks`, `YearsAreExact`,
`OrdinaryDatesAreAccepted` and the other properties of theorems without a run were
checked by TLC before they were proved; no run repeats them.

## 5. What is not modelled, and why

* Texts: prompts, messages, serialised results, log lines, date inscriptions.  No
  control depends on them beyond blank or not.
* The journal and its links: nothing in the configuration calls them but themselves.  An
  entry at minute 0 would belong to no period; what `ДобавитьСвязь` of the links does
  rests on what the platform returns for a record that is not there, and the order of
  entries on the date it gives a new document.
* Entity search and the argument checks of the tools; of `get_relations` the sort and the
  limit, of the context the calendar view of the minute (a function of it, `Calendar`)
  and the balance of the purse (`Wallet`).
* The tree of locations, with the platform's own treatment of hierarchies; notes.
* `/health` of the bridge, conversion of tools, scoring and scenarios: no state.
* Wallet: a document saved without posting (it is stamped with the clock and moves
  nothing).
* The 1C platform, httpx, uvicorn, Ollama and the operating system are external; the
  assumptions about them are named above.
* The vendored library БСП, forms, roles.

## 6. Plan

In order, with the hazards of `PROJECT.json` that each step is for:

1. **`LocationTree`**: the checks against cycles and mixed campaigns, read before the
   write they guard, with what the platform refuses stated as an assumption.
2. **Entity search**: names and aliases as members of a small set; a name resolves to one
   entity of the campaign or to an ambiguity.
3. Runs to add for statements of the repository that the code does not keep, seen while
   modelling: posting and withdrawing one after the other leaves a negative balance
   (`ObjectModule.bsl:315` against `:92`); a refused stream leaves the client as an httpx
   error (`ollama_client.py:94` against `docs/architecture.md:328`); a failure of 1C while
   its tools are listed is not typed (`runtime.py:49`); a measurement disturbed between
   `/api/ps` and the request (`runner.py:214` against `ai-bridge/README.md:202`); the order
   of `get_relations` when two types have no code.
4. Theorem to add: a bound in turns for `Pay` of `Wallet`, from the variant of the payment.
