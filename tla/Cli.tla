--------------------------------- MODULE Cli ---------------------------------
(***************************************************************************)
(* The command line of the bridge (cli.py): one command after another at   *)
(* one terminal, their configuration, what they ask of 1C and of Ollama,   *)
(* what they print and their exit status.  The diagnostic commands go over *)
(* OneCExchange, `benchmark run` is BenchmarkRunner.                       *)
(***************************************************************************)
EXTENDS BenchmarkRunner, FiniteSets

CONSTANTS
  Tools,  \* names `call` is given
  Blank   \* a name of spaces only

VARIABLES
  wire, served,  \* the exchange with 1C
  command,       \* the command in progress, or the last one
  exit,          \* its exit status: "ok" is 0, "error" 1, "usage" 2
  shown,         \* what it printed: an answer, or the code of an error
  before,        \* length of the output file when it was started
  report         \* results of BenchmarkRunner.run so far

exchange == <<wire, served>>
cli == <<command, exit, shown, before, report>>
cliVars == <<vars, exchange, cli>>

Terminal == "terminal"

OneC == INSTANCE OneCExchange WITH Callers <- {Terminal}, Offers <- {Tools}

-----------------------------------------------------------------------------
(* The settings of config.py: which must be set, which are checked.        *)

Setting(name, required, checked) ==
  [name |-> name, required |-> required, checked |-> checked]

BridgeSettings ==
  {Setting("onec_base_url", TRUE, TRUE), Setting("onec_username", TRUE, FALSE),
   Setting("onec_password", TRUE, FALSE), Setting("onec_timeout_seconds", FALSE, TRUE)}
OllamaSettings ==
  {Setting("ollama_base_url", FALSE, TRUE), Setting("ollama_timeout_seconds", FALSE, TRUE)}
AgentSettings == {Setting("model", TRUE, TRUE)}
ServerSettings == {Setting("host", FALSE, TRUE), Setting("port", FALSE, TRUE)}

Refuses(setting, value) ==
  (value = "missing" /\ setting.required) \/ (value = "malformed" /\ setting.checked)

Diagnostics == {"health", "tools", "call"}
Commands == Diagnostics \cup {"list-models", "benchmark", "serve"}

\* What a command loads before anything else; the benchmark never needs 1C.
Loads(c) ==
  IF c \in Diagnostics THEN BridgeSettings
  ELSE IF c = "serve"
  THEN BridgeSettings \cup OllamaSettings \cup AgentSettings \cup ServerSettings
  ELSE OllamaSettings

Misconfigured(c) ==
  \E setting \in Loads(c), value \in {"missing", "malformed"} : Refuses(setting, value)

-----------------------------------------------------------------------------

NoReport == [records |-> 0, errors |-> 0]

CliInit ==
  /\ Init /\ OneC!ExchangeInit
  /\ command = "none" /\ exit = "none" /\ shown = "nothing"
  /\ before = 0 /\ report = NoReport

\* A command is typed.  Only the benchmark leaves anything behind for the next
\* command, so the others are explored as the first one.
Typed(c) ==
  /\ exit \notin {"running", "serving"}
  /\ command = "none" \/ (command = "benchmark" /\ c = "benchmark")
  /\ command' = c
  /\ before' = Len(file) /\ report' = NoReport

\* Exit status 2: an unknown command or option, a bad configuration, arguments
\* of `call` that are no JSON object, --repeat 0, neither --cold nor --warm.
Usage(c) ==
  /\ Typed(c)
  /\ Misconfigured(c) \/ c \in {"call", "benchmark"}
  /\ exit' = "usage" /\ shown' = "nothing"
  /\ UNCHANGED <<vars, exchange>>

Requests(c) ==
  IF c = "call" THEN {OneC!Post(tool, body) : tool \in Tools \cup {Blank}, body \in OneC!Bodies}
                ELSE {OneC!Get(c)}

\* health, tools, call: one request to 1C.
Request(c) ==
  /\ c \in Diagnostics /\ Typed(c)
  /\ \E message \in Requests(c) : OneC!Ask(Terminal, message)
  /\ exit' = "running" /\ shown' = "nothing"
  /\ UNCHANGED vars

\* Arguments that json= cannot encode: a ValueError nobody catches.
NotEncodable ==
  /\ Typed("call")
  /\ exit' = "traceback" /\ shown' = "nothing"
  /\ UNCHANGED <<vars, exchange>>

Exits(status, text) ==
  /\ exit' = status /\ shown' = text
  /\ UNCHANGED <<vars, exchange, command, before, report>>

InProgress == exit = "running" /\ command \in Diagnostics

\* The answer fits its contract and is printed, a failure of the tool too.
Answer ==
  /\ InProgress /\ OneC!Received(Terminal)
  /\ OneC!Code(wire[Terminal]) = "ok"
  /\ Exits("ok", wire[Terminal].body)

\* BridgeError: an error status, or an answer that does not fit its contract; a
\* descriptor 1C should not list may still be one the client can read.
BridgeError ==
  /\ InProgress /\ OneC!Received(Terminal)
  /\ \/ /\ OneC!Code(wire[Terminal]) # "ok"
        /\ Exits("error", OneC!Code(wire[Terminal]))
     \/ wire[Terminal].body = "unusable" /\ Exits("error", "protocol_error")

\* The timeout passes, or the connection fails.
GiveUp ==
  /\ InProgress
  /\ Exits("error", "timeout") \/ Exits("error", "connection_error")

\* The user stops the command.
Interrupt == InProgress /\ Exits("killed", "nothing")

\* benchmark list-models: one request to Ollama.
ListModels ==
  /\ Typed("list-models")
  /\ exit' \in {"ok", "error"} /\ shown' = "nothing"
  /\ UNCHANGED <<vars, exchange>>

\* serve: uvicorn has the program until it is stopped.
Serve ==
  /\ Typed("serve")
  /\ exit' = "serving" /\ shown' = "nothing"
  /\ UNCHANGED <<vars, exchange>>

ServeEnds == exit = "serving" /\ Exits("ok", "nothing")

-----------------------------------------------------------------------------
(* benchmark run.                                                          *)

\* Mutant: the report tells what was planned, not what was recorded.
ReportPlanned(status) ==
  /\ exit' = status /\ shown' = "nothing"
  /\ report' = [records |-> Len(Plan), errors |-> 0]
  /\ UNCHANGED <<exchange, command, before>>

\* How the command stands after a step of run(); append() returned: the result
\* joins the list the report is made of.
Report(status) ==
  /\ exit' = status /\ shown' = "nothing"
  /\ report' = IF pc = "sync"
               THEN [records |-> report.records + 1,
                     errors  |-> report.errors + IF result.error = "none" THEN 0 ELSE 1]
               ELSE report
  /\ UNCHANGED <<exchange, command, before>>

\* Generation settings or a model name run() refuses end the command at once.
StartBenchmark ==
  /\ Typed("benchmark") /\ Begin
  /\ exit' = IF pc' = "refused" THEN "error" ELSE "running"
  /\ shown' = "nothing"
  /\ UNCHANGED exchange

Benchmarking == exit = "running" /\ command = "benchmark"

BenchmarkStep ==
  /\ Benchmarking /\ Work
  /\ Report(IF pc' = "done" THEN "ok" ELSE IF pc' = "refused" THEN "error" ELSE "running")

\* An OSError of the writer is none of the errors the command catches.
WriterRaises ==
  /\ Benchmarking /\ WriteFails
  /\ exit' = "traceback" /\ UNCHANGED <<exchange, command, shown, before, report>>

Killed ==
  /\ Benchmarking /\ Kill
  /\ exit' = "killed" /\ UNCHANGED <<exchange, command, shown, before, report>>

-----------------------------------------------------------------------------

\* 1C and its publication, and the other users of Ollama.
Outside ==
  \/ OneC!Service(Terminal) /\ UNCHANGED <<vars, cli>>
  \/ OtherUse /\ UNCHANGED <<exchange, cli>>

Progress == Answer \/ BridgeError \/ GiveUp \/ BenchmarkStep

CliNext ==
  \/ \E c \in Commands : Usage(c) \/ Request(c)
  \/ NotEncodable \/ ListModels \/ Serve \/ ServeEnds
  \/ StartBenchmark \/ Progress \/ Interrupt \/ WriterRaises \/ Killed
  \/ Outside

CliSpec == CliInit /\ [][CliNext]_cliVars

\* A command goes on: each of its reads returns or times out, writes return.
\* That the reads of a stream come to an end is not assumed (Chunk).
FairCliSpec == CliSpec /\ WF_cliVars(Progress)

-----------------------------------------------------------------------------

\* Whoever reads the outcome of `call` knows what 1C did: an answer printed is
\* that of the one call 1C carried out, and after a wrong usage or an error that
\* names a refusal 1C carried out nothing, then or later.
CallOutcomeIsTold ==
  command = "call" =>
    /\ exit = "ok" =>
         Len(served[Terminal]) = 1 /\ served[Terminal][1].answer = shown
    /\ exit = "usage" \/ shown \in OneC!RefusalCodes => served[Terminal] = <<>>

\* The records of this run that no crash can take any more.
Mine == {i \in Records : i <= synced /\ file[i].run = run}

Errors(places) == {i \in places : file[i].error # "none"}

\* The repetitions whose record is none: append writes behind a line that a kill
\* or a failed write left unfinished, so the first record after it is lost.
Lost == IF EndsLine(before) THEN {} ELSE {1} \cap DOMAIN Plan

\* Exit status 0 of the benchmark: every repetition, in the order of the loops,
\* has its one record, a line of its own where a crash cannot take it, whatever
\* failed in it, and the report counts these records and their errors.  Begun
\* behind an unfinished line, the benchmark loses the first of them, and just
\* that one, and reports it all the same.
ReportIsTrue ==
  command = "benchmark" /\ exit = "ok" =>
    /\ {file[i].position : i \in Mine} = DOMAIN Plan \ Lost
    /\ \A i, j \in Mine : i < j => file[i].position < file[j].position
    /\ report.records = Cardinality(Mine) + Cardinality(Lost)
    /\ \E errors \in 0..Cardinality(Lost) :
         report.errors = Cardinality(Errors(Mine)) + errors

\* Exit status 1 or 2 of the benchmark: nothing was added to the file, so a
\* command that failed may be repeated into it.
FailureAddsNothing ==
  command = "benchmark" /\ exit \in {"error", "usage"} => Len(file) = before

Streaming == pc \in {"warm up", "warm chunk", "stream", "chunk"}

\* A command ends by itself, even when 1C or the model never answers; the only
\* one that does not is a benchmark that reads a single stream for ever.
CommandsEnd == <>[](exit = "running") => <>[](command = "benchmark" /\ Streaming)
=============================================================================
