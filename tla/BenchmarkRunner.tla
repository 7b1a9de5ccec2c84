--------------------------- MODULE BenchmarkRunner ---------------------------
(***************************************************************************)
(* BenchmarkRunner of the Python bridge and its append-only JSONL output.  *)
(* A step is what the runner does between two awaits or system calls.  The *)
(* model is loaded and unloaded by Ollama, which other programs use too;   *)
(* the process may be killed, and runs of the same command line append to  *)
(* the same file.                                                          *)
(***************************************************************************)
EXTENDS Naturals, Sequences

CONSTANTS
  Scenarios,  \* number of scenarios
  Modes,      \* the enabled modes, in the order of the runner
  Repeat,     \* --repeat
  MaxRuns,    \* bound: how often the command is run on one output file
  Others      \* whether other programs use the same Ollama

ASSUME BenchmarkAssumption ==
  /\ Scenarios \in Nat /\ Repeat \in Nat \ {0} /\ MaxRuns \in Nat
  /\ Modes \in {<<"cold">>, <<"warm">>, <<"cold", "warm">>}
  /\ Others \in BOOLEAN

\* The three nested loops of run(), flattened.
PerScenario == Len(Modes) * Repeat
Plan ==
  [i \in 1..(Scenarios * PerScenario) |->
     [scenario |-> (i - 1) \div PerScenario + 1,
      mode     |-> Modes[((i - 1) % PerScenario) \div Repeat + 1],
      repeat   |-> ((i - 1) % Repeat) + 1]]

\* The file is a text, here the sequence of its pieces: the JSON of a record, a
\* torn part of one, the end of a line.  A line may hold several of the former.
Part == [kind |-> "part"]
NewLine == [kind |-> "newline"]

VARIABLES
  loaded,     \* whether Ollama holds the model
  pc,         \* where the runner is
  run,        \* run_id
  position,   \* the repetition in progress, an index of Plan
  streams,    \* completions requested for it
  state,      \* history: whether the model was loaded when measuring began
  disturbed,  \* history: another program used Ollama since it began
  result,     \* its BenchmarkResult, once there is one
  file,       \* the pieces of text in the output file
  synced      \* how much of it fsync has confirmed

vars == <<loaded, pc, run, position, streams, state, disturbed, result, file, synced>>
repetition == <<streams, state, disturbed, result>>
output == <<file, synced>>

Mode == Plan[position].mode

Result(error) ==
  [kind |-> "record", run |-> run, position |-> position, error |-> error,
   streams |-> streams, loaded |-> state, disturbed |-> disturbed]

NoResult == [kind |-> "none"]

Init ==
  /\ loaded \in BOOLEAN
  /\ pc = "down" /\ run = 0 /\ position = 0
  /\ streams = 0 /\ state = FALSE /\ disturbed = FALSE /\ result = NoResult
  /\ file = <<>> /\ synced = 0

\* The head of the innermost loop.
Repetition(i) ==
  /\ position' = i
  /\ streams' = 0 /\ state' = FALSE /\ disturbed' = FALSE /\ result' = NoResult
  /\ pc' = IF i > Len(Plan) THEN "done"
           ELSE IF Plan[i].mode = "cold" THEN "unload" ELSE "warm up"

Ended == {"down", "refused", "done"}

\* run() is called: reject_cloud_model, repeat and the modes are checked before
\* anything is requested.
Begin ==
  /\ pc \in Ended /\ run < MaxRuns
  /\ pc' \in {"version", "refused"}
  /\ UNCHANGED <<loaded, run, position, repetition, output>>

\* version: any error of the client leaves run().
Version ==
  /\ pc = "version"
  /\ pc' \in {"show", "refused"}
  /\ UNCHANGED <<loaded, run, position, repetition, output>>

\* show_model, which may find no such model; then a fresh run_id and the loops.
Show ==
  /\ pc = "show"
  /\ \/ pc' = "refused" /\ UNCHANGED <<run, position, repetition>>
     \/ run' = run + 1 /\ Repetition(1)
  /\ UNCHANGED <<loaded, output>>

\* Mutant: errors of the client leave _run_one and end the run.
FailEscapes(error) ==
  IF error = "run_failed" THEN pc' = "refused" /\ UNCHANGED result
  ELSE result' = Result(error) /\ pc' = "append"

\* The `except Exception` of _run_one: the repetition ends with an error record.
Fail(error) == result' = Result(error) /\ pc' = "append"

\* unload_model: confirmed, not confirmed, or the request fails; Ollama may
\* unload the model only later.
Unload ==
  /\ pc = "unload"
  /\ loaded' \in {loaded, FALSE}
  /\ \/ pc' = "verify" /\ UNCHANGED result
     \/ Fail("invalid_state")
     \/ Fail("run_failed")
  /\ UNCHANGED <<run, position, streams, state, disturbed, output>>

\* A chunk of a stream arrives, and the loop asks for the next: the timeout
\* bounds each of these reads, and nothing bounds how many there are.
Chunk ==
  /\ \/ pc = "warm up"    /\ pc' = "warm chunk"
     \/ pc = "warm chunk" /\ pc' = "warm up"
     \/ pc = "stream"     /\ pc' = "chunk"
     \/ pc = "chunk"      /\ pc' = "stream"
  /\ UNCHANGED <<loaded, run, position, repetition, output>>

\* The unmeasured warm-up stream ends or fails; with keep_alive = 0 the model may
\* be gone again when it ends.
WarmUp ==
  /\ pc = "warm up"
  /\ streams' = 1
  /\ loaded' \in BOOLEAN
  /\ \/ pc' = "verify" /\ UNCHANGED result
     \/ /\ result' = [Result("run_failed") EXCEPT !.streams = 1]
        /\ pc' = "append"
  /\ UNCHANGED <<run, position, state, disturbed, output>>

\* Mutant: an unavailable /api/ps is taken for a confirmation.
VerifyOptimistic ==
  /\ pc = "verify"
  /\ pc' = "measure"
  /\ streams' = streams + 1
  /\ UNCHANGED <<loaded, run, position, state, disturbed, result, output>>

\* Mutant: the state is checked after the measured stream was requested.
VerifyAfterwards ==
  /\ pc = "verify"
  /\ streams' = streams + 1
  /\ \/ loaded = (Mode = "warm") /\ pc' = "measure" /\ UNCHANGED result
     \/ /\ result' = [Result("invalid_state") EXCEPT !.streams = @ + 1]
        /\ pc' = "append"
  /\ UNCHANGED <<loaded, run, position, state, disturbed, output>>

\* _verify_loaded: /api/ps confirms the state and the measured stream starts, or
\* it contradicts or is unavailable.
Verify ==
  /\ pc = "verify"
  /\ \/ /\ loaded = (Mode = "warm")
        /\ pc' = "measure"
        /\ streams' = streams + 1
        /\ UNCHANGED <<state, result>>
     \/ /\ Fail("invalid_state")
        /\ UNCHANGED <<streams, state>>
  /\ UNCHANGED <<loaded, run, position, disturbed, output>>

\* Ollama takes the measured request up and loads the model if it must.
Measure ==
  /\ pc = "measure"
  /\ state' = loaded
  /\ loaded' = TRUE
  /\ pc' = "stream"
  /\ UNCHANGED <<run, position, streams, disturbed, result, output>>

\* Mutant: a failed measurement is tried again.
StreamedRetrying ==
  /\ pc = "stream"
  /\ pc' \in {"inspect", "measure"}
  /\ loaded' \in BOOLEAN
  /\ UNCHANGED <<run, position, repetition, output>>

\* The measured stream ends with its final chunk, or fails.
Streamed ==
  /\ pc = "stream"
  /\ \/ pc' = "inspect" /\ UNCHANGED result
     \/ Fail("run_failed")
  /\ loaded' \in BOOLEAN
  /\ UNCHANGED <<run, position, streams, state, disturbed, output>>

\* running_models for the metadata: when it fails, so does the repetition.
Inspect ==
  /\ pc = "inspect"
  /\ Fail("none") \/ Fail("run_failed")
  /\ UNCHANGED <<loaded, run, position, streams, state, disturbed, output>>

\* Mutant: the file is opened for writing instead of appending.
WriteOver ==
  /\ pc = "append"
  /\ file' = <<result, NewLine>>
  /\ pc' = "sync"
  /\ UNCHANGED <<loaded, run, position, repetition, synced>>

\* JsonlResultWriter.append: the JSON and a line end go behind whatever text the
\* file ends with, which append does not look at.
Write ==
  /\ pc = "append"
  /\ file' = file \o <<result, NewLine>>
  /\ pc' = "sync"
  /\ UNCHANGED <<loaded, run, position, repetition, synced>>

\* The disk is full, the file is locked: an OSError leaves run() and the program.
\* A write may have got anywhere before it, and fsync may raise it after one.
WriteFails ==
  /\ \/ pc = "append" /\ file' \in {file, Append(file, Part), Append(file, result)}
     \/ pc = "sync" /\ UNCHANGED file
  /\ pc' = "down"
  /\ UNCHANGED <<loaded, run, position, repetition, synced>>

\* fsync returns, the next repetition begins.
Sync ==
  /\ pc = "sync"
  /\ synced' = Len(file)
  /\ Repetition(position + 1)
  /\ UNCHANGED <<loaded, run, file>>

\* The program or the machine stops.  What was not synced is there, or some of
\* it is; of a record being written a piece may be.
Kill ==
  /\ pc \notin Ended
  /\ pc' = "down"
  /\ \E kept \in synced..Len(file) :
       file' \in {SubSeq(file, 1, kept)} \cup
                 (IF kept < Len(file) /\ file[kept + 1] # NewLine
                  THEN {Append(SubSeq(file, 1, kept), Part)} ELSE {})
  /\ UNCHANGED <<loaded, run, position, repetition, synced>>

\* Another program loads or unloads the model, or its keep_alive expires.
OtherUse ==
  /\ Others
  /\ loaded' = ~loaded
  /\ disturbed' = TRUE
  /\ UNCHANGED <<pc, run, position, streams, state, result, output>>

Work ==
  \/ Version \/ Show
  \/ Unload \/ Chunk \/ WarmUp \/ Verify \/ Measure \/ Streamed \/ Inspect \/ Write \/ Sync

Next == Begin \/ Work \/ WriteFails \/ Kill \/ OtherUse

Spec == Init /\ [][Next]_vars

-----------------------------------------------------------------------------

IsRecord(x) == x.kind = "record"

\* What a reader of JSONL finds at a place of the file: a line is a record when
\* the JSON of one is all it holds.  JSON behind unfinished text, or with more
\* behind it, is none.
EndsLine(i) == i = 0 \/ file[i] = NewLine
Readable(i) ==
  /\ IsRecord(file[i])
  /\ EndsLine(i - 1)
  /\ i = Len(file) \/ EndsLine(i + 1)

Records == {i \in DOMAIN file : Readable(i)}

\* The README's account of a record: one completion for a cold measurement, one
\* after the warm-up for a warm one, and none beyond the warm-up when the state
\* was not confirmed.
CompletionsAccountedFor ==
  \A i \in Records :
    LET before == IF Plan[file[i].position].mode = "warm" THEN 1 ELSE 0
    IN /\ file[i].error = "none" => file[i].streams = before + 1
       /\ file[i].error = "invalid_state" => file[i].streams = before

\* A measurement nobody disturbed was made in the state its mode says.
UndisturbedMeasurementsAreTrue ==
  \A i \in Records :
    file[i].error = "none" /\ ~file[i].disturbed =>
      file[i].loaded = (Plan[file[i].position].mode = "warm")

\* What fsync has confirmed stays as it is, over failures, crashes and later
\* runs, and a record among it stays a line of its own.
RecordsAreDurable ==
  [][/\ synced <= synced' /\ SubSeq(file', 1, synced) = SubSeq(file, 1, synced)
     /\ {i \in Records : i <= synced} \subseteq Records']_vars
=============================================================================
