----------------------------- MODULE OllamaStream -----------------------------
(***************************************************************************)
(* One streamed completion: OllamaClient.stream_chat, which reads NDJSON   *)
(* lines from Ollama, under OllamaProvider.stream, which hides some chunks *)
(* and measures the rest.  Ollama sends any lines, in any number up to a   *)
(* bound, and the connection may close, break or fall silent at any point. *)
(***************************************************************************)
EXTENDS Naturals, Sequences, SequencesExt, FiniteSets

CONSTANTS
  MaxLines,  \* bound: lines Ollama sends in one answer
  MaxClock,  \* bound: readings of the monotonic clock
  None       \* Python's None

ASSUME StreamAssumption == MaxLines \in Nat /\ MaxClock \in Nat /\ None \notin Nat

\* The text of a chunk is made of words and white space; both are pieces of it.
Texts == {<<>>, <<"space">>, <<"word">>}

\* A line of the answer: a chunk, an empty line, or anything else.
Line ==
  [kind : {"chunk"}, text : Texts, calls : {FALSE}, done : BOOLEAN]
    \cup [kind : {"chunk"}, text : {<<>>}, calls : {TRUE}, done : BOOLEAN]
    \cup [kind : {"blank", "garbage"}, text : {<<>>}, calls : {FALSE}, done : {FALSE}]

Running == "running"
Ended == "ended"
\* OllamaError and its subclasses; httpx.ResponseNotRead is not one of them.
TypedErrors == {"protocol", "timeout", "connection", "unexpected_http_status"}
Outcomes == {Running, Ended, "ResponseNotRead"} \cup TypedErrors

VARIABLES
  clock,    \* perf_counter_ns
  wire,     \* the connection: "none", "asked", "open", "closed" or "dropped"
  sent,     \* the lines Ollama has sent
  read,     \* how many of them the client has read
  sawDone,  \* saw_done of stream_chat
  started,  \* started_ns of the provider
  first,    \* first_ns of the provider, or None
  out,      \* the chunks the provider has yielded
  outcome   \* how the iteration stands

vars == <<clock, wire, sent, read, sawDone, started, first, out, outcome>>
ollama == <<wire, sent>>
reader == <<read, sawDone, first, out>>

Init ==
  /\ clock = 0 /\ started = 0 /\ first = None
  /\ wire = "none" /\ sent = <<>> /\ read = 0
  /\ sawDone = FALSE /\ out = <<>> /\ outcome = Running

Tick ==
  /\ clock < MaxClock /\ clock' = clock + 1
  /\ UNCHANGED <<ollama, reader, started, outcome>>

\* stream() reads the clock and asks.
Ask ==
  /\ wire = "none"
  /\ wire' = "asked" /\ started' = clock
  /\ UNCHANGED <<clock, sent, reader, outcome>>

----------------------------------------------------------------------------
(* Ollama and the network.                                                  *)

Answer ==
  /\ wire = "asked" /\ outcome = Running
  /\ wire' = "open"
  /\ UNCHANGED <<clock, sent, reader, started, outcome>>

Send(line) ==
  /\ wire = "open" /\ outcome = Running /\ Len(sent) < MaxLines
  /\ sent' = Append(sent, line)
  /\ UNCHANGED <<clock, wire, reader, started, outcome>>

Close ==
  /\ wire = "open" /\ outcome = Running
  /\ wire' = "closed"
  /\ UNCHANGED <<clock, sent, reader, started, outcome>>

Drop ==
  /\ wire \in {"asked", "open"} /\ outcome = Running
  /\ wire' = "dropped"
  /\ UNCHANGED <<clock, sent, reader, started, outcome>>

----------------------------------------------------------------------------
(* The client and the provider.                                             *)

Raise(error) ==
  /\ outcome' = error
  /\ UNCHANGED <<clock, ollama, reader, started>>

\* A status other than 200: _validate_status reads the body of an answer that is
\* being streamed, and httpx refuses that with an error nobody translates.
Refused ==
  /\ wire = "asked" /\ outcome = Running
  /\ Raise("ResponseNotRead")

\* httpx.TimeoutException: nothing arrived for the time one read may take.
TimedOut ==
  /\ outcome = Running
  /\ wire = "asked" \/ (wire = "open" /\ read = Len(sent))
  /\ Raise("timeout")

\* Any other httpx.RequestError; lines not read yet are lost.
ConnectionLost ==
  /\ wire = "dropped" /\ outcome = Running
  /\ Raise("connection")

\* Mutant: tool calls without text are taken for nothing.
MeaningfulText(line) == "word" \in ToSet(line.text)

\* Text that survives content.strip(), or tool calls.
Meaningful(line) == line.calls \/ "word" \in ToSet(line.text)

Metrics(firstNs) == [started |-> started, first |-> firstNs, completed |-> clock]

\* Mutant: the first chunk of any kind starts the measurement.
HandOverAny(line) ==
  LET firstNs == IF first = None THEN clock ELSE first
  IN  /\ first' = firstNs
      /\ out' = IF Meaningful(line) \/ line.done
                THEN Append(out, [text |-> line.text, calls |-> line.calls, done |-> line.done,
                                  observed |-> clock,
                                  metrics |-> IF line.done THEN Metrics(firstNs) ELSE None])
                ELSE out

\* The body of the loop of stream(): what is neither meaningful nor final is
\* hidden, the final chunk carries the measurements.
HandOver(line) ==
  LET firstNs == IF Meaningful(line) /\ first = None THEN clock ELSE first
  IN  /\ first' = firstNs
      /\ out' = IF Meaningful(line) \/ line.done
                THEN Append(out, [text |-> line.text, calls |-> line.calls, done |-> line.done,
                                  observed |-> clock,
                                  metrics |-> IF line.done THEN Metrics(firstNs) ELSE None])
                ELSE out

\* Mutant: an empty line is parsed like the others.
ReadStrictly(line) ==
  \/ /\ line.kind = "garbage" \/ line.kind = "blank" \/ sawDone
     /\ outcome' = "protocol" /\ UNCHANGED <<sawDone, first, out>>
  \/ /\ line.kind = "chunk" /\ ~sawDone
     /\ sawDone' = line.done /\ HandOver(line) /\ UNCHANGED outcome

\* One turn of `async for line`: skipped, refused, or handed over.
Take(line) ==
  \/ line.kind = "blank" /\ UNCHANGED <<sawDone, first, out, outcome>>
  \/ /\ line.kind = "garbage" \/ (line.kind = "chunk" /\ sawDone)
     /\ outcome' = "protocol" /\ UNCHANGED <<sawDone, first, out>>
  \/ /\ line.kind = "chunk" /\ ~sawDone
     /\ sawDone' = line.done /\ HandOver(line) /\ UNCHANGED outcome

Read ==
  /\ wire \in {"open", "closed", "dropped"} /\ outcome = Running /\ read < Len(sent)
  /\ read' = read + 1
  /\ Take(sent[read + 1])
  /\ UNCHANGED <<clock, ollama, started>>

\* Mutant: the end of the connection is taken for the end of the answer.
FinishAnyway ==
  /\ wire = "closed" /\ outcome = Running /\ read = Len(sent)
  /\ Raise(Ended)

\* The stream is exhausted: only a final chunk makes it an answer.
Finish ==
  /\ wire = "closed" /\ outcome = Running /\ read = Len(sent)
  /\ Raise(IF sawDone THEN Ended ELSE "protocol")

----------------------------------------------------------------------------
Next ==
  \/ Tick \/ Ask \/ Answer \/ Close \/ Drop
  \/ \E line \in Line : Send(line)
  \/ Refused \/ TimedOut \/ ConnectionLost \/ Read \/ Finish

Spec == Init /\ [][Next]_vars

\* The iteration goes on while there is something to read.
FairSpec == Spec /\ WF_vars(Read) /\ WF_vars(Finish)

----------------------------------------------------------------------------
Time == 0..MaxClock
Chunk ==
  [text : Texts, calls : BOOLEAN, done : BOOLEAN, observed : Time,
   metrics : {None} \cup [started : Time, first : {None} \cup Time, completed : Time]]

TypeOK ==
  /\ clock \in Time /\ started \in Time /\ first \in {None} \cup Time
  /\ wire \in {"none", "asked", "open", "closed", "dropped"}
  /\ sent \in Seq(Line) /\ read \in 0..Len(sent)
  /\ sawDone \in BOOLEAN /\ out \in Seq(Chunk) /\ outcome \in Outcomes

\* An iteration that ends without an error ended with the final chunk, and no
\* earlier chunk was final: _consume_stream of the benchmark and its "terminal
\* chunk" rely on it.
EndsWithItsOnlyFinalChunk ==
  outcome = Ended =>
    /\ out # <<>> /\ Last(out).done
    /\ \A i \in 1..(Len(out) - 1) : ~out[i].done

\* The chunks or lines of the answer that say something, and the place of one of
\* them among them.
Tells(piece) == piece.calls \/ piece.text = <<"word">>
Telling(pieces) == {i \in 1..Len(pieces) : Tells(pieces[i])}
Place(told, i) == Cardinality({k \in told : k <= i})

\* Nothing but white space is hidden from a completed answer: all its words and
\* all its tool calls were yielded, in order.
AnswerIsWhole ==
  outcome = Ended =>
    /\ Cardinality(Telling(out)) = Cardinality(Telling(sent))
    /\ \A i \in Telling(out), j \in Telling(sent) :
         Place(Telling(out), i) = Place(Telling(sent), j) =>
           out[i].text = sent[j].text /\ out[i].calls = sent[j].calls

\* The measurements of the final chunk are in order, and the first meaningful
\* time is that of the first chunk yielded with a word or a call in it.
MetricsFitTheChunks ==
  outcome = Ended =>
    LET taken == Last(out).metrics
    IN  /\ taken.started <= taken.completed
        /\ taken.first = None <=> Telling(out) = {}
        /\ \A i \in Telling(out) :
             (\A j \in Telling(out) : i <= j) => taken.first = out[i].observed
        /\ taken.first # None => taken.first \in taken.started..taken.completed
        /\ \A i \in 1..(Len(out) - 1) : out[i].metrics = None

\* Ollama kept to the protocol: chunks and empty lines, the last chunk final and
\* no other.
Complete ==
  LET chunks == SelectSeq(sent, LAMBDA line : line.kind # "blank")
  IN  /\ chunks # <<>> /\ Last(chunks).done
      /\ \A i \in DOMAIN chunks :
           chunks[i].kind = "chunk" /\ (chunks[i].done => i = Len(chunks))

\* An answer that keeps to the protocol and arrived whole is never refused: the
\* iteration ends without an error.
WholeAnswersAreAccepted ==
  (wire = "closed" /\ outcome = Running /\ Complete) ~> (outcome = Ended)
=============================================================================
