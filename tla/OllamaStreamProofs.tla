-------------------------- MODULE OllamaStreamProofs --------------------------
(***************************************************************************)
(* A completed stream ends with its only final chunk, yields everything the*)
(* lines say, in order, and measures what it yielded, for answers of any   *)
(* length.                                                                 *)
(***************************************************************************)
EXTENDS OllamaStream, FiniteSetTheorems, TLAPS

\* What holds between two chunks: only the chunk yielded last may be final, and
\* saw_done says whether it is.
FinalIsLast ==
  /\ sawDone => (out # <<>> /\ out[Len(out)].done)
  /\ \A i \in 1..Len(out) : out[i].done => (sawDone /\ i = Len(out))
  /\ outcome = Ended => sawDone

IInv == TypeOK /\ FinalIsLast

\* A turn of the loop that hands a chunk over keeps the types and the invariant.
LEMMA HandingOverKeepsIt ==
  ASSUME IInv, NEW line \in Line, line.kind = "chunk", ~sawDone, outcome = Running,
         sawDone' = line.done, HandOver(line), UNCHANGED <<outcome, clock, started, sent, wire>>,
         read' \in 0..Len(sent)
  PROVE  IInv'
<1> DEFINE firstNs == IF Meaningful(line) /\ first = None THEN clock ELSE first
           chunk == [text |-> line.text, calls |-> line.calls, done |-> line.done,
                     observed |-> clock,
                     metrics |-> IF line.done THEN Metrics(firstNs) ELSE None]
<1>1. firstNs \in {None} \cup Time
  BY DEF IInv, TypeOK
<1>2. line.text \in Texts /\ line.calls \in BOOLEAN /\ line.done \in BOOLEAN
  BY DEF Line, Texts
<1>3. chunk \in Chunk
  <2>1. Metrics(firstNs) \in [started : Time, first : {None} \cup Time, completed : Time]
    BY <1>1 DEF Metrics, IInv, TypeOK
  <2> QED BY <1>2, <2>1 DEF Chunk, IInv, TypeOK
<1>4. first' = firstNs /\ out' \in {out, Append(out, chunk)}
      /\ (line.done => out' = Append(out, chunk))
  BY DEF HandOver
<1>5. out \in Seq(Chunk)
  BY DEF IInv, TypeOK
<1>6. chunk.done = line.done
  OBVIOUS
<1> HIDE DEF chunk, firstNs
<1>7. TypeOK'
  BY <1>1, <1>2, <1>3, <1>4, <1>5 DEF IInv, TypeOK
<1>8. FinalIsLast'
  <2>1. CASE out' = out
    BY <2>1, <1>4, <1>2, <1>5, <1>6 DEF IInv, FinalIsLast, Running, Ended
  <2>2. CASE out' = Append(out, chunk)
    <3>1. Len(out') = Len(out) + 1 /\ out'[Len(out')] = chunk /\ out' # <<>>
          /\ \A i \in 1..Len(out) : out'[i] = out[i]
      BY <2>2, <1>3, <1>5
    <3>2. \A i \in 1..Len(out) : ~out[i].done
      BY DEF IInv, FinalIsLast
    <3> QED BY <3>1, <3>2, <1>2, <1>5, <1>6 DEF IInv, FinalIsLast, Running, Ended
  <2> QED BY <2>1, <2>2, <1>4
<1> QED BY <1>7, <1>8 DEF IInv

LEMMA StepsKeepIt ==
  ASSUME StreamAssumption, IInv, [Next]_vars
  PROVE  IInv'
<1> USE DEF IInv, TypeOK, FinalIsLast
<1>1. CASE Tick
  BY <1>1 DEF Tick, StreamAssumption, Time, ollama, reader
<1>2. CASE Ask
  BY <1>2 DEF Ask, reader
<1>3. CASE Answer \/ Close \/ Drop
  BY <1>3 DEF Answer, Close, Drop, reader
<1>4. ASSUME NEW line \in Line, Send(line)
      PROVE  IInv'
  <2>1. sent' \in Seq(Line) /\ Len(sent') = Len(sent) + 1
    BY <1>4 DEF Send
  <2> QED BY <2>1, <1>4 DEF Send, reader
<1>5. CASE Refused \/ TimedOut \/ ConnectionLost
  BY <1>5 DEF Refused, TimedOut, ConnectionLost, Raise, ollama, reader, Outcomes, TypedErrors,
              Running, Ended
<1>6. CASE Read
  <2> DEFINE line == sent[read + 1]
  <2>1. line \in Line /\ read' \in 0..Len(sent)
    BY <1>6 DEF Read
  <2>2. UNCHANGED <<clock, started, sent, wire>> /\ outcome = Running /\ Take(line)
    BY <1>6 DEF Read, ollama
  <2> HIDE DEF line
  <2>3. CASE UNCHANGED <<sawDone, first, out, outcome>>
    BY <2>1, <2>2, <2>3
  <2>4. CASE outcome' = "protocol" /\ UNCHANGED <<sawDone, first, out>>
    BY <2>1, <2>2, <2>4 DEF Outcomes, TypedErrors, Running, Ended
  <2>5. CASE line.kind = "chunk" /\ ~sawDone /\ sawDone' = line.done /\ HandOver(line)
             /\ UNCHANGED outcome
    BY <2>1, <2>2, <2>5, HandingOverKeepsIt
  <2> QED BY <2>2, <2>3, <2>4, <2>5 DEF Take
<1>7. CASE Finish
  BY <1>7 DEF Finish, Raise, ollama, reader, Outcomes, TypedErrors, Running, Ended
<1>8. CASE UNCHANGED vars
  BY <1>8 DEF vars
<1> QED BY <1>1, <1>2, <1>3, <1>4, <1>5, <1>6, <1>7, <1>8 DEF Next

\* Types of the stream and the invariant, for every bound on lines and clock.
THEOREM Invariant == Spec => []IInv
<1>1. Init => IInv
  <2> SUFFICES ASSUME Init PROVE TypeOK /\ FinalIsLast
    BY DEF IInv
  <2>1. 0 \in Time /\ Len(<<>>) = 0
    BY StreamAssumption DEF Time, StreamAssumption
  <2>2. <<>> \in Seq(Line) /\ <<>> \in Seq(Chunk)
    OBVIOUS
  <2>3. TypeOK
    <3>1. Len(sent) = 0 /\ read = 0
      BY <2>1 DEF Init
    <3>2. read \in 0..Len(sent)
      BY <3>1
    <3>3. outcome \in Outcomes /\ sawDone \in BOOLEAN
      BY DEF Init, Outcomes
    <3>4. wire \in {"none", "asked", "open", "closed", "dropped"}
      BY DEF Init
    <3> QED BY <2>1, <2>2, <3>2, <3>3, <3>4 DEF Init, TypeOK
  <2>4. FinalIsLast
    BY <2>1 DEF Init, FinalIsLast, Running, Ended
  <2> QED BY <2>3, <2>4
<1>2. IInv /\ [Next]_vars => IInv'
  BY StepsKeepIt, StreamAssumption
<1> QED BY <1>1, <1>2, PTL DEF Spec

\* Type correctness of the stream.
THEOREM TypeCorrect == Spec => []TypeOK
<1>1. IInv => TypeOK
  BY DEF IInv
<1> QED BY <1>1, Invariant, PTL

\* stream_chat and stream() end without an error only after their one final
\* chunk, which is the last one yielded: what _consume_stream relies on.
THEOREM EndsWithItsOnlyFinalChunkHolds == Spec => []EndsWithItsOnlyFinalChunk
<1>1. IInv => EndsWithItsOnlyFinalChunk
  <2> SUFFICES ASSUME IInv, outcome = Ended
               PROVE  /\ out # <<>> /\ Last(out).done
                      /\ \A i \in 1..(Len(out) - 1) : ~out[i].done
    BY DEF EndsWithItsOnlyFinalChunk
  <2>1. out # <<>> /\ Last(out).done
    BY DEF IInv, FinalIsLast, Last
  <2>2. Len(out) \in Nat
    BY DEF IInv, TypeOK
  <2> QED BY <2>1, <2>2 DEF IInv, FinalIsLast
<1> QED BY <1>1, Invariant, PTL

----------------------------------------------------------------------------
(* Nothing that says something is hidden.                                   *)

\* Those of the first n lines that say something.
ToldIn(lines, n) == {j \in 1..n : Tells(lines[j])}

\* The chunks yielded say what the first n lines say, in their order.
Agree(chunks, lines, n) ==
  /\ Cardinality(Telling(chunks)) = Cardinality(ToldIn(lines, n))
  /\ \A i \in Telling(chunks), j \in ToldIn(lines, n) :
       Place(Telling(chunks), i) = Place(ToldIn(lines, n), j) =>
         chunks[i].text = lines[j].text /\ chunks[i].calls = lines[j].calls

Whole ==
  /\ outcome = Ended => read = Len(sent)
  /\ outcome \in {Running, Ended} => Agree(out, sent, read)

\* The measurement begins with the request, its first time is that of the first
\* chunk that says something, and the final chunk has them both.
Timed ==
  /\ wire = "none" => first = None /\ out = <<>>
  /\ started <= clock
  /\ first # None => first \in started..clock
  /\ first = None <=> Telling(out) = {}
  /\ \A i \in Telling(out) : (\A j \in Telling(out) : i <= j) => out[i].observed = first
  /\ \A i \in 1..Len(out) : ~out[i].done => out[i].metrics = None
  /\ sawDone =>
       LET taken == out[Len(out)].metrics
       IN  /\ taken.started = started /\ taken.first = first
           /\ taken.completed \in started..clock
           /\ first # None => first <= taken.completed

\* Text that survives strip(), or calls: the chunk that is made of it says something.
LEMMA MeaningfulTells ==
  ASSUME NEW line \in Line
  PROVE  Meaningful(line) <=> Tells(line)
<1>1. line.text \in Texts
  BY DEF Line, Texts
<1>2. CASE line.text = <<>>
  BY <1>2 DEF Meaningful, Tells, ToSet
<1>3. CASE line.text = <<"space">>
  <2>1. DOMAIN line.text = {1} /\ line.text[1] = "space"
    BY <1>3
  <2> QED BY <1>3, <2>1 DEF Meaningful, Tells, ToSet
<1>4. CASE line.text = <<"word">>
  <2>1. DOMAIN line.text = {1} /\ line.text[1] = "word"
    BY <1>4
  <2> QED BY <1>4, <2>1 DEF Meaningful, Tells, ToSet
<1> QED BY <1>1, <1>2, <1>3, <1>4 DEF Texts

\* The places in a set of numbers, and in the set with a greater one.
GoesOn(told, n, more) ==
  /\ Cardinality(told) \in Nat /\ Cardinality(more) = Cardinality(told) + 1
  /\ \A i \in told : Place(told, i) \in 0..Cardinality(told) /\ Place(more, i) = Place(told, i)
  /\ Place(more, n + 1) = Cardinality(told) + 1
LEMMA PlacesGoOn ==
  ASSUME NEW n \in Nat, NEW told \in SUBSET (1..n), NEW more, more = told \cup {n + 1}
  PROVE  GoesOn(told, n, more)
<1>1. IsFiniteSet(told)
  <2>1. IsFiniteSet(1..n)
    BY FS_Interval
  <2> QED BY <2>1, FS_Subset
<1>2. Cardinality(told) \in Nat
  BY <1>1, FS_CardinalityType
<1>3. n + 1 \notin told
  OBVIOUS
<1>4. Cardinality(more) = Cardinality(told) + 1
  BY <1>1, <1>3, FS_AddElement
<1>5. ASSUME NEW i \in told
      PROVE  Place(told, i) \in 0..Cardinality(told) /\ Place(more, i) = Place(told, i)
  <2>1. {k \in told : k <= i} \in SUBSET told
    OBVIOUS
  <2>2. Place(told, i) <= Cardinality(told) /\ IsFiniteSet({k \in told : k <= i})
    BY <1>1, <2>1, FS_Subset DEF Place
  <2>3. Place(told, i) \in Nat
    BY <2>2, FS_CardinalityType DEF Place
  <2>4. {k \in more : k <= i} = {k \in told : k <= i}
    OBVIOUS
  <2> QED BY <1>2, <2>2, <2>3, <2>4 DEF Place
<1>6. Place(more, n + 1) = Cardinality(told) + 1
  <2>1. \A k \in more : k <= n + 1
    OBVIOUS
  <2>2. {k \in more : k <= n + 1} = more
    BY <2>1
  <2> QED BY <1>4, <2>2 DEF Place
<1> QED BY <1>2, <1>4, <1>5, <1>6 DEF GoesOn

\* Only the pieces that say something matter to the agreement.
LEMMA SilenceDoesNotMatter ==
  ASSUME NEW chunks, NEW lines, NEW n, Agree(chunks, lines, n), NEW others, NEW more, NEW m,
         Telling(others) = Telling(chunks), ToldIn(more, m) = ToldIn(lines, n),
         \A i \in Telling(chunks) : others[i] = chunks[i],
         \A j \in ToldIn(lines, n) : more[j] = lines[j]
  PROVE  Agree(others, more, m)
BY DEF Agree

\* A line that arrives later changes nothing about the first n.
LEMMA LaterLinesDoNotMatter ==
  ASSUME NEW chunks, NEW S, NEW lines \in Seq(S), NEW n \in 0..Len(lines), NEW line \in S,
         NEW longer, longer = Append(lines, line), Agree(chunks, lines, n)
  PROVE  Agree(chunks, longer, n)
<1>1. \A j \in 1..n : longer[j] = lines[j]
  OBVIOUS
<1>2. ToldIn(longer, n) = ToldIn(lines, n)
  BY <1>1 DEF ToldIn
<1>3. \A j \in ToldIn(lines, n) : longer[j] = lines[j]
  BY <1>1 DEF ToldIn
<1> QED BY <1>2, <1>3, SilenceDoesNotMatter, Zenon

\* A line that says nothing is read.
LEMMA SilentLinesDoNotMatter ==
  ASSUME NEW chunks, NEW lines, NEW n \in Nat, ~Tells(lines[n + 1]), Agree(chunks, lines, n)
  PROVE  Agree(chunks, lines, n + 1)
<1>1. ToldIn(lines, n + 1) = ToldIn(lines, n)
  BY DEF ToldIn
<1> QED BY <1>1 DEF Agree

\* A chunk that says nothing is yielded.
LEMMA SilentChunks ==
  ASSUME NEW S, NEW chunks \in Seq(S), NEW chunk \in S, ~Tells(chunk)
  PROVE  /\ Telling(Append(chunks, chunk)) = Telling(chunks)
         /\ \A i \in Telling(chunks) : Append(chunks, chunk)[i] = chunks[i]
<1>1. Len(chunks) \in Nat /\ Len(Append(chunks, chunk)) = Len(chunks) + 1
  OBVIOUS
<1>2. Append(chunks, chunk)[Len(chunks) + 1] = chunk
      /\ \A i \in 1..Len(chunks) : Append(chunks, chunk)[i] = chunks[i]
  OBVIOUS
<1> QED BY <1>1, <1>2 DEF Telling

LEMMA SilentChunksDoNotMatter ==
  ASSUME NEW S, NEW chunks \in Seq(S), NEW chunk \in S, NEW lines, NEW n \in Nat,
         NEW more, more = Append(chunks, chunk), ~Tells(chunk), Agree(chunks, lines, n)
  PROVE  Agree(more, lines, n)
<1>1. Telling(more) = Telling(chunks) /\ \A i \in Telling(chunks) : more[i] = chunks[i]
  BY SilentChunks
<1> QED BY <1>1, SilenceDoesNotMatter, Zenon

\* A chunk that says something is yielded.
LEMMA TellingChunks ==
  ASSUME NEW S, NEW chunks \in Seq(S), NEW chunk \in S, Tells(chunk)
  PROVE  /\ Telling(Append(chunks, chunk)) = Telling(chunks) \cup {Len(chunks) + 1}
         /\ Telling(chunks) \in SUBSET (1..Len(chunks))
         /\ \A i \in Telling(chunks) : Append(chunks, chunk)[i] = chunks[i]
         /\ Append(chunks, chunk)[Len(chunks) + 1] = chunk
<1>1. Len(chunks) \in Nat /\ Len(Append(chunks, chunk)) = Len(chunks) + 1
  OBVIOUS
<1>2. Append(chunks, chunk)[Len(chunks) + 1] = chunk
      /\ \A i \in 1..Len(chunks) : Append(chunks, chunk)[i] = chunks[i]
  OBVIOUS
<1> QED BY <1>1, <1>2 DEF Telling

\* A line that says something is read and handed over.
LEMMA TellingLinesAreHandedOver ==
  ASSUME NEW S, NEW chunks \in Seq(S), NEW chunk \in S, NEW lines, NEW n \in Nat,
         Tells(lines[n + 1]), Tells(chunk),
         chunk.text = lines[n + 1].text, chunk.calls = lines[n + 1].calls,
         Agree(chunks, lines, n)
  PROVE  Agree(Append(chunks, chunk), lines, n + 1)
<1> DEFINE shown == Telling(chunks)
           shownMore == Telling(Append(chunks, chunk))
           told == ToldIn(lines, n)
           toldMore == ToldIn(lines, n + 1)
           m == Len(chunks)
<1>1. /\ m \in Nat /\ shownMore = shown \cup {m + 1} /\ shown \in SUBSET (1..m)
      /\ \A i \in shown : Append(chunks, chunk)[i] = chunks[i]
      /\ Append(chunks, chunk)[m + 1] = chunk
  BY TellingChunks
<1>2. told \in SUBSET (1..n) /\ toldMore = told \cup {n + 1}
  BY DEF ToldIn
<1>3. /\ Cardinality(shown) = Cardinality(told)
      /\ \A i \in shown, j \in told : Place(shown, i) = Place(told, j) =>
           chunks[i].text = lines[j].text /\ chunks[i].calls = lines[j].calls
  BY DEF Agree
<1> HIDE DEF shown, shownMore, told, toldMore, m
<1>4. GoesOn(shown, m, shownMore)
  BY <1>1, PlacesGoOn
<1>5. GoesOn(told, n, toldMore)
  BY <1>2, PlacesGoOn
<1>6. ASSUME NEW i \in shownMore, NEW j \in toldMore, Place(shownMore, i) = Place(toldMore, j)
      PROVE  /\ Append(chunks, chunk)[i].text = lines[j].text
             /\ Append(chunks, chunk)[i].calls = lines[j].calls
  <2>1. CASE i = m + 1 /\ j = n + 1
    BY <1>1, <2>1
  <2>2. CASE i \in shown /\ j \in told
    BY <1>1, <1>3, <1>4, <1>5, <1>6, <2>2 DEF GoesOn
  <2>3. CASE i = m + 1 /\ j \in told
    BY <1>3, <1>4, <1>5, <1>6, <2>3 DEF GoesOn
  <2>4. CASE i \in shown /\ j = n + 1
    BY <1>3, <1>4, <1>5, <1>6, <2>4 DEF GoesOn
  <2> QED BY <1>1, <1>2, <2>1, <2>2, <2>3, <2>4
<1> QED BY <1>3, <1>4, <1>5, <1>6 DEF Agree, GoesOn, shownMore, toldMore

\* The chunk HandOver makes of a line, when it yields one.
LEMMA WhatIsHandedOver ==
  ASSUME IInv, NEW line \in Line, HandOver(line)
  PROVE  \E chunk \in Chunk, firstNs \in {None} \cup Time :
           /\ firstNs = IF Tells(line) /\ first = None THEN clock ELSE first
           /\ first' = firstNs
           /\ out' = IF Tells(line) \/ line.done THEN Append(out, chunk) ELSE out
           /\ chunk.text = line.text /\ chunk.calls = line.calls /\ chunk.done = line.done
           /\ chunk.observed = clock
           /\ Tells(chunk) <=> Tells(line)
           /\ line.done => /\ chunk.metrics.started = started
                           /\ chunk.metrics.first = firstNs
                           /\ chunk.metrics.completed = clock
           /\ ~line.done => chunk.metrics = None
<1> DEFINE firstNs == IF Meaningful(line) /\ first = None THEN clock ELSE first
           chunk == [text |-> line.text, calls |-> line.calls, done |-> line.done,
                     observed |-> clock,
                     metrics |-> IF line.done THEN Metrics(firstNs) ELSE None]
<1>1. firstNs \in {None} \cup Time
  BY DEF IInv, TypeOK
<1>2. line.text \in Texts /\ line.calls \in BOOLEAN /\ line.done \in BOOLEAN
  BY DEF Line, Texts
<1>3. chunk \in Chunk
  <2>1. Metrics(firstNs) \in [started : Time, first : {None} \cup Time, completed : Time]
    BY <1>1 DEF Metrics, IInv, TypeOK
  <2> QED BY <1>2, <2>1 DEF Chunk, IInv, TypeOK
<1>4. Meaningful(line) <=> Tells(line)
  BY MeaningfulTells
<1>5. first' = firstNs /\ out' = IF Meaningful(line) \/ line.done THEN Append(out, chunk) ELSE out
  BY DEF HandOver
<1>6. Tells(chunk) <=> Tells(line)
  BY DEF Tells
<1>7. /\ line.done => /\ chunk.metrics.started = started
                      /\ chunk.metrics.first = firstNs
                      /\ chunk.metrics.completed = clock
      /\ ~line.done => chunk.metrics = None
  BY DEF Metrics
<1>8. /\ chunk.text = line.text /\ chunk.calls = line.calls /\ chunk.done = line.done
      /\ chunk.observed = clock
  OBVIOUS
<1>9. firstNs = IF Tells(line) /\ first = None THEN clock ELSE first
  BY <1>4
<1> HIDE DEF chunk, firstNs
<1> QED BY <1>1, <1>3, <1>4, <1>5, <1>6, <1>7, <1>8, <1>9

LEMMA ReadKeepsItWhole ==
  ASSUME IInv, Whole, Read
  PROVE  Whole'
<1>1. /\ outcome = Running /\ read \in Nat /\ read + 1 \in 1..Len(sent) /\ read' = read + 1
      /\ sent' = sent /\ sent \in Seq(Line) /\ out \in Seq(Chunk)
      /\ Take(sent[read + 1])
  BY DEF Read, IInv, TypeOK, ollama
<1>2. Agree(out, sent, read)
  BY <1>1 DEF Whole
<1>3. PICK line \in Line : line = sent[read + 1]
  BY <1>1
<1>4. CASE line.kind = "blank" /\ UNCHANGED <<sawDone, first, out, outcome>>
  <2>1. line.text = <<>> /\ line.calls = FALSE
    BY <1>4 DEF Line
  <2>2. <<>> # <<"word">>
    OBVIOUS
  <2>3. ~Tells(line)
    BY <2>1, <2>2 DEF Tells
  <2>4. Agree(out, sent, read + 1)
    BY <1>1, <1>2, <1>3, <2>3, SilentLinesDoNotMatter
  <2> QED BY <1>1, <1>4, <2>4 DEF Whole, Running, Ended
<1>5. CASE outcome' = "protocol"
  BY <1>5 DEF Whole, Running, Ended
<1>6. CASE HandOver(line) /\ UNCHANGED outcome
  <2>1. PICK chunk \in Chunk :
          /\ out' = IF Tells(line) \/ line.done THEN Append(out, chunk) ELSE out
          /\ chunk.text = line.text /\ chunk.calls = line.calls
          /\ Tells(chunk) <=> Tells(line)
    BY <1>6, WhatIsHandedOver
  <2>2. Agree(out', sent, read + 1)
    <3>1. CASE Tells(line)
      <4>1. out' = Append(out, chunk)
        BY <2>1, <3>1
      <4>2. Agree(Append(out, chunk), sent, read + 1)
        BY <1>1, <1>2, <1>3, <2>1, <3>1, TellingLinesAreHandedOver
      <4> QED BY <4>1, <4>2
    <3>2. CASE ~Tells(line)
      <4>1. Agree(out, sent, read + 1)
        BY <1>1, <1>2, <1>3, <3>2, SilentLinesDoNotMatter
      <4>2. read + 1 \in Nat
        BY <1>1
      <4>3. ASSUME out' = Append(out, chunk) PROVE Agree(out', sent, read + 1)
        BY <1>1, <2>1, <3>2, <4>1, <4>2, <4>3, SilentChunksDoNotMatter
      <4> QED BY <2>1, <4>1, <4>3
    <3> QED BY <3>1, <3>2
  <2> QED BY <1>1, <1>6, <2>2 DEF Whole, Running, Ended
<1> QED BY <1>1, <1>3, <1>4, <1>5, <1>6 DEF Take

LEMMA WholeIsKept ==
  ASSUME IInv, Whole, [Next]_vars
  PROVE  Whole'
<1>1. CASE UNCHANGED <<sent, read, out, outcome>>
  BY <1>1 DEF Whole
<1>2. CASE Tick \/ Ask \/ Answer \/ Close \/ Drop \/ UNCHANGED vars
  BY <1>1, <1>2 DEF Tick, Ask, Answer, Close, Drop, ollama, reader, vars
<1>3. ASSUME NEW line \in Line, Send(line)
      PROVE  Whole'
  <2>1. /\ outcome = Running /\ sent' = Append(sent, line)
        /\ UNCHANGED <<read, out, outcome>>
        /\ sent \in Seq(Line) /\ read \in 0..Len(sent)
    BY <1>3 DEF Send, reader, IInv, TypeOK
  <2>2. Agree(out, Append(sent, line), read)
    BY <2>1, LaterLinesDoNotMatter DEF Whole
  <2> QED BY <2>1, <2>2 DEF Whole, Running, Ended
<1>4. CASE Refused \/ TimedOut \/ ConnectionLost
  BY <1>4 DEF Refused, TimedOut, ConnectionLost, Raise, Whole, Running, Ended
<1>5. CASE Finish
  BY <1>5 DEF Finish, Raise, ollama, reader, Whole, Running, Ended
<1> QED BY <1>2, <1>3, <1>4, <1>5, ReadKeepsItWhole DEF Next

\* All words and tool calls of a completed answer were yielded, in order, for
\* answers of any length.
THEOREM AnswerIsWholeHolds == Spec => []AnswerIsWhole
<1>1. Init => Whole
  <2> SUFFICES ASSUME Init PROVE Whole
    OBVIOUS
  <2>1. out = <<>> /\ read = 0 /\ outcome = Running /\ Len(out) = 0
    BY DEF Init
  <2>2. Telling(out) = {} /\ ToldIn(sent, read) = {}
    BY <2>1 DEF Telling, ToldIn
  <2> QED BY <2>1, <2>2 DEF Whole, Agree, Running, Ended
<1>2. IInv /\ Whole /\ [Next]_vars => Whole'
  BY WholeIsKept
<1>3. IInv /\ Whole => AnswerIsWhole
  <2> SUFFICES ASSUME IInv, Whole, outcome = Ended
               PROVE  /\ Cardinality(Telling(out)) = Cardinality(Telling(sent))
                      /\ \A i \in Telling(out), j \in Telling(sent) :
                           Place(Telling(out), i) = Place(Telling(sent), j) =>
                             out[i].text = sent[j].text /\ out[i].calls = sent[j].calls
    BY DEF AnswerIsWhole
  <2>1. Agree(out, sent, Len(sent))
    BY DEF Whole
  <2>2. Telling(sent) = ToldIn(sent, Len(sent))
    BY DEF Telling, ToldIn
  <2> QED BY <2>1, <2>2 DEF Agree
<1> QED BY <1>1, <1>2, <1>3, Invariant, PTL DEF Spec

----------------------------------------------------------------------------
(* The measurements.                                                        *)

LEMMA ReadKeepsTime ==
  ASSUME StreamAssumption, IInv, Timed, Read
  PROVE  Timed'
<1>1. /\ UNCHANGED <<clock, started, wire>> /\ wire # "none"
      /\ clock \in Nat /\ started \in Nat /\ out \in Seq(Chunk) /\ Len(out) \in Nat
      /\ Take(sent[read + 1]) /\ sent[read + 1] \in Line
      /\ first \in {None} \cup Nat /\ None \notin Nat
  BY DEF Read, IInv, TypeOK, ollama, StreamAssumption, Time
<1>2. PICK line \in Line : line = sent[read + 1]
  BY <1>1
<1>3. CASE UNCHANGED <<sawDone, first, out>>
  BY <1>1, <1>3 DEF Timed
<1>4. CASE ~sawDone /\ sawDone' = line.done /\ HandOver(line)
  <2>1. PICK chunk \in Chunk, firstNs \in {None} \cup Time :
           /\ firstNs = IF Tells(line) /\ first = None THEN clock ELSE first
           /\ first' = firstNs
           /\ out' = IF Tells(line) \/ line.done THEN Append(out, chunk) ELSE out
           /\ chunk.done = line.done
           /\ chunk.observed = clock
           /\ Tells(chunk) <=> Tells(line)
           /\ line.done => /\ chunk.metrics.started = started
                           /\ chunk.metrics.first = firstNs
                           /\ chunk.metrics.completed = clock
           /\ ~line.done => chunk.metrics = None
    BY <1>4, WhatIsHandedOver
  <2>2. CASE ~Tells(line) /\ ~line.done
    <3>1. UNCHANGED <<first, out>> /\ sawDone' = FALSE
      BY <1>4, <2>1, <2>2 DEF Line
    <3> QED BY <1>1, <3>1 DEF Timed
  <2>3. CASE Tells(line) \/ line.done
    <3>1. /\ out' = Append(out, chunk) /\ Len(out') = Len(out) + 1 /\ out'[Len(out) + 1] = chunk
          /\ \A i \in 1..Len(out) : out'[i] = out[i]
      BY <1>1, <2>1, <2>3
    <3>2. started <= clock /\ (firstNs # None => firstNs \in started..clock)
      BY <1>1, <2>1 DEF Timed
    <3>3. \A i \in 1..Len(out') : ~out'[i].done => out'[i].metrics = None
      BY <1>1, <2>1, <3>1 DEF Timed
    <3>4. CASE Tells(line)
      <4>1. /\ Telling(out') = Telling(out) \cup {Len(out) + 1}
            /\ Telling(out) \in SUBSET (1..Len(out))
        BY <1>1, <2>1, <3>1, <3>4, TellingChunks
      <4>2. firstNs # None
        BY <1>1, <2>1, <3>4
      <4>3. ASSUME NEW i \in Telling(out'), \A j \in Telling(out') : i <= j
            PROVE  out'[i].observed = firstNs
        <5>1. CASE i = Len(out) + 1
          <6>1. Telling(out) = {}
            BY <1>1, <4>1, <4>3, <5>1
          <6> QED BY <2>1, <3>1, <3>4, <5>1, <6>1 DEF Timed
        <5>2. CASE i \in Telling(out)
          <6>1. first # None /\ out[i].observed = first
            BY <4>1, <4>3, <5>2 DEF Timed
          <6> QED BY <2>1, <3>1, <4>1, <5>2, <6>1
        <5> QED BY <4>1, <5>1, <5>2
      <4>4. sawDone' => /\ out'[Len(out')].metrics.started = started'
                        /\ out'[Len(out')].metrics.first = first'
                        /\ out'[Len(out')].metrics.completed \in started'..clock'
                        /\ first' # None => first' <= out'[Len(out')].metrics.completed
        BY <1>1, <1>4, <2>1, <3>1, <3>2
      <4>5. Telling(out') # {}
        BY <4>1
      <4> QED BY <1>1, <2>1, <3>2, <3>3, <4>2, <4>3, <4>4, <4>5 DEF Timed
    <3>5. CASE ~Tells(line)
      <4>1. Telling(out') = Telling(out) /\ Telling(out) \in SUBSET (1..Len(out))
        BY <1>1, <2>1, <3>1, <3>5, SilentChunks DEF Telling
      <4>2. firstNs = first
        BY <2>1, <3>5
      <4>3. ASSUME NEW i \in Telling(out'), \A j \in Telling(out') : i <= j
            PROVE  out'[i].observed = firstNs
        BY <3>1, <4>1, <4>2, <4>3 DEF Timed
      <4>4. sawDone' => /\ out'[Len(out')].metrics.started = started'
                        /\ out'[Len(out')].metrics.first = first'
                        /\ out'[Len(out')].metrics.completed \in started'..clock'
                        /\ first' # None => first' <= out'[Len(out')].metrics.completed
        BY <1>1, <1>4, <2>1, <3>1, <3>2
      <4>5. firstNs = None <=> Telling(out') = {}
        BY <4>1, <4>2 DEF Timed
      <4> QED BY <1>1, <2>1, <3>2, <3>3, <4>3, <4>4, <4>5 DEF Timed
    <3> QED BY <3>4, <3>5
  <2> QED BY <2>2, <2>3
<1> QED BY <1>1, <1>2, <1>3, <1>4 DEF Take

LEMMA TimedIsKept ==
  ASSUME StreamAssumption, IInv, Timed, [Next]_vars
  PROVE  Timed'
<1>1. CASE UNCHANGED <<clock, started, sawDone, first, out>> /\ (wire' = "none" => wire = "none")
  BY <1>1 DEF Timed
<1>2. CASE Tick
  <2>1. clock' = clock + 1 /\ UNCHANGED <<started, wire, sawDone, first, out>>
    BY <1>2 DEF Tick, ollama, reader
  <2>2. clock \in Nat /\ started \in Nat
    BY DEF IInv, TypeOK, Time, StreamAssumption
  <2>3. started..clock \subseteq started..clock'
    BY <2>1, <2>2
  <2> QED BY <2>1, <2>2, <2>3 DEF Timed
<1>3. CASE Ask
  <2>1. wire = "none" /\ wire' = "asked" /\ started' = clock
        /\ UNCHANGED <<clock, sawDone, first, out>>
    BY <1>3 DEF Ask, reader
  <2>2. first = None /\ out = <<>> /\ ~sawDone
    BY <2>1 DEF Timed, IInv, FinalIsLast
  <2>3. clock \in Nat
    BY DEF IInv, TypeOK, Time, StreamAssumption
  <2> QED BY <2>1, <2>2, <2>3 DEF Timed
<1>4. CASE Answer \/ Close \/ Drop \/ (\E line \in Line : Send(line))
  BY <1>1, <1>4 DEF Answer, Close, Drop, Send, reader
<1>5. CASE Refused \/ TimedOut \/ ConnectionLost \/ Finish
  BY <1>1, <1>5 DEF Refused, TimedOut, ConnectionLost, Finish, Raise, ollama, reader
<1>6. CASE UNCHANGED vars
  BY <1>1, <1>6 DEF vars
<1> QED BY <1>2, <1>3, <1>4, <1>5, <1>6, ReadKeepsTime DEF Next

\* The measurements of the final chunk are in order and fit what was yielded, for
\* answers of any length.
THEOREM MetricsFitTheChunksHolds == Spec => []MetricsFitTheChunks
<1>1. Init => Timed
  <2> SUFFICES ASSUME Init PROVE Timed
    OBVIOUS
  <2>1. out = <<>> /\ first = None /\ clock = 0 /\ started = 0 /\ ~sawDone /\ Len(out) = 0
    BY DEF Init
  <2>2. Telling(out) = {}
    BY <2>1 DEF Telling
  <2> QED BY <2>1, <2>2 DEF Timed
<1>2. IInv /\ Timed /\ [Next]_vars => Timed'
  BY TimedIsKept, StreamAssumption
<1>3. IInv /\ Timed => MetricsFitTheChunks
  <2> SUFFICES ASSUME IInv, Timed, outcome = Ended
               PROVE  LET taken == Last(out).metrics
                      IN  /\ taken.started <= taken.completed
                          /\ taken.first = None <=> Telling(out) = {}
                          /\ \A i \in Telling(out) :
                               (\A j \in Telling(out) : i <= j) => taken.first = out[i].observed
                          /\ taken.first # None => taken.first \in taken.started..taken.completed
                          /\ \A i \in 1..(Len(out) - 1) : out[i].metrics = None
    BY DEF MetricsFitTheChunks
  <2> DEFINE taken == Last(out).metrics
  <2>1. sawDone /\ Len(out) \in Nat /\ started \in Nat /\ clock \in Nat
    BY StreamAssumption DEF IInv, TypeOK, FinalIsLast, Time, StreamAssumption
  <2>2. /\ taken.started = started /\ taken.first = first /\ taken.completed \in started..clock
        /\ first # None => first <= taken.completed
    BY <2>1 DEF Timed, Last
  <2> HIDE DEF taken
  <2>3. taken.started <= taken.completed
    BY <2>1, <2>2
  <2>4. first # None => first \in started..clock
    BY DEF Timed
  <2>5. taken.first # None => taken.first \in taken.started..taken.completed
    BY <2>1, <2>2, <2>4
  <2>6. ASSUME NEW i \in 1..(Len(out) - 1) PROVE out[i].metrics = None
    BY <2>1 DEF Timed, IInv, FinalIsLast
  <2>7. /\ taken.first = None <=> Telling(out) = {}
        /\ \A i \in Telling(out) :
             (\A j \in Telling(out) : i <= j) => taken.first = out[i].observed
    BY <2>2 DEF Timed
  <2> QED BY <2>3, <2>5, <2>6, <2>7 DEF taken
<1> QED BY <1>1, <1>2, <1>3, Invariant, PTL DEF Spec
=============================================================================
