------------------------------- MODULE CliProofs -------------------------------
(***************************************************************************)
(* What is proved of the command line (Cli) and of the benchmark beneath   *)
(* it (BenchmarkRunner): a record in the file is true and stays there, the *)
(* exit status and the report of a benchmark agree with the file, and the  *)
(* outcome of `call` tells what 1C did.                                    *)
(***************************************************************************)
EXTENDS Cli, FiniteSetTheorems, SequenceTheorems, TLAPS

-----------------------------------------------------------------------------
(* The runner alone.                                                       *)

\* Where the runner is inside the loops.
Inner ==
  {"unload", "warm up", "warm chunk", "verify", "measure", "stream", "chunk", "inspect",
   "append", "sync"}
Asking == {"version", "show"}

Warm(p) == Plan[p].mode = "warm"
WarmUps(p) == IF Warm(p) THEN 1 ELSE 0

Entry ==
  [kind : {"record"}, run : Nat, position : DOMAIN Plan,
   error : {"none", "run_failed", "invalid_state"},
   streams : Nat, loaded : BOOLEAN, disturbed : BOOLEAN]

\* A record that says the truth about its measurement.
Faithful(x) ==
  /\ x \in Entry
  /\ x.error = "none" => x.streams = WarmUps(x.position) + 1
  /\ x.error = "invalid_state" => x.streams = WarmUps(x.position)
  /\ x.error = "none" /\ ~x.disturbed => x.loaded = Warm(x.position)

RunnerTypeOK ==
  /\ loaded \in BOOLEAN /\ state \in BOOLEAN /\ disturbed \in BOOLEAN
  /\ pc \in Inner \cup Asking \cup Ended
  /\ run \in Nat /\ position \in Nat /\ streams \in Nat
  /\ pc \in Inner => position \in DOMAIN Plan
  /\ file \in Seq(Entry \cup {Part, NewLine})
  /\ synced \in 0..Len(file)

\* The repetition in progress has requested what its place in the loop says, in
\* the state that was confirmed unless somebody interfered.
Consistent ==
  /\ pc = "unload" => ~Warm(position) /\ streams = 0
  /\ pc \in {"warm up", "warm chunk"} => Warm(position) /\ streams = 0
  /\ pc = "verify" => streams = WarmUps(position)
  /\ pc \in {"measure", "stream", "chunk", "inspect"} => streams = WarmUps(position) + 1
  /\ pc = "measure" => disturbed \/ loaded = Warm(position)
  /\ pc \in {"stream", "chunk", "inspect"} => disturbed \/ state = Warm(position)
  /\ pc \in {"append", "sync"} =>
       Faithful(result) /\ result.run = run /\ result.position = position

FileIsFaithful == \A i \in DOMAIN file : IsRecord(file[i]) => Faithful(file[i])

RunnerInvariant == RunnerTypeOK /\ Consistent /\ FileIsFaithful

\* Division as the flattened loops use it.
LEMMA LoopIndex ==
  ASSUME NEW r \in Nat \ {0}, NEW m \in {1, 2}, NEW x \in Nat
  PROVE  (x % (m * r)) \div r \in 0..(m - 1)
<1> DEFINE y == x % (m * r)
<1>1. m * r \in Nat \ {0} /\ m * r <= 2 * r /\ (m = 1 => m * r = r)
  OBVIOUS
<1>2. y \in Nat /\ y < m * r
  BY <1>1
<1>3. y \div r \in Nat /\ r * (y \div r) <= y
  BY <1>2
<1>4. y \div r < m
  <2> DEFINE q == y \div r
  <2>1. q \in Nat /\ r * q < m * r
    BY <1>1, <1>2, <1>3
  <2> HIDE DEF q
  <2>2. CASE m = 1
    BY <2>1, <2>2
  <2>3. CASE m = 2
    BY <2>1, <2>3
  <2> QED BY <2>2, <2>3 DEF q
<1> QED BY <1>3, <1>4

\* A repetition is cold or warm.
LEMMA PlanModes ==
  /\ Len(Plan) \in Nat /\ DOMAIN Plan = 1..Len(Plan)
  /\ \A i \in DOMAIN Plan : Plan[i].mode \in {"cold", "warm"}
<1>1. /\ Len(Modes) \in {1, 2}
      /\ \A k \in 1..Len(Modes) : Modes[k] \in {"cold", "warm"}
  BY BenchmarkAssumption
<1>2. PerScenario \in Nat /\ Scenarios * PerScenario \in Nat
  BY <1>1, BenchmarkAssumption DEF PerScenario
<1>3. Len(Plan) = Scenarios * PerScenario /\ DOMAIN Plan = 1..Len(Plan)
  BY <1>2 DEF Plan
<1>4. ASSUME NEW i \in DOMAIN Plan
      PROVE  Plan[i].mode \in {"cold", "warm"}
  <2> DEFINE k == ((i - 1) % PerScenario) \div Repeat
  <2>1. i \in 1..(Scenarios * PerScenario) /\ i - 1 \in Nat
    BY <1>2, <1>3
  <2>2. k \in 0..(Len(Modes) - 1)
    BY <1>1, <2>1, LoopIndex, BenchmarkAssumption DEF PerScenario
  <2>3. Plan[i].mode = Modes[k + 1]
    BY <2>1 DEF Plan
  <2> HIDE DEF k
  <2>4. k + 1 \in 1..Len(Modes)
    BY <2>2, <1>1
  <2> QED BY <2>3, <2>4, <1>1
<1> QED BY <1>2, <1>3, <1>4

\* What a record is made of.
LEMMA ResultIsEntry ==
  ASSUME RunnerTypeOK, position \in DOMAIN Plan,
         NEW error \in {"none", "run_failed", "invalid_state"}
  PROVE  /\ Result(error) \in Entry
         /\ Result(error).run = run /\ Result(error).position = position
         /\ Result(error).error = error /\ Result(error).streams = streams
         /\ Result(error).loaded = state /\ Result(error).disturbed = disturbed
         /\ IsRecord(Result(error))
BY DEF Result, Entry, RunnerTypeOK, IsRecord

\* A piece of a record and the end of a line are no records.
LEMMA NoRecords ==
  /\ ~IsRecord(Part) /\ ~IsRecord(NewLine)
  /\ \A x \in Entry : IsRecord(x)
BY DEF IsRecord, Part, NewLine, Entry

\* The head of the innermost loop.
LEMMA RepetitionBegins ==
  ASSUME NEW i \in Nat \ {0}, Repetition(i)
  PROVE  /\ position' = i /\ streams' = 0 /\ state' = FALSE /\ disturbed' = FALSE
         /\ pc' \in {"unload", "warm up", "done"}
         /\ pc' = "done" <=> i > Len(Plan)
         /\ pc' # "done" => i \in DOMAIN Plan
         /\ pc' = "unload" => ~Warm(i)
         /\ pc' = "warm up" => Warm(i)
<1>1. i > Len(Plan) \/ i \in DOMAIN Plan
  BY PlanModes
<1>2. i \in DOMAIN Plan => ~(i > Len(Plan))
  BY PlanModes
<1> QED BY <1>1, <1>2, PlanModes DEF Repetition, Warm

LEMMA RunnerStarts == Init => RunnerInvariant
<1> SUFFICES ASSUME Init PROVE RunnerInvariant
  OBVIOUS
<1>1. /\ loaded \in BOOLEAN /\ pc = "down" /\ run = 0 /\ position = 0
      /\ streams = 0 /\ state = FALSE /\ disturbed = FALSE
      /\ file = <<>> /\ synced = 0
  BY DEF Init
<1>2. RunnerTypeOK
  <2>1. file \in Seq(Entry \cup {Part, NewLine}) /\ synced \in 0..Len(file)
    BY <1>1
  <2> QED BY <1>1, <2>1 DEF RunnerTypeOK, Inner, Asking, Ended
<1>3. Consistent
  BY <1>1 DEF Consistent
<1>4. FileIsFaithful
  BY <1>1 DEF FileIsFaithful
<1> QED BY <1>2, <1>3, <1>4 DEF RunnerInvariant

\* Steps inside a repetition that leave the file alone.
LEMMA MeasuringIsFaithful ==
  ASSUME RunnerInvariant,
         Unload \/ Chunk \/ WarmUp \/ Verify \/ Measure \/ Streamed \/ Inspect
  PROVE  RunnerInvariant'
<1> USE DEF RunnerInvariant
<1>0. /\ RunnerTypeOK /\ Consistent /\ FileIsFaithful
      /\ position \in DOMAIN Plan /\ run' = run /\ position' = position
      /\ file' = file /\ synced' = synced
  BY DEF Unload, Chunk, WarmUp, Verify, Measure, Streamed, Inspect, RunnerTypeOK, Inner, output
<1>1. FileIsFaithful'
  BY <1>0 DEF FileIsFaithful
<1>2. WarmUps(position) \in {0, 1} /\ (Mode = "warm" <=> Warm(position))
  BY DEF WarmUps, Mode, Warm
<1>3. ASSUME NEW error \in {"none", "run_failed", "invalid_state"}, Fail(error),
             error = "none" => /\ streams = WarmUps(position) + 1
                               /\ disturbed \/ state = Warm(position),
             error = "invalid_state" => streams = WarmUps(position)
      PROVE  Faithful(result') /\ result'.run = run /\ result'.position = position /\ pc' = "append"
  <2>1. result' = Result(error) /\ pc' = "append"
    BY <1>3 DEF Fail
  <2> QED BY <2>1, <1>0, <1>3, ResultIsEntry DEF Faithful
<1>4. CASE Unload
  <2>1. ~Warm(position) /\ streams = 0 /\ WarmUps(position) = 0
    BY <1>0, <1>4 DEF Unload, Consistent, WarmUps
  <2>2. \/ pc' = "verify"
        \/ Faithful(result') /\ result'.run = run /\ result'.position = position /\ pc' = "append"
    BY <1>3, <1>4, <2>1 DEF Unload
  <2>3. /\ loaded' \in BOOLEAN /\ streams' = streams /\ state' = state /\ disturbed' = disturbed
    BY <1>4, <1>0 DEF Unload, RunnerTypeOK
  <2>4. RunnerTypeOK'
    BY <1>0, <2>2, <2>3 DEF RunnerTypeOK, Inner, Asking, Ended
  <2>5. Consistent'
    BY <1>0, <2>1, <2>2, <2>3 DEF Consistent, WarmUps, Warm
  <2> QED BY <1>1, <2>4, <2>5
<1>5. CASE WarmUp
  <2>1. Warm(position) /\ streams = 0 /\ WarmUps(position) = 1
    BY <1>0, <1>5 DEF WarmUp, Consistent, WarmUps
  <2>2. ASSUME result' = [Result("run_failed") EXCEPT !.streams = 1]
        PROVE  Faithful(result') /\ result'.run = run /\ result'.position = position
    <3>1. Result("run_failed") \in Entry
      BY <1>0, ResultIsEntry
    <3>2. result' = [kind |-> "record", run |-> run, position |-> position,
                     error |-> "run_failed", streams |-> 1, loaded |-> state,
                     disturbed |-> disturbed]
      BY <2>2 DEF Result
    <3>3. result' \in Entry
      BY <3>2, <1>0 DEF Entry, RunnerTypeOK
    <3> QED BY <3>2, <3>3 DEF Faithful
  <2>3. \/ pc' = "verify"
        \/ Faithful(result') /\ result'.run = run /\ result'.position = position /\ pc' = "append"
    BY <1>5, <2>2 DEF WarmUp
  <2>4. /\ loaded' \in BOOLEAN /\ streams' = 1 /\ state' = state /\ disturbed' = disturbed
    BY <1>5 DEF WarmUp
  <2>5. RunnerTypeOK'
    BY <1>0, <2>3, <2>4 DEF RunnerTypeOK, Inner, Asking, Ended
  <2>6. Consistent'
    BY <1>0, <2>1, <2>3, <2>4 DEF Consistent, WarmUps, Warm
  <2> QED BY <1>1, <2>5, <2>6
<1>6. CASE Verify
  <2>1. streams = WarmUps(position)
    BY <1>0, <1>6 DEF Verify, Consistent
  <2>2. \/ /\ loaded = Warm(position) /\ pc' = "measure" /\ streams' = streams + 1
        \/ /\ Faithful(result') /\ result'.run = run /\ result'.position = position
           /\ pc' = "append" /\ streams' = streams
    <3>1. CASE loaded = (Mode = "warm") /\ pc' = "measure" /\ streams' = streams + 1
      BY <3>1 DEF Warm, Mode
    <3>2. CASE Fail("invalid_state") /\ streams' = streams
      BY <3>2, <1>3, <2>1
    <3> QED BY <1>6, <3>1, <3>2 DEF Verify
  <2>3. /\ loaded' = loaded /\ state' = state /\ disturbed' = disturbed
    BY <1>6 DEF Verify
  <2>4. RunnerTypeOK'
    <3>1. pc' \in Inner
      BY <2>2 DEF Inner
    <3>2. streams' \in Nat
      BY <2>2, <1>0 DEF RunnerTypeOK
    <3> QED BY <1>0, <2>3, <3>1, <3>2 DEF RunnerTypeOK
  <2>5. Consistent'
    BY <1>0, <2>1, <2>2, <2>3 DEF Consistent, WarmUps, Warm
  <2> QED BY <1>1, <2>4, <2>5
<1>7. CASE Measure
  <2>1. /\ streams = WarmUps(position) + 1 /\ (disturbed \/ loaded = Warm(position))
    BY <1>0, <1>7 DEF Measure, Consistent
  <2>2. /\ loaded' = TRUE /\ state' = loaded /\ disturbed' = disturbed /\ streams' = streams
        /\ pc' = "stream"
    BY <1>7 DEF Measure
  <2>3. RunnerTypeOK'
    BY <1>0, <2>2 DEF RunnerTypeOK, Inner, Asking, Ended
  <2>4. Consistent'
    BY <1>0, <2>1, <2>2 DEF Consistent, WarmUps, Warm
  <2> QED BY <1>1, <2>3, <2>4
<1>8. CASE Streamed \/ Inspect
  <2>1. /\ streams = WarmUps(position) + 1 /\ (disturbed \/ state = Warm(position))
    BY <1>0, <1>8 DEF Streamed, Inspect, Consistent
  <2>2. \/ pc' = "inspect"
        \/ Faithful(result') /\ result'.run = run /\ result'.position = position /\ pc' = "append"
    BY <1>3, <1>8, <2>1 DEF Streamed, Inspect
  <2>3. /\ loaded' \in BOOLEAN /\ streams' = streams /\ state' = state /\ disturbed' = disturbed
    BY <1>8, <1>0 DEF Streamed, Inspect, RunnerTypeOK
  <2>4. RunnerTypeOK'
    BY <1>0, <2>2, <2>3 DEF RunnerTypeOK, Inner, Asking, Ended
  <2>5. Consistent'
    BY <1>0, <2>1, <2>2, <2>3 DEF Consistent, WarmUps, Warm
  <2> QED BY <1>1, <2>4, <2>5
<1>9. CASE Chunk
  <2>1. /\ loaded' = loaded /\ streams' = streams /\ state' = state /\ disturbed' = disturbed
        /\ result' = result
        /\ \/ pc \in {"warm up", "warm chunk"} /\ pc' \in {"warm up", "warm chunk"}
           \/ pc \in {"stream", "chunk"} /\ pc' \in {"stream", "chunk"}
    BY <1>9 DEF Chunk, repetition
  <2>2. RunnerTypeOK'
    <3>1. pc' \in Inner
      BY <2>1 DEF Inner
    <3> QED BY <1>0, <2>1, <3>1 DEF RunnerTypeOK
  <2>3. Consistent'
    BY <1>0, <2>1 DEF Consistent, WarmUps, Warm
  <2> QED BY <1>1, <2>2, <2>3
<1> QED BY <1>4, <1>5, <1>6, <1>7, <1>8, <1>9

\* What is left of a file, perhaps with a piece of a record after it.
LEMMA PartsOfTheFile ==
  ASSUME NEW S, NEW f \in Seq(S), NEW k \in 0..Len(f), NEW x \in S
  PROVE  /\ SubSeq(f, 1, k) \in Seq(S) /\ Len(SubSeq(f, 1, k)) = k
         /\ \A i \in 1..k : SubSeq(f, 1, k)[i] = f[i]
         /\ Append(SubSeq(f, 1, k), x) \in Seq(S)
         /\ Len(Append(SubSeq(f, 1, k), x)) = k + 1
         /\ \A i \in 1..k : Append(SubSeq(f, 1, k), x)[i] = f[i]
         /\ Append(SubSeq(f, 1, k), x)[k + 1] = x
<1>1. k \in Nat /\ k <= Len(f) /\ Len(f) \in Nat
  OBVIOUS
<1>2. /\ SubSeq(f, 1, k) \in Seq(S) /\ Len(SubSeq(f, 1, k)) = k
      /\ \A i \in 1..k : SubSeq(f, 1, k)[i] = f[i]
  BY <1>1
<1> DEFINE g == SubSeq(f, 1, k)
<1> HIDE DEF g
<1>3. g \in Seq(S) /\ Len(g) = k
  BY <1>2 DEF g
<1>4. /\ Append(g, x) \in Seq(S) /\ Len(Append(g, x)) = k + 1
      /\ \A i \in 1..k : Append(g, x)[i] = g[i]
      /\ Append(g, x)[k + 1] = x
  BY <1>1, <1>3
<1> QED BY <1>2, <1>4 DEF g

\* A file that is a part of a faithful one, perhaps with a torn record or a true
\* one behind it, is faithful.
LEMMA PiecesAreFaithful ==
  ASSUME file \in Seq(Entry \cup {Part, NewLine}), FileIsFaithful,
         NEW k \in 0..Len(file), NEW x, x = Part \/ Faithful(x),
         file' \in {SubSeq(file, 1, k), Append(SubSeq(file, 1, k), x)}
  PROVE  /\ file' \in Seq(Entry \cup {Part, NewLine}) /\ Len(file') \in k..(k + 1)
         /\ \A i \in 1..k : file'[i] = file[i]
         /\ \A i \in DOMAIN file' : i \in 1..k \/ file'[i] = x
         /\ FileIsFaithful'
<1>1. x \in Entry \cup {Part, NewLine}
  BY DEF Faithful
<1>2. /\ file' \in Seq(Entry \cup {Part, NewLine}) /\ Len(file') \in k..(k + 1)
      /\ \A i \in 1..k : file'[i] = file[i]
      /\ Len(file') = k \/ file'[k + 1] = x
  <2> DEFINE S == Entry \cup {Part, NewLine}
  <2> HIDE DEF S
  <2>1. file \in Seq(S) /\ x \in S
    BY <1>1 DEF S
  <2>2. /\ SubSeq(file, 1, k) \in Seq(S) /\ Len(SubSeq(file, 1, k)) = k
        /\ \A i \in 1..k : SubSeq(file, 1, k)[i] = file[i]
        /\ Append(SubSeq(file, 1, k), x) \in Seq(S)
        /\ Len(Append(SubSeq(file, 1, k), x)) = k + 1
        /\ \A i \in 1..k : Append(SubSeq(file, 1, k), x)[i] = file[i]
        /\ Append(SubSeq(file, 1, k), x)[k + 1] = x
    BY <2>1, PartsOfTheFile
  <2>3. k \in Nat /\ k \in k..(k + 1) /\ k + 1 \in k..(k + 1)
    BY <2>1
  <2>4. CASE file' = SubSeq(file, 1, k)
    BY <2>2, <2>3, <2>4 DEF S
  <2>5. CASE file' = Append(SubSeq(file, 1, k), x)
    BY <2>2, <2>3, <2>5 DEF S
  <2> QED BY <2>4, <2>5
<1>3. \A i \in DOMAIN file' : i \in 1..k \/ (i = k + 1 /\ file'[i] = x)
  BY <1>2
<1>4. FileIsFaithful'
  BY <1>2, <1>3, NoRecords DEF FileIsFaithful
<1> QED BY <1>2, <1>3, <1>4

\* The file as the writer leaves it.
LEMMA RecordWritten ==
  ASSUME RunnerInvariant, Write
  PROVE  /\ result \in Entry /\ Faithful(result) /\ IsRecord(result)
         /\ result.run = run /\ result.position = position
         /\ file' \in Seq(Entry \cup {Part, NewLine}) /\ Len(file') = Len(file) + 2
         /\ \A i \in 1..Len(file) : file'[i] = file[i]
         /\ file'[Len(file) + 1] = result /\ file'[Len(file) + 2] = NewLine
<1>1. /\ Faithful(result) /\ result \in Entry /\ result.run = run /\ result.position = position
  BY DEF RunnerInvariant, Consistent, Write, Faithful
<1>2. IsRecord(result)
  BY <1>1, NoRecords
<1>3. file \in Seq(Entry \cup {Part, NewLine}) /\ file' = file \o <<result, NewLine>>
  BY DEF RunnerInvariant, RunnerTypeOK, Write
<1> DEFINE S == Entry \cup {Part, NewLine}
           line == <<result, NewLine>>
<1>4. line \in Seq(S) /\ Len(line) = 2 /\ line[1] = result /\ line[2] = NewLine
  BY <1>1
<1> HIDE DEF S, line
<1>5. file \in Seq(S) /\ file' = file \o line
  BY <1>3 DEF S, line
<1>6. /\ file' \in Seq(S) /\ Len(file') = Len(file) + Len(line)
      /\ \A i \in 1..(Len(file) + Len(line)) :
           file'[i] = IF i <= Len(file) THEN file[i] ELSE line[i - Len(file)]
  BY <1>4, <1>5, ConcatProperties
<1>7. \A i \in 1..Len(file) : file'[i] = file[i]
  BY <1>4, <1>5, <1>6, LenProperties
<1>8. file'[Len(file) + 1] = line[1] /\ file'[Len(file) + 2] = line[2]
  <2>1. Len(file) \in Nat /\ Len(line) = 2
    BY <1>4, <1>5, LenProperties
  <2> QED BY <1>6, <2>1
<1> QED BY <1>1, <1>2, <1>4, <1>6, <1>7, <1>8 DEF S

\* A kill or a failing write leaves what was confirmed, some of the rest, and
\* behind it perhaps a torn record or the one being written.
LEMMA FileCut ==
  ASSUME RunnerInvariant, WriteFails \/ Kill
  PROVE  \E k \in synced..Len(file), x \in {Part, result} :
           /\ x = Part \/ (Faithful(x) /\ x.run = run)
           /\ file' \in {SubSeq(file, 1, k), Append(SubSeq(file, 1, k), x)}
<1>1. /\ file \in Seq(Entry \cup {Part, NewLine}) /\ Len(file) \in synced..Len(file)
      /\ Consistent
  BY DEF RunnerInvariant, RunnerTypeOK
<1>2. CASE Kill
  <2>1. PICK k \in synced..Len(file) :
               file' \in {SubSeq(file, 1, k), Append(SubSeq(file, 1, k), Part)}
    BY <1>2 DEF Kill
  <2> QED BY <2>1
<1>3. CASE WriteFails
  <2>1. SubSeq(file, 1, Len(file)) = file
    BY <1>1
  <2>2. \/ file' \in {file, Append(file, Part)}
        \/ file' = Append(file, result) /\ Faithful(result) /\ result.run = run
    BY <1>1, <1>3 DEF WriteFails, Consistent
  <2>3. \/ file' \in {SubSeq(file, 1, Len(file)), Append(SubSeq(file, 1, Len(file)), Part)}
        \/ /\ file' = Append(SubSeq(file, 1, Len(file)), result)
           /\ Faithful(result) /\ result.run = run
    BY <2>1, <2>2
  <2> QED BY <1>1, <2>3
<1> QED BY <1>2, <1>3

\* What is in the file up to some place is all SubSeq sees of it.
LEMMA SamePrefix ==
  ASSUME NEW S, NEW f \in Seq(S), NEW g \in Seq(S), NEW k \in Nat,
         k <= Len(f), k <= Len(g), \A i \in 1..k : g[i] = f[i]
  PROVE  SubSeq(g, 1, k) = SubSeq(f, 1, k)
<1>1. /\ SubSeq(f, 1, k) = [i \in 1..k |-> f[i]]
      /\ SubSeq(g, 1, k) = [i \in 1..k |-> g[i]]
  BY SMT
<1> QED BY <1>1

\* Where the runner may be.
LEMMA Places ==
  /\ \A p \in {"unload", "warm up", "sync"} : p \in Inner
  /\ \A p \in {"down", "refused", "done"} : p \in Ended /\ p \notin Inner
BY DEF Inner, Ended

\* What a step of the runner keeps, and what it does to the file: every record
\* fsync has confirmed stays at its place.
LEMMA StepsAreFaithful ==
  ASSUME RunnerInvariant, Next
  PROVE  /\ RunnerInvariant'
         /\ synced <= synced' /\ synced <= Len(file')
         /\ \A i \in 1..synced : file'[i] = file[i]
<1> USE DEF RunnerInvariant
<1>0. /\ RunnerTypeOK /\ Consistent /\ FileIsFaithful
      /\ synced \in Nat /\ Len(file) \in Nat /\ synced <= Len(file)
      /\ file \in Seq(Entry \cup {Part, NewLine})
  BY DEF RunnerTypeOK
<1>1. ASSUME file' = file, synced' = synced
      PROVE  /\ synced <= synced' /\ synced <= Len(file')
             /\ \A i \in 1..synced : file'[i] = file[i]
             /\ FileIsFaithful'
  BY <1>0, <1>1 DEF FileIsFaithful
<1>2. CASE Begin \/ Version
  <2>1. /\ file' = file /\ synced' = synced /\ loaded' = loaded /\ run' = run
        /\ position' = position /\ streams' = streams /\ state' = state
        /\ disturbed' = disturbed /\ pc' \in {"version", "show", "refused"}
    BY <1>2 DEF Begin, Version, output, repetition
  <2>2. RunnerTypeOK'
    BY <1>0, <2>1 DEF RunnerTypeOK, Inner, Asking, Ended
  <2>3. Consistent'
    BY <2>1 DEF Consistent
  <2> QED BY <1>1, <2>1, <2>2, <2>3
<1>3. CASE Show
  <2>1. file' = file /\ synced' = synced /\ loaded' = loaded
    BY <1>3 DEF Show, output
  <2>2. CASE pc' = "refused" /\ UNCHANGED <<run, position, repetition>>
    <3>1. RunnerTypeOK'
      BY <1>0, <2>1, <2>2 DEF RunnerTypeOK, Inner, Asking, Ended, repetition
    <3>2. Consistent'
      BY <2>2 DEF Consistent
    <3> QED BY <1>1, <2>1, <3>1, <3>2
  <2>3. CASE run' = run + 1 /\ Repetition(1)
    <3>1. /\ position' = 1 /\ streams' = 0 /\ state' = FALSE /\ disturbed' = FALSE
          /\ pc' \in {"unload", "warm up", "done"}
          /\ pc' # "done" => position' \in DOMAIN Plan
          /\ pc' = "unload" => ~Warm(position')
          /\ pc' = "warm up" => Warm(position')
      <4>1. 1 \in Nat \ {0} /\ Repetition(1)
        BY <2>3
      <4> QED BY <4>1, RepetitionBegins
    <3>2. RunnerTypeOK'
      <4>1. pc' \in Inner \cup Asking \cup Ended /\ (pc' \in Inner => position' \in DOMAIN Plan)
        BY <3>1, Places
      <4>2. run' \in Nat /\ position' \in Nat /\ streams' \in Nat
        <5>1. run \in Nat
          BY <1>0 DEF RunnerTypeOK
        <5>2. run' = run + 1
          BY <2>3
        <5>3. position' = 1 /\ streams' = 0
          BY <3>1
        <5> QED BY <5>1, <5>2, <5>3
      <4>3. synced' \in 0..Len(file')
        BY <1>0, <2>1
      <4> QED BY <1>0, <2>1, <3>1, <4>1, <4>2, <4>3 DEF RunnerTypeOK
    <3>3. Consistent'
      BY <3>1 DEF Consistent, Warm
    <3> QED BY <1>1, <2>1, <3>2, <3>3
  <2> QED BY <1>3, <2>2, <2>3 DEF Show
<1>4. CASE Unload \/ Chunk \/ WarmUp \/ Verify \/ Measure \/ Streamed \/ Inspect
  <2>1. file' = file /\ synced' = synced
    BY <1>4 DEF Unload, Chunk, WarmUp, Verify, Measure, Streamed, Inspect, output
  <2> QED BY <1>1, <1>4, <2>1, MeasuringIsFaithful
<1>5. CASE Write
  <2>1. /\ loaded' = loaded /\ pc' = "sync" /\ run' = run /\ position' = position
        /\ streams' = streams /\ state' = state /\ disturbed' = disturbed
        /\ result' = result /\ synced' = synced /\ position \in DOMAIN Plan
    BY <1>0, <1>5 DEF Write, repetition, RunnerTypeOK, Inner
  <2>2. /\ Faithful(result) /\ result.run = run /\ result.position = position
        /\ file' \in Seq(Entry \cup {Part, NewLine}) /\ Len(file') = Len(file) + 2
        /\ \A i \in 1..Len(file) : file'[i] = file[i]
        /\ file'[Len(file) + 1] = result /\ file'[Len(file) + 2] = NewLine
    BY <1>5, RecordWritten
  <2>3. RunnerTypeOK'
    <3>1. pc' \in Inner
      BY <2>1, Places
    <3>2. synced' \in 0..Len(file')
      <4>1. synced' = synced /\ Len(file') = Len(file) + 2
        BY <2>1, <2>2
      <4> QED BY <1>0, <4>1
    <3> QED BY <1>0, <2>1, <2>2, <3>1, <3>2 DEF RunnerTypeOK
  <2>4. Consistent'
    BY <2>1, <2>2 DEF Consistent
  <2>5. \A i \in DOMAIN file' : i \in 1..Len(file) \/ i = Len(file) + 1 \/ i = Len(file) + 2
    BY <1>0, <2>2
  <2>6. FileIsFaithful'
    BY <1>0, <2>2, <2>5, NoRecords DEF FileIsFaithful
  <2>7. synced <= synced' /\ synced <= Len(file') /\ \A i \in 1..synced : file'[i] = file[i]
    BY <1>0, <2>1, <2>2
  <2> QED BY <2>3, <2>4, <2>6, <2>7
<1>6. CASE WriteFails \/ Kill
  <2>1. /\ loaded' = loaded /\ pc' = "down" /\ run' = run /\ position' = position
        /\ streams' = streams /\ state' = state /\ disturbed' = disturbed /\ synced' = synced
    BY <1>6 DEF WriteFails, Kill, repetition
  <2>2. PICK k \in synced..Len(file), x \in {Part, result} :
               /\ x = Part \/ Faithful(x)
               /\ file' \in {SubSeq(file, 1, k), Append(SubSeq(file, 1, k), x)}
    BY <1>0, <1>6, FileCut
  <2>3. k \in 0..Len(file) /\ synced <= k
    BY <1>0, <2>2
  <2>4. /\ file' \in Seq(Entry \cup {Part, NewLine}) /\ Len(file') \in k..(k + 1)
        /\ \A i \in 1..k : file'[i] = file[i]
        /\ FileIsFaithful'
    BY <1>0, <2>2, <2>3, PiecesAreFaithful
  <2>5. synced <= synced' /\ synced <= Len(file') /\ \A i \in 1..synced : file'[i] = file[i]
    BY <1>0, <2>1, <2>3, <2>4
  <2>6. RunnerTypeOK'
    <3>1. pc' \in Ended /\ pc' \notin Inner
      BY <2>1, Places
    <3>2. synced' \in 0..Len(file')
      <4>1. synced' = synced /\ synced <= Len(file') /\ Len(file') \in Nat
        BY <2>1, <2>4, <2>5
      <4> QED BY <1>0, <4>1
    <3> QED BY <1>0, <2>1, <2>4, <3>1, <3>2 DEF RunnerTypeOK
  <2>7. Consistent'
    BY <2>1 DEF Consistent
  <2> QED BY <2>4, <2>5, <2>6, <2>7
<1>7. CASE Sync
  <2>1. /\ position \in DOMAIN Plan /\ position + 1 \in Nat \ {0} /\ Repetition(position + 1)
        /\ file' = file /\ synced' = Len(file) /\ loaded' = loaded /\ run' = run
    BY <1>0, <1>7 DEF Sync, RunnerTypeOK, Inner
  <2>2. /\ position' = position + 1 /\ streams' = 0 /\ state' = FALSE /\ disturbed' = FALSE
        /\ pc' \in {"unload", "warm up", "done"}
        /\ pc' # "done" => position' \in DOMAIN Plan
        /\ pc' = "unload" => ~Warm(position')
        /\ pc' = "warm up" => Warm(position')
    BY <2>1, RepetitionBegins
  <2>3. RunnerTypeOK'
    <3>1. pc' \in Inner \cup Asking \cup Ended /\ (pc' \in Inner => position' \in DOMAIN Plan)
      BY <2>2, Places
    <3>2. synced' \in 0..Len(file')
      BY <1>0, <2>1
    <3> QED BY <1>0, <2>1, <2>2, <3>1, <3>2 DEF RunnerTypeOK
  <2>4. Consistent'
    BY <2>2 DEF Consistent, Warm
  <2>5. FileIsFaithful'
    BY <1>0, <2>1 DEF FileIsFaithful
  <2> QED BY <1>0, <2>1, <2>3, <2>4, <2>5
<1>8. CASE OtherUse
  <2>1. /\ loaded' = ~loaded /\ disturbed' = TRUE /\ pc' = pc /\ run' = run
        /\ position' = position /\ streams' = streams /\ state' = state /\ result' = result
        /\ file' = file /\ synced' = synced
    BY <1>8 DEF OtherUse, output
  <2>2. RunnerTypeOK'
    BY <1>0, <2>1 DEF RunnerTypeOK
  <2>3. Consistent'
    BY <1>0, <2>1 DEF Consistent, WarmUps, Warm
  <2> QED BY <1>1, <2>1, <2>2, <2>3
<1> QED BY <1>2, <1>3, <1>4, <1>5, <1>6, <1>7, <1>8 DEF Next, Work

LEMMA RunnerInductive == Spec => []RunnerInvariant
<1>1. RunnerInvariant /\ [Next]_vars => RunnerInvariant'
  <2> SUFFICES ASSUME RunnerInvariant, [Next]_vars PROVE RunnerInvariant'
    OBVIOUS
  <2>1. CASE Next
    BY <2>1, StepsAreFaithful
  <2>2. CASE UNCHANGED vars
    BY <2>2 DEF vars, RunnerInvariant, RunnerTypeOK, Consistent, FileIsFaithful, WarmUps, Warm
  <2> QED BY <2>1, <2>2
<1> QED BY <1>1, RunnerStarts, PTL DEF Spec

\* Every record accounts for the completions it took: one of a cold repetition,
\* one after the warm-up of a warm one, none where the state was not confirmed;
\* whatever failed, whoever interfered, however often the runner was killed and
\* run again.
THEOREM CompletionsAccountedForHolds == Spec => []CompletionsAccountedFor
<1>1. RunnerInvariant => CompletionsAccountedFor
  BY DEF RunnerInvariant, FileIsFaithful, Faithful, CompletionsAccountedFor, Records, Readable,
         WarmUps, Warm
<1> QED BY <1>1, RunnerInductive, PTL

\* A measurement nobody disturbed was made with the model in the state its mode
\* names.
THEOREM UndisturbedMeasurementsAreTrueHolds == Spec => []UndisturbedMeasurementsAreTrue
<1>1. RunnerInvariant => UndisturbedMeasurementsAreTrue
  BY DEF RunnerInvariant, FileIsFaithful, Faithful, UndisturbedMeasurementsAreTrue, Records, Readable,
         Warm
<1> QED BY <1>1, RunnerInductive, PTL

\* What is confirmed ends with a line, and so does what is about to be.
SyncedLines == EndsLine(synced) /\ (pc = "sync" => EndsLine(Len(file)))

\* The runner confirms whole lines only.
LEMMA LinesStaySynced ==
  ASSUME RunnerInvariant, SyncedLines, Next
  PROVE  SyncedLines'
<1>1. /\ synced \in Nat /\ Len(file) \in Nat /\ synced <= Len(file)
      /\ \A i \in 1..synced : file'[i] = file[i]
  BY StepsAreFaithful DEF RunnerInvariant, RunnerTypeOK
<1>2. ASSUME synced' = synced
      PROVE  EndsLine(synced)'
  <2>1. CASE synced = 0
    BY <1>2, <2>1 DEF EndsLine
  <2>2. CASE synced # 0
    <3>1. synced \in 1..synced /\ file[synced] = NewLine
      BY <1>1, <2>2 DEF SyncedLines, EndsLine
    <3> QED BY <1>1, <1>2, <3>1 DEF EndsLine
  <2> QED BY <2>1, <2>2
<1>3. CASE Sync
  <2>1. pc = "sync" /\ synced' = Len(file) /\ file' = file /\ pc' # "sync"
    BY <1>3 DEF Sync, Repetition
  <2> QED BY <2>1 DEF SyncedLines, EndsLine
<1>4. CASE Write
  <2>1. file'[Len(file) + 2] = NewLine /\ Len(file') = Len(file) + 2 /\ synced' = synced
    BY <1>4, RecordWritten DEF Write
  <2> QED BY <1>2, <2>1 DEF SyncedLines, EndsLine
<1>5. CASE WriteFails \/ Kill
  <2>1. synced' = synced /\ pc' # "sync"
    BY <1>5 DEF WriteFails, Kill
  <2> QED BY <1>2, <2>1 DEF SyncedLines
<1>6. CASE OtherUse
  BY <1>6 DEF OtherUse, output, SyncedLines, EndsLine
<1>7. CASE \/ Begin \/ Version \/ Show
           \/ Unload \/ Chunk \/ WarmUp \/ Verify \/ Measure \/ Streamed \/ Inspect
  <2>1. synced' = synced /\ pc' # "sync"
    BY <1>7 DEF Begin, Version, Show, Repetition, Unload, Chunk, WarmUp, Verify, Measure,
                Streamed, Inspect, Fail, output
  <2> QED BY <1>2, <2>1 DEF SyncedLines
<1> QED BY <1>3, <1>4, <1>5, <1>6, <1>7 DEF Next, Work

LEMMA LinesInductive == Spec => [](RunnerInvariant /\ SyncedLines)
<1>1. Init => SyncedLines
  BY DEF Init, SyncedLines, EndsLine
<1>2. RunnerInvariant /\ SyncedLines /\ [Next]_vars => SyncedLines'
  <2>1. ASSUME UNCHANGED vars, SyncedLines
        PROVE  SyncedLines'
    BY <2>1 DEF vars, SyncedLines, EndsLine
  <2> QED BY <2>1, LinesStaySynced
<1> QED BY <1>1, <1>2, RunnerInductive, PTL DEF Spec

\* A confirmed record and its neighbours, all confirmed, decide whether a reader
\* finds it.
LEMMA RecordsStayReadable ==
  ASSUME RunnerInvariant, SyncedLines, synced <= Len(file'),
         \A i \in 1..synced : file'[i] = file[i],
         file' \in Seq(Entry \cup {Part, NewLine}),
         NEW i \in Records, i <= synced
  PROVE  i \in Records'
<1>1. /\ synced \in Nat /\ Len(file) \in Nat /\ synced <= Len(file)
      /\ i \in 1..synced /\ file \in Seq(Entry \cup {Part, NewLine})
  BY DEF RunnerInvariant, RunnerTypeOK, Records
<1>2. IsRecord(file[i]) /\ EndsLine(i - 1) /\ (i = Len(file) \/ EndsLine(i + 1))
  BY DEF Records, Readable
<1>3. file[synced] = NewLine
  BY <1>1 DEF SyncedLines, EndsLine
<1>4. i # synced
  BY <1>2, <1>3, NoRecords
<1>5. i + 1 \in 1..synced /\ i # Len(file) /\ i + 1 # 0
  BY <1>1, <1>4
<1>6. file'[i + 1] = NewLine
  BY <1>2, <1>5 DEF EndsLine
<1>7. i - 1 = 0 \/ file'[i - 1] = NewLine
  <2>1. i - 1 = 0 \/ i - 1 \in 1..synced
    BY <1>1
  <2> QED BY <1>2, <2>1 DEF EndsLine
<1>8. IsRecord(file'[i]) /\ i \in DOMAIN file'
  BY <1>1, <1>2
<1> QED BY <1>6, <1>7, <1>8 DEF Records, Readable, EndsLine

\* No step, a crash, a failing write and a later run among them, takes or changes
\* what fsync has confirmed, and a record among it stays a line of its own.
THEOREM RecordsAreDurableHolds == Spec => RecordsAreDurable
<1>1. ASSUME RunnerInvariant, SyncedLines, [Next]_vars
      PROVE  [/\ synced <= synced' /\ SubSeq(file', 1, synced) = SubSeq(file, 1, synced)
              /\ {i \in Records : i <= synced} \subseteq Records']_vars
  <2>1. CASE Next
    <3>1. /\ synced <= synced' /\ synced <= Len(file')
          /\ \A i \in 1..synced : file'[i] = file[i]
          /\ RunnerInvariant'
      BY <1>1, <2>1, StepsAreFaithful
    <3>2. /\ file \in Seq(Entry \cup {Part, NewLine}) /\ file' \in Seq(Entry \cup {Part, NewLine})
          /\ synced \in Nat /\ synced <= Len(file)
      BY <1>1, <3>1 DEF RunnerInvariant, RunnerTypeOK
    <3>3. SubSeq(file', 1, synced) = SubSeq(file, 1, synced)
      BY <3>1, <3>2, SamePrefix
    <3>4. \A i \in Records : i <= synced => i \in Records'
      BY <1>1, <3>1, <3>2, RecordsStayReadable
    <3> QED BY <3>1, <3>3, <3>4
  <2>2. CASE UNCHANGED vars
    BY <2>2
  <2> QED BY <1>1, <2>1, <2>2
<1> QED BY <1>1, LinesInductive, PTL DEF Spec, RecordsAreDurable

-----------------------------------------------------------------------------
(* The command line.                                                       *)

\* A step of the command line is a step of the runner or leaves it alone.
LEMMA StepsOfTheRunner ==
  ASSUME [CliNext]_cliVars
  PROVE  [Next]_vars
<1>1. CASE UNCHANGED cliVars
  BY <1>1 DEF cliVars
<1>2. ASSUME NEW c \in Commands, Usage(c) \/ Request(c)
      PROVE  UNCHANGED vars
  BY <1>2 DEF Usage, Request
<1>3. CASE \/ NotEncodable \/ ListModels \/ Serve \/ ServeEnds
           \/ Answer \/ BridgeError \/ GiveUp \/ Interrupt
  BY <1>3 DEF NotEncodable, ListModels, Serve, ServeEnds, Answer, BridgeError, GiveUp,
              Interrupt, Exits
<1>4. CASE StartBenchmark \/ BenchmarkStep \/ WriterRaises \/ Killed
  BY <1>4 DEF StartBenchmark, BenchmarkStep, WriterRaises, Killed, Next
<1>5. CASE Outside
  BY <1>5 DEF Outside, Next
<1> QED BY <1>1, <1>2, <1>3, <1>4, <1>5 DEF CliNext, Progress

\* The benchmark of the command line is the runner's: whatever holds of the
\* runner holds of it.
THEOREM CommandLineRunsTheRunner == CliSpec => Spec
<1>1. CliInit => Init
  BY DEF CliInit
<1> QED BY <1>1, StepsOfTheRunner, PTL DEF CliSpec, Spec

\* The outcome of `call` and the exchange behind it.  Until 1C has the request
\* nothing was carried out; the answer on its way is that of the one call that
\* was; and a refusal only comes for a call that never will be.
CallInvariant ==
  command = "call" =>
    LET message == wire[Terminal]
        done == served[Terminal]
    IN /\ wire = [c \in {Terminal} |-> message]
       /\ served = [c \in {Terminal} |-> done]
       /\ message = OneC!Silence \/ message.kind = "call" => done = <<>>
       /\ message = OneC!Silence <=> exit \in {"usage", "traceback"}
       /\ message = OneC!Silence \/ message.kind \in {"call", "response"}
       /\ message.kind = "response" =>
            /\ OneC!Code(message) = "ok" =>
                 /\ Len(done) = 1 /\ done[1].answer = message.body
                 /\ message.body \in {"success", "failure"}
            /\ OneC!Code(message) \in OneC!RefusalCodes => done = <<>>
       /\ exit # "serving"
       /\ exit = "running" => shown = "nothing"
       /\ exit = "ok" =>
            /\ message.kind = "response" /\ Len(done) = 1 /\ done[1].answer = shown
            /\ shown \in {"success", "failure"}
       /\ shown \in OneC!RefusalCodes => message.kind = "response" /\ done = <<>>

\* Until a diagnostic command is typed nothing was sent to 1C.
Quiet ==
  command \in {"none", "benchmark"} =>
    /\ wire = [c \in {Terminal} |-> OneC!Silence]
    /\ served = [c \in {Terminal} |-> <<>>]

ExchangeInvariant == Quiet /\ CallInvariant

\* The fields of a message.
LEMMA Shapes ==
  /\ OneC!Silence.kind = "silence"
  /\ \A tool, body : OneC!Post(tool, body).kind = "call"
  /\ \A status, body : /\ OneC!Response(status, body).kind = "response"
                       /\ OneC!Response(status, body).status = status
                       /\ OneC!Response(status, body).body = body
BY DEF OneC!Silence, OneC!Post, OneC!Response

\* What the client makes of the responses 1C and the publication send.
LEMMA CodesOfResponses ==
  /\ \A status \in {200, 500, 502} :
       OneC!Code(OneC!Response(status, "foreign")) \notin OneC!RefusalCodes \cup {"ok"}
  /\ \A status \in {401, 403, 404} : OneC!Code(OneC!Response(status, "foreign")) # "ok"
  /\ \A body \in {"invalid_request", "request_too_large", "invalid_json"},
        status \in {400, 413} : OneC!Code(OneC!Response(status, body)) # "ok"
  /\ \A body \in {"transport_internal_error", "foreign"} :
       OneC!Code(OneC!Response(500, body)) \notin OneC!RefusalCodes \cup {"ok"}
  /\ \A body \in {"success", "failure"} : OneC!Code(OneC!Response(200, body)) = "ok"
<1>1. ASSUME NEW status \in {200, 500, 502}
      PROVE  OneC!Code(OneC!Response(status, "foreign")) \notin OneC!RefusalCodes \cup {"ok"}
  BY Shapes DEF OneC!Code, OneC!TransportCodes, OneC!RefusalCodes
<1>2. ASSUME NEW status \in {401, 403, 404}
      PROVE  OneC!Code(OneC!Response(status, "foreign")) # "ok"
  BY Shapes DEF OneC!Code
<1>3. ASSUME NEW body \in {"invalid_request", "request_too_large", "invalid_json"},
             NEW status \in {400, 413}
      PROVE  OneC!Code(OneC!Response(status, body)) # "ok"
  BY Shapes DEF OneC!Code, OneC!TransportCodes
<1>4. ASSUME NEW body \in {"transport_internal_error", "foreign"}
      PROVE  OneC!Code(OneC!Response(500, body)) \notin OneC!RefusalCodes \cup {"ok"}
  BY Shapes DEF OneC!Code, OneC!TransportCodes, OneC!RefusalCodes
<1>5. ASSUME NEW body \in {"success", "failure"}
      PROVE  OneC!Code(OneC!Response(200, body)) = "ok"
  BY Shapes DEF OneC!Code
<1> QED BY <1>1, <1>2, <1>3, <1>4, <1>5

\* What 1C and the publication make of a call or of its response.
Becomes(message, done, status, body) ==
  LET response == OneC!Response(status, body)
  IN /\ wire' = [c \in {Terminal} |-> response]
     /\ \/ /\ message.kind = "call"
           /\ served' = [c \in {Terminal} |-> done]
           /\ OneC!Code(response) # "ok"
        \/ \E tool, answer :
             /\ message.kind = "call"
             /\ served' = [c \in {Terminal} |->
                            Append(done, [tool |-> tool, answer |-> answer])]
             /\ OneC!Code(response) \notin OneC!RefusalCodes
             /\ OneC!Code(response) = "ok" => body = answer /\ body \in {"success", "failure"}
        \/ /\ message.kind = "response"
           /\ served' = [c \in {Terminal} |-> done]
           /\ OneC!Code(response) \notin OneC!RefusalCodes \cup {"ok"}

\* That is all 1C and the publication do while a call is the command.
LEMMA ServiceOfACall ==
  ASSUME NEW message, NEW done, OneC!Service(Terminal),
         wire = [c \in {Terminal} |-> message], served = [c \in {Terminal} |-> done],
         message = OneC!Silence \/ message.kind \in {"call", "response"}
  PROVE  \E status, body : Becomes(message, done, status, body)
<1>1. wire[Terminal] = message /\ served[Terminal] = done
  OBVIOUS
<1>2. message.kind \in {"silence", "call", "response"}
  BY Shapes
<1>3. \A m : OneC!Put(Terminal, m) => wire' = [c \in {Terminal} |-> m]
  BY DEF OneC!Put
<1>4. \A answer : OneC!Served(Terminal, answer) =>
        served' = [c \in {Terminal} |-> Append(done, [tool |-> message.tool, answer |-> answer])]
  BY <1>1 DEF OneC!Served
<1>5. CASE OneC!ServeHealth(Terminal) \/ OneC!ServeTools(Terminal)
  BY <1>1, <1>2, <1>5 DEF OneC!ServeHealth, OneC!ServeTools
<1>6. CASE OneC!RefuseCall(Terminal)
  <2>1. /\ message.kind = "call" /\ served' = served
        /\ OneC!Refusal(message) # OneC!Silence /\ OneC!Put(Terminal, OneC!Refusal(message))
    BY <1>1, <1>6 DEF OneC!RefuseCall
  <2>2. PICK status \in {400, 413}, body \in {"invalid_request", "request_too_large", "invalid_json"} :
               OneC!Refusal(message) = OneC!Response(status, body)
    BY <2>1 DEF OneC!Refusal
  <2>3. OneC!Code(OneC!Response(status, body)) # "ok"
    BY CodesOfResponses
  <2>4. Becomes(message, done, status, body)
    BY <1>3, <2>1, <2>2, <2>3 DEF Becomes
  <2> QED BY <2>4
<1>7. CASE OneC!ServeCall(Terminal)
  <2>1. message.kind = "call"
    BY <1>1, <1>7 DEF OneC!ServeCall
  <2>2. CASE \E answer \in {"success", "failure"} :
               OneC!Put(Terminal, OneC!Response(200, answer)) /\ OneC!Served(Terminal, answer)
    <3>1. PICK answer \in {"success", "failure"} :
                 OneC!Put(Terminal, OneC!Response(200, answer)) /\ OneC!Served(Terminal, answer)
      BY <2>2
    <3>2. /\ wire' = [c \in {Terminal} |-> OneC!Response(200, answer)]
          /\ served' = [c \in {Terminal} |->
                          Append(done, [tool |-> message.tool, answer |-> answer])]
      BY <1>3, <1>4, <3>1
    <3>3. OneC!Code(OneC!Response(200, answer)) \notin OneC!RefusalCodes
      BY CodesOfResponses DEF OneC!RefusalCodes
    <3>4. Becomes(message, done, 200, answer)
      BY <2>1, <3>2, <3>3 DEF Becomes
    <3> QED BY <3>4
  <2>3. CASE \E body \in {"transport_internal_error", "foreign"} :
               OneC!Put(Terminal, OneC!Response(500, body)) /\ OneC!Served(Terminal, "unknown")
    <3>1. PICK body \in {"transport_internal_error", "foreign"} :
                 OneC!Put(Terminal, OneC!Response(500, body)) /\ OneC!Served(Terminal, "unknown")
      BY <2>3
    <3>2. /\ wire' = [c \in {Terminal} |-> OneC!Response(500, body)]
          /\ served' = [c \in {Terminal} |->
                          Append(done, [tool |-> message.tool, answer |-> "unknown"])]
      BY <1>3, <1>4, <3>1
    <3>3. OneC!Code(OneC!Response(500, body)) \notin OneC!RefusalCodes \cup {"ok"}
      BY CodesOfResponses
    <3>4. Becomes(message, done, 500, body)
      BY <2>1, <3>2, <3>3 DEF Becomes
    <3> QED BY <3>4
  <2> QED BY <1>7, <2>2, <2>3 DEF OneC!ServeCall
<1>8. CASE OneC!Publication(Terminal)
  <2>1. served' = served /\ message.kind # "silence"
    BY <1>1, <1>8 DEF OneC!Publication
  <2>2. CASE \E status \in {401, 403, 404} :
               message.kind = "call" /\ OneC!Put(Terminal, OneC!Response(status, "foreign"))
    <3>1. PICK status \in {401, 403, 404} :
                 message.kind = "call" /\ OneC!Put(Terminal, OneC!Response(status, "foreign"))
      BY <2>2
    <3>2. OneC!Code(OneC!Response(status, "foreign")) # "ok"
      BY CodesOfResponses
    <3>3. Becomes(message, done, status, "foreign")
      BY <1>3, <2>1, <3>1, <3>2 DEF Becomes
    <3> QED BY <3>3
  <2>3. CASE \E status \in {200, 500, 502} : OneC!Put(Terminal, OneC!Response(status, "foreign"))
    <3>1. PICK status \in {200, 500, 502} : OneC!Put(Terminal, OneC!Response(status, "foreign"))
      BY <2>3
    <3>2. OneC!Code(OneC!Response(status, "foreign")) \notin OneC!RefusalCodes \cup {"ok"}
      BY CodesOfResponses
    <3>3. message.kind \in {"call", "response"}
      BY <1>2, <2>1
    <3>4. Becomes(message, done, status, "foreign")
      BY <1>3, <2>1, <3>1, <3>2, <3>3 DEF Becomes
    <3> QED BY <3>4
  <2>4. \/ /\ message.kind \in {"health", "tools", "call"}
           /\ \E status \in {401, 403, 404} : OneC!Put(Terminal, OneC!Response(status, "foreign"))
        \/ \E status \in {200, 500, 502} : OneC!Put(Terminal, OneC!Response(status, "foreign"))
    BY <1>1, <1>8 DEF OneC!Publication
  <2>5. message.kind \in {"health", "tools", "call"} => message.kind = "call"
    BY <1>2
  <2> QED BY <2>2, <2>3, <2>4, <2>5
<1> QED BY <1>5, <1>6, <1>7, <1>8 DEF OneC!Service

\* "nothing", what a command prints before its outcome, is no refusal, and neither
\* is an answer of a tool.
LEMMA NoRefusals ==
  /\ \A text \in {"nothing", "success", "failure", "ok", "timeout", "connection_error",
                  "protocol_error"} : text \notin OneC!RefusalCodes
BY DEF OneC!RefusalCodes

LEMMA ExchangeStarts == CliInit => ExchangeInvariant
BY DEF CliInit, OneC!ExchangeInit, ExchangeInvariant, Quiet, CallInvariant, OneC!Silence

\* A step of 1C or of its publication.
LEMMA ServiceKeepsExchange ==
  ASSUME ExchangeInvariant, OneC!Service(Terminal), UNCHANGED cli
  PROVE  ExchangeInvariant'
<1> USE DEF ExchangeInvariant
<1>0. command' = command /\ exit' = exit /\ shown' = shown
  BY DEF cli
<1>1. CASE command \in {"none", "benchmark"}
  <2>1. /\ wire = [c \in {Terminal} |-> OneC!Silence]
        /\ served = [c \in {Terminal} |-> <<>>]
    BY <1>1 DEF Quiet
  <2>2. PICK status, body : Becomes(OneC!Silence, <<>>, status, body)
    BY <2>1, ServiceOfACall
  <2> QED BY <2>2, Shapes DEF Becomes
<1>2. CASE command = "call"
  <2> DEFINE message == wire[Terminal]
             done == served[Terminal]
  <2>1. /\ wire = [c \in {Terminal} |-> message]
        /\ served = [c \in {Terminal} |-> done]
        /\ message = OneC!Silence \/ message.kind = "call" => done = <<>>
        /\ message = OneC!Silence <=> exit \in {"usage", "traceback"}
        /\ message = OneC!Silence \/ message.kind \in {"call", "response"}
        /\ exit # "serving"
        /\ exit = "running" => shown = "nothing"
        /\ exit = "ok" =>
             /\ message.kind = "response" /\ Len(done) = 1 /\ done[1].answer = shown
             /\ shown \in {"success", "failure"}
        /\ shown \in OneC!RefusalCodes => message.kind = "response" /\ done = <<>>
    BY <1>2 DEF CallInvariant
  <2>2. PICK status, body : Becomes(message, done, status, body)
    BY <2>1, ServiceOfACall
  <2> DEFINE response == OneC!Response(status, body)
  <2>3. /\ wire' = [c \in {Terminal} |-> response] /\ wire'[Terminal] = response
        /\ response.kind = "response" /\ response.body = body /\ response # OneC!Silence
        /\ message # OneC!Silence
    BY <2>2, Shapes DEF Becomes
  <2> HIDE DEF response, message, done
  <2>4. /\ served' = [c \in {Terminal} |-> served'[Terminal]]
        /\ \/ /\ message.kind = "call" /\ served'[Terminal] = done /\ done = <<>>
              /\ OneC!Code(response) # "ok"
           \/ /\ message.kind = "call" /\ Len(served'[Terminal]) = 1
              /\ OneC!Code(response) \notin OneC!RefusalCodes
              /\ OneC!Code(response) = "ok" =>
                   served'[Terminal][1].answer = body /\ body \in {"success", "failure"}
           \/ /\ message.kind = "response" /\ served'[Terminal] = done
              /\ OneC!Code(response) \notin OneC!RefusalCodes \cup {"ok"}
    <3>1. CASE message.kind = "call" /\ served' = [c \in {Terminal} |-> done]
               /\ OneC!Code(response) # "ok"
      BY <2>1, <3>1 DEF message, done
    <3>2. CASE \E tool, answer :
                 /\ message.kind = "call"
                 /\ served' = [c \in {Terminal} |->
                                Append(done, [tool |-> tool, answer |-> answer])]
                 /\ OneC!Code(response) \notin OneC!RefusalCodes
                 /\ OneC!Code(response) = "ok" => body = answer /\ body \in {"success", "failure"}
      <4>1. PICK tool, answer :
                 /\ message.kind = "call"
                 /\ served' = [c \in {Terminal} |->
                                Append(done, [tool |-> tool, answer |-> answer])]
                 /\ OneC!Code(response) \notin OneC!RefusalCodes
                 /\ OneC!Code(response) = "ok" => body = answer /\ body \in {"success", "failure"}
        BY <3>2
      <4>2. done = <<>>
        BY <2>1, <4>1 DEF message, done
      <4>3. served'[Terminal] = <<[tool |-> tool, answer |-> answer]>>
        BY <4>1, <4>2
      <4> QED BY <4>1, <4>3
    <3>3. CASE message.kind = "response" /\ served' = [c \in {Terminal} |-> done]
               /\ OneC!Code(response) \notin OneC!RefusalCodes \cup {"ok"}
      BY <3>3 DEF done
    <3> QED BY <2>2, <3>1, <3>2, <3>3 DEF Becomes, response
  <2>5. exit \notin {"usage", "traceback"} /\ wire'[Terminal] # OneC!Silence
    BY <2>1, <2>3 DEF message
  <2>6. exit = "ok" => /\ Len(served'[Terminal]) = 1 /\ served'[Terminal][1].answer = shown
                       /\ shown \in {"success", "failure"}
    BY <2>1, <2>4 DEF message, done
  <2>7. shown \in OneC!RefusalCodes => served'[Terminal] = <<>>
    BY <2>1, <2>4 DEF message, done
  <2>8. CallInvariant'
    BY <1>0, <2>1, <2>3, <2>4, <2>5, <2>6, <2>7 DEF CallInvariant
  <2> QED BY <1>0, <1>2, <2>8 DEF Quiet
<1>3. CASE command \notin {"none", "benchmark", "call"}
  BY <1>0, <1>3 DEF Quiet, CallInvariant
<1> QED BY <1>1, <1>2, <1>3

\* A step of the command line itself.
LEMMA CommandsKeepExchange ==
  ASSUME ExchangeInvariant, CliNext, ~OneC!Service(Terminal) \/ ~UNCHANGED cli
  PROVE  ExchangeInvariant'
<1> USE DEF ExchangeInvariant
<1>1. ASSUME NEW c, Typed(c)
      PROVE  /\ command' = c
             /\ wire = [t \in {Terminal} |-> OneC!Silence] /\ wire[Terminal] = OneC!Silence
             /\ served = [t \in {Terminal} |-> <<>>] /\ served[Terminal] = <<>>
  BY <1>1 DEF Typed, Quiet
<1>2. ASSUME NEW c, Typed(c), UNCHANGED exchange, exit' # "ok", exit' # "serving",
             shown' = "nothing", c = "call" => exit' \in {"usage", "traceback"}
      PROVE  ExchangeInvariant'
  <2>1. /\ command' = c
        /\ wire' = [t \in {Terminal} |-> OneC!Silence] /\ wire'[Terminal] = OneC!Silence
        /\ served' = [t \in {Terminal} |-> <<>>] /\ served'[Terminal] = <<>>
    BY <1>1, <1>2 DEF exchange
  <2> QED BY <1>2, <2>1, Shapes, NoRefusals DEF Quiet, CallInvariant
<1>3. ASSUME NEW c \in Commands, Usage(c)
      PROVE  ExchangeInvariant'
  BY <1>2, <1>3 DEF Usage
<1>4. CASE NotEncodable
  BY <1>2, <1>4 DEF NotEncodable
<1>5. CASE ListModels \/ Serve \/ StartBenchmark
  <2>1. PICK c \in {"list-models", "serve", "benchmark"} : Typed(c) /\ UNCHANGED exchange
    BY <1>5 DEF ListModels, Serve, StartBenchmark
  <2>2. /\ command' = c
        /\ wire' = [t \in {Terminal} |-> OneC!Silence]
        /\ served' = [t \in {Terminal} |-> <<>>]
    BY <1>1, <2>1 DEF exchange
  <2> QED BY <2>1, <2>2 DEF Quiet, CallInvariant
<1>6. ASSUME NEW c \in Commands, Request(c)
      PROVE  ExchangeInvariant'
  <2>1. c \in Diagnostics /\ command' = c /\ exit' = "running" /\ shown' = "nothing"
    BY <1>1, <1>6 DEF Request
  <2>2. CASE c = "call"
    <3>1. PICK tool, body : OneC!Ask(Terminal, OneC!Post(tool, body))
      BY <1>6, <2>2 DEF Request, Requests
    <3>2. /\ wire' = [t \in {Terminal} |-> OneC!Post(tool, body)]
          /\ wire'[Terminal] = OneC!Post(tool, body)
          /\ served' = [t \in {Terminal} |-> <<>>] /\ served'[Terminal] = <<>>
      BY <1>1, <1>6, <3>1 DEF Request, OneC!Ask, OneC!Put
    <3> QED BY <2>1, <2>2, <3>2, Shapes, NoRefusals DEF Quiet, CallInvariant
  <2>3. CASE c # "call"
    BY <2>1, <2>3 DEF Diagnostics, Quiet, CallInvariant
  <2> QED BY <2>2, <2>3
<1>7. CASE Answer \/ BridgeError \/ GiveUp \/ Interrupt
  <2>1. /\ exit = "running" /\ command \in Diagnostics
        /\ command' = command /\ wire' = wire /\ served' = served
    BY <1>7 DEF Answer, BridgeError, GiveUp, Interrupt, InProgress, Exits, exchange
  <2>2. CASE command # "call"
    BY <2>1, <2>2 DEF Diagnostics, Quiet, CallInvariant
  <2>3. CASE command = "call"
    <3> DEFINE message == wire[Terminal]
               done == served[Terminal]
    <3>1. message # OneC!Silence /\ CallInvariant
      BY <2>1, <2>3 DEF CallInvariant
    <3>2. exit' \notin {"usage", "traceback", "running", "serving"}
      BY <1>7 DEF Answer, BridgeError, GiveUp, Interrupt, Exits
    <3>3. exit' = "ok" =>
            /\ message.kind = "response" /\ Len(done) = 1 /\ done[1].answer = shown'
            /\ shown' \in {"success", "failure"}
      BY <1>7, <2>3, <3>1 DEF Answer, BridgeError, GiveUp, Interrupt, Exits, OneC!Received,
                              CallInvariant
    <3>4. shown' \in OneC!RefusalCodes => message.kind = "response" /\ done = <<>>
      <4>1. CASE Answer
        BY <2>3, <3>1, <4>1, NoRefusals DEF Answer, Exits, OneC!Received, CallInvariant
      <4>2. CASE BridgeError
        BY <2>3, <3>1, <4>2, NoRefusals DEF BridgeError, Exits, OneC!Received, CallInvariant
      <4>3. CASE GiveUp \/ Interrupt
        BY <4>3, NoRefusals DEF GiveUp, Interrupt, Exits
      <4> QED BY <1>7, <4>1, <4>2, <4>3
    <3>5. CallInvariant'
      BY <2>1, <2>3, <3>1, <3>2, <3>3, <3>4 DEF CallInvariant
    <3> QED BY <2>1, <2>3, <3>5 DEF Quiet
  <2> QED BY <2>2, <2>3
<1>8. CASE ServeEnds
  <2>1. /\ exit = "serving" /\ command' = command /\ wire' = wire /\ served' = served
    BY <1>8 DEF ServeEnds, Exits, exchange
  <2>2. command # "call"
    BY <2>1 DEF CallInvariant
  <2> QED BY <2>1, <2>2 DEF Quiet, CallInvariant
<1>9. CASE BenchmarkStep \/ WriterRaises \/ Killed
  <2>1. /\ command = "benchmark" /\ command' = command /\ wire' = wire /\ served' = served
    BY <1>9 DEF BenchmarkStep, WriterRaises, Killed, Benchmarking, Report, exchange
  <2> QED BY <2>1 DEF Quiet, CallInvariant
<1>10. CASE Outside
  <2>1. UNCHANGED <<exchange, cli>>
    BY <1>10 DEF Outside
  <2> QED BY <2>1 DEF exchange, cli, Quiet, CallInvariant
<1> QED BY <1>3, <1>4, <1>5, <1>6, <1>7, <1>8, <1>9, <1>10 DEF CliNext, Progress

LEMMA ExchangeInductive == CliSpec => []ExchangeInvariant
<1>1. ExchangeInvariant /\ [CliNext]_cliVars => ExchangeInvariant'
  <2> SUFFICES ASSUME ExchangeInvariant, [CliNext]_cliVars PROVE ExchangeInvariant'
    OBVIOUS
  <2>1. CASE UNCHANGED cliVars
    BY <2>1 DEF cliVars, exchange, cli, ExchangeInvariant, Quiet, CallInvariant
  <2>2. CASE OneC!Service(Terminal) /\ UNCHANGED cli
    BY <2>2, ServiceKeepsExchange
  <2>3. CASE CliNext /\ (~OneC!Service(Terminal) \/ ~UNCHANGED cli)
    BY <2>3, CommandsKeepExchange
  <2> QED BY <2>1, <2>2, <2>3
<1> QED BY <1>1, ExchangeStarts, PTL DEF CliSpec

\* Whoever reads the outcome of `call` knows what 1C did: the answer printed is
\* that of the one call carried out, and where the outcome names a refusal or a
\* wrong usage nothing was carried out and nothing will be.
THEOREM CallOutcomeIsToldHolds == CliSpec => []CallOutcomeIsTold
<1>1. ExchangeInvariant => CallOutcomeIsTold
  BY DEF ExchangeInvariant, CallInvariant, CallOutcomeIsTold
<1> QED BY <1>1, ExchangeInductive, PTL

-----------------------------------------------------------------------------
(* The report of a benchmark and the output file.                          *)

\* A run_id is never used again.
RunsAreNew == \A i \in DOMAIN file : IsRecord(file[i]) => file[i].run <= run

\* The record of a repetition: at its place after what the file held before.
Recorded(p) ==
  LET x == file[before + 2 * p - 1]
  IN /\ IsRecord(x) /\ x.run = run /\ x.position = p
     /\ file[before + 2 * p] = NewLine

OurRecords(n) == {i \in 1..n : IsRecord(file[i]) /\ file[i].run = run}
OurErrors(n) == {i \in OurRecords(n) : file[i].error # "none"}

\* Since the command was typed the file has grown by a line for every repetition
\* so far, and the report counts them.
Counted ==
  LET lines == before + 2 * (position - 1)
  IN /\ position \in Nat \ {0}
     /\ Len(file) = IF pc = "sync" THEN lines + 2 ELSE lines
     /\ \A i \in 1..before : IsRecord(file[i]) => file[i].run < run
     /\ \A p \in 1..(position - 1) : Recorded(p)
     /\ pc = "sync" => Recorded(position) /\ file[lines + 1] = result
     /\ report.records = Cardinality(OurRecords(lines))
     /\ report.errors = Cardinality(OurErrors(lines))
     /\ pc # "sync" => position = 1 \/ synced = Len(file)
     /\ pc = "done" => position = Len(Plan) + 1

\* An exit status of 1 or 2 is given before anything was written; while a
\* benchmark runs, and when it has ended well, its lines are counted.
Reported ==
  command = "benchmark" =>
    /\ before \in Nat /\ exit # "serving"
    /\ exit \in {"error", "usage"} => Len(file) = before
    /\ exit = "running" => pc \in Asking \cup Inner
    /\ exit = "ok" => pc = "done"
    /\ exit = "running" /\ pc \in Asking => Len(file) = before /\ report = NoReport
    /\ exit = "running" /\ pc \in Inner => Counted
    /\ exit = "ok" => Counted

ReportInvariant == RunnerInvariant /\ RunsAreNew /\ Reported

\* No step uses the run_id of a record again.
LEMMA RunsStayNew ==
  ASSUME RunnerInvariant, RunsAreNew, Next
  PROVE  RunsAreNew'
<1>1. run \in Nat /\ file \in Seq(Entry \cup {Part, NewLine}) /\ Len(file) \in Nat
  BY DEF RunnerInvariant, RunnerTypeOK
<1>2. \A i \in DOMAIN file : IsRecord(file[i]) => file[i].run \in Nat
  BY DEF RunnerInvariant, FileIsFaithful, Faithful, Entry
<1>3. CASE file' = file /\ run' \in {run, run + 1}
  BY <1>1, <1>2, <1>3 DEF RunsAreNew
<1>4. CASE Write
  <2>1. run' = run
    BY <1>4 DEF Write
  <2>2. /\ result.run = run /\ Len(file') = Len(file) + 2
        /\ \A i \in 1..Len(file) : file'[i] = file[i]
        /\ file'[Len(file) + 1] = result /\ file'[Len(file) + 2] = NewLine
        /\ file' \in Seq(Entry \cup {Part, NewLine})
    BY <1>4, RecordWritten
  <2>3. \A i \in DOMAIN file' : i \in 1..Len(file) \/ i = Len(file) + 1 \/ i = Len(file) + 2
    BY <1>1, <2>2
  <2> QED BY <1>1, <2>1, <2>2, <2>3, NoRecords DEF RunsAreNew
<1>5. CASE WriteFails \/ Kill
  <2>1. run' = run
    BY <1>5 DEF WriteFails, Kill
  <2>2. PICK k \in synced..Len(file), x \in {Part, result} :
               /\ x = Part \/ (Faithful(x) /\ x.run = run)
               /\ file' \in {SubSeq(file, 1, k), Append(SubSeq(file, 1, k), x)}
    BY <1>5, FileCut
  <2>3. /\ \A i \in 1..k : file'[i] = file[i]
        /\ \A i \in DOMAIN file' : i \in 1..k \/ file'[i] = x
    <3>1. k \in 0..Len(file)
      BY <1>1 DEF RunnerInvariant, RunnerTypeOK
    <3> QED BY <1>1, <2>2, <3>1, PiecesAreFaithful DEF RunnerInvariant
  <2>4. \A i \in 1..k : i \in DOMAIN file
    BY <1>1 DEF RunnerInvariant, RunnerTypeOK
  <2>5. run \in Nat /\ (IsRecord(x) => x.run <= run)
    BY <1>1, <2>2, NoRecords
  <2>6. \A i \in 1..k : IsRecord(file[i]) => file[i].run <= run
    BY <2>4 DEF RunsAreNew
  <2>7. \A i \in DOMAIN file' : IsRecord(file'[i]) => file'[i].run <= run
    BY <2>3, <2>5, <2>6
  <2> QED BY <2>1, <2>7 DEF RunsAreNew
<1> QED
  BY <1>3, <1>4, <1>5
  DEF Next, Work, Begin, Version, Show, Unload, Chunk, WarmUp, Verify, Measure, Streamed, Inspect, Sync,
      OtherUse, output

\* A step between two repetitions' lines leaves the count as it is.
LEMMA CountStays ==
  ASSUME Counted, UNCHANGED <<file, run, position, before, report, synced>>,
         pc' = "sync" <=> pc = "sync", pc = "sync" => result' = result,
         pc' = "done" => pc = "done"
  PROVE  Counted'
BY DEF Counted, Recorded, OurRecords, OurErrors

\* The loops begin: nothing of the new run is in the file.
LEMMA CountBegins ==
  ASSUME RunnerInvariant, RunsAreNew, Show, run' = run + 1, Repetition(1),
         Len(file) = before, report = NoReport, UNCHANGED <<before, report>>
  PROVE  Counted'
<1>1. file' = file /\ synced' = synced /\ run \in Nat
      /\ file \in Seq(Entry \cup {Part, NewLine}) /\ before \in Nat
  BY DEF Show, output, RunnerInvariant, RunnerTypeOK
<1>2. /\ position' = 1 /\ pc' \in {"unload", "warm up", "done"}
      /\ pc' = "done" => 1 > Len(Plan)
  <2>1. 1 \in Nat \ {0} /\ Repetition(1)
    OBVIOUS
  <2> QED BY <2>1, RepetitionBegins
<1>3. \A i \in DOMAIN file : IsRecord(file[i]) => file[i].run \in Nat /\ file[i].run <= run
  BY DEF RunnerInvariant, FileIsFaithful, Faithful, Entry, RunsAreNew
<1>4. \A i \in 1..before : IsRecord(file[i]) => file[i].run < run + 1 /\ file[i].run # run + 1
  BY <1>1, <1>3
<1>5. before' + 2 * (position' - 1) = before /\ position' - 1 = 0
  <2>1. position' = 1 /\ before' = before /\ before \in Nat
    BY <1>1, <1>2
  <2> QED BY <2>1
<1>6. /\ {i \in 1..before : IsRecord(file'[i]) /\ file'[i].run = run'} = {}
      /\ \A i \in 1..before : IsRecord(file'[i]) => file'[i].run < run'
  BY <1>1, <1>4
<1>7. pc' = "done" => position' = Len(Plan) + 1
  <2>1. Len(Plan) \in Nat
    BY PlanModes
  <2> QED BY <1>2, <2>1
<1>8. report'.records = 0 /\ report'.errors = 0 /\ Cardinality({}) = 0
  BY FS_EmptySet DEF NoReport
<1>9. /\ report'.records = Cardinality(OurRecords(before + 2 * (position - 1)))'
      /\ report'.errors = Cardinality(OurErrors(before + 2 * (position - 1)))'
  <2>1. OurRecords(before + 2 * (position - 1))' = {}
    BY <1>5, <1>6 DEF OurRecords
  <2>2. OurErrors(before + 2 * (position - 1))' = {}
    BY <2>1 DEF OurErrors
  <2> QED BY <1>8, <2>1, <2>2
<1>10. /\ position' \in Nat \ {0} /\ pc' # "sync" /\ Len(file') = before'
       /\ \A p \in 1..(position' - 1) : FALSE
  <2>1. position' = 1 /\ before' = before /\ Len(file') = before /\ pc' # "sync"
    BY <1>1, <1>2
  <2> QED BY <2>1, <1>5
<1> QED
  BY <1>1, <1>2, <1>5, <1>6, <1>7, <1>9, <1>10 DEF Counted

\* The line of a repetition is written at its place.
LEMMA CountWrites ==
  ASSUME RunnerInvariant, Counted, before \in Nat, Write, UNCHANGED <<before, report>>
  PROVE  Counted'
<1>1. /\ pc = "append" /\ pc' = "sync" /\ run' = run /\ position' = position
      /\ result' = result /\ before' = before /\ report' = report
  BY DEF Write, repetition
<1> DEFINE lines == before + 2 * (position - 1)
<1>2. /\ position \in Nat \ {0} /\ Len(file) = lines /\ lines \in Nat
      /\ \A i \in 1..before : IsRecord(file[i]) => file[i].run < run
      /\ \A p \in 1..(position - 1) : Recorded(p)
      /\ report.records = Cardinality(OurRecords(lines))
      /\ report.errors = Cardinality(OurErrors(lines))
  BY <1>1 DEF Counted
<1>3. /\ IsRecord(result) /\ result.run = run /\ result.position = position
      /\ Len(file') = Len(file) + 2
      /\ \A i \in 1..Len(file) : file'[i] = file[i]
      /\ file'[Len(file) + 1] = result /\ file'[Len(file) + 2] = NewLine
  BY RecordWritten
<1>4. \A i \in 1..lines : file'[i] = file[i]
  BY <1>2, <1>3
<1>5. /\ \A i \in 1..before : i \in 1..lines
      /\ \A p \in 1..(position - 1) :
           before + 2 * p - 1 \in 1..lines /\ before + 2 * p \in 1..lines
      /\ before + 2 * position - 1 = lines + 1 /\ before + 2 * position = lines + 2
  BY <1>2
<1>6. \A i \in 1..before : IsRecord(file'[i]) => file'[i].run < run
  BY <1>2, <1>4, <1>5
<1>7. \A p \in 1..(position - 1) : Recorded(p)'
  <2> TAKE p \in 1..(position - 1)
  <2>1. Recorded(p) /\ before + 2 * p - 1 \in 1..lines /\ before + 2 * p \in 1..lines
    BY <1>2, <1>5
  <2>2. file'[before + 2 * p - 1] = file[before + 2 * p - 1] /\ file'[before + 2 * p] = file[before + 2 * p]
    BY <1>4, <2>1
  <2> QED BY <1>1, <2>1, <2>2 DEF Recorded
<1>8. Recorded(position)' /\ file'[lines + 1] = result'
  BY <1>1, <1>2, <1>3, <1>5 DEF Recorded
<1>9. OurRecords(lines)' = OurRecords(lines) /\ OurErrors(lines)' = OurErrors(lines)
  <2>1. lines' = lines
    BY <1>1
  <2> HIDE DEF lines
  <2>2. OurRecords(lines)' = OurRecords(lines)
    BY <1>1, <1>4, <2>1 DEF OurRecords
  <2>3. \A i \in OurRecords(lines) : i \in 1..lines
    BY DEF OurRecords
  <2>4. OurErrors(lines)' = OurErrors(lines)
    BY <1>4, <2>2, <2>3 DEF OurErrors
  <2> QED BY <2>2, <2>4
<1> QED
  BY <1>1, <1>2, <1>3, <1>6, <1>7, <1>8, <1>9 DEF Counted

\* Once it is synced it is counted, an error too.
LEMMA CountSyncs ==
  ASSUME RunnerInvariant, Counted, before \in Nat, Sync, UNCHANGED before,
         report' = [records |-> report.records + 1,
                    errors  |-> report.errors + IF result.error = "none" THEN 0 ELSE 1]
  PROVE  Counted'
<1>1. /\ pc = "sync" /\ run' = run /\ file' = file /\ synced' = Len(file) /\ before' = before
      /\ position \in Nat \ {0} /\ position \in DOMAIN Plan
  BY DEF Sync, RunnerInvariant, RunnerTypeOK, Inner, Counted
<1>2. /\ position' = position + 1 /\ pc' \in {"unload", "warm up", "done"}
      /\ pc' = "done" => position + 1 > Len(Plan)
  <2>1. position + 1 \in Nat \ {0} /\ Repetition(position + 1)
    BY <1>1 DEF Sync
  <2> QED BY <2>1, RepetitionBegins
<1> DEFINE lines == before + 2 * (position - 1)
<1>3. /\ Len(file) = lines + 2 /\ lines \in Nat
      /\ \A i \in 1..before : IsRecord(file[i]) => file[i].run < run
      /\ \A p \in 1..(position - 1) : Recorded(p)
      /\ Recorded(position) /\ file[lines + 1] = result
      /\ report.records = Cardinality(OurRecords(lines))
      /\ report.errors = Cardinality(OurErrors(lines))
  BY <1>1 DEF Counted
<1>4. /\ before + 2 * position - 1 = lines + 1 /\ before + 2 * position = lines + 2
      /\ before' + 2 * (position' - 1) = lines + 2
  <2>1. position \in Nat /\ before \in Nat /\ before' = before /\ position' = position + 1
    BY <1>1, <1>2
  <2> QED BY <2>1
<1>5. IsRecord(result) /\ result.run = run /\ file[lines + 2] = NewLine /\ ~IsRecord(NewLine)
  BY <1>3, <1>4, NoRecords DEF Recorded
<1>6. \A p \in 1..position : Recorded(p)
  <2>1. \A p \in 1..position : p \in 1..(position - 1) \/ p = position
    BY <1>1
  <2> QED BY <1>3, <2>1
<1>7. PICK n \in Nat : n = lines
  BY <1>3
<1>8. /\ OurRecords(n + 2) = OurRecords(n) \cup {n + 1}
      /\ n + 1 \notin OurRecords(n)
  <2>1. \A i : i \in 1..(n + 2) <=> i \in 1..n \/ i = n + 1 \/ i = n + 2
    OBVIOUS
  <2>2. n + 1 \notin 1..n
    OBVIOUS
  <2>3. /\ file[n + 1] = result /\ file[n + 2] = NewLine
    BY <1>3, <1>5, <1>7
  <2> QED BY <1>5, <2>1, <2>2, <2>3 DEF OurRecords
<1>9. /\ OurErrors(n + 2) = IF result.error = "none" THEN OurErrors(n)
                                                    ELSE OurErrors(n) \cup {n + 1}
      /\ n + 1 \notin OurErrors(n)
  <2>1. file[n + 1] = result
    BY <1>3, <1>7
  <2> QED BY <1>8, <2>1 DEF OurErrors
<1>10. IsFiniteSet(OurRecords(n)) /\ IsFiniteSet(OurErrors(n))
  <2>1. IsFiniteSet(1..n) /\ OurRecords(n) \subseteq 1..n /\ OurErrors(n) \subseteq 1..n
    BY FS_Interval DEF OurRecords, OurErrors
  <2> QED BY <2>1, FS_Subset
<1>11. /\ Cardinality(OurRecords(n + 2)) = Cardinality(OurRecords(n)) + 1
       /\ Cardinality(OurErrors(n + 2))
            = Cardinality(OurErrors(n)) + IF result.error = "none" THEN 0 ELSE 1
  <2>1. Cardinality(OurErrors(n)) \in Nat
    BY <1>10, FS_CardinalityType
  <2>2. Cardinality(OurRecords(n) \cup {n + 1}) = Cardinality(OurRecords(n)) + 1
    BY <1>8, <1>10, FS_AddElement
  <2>3. Cardinality(OurErrors(n) \cup {n + 1}) = Cardinality(OurErrors(n)) + 1
    BY <1>9, <1>10, FS_AddElement
  <2>4. CASE result.error = "none"
    <3>1. OurErrors(n + 2) = OurErrors(n)
      BY <1>9, <2>4
    <3>2. (IF result.error = "none" THEN 0 ELSE 1) = 0
      BY <2>4
    <3>3. Cardinality(OurErrors(n + 2)) = Cardinality(OurErrors(n)) + 0
      BY <2>1, <3>1
    <3> QED BY <1>8, <2>2, <3>2, <3>3
  <2>5. CASE result.error # "none"
    BY <1>8, <1>9, <2>1, <2>2, <2>3, <2>5
  <2> QED BY <2>4, <2>5
<1>12. /\ report'.records = Cardinality(OurRecords(n + 2))
       /\ report'.errors = Cardinality(OurErrors(n + 2))
  BY <1>3, <1>7, <1>11
<1>13. /\ report'.records = Cardinality(OurRecords(before + 2 * (position - 1)))'
       /\ report'.errors = Cardinality(OurErrors(before + 2 * (position - 1)))'
  <2>1. OurRecords(before + 2 * (position - 1))' = OurRecords(n + 2)
    BY <1>1, <1>4, <1>7 DEF OurRecords
  <2>2. OurErrors(before + 2 * (position - 1))' = OurErrors(n + 2)
    BY <1>1, <2>1 DEF OurErrors
  <2> QED BY <1>12, <2>1, <2>2
<1>14. /\ position' \in Nat \ {0} /\ pc' # "sync" /\ position' - 1 = position
       /\ Len(file') = before' + 2 * (position' - 1)
  <2>1. /\ position \in Nat \ {0} /\ position' = position + 1 /\ pc' # "sync"
        /\ Len(file') = lines + 2
    BY <1>1, <1>2, <1>3
  <2> QED BY <2>1, <1>4
<1>15. \A p \in 1..(position' - 1) : Recorded(p)'
  BY <1>1, <1>6, <1>14 DEF Recorded
<1>16. pc' = "done" => position' = Len(Plan) + 1
  <2>1. Len(Plan) \in Nat /\ position \in 1..Len(Plan)
    BY <1>1, PlanModes
  <2> QED BY <1>2, <2>1
<1> QED
  BY <1>1, <1>3, <1>13, <1>14, <1>15, <1>16 DEF Counted

LEMMA ReportStarts == CliInit => RunsAreNew /\ Reported
BY DEF CliInit, Init, RunsAreNew, Reported

\* A step of the command line keeps what its report and the file have in common.
LEMMA StepsAreReported ==
  ASSUME ReportInvariant, CliNext
  PROVE  Reported'
<1>1. /\ RunnerInvariant /\ RunsAreNew /\ Reported /\ Len(file) \in Nat
  BY DEF ReportInvariant, RunnerInvariant, RunnerTypeOK
<1>2. ASSUME NEW c \in Commands, Usage(c)
      PROVE  Reported'
  BY <1>1, <1>2 DEF Usage, Typed, Reported, vars
<1>3. ASSUME NEW c \in Diagnostics \cup {"list-models", "serve"}, command' = c
      PROVE  Reported'
  BY <1>3 DEF Reported, Diagnostics
<1>4. ASSUME NEW c \in Commands, Request(c)
      PROVE  Reported'
  BY <1>3, <1>4 DEF Request, Typed
<1>5. CASE NotEncodable \/ ListModels \/ Serve
  BY <1>3, <1>5 DEF NotEncodable, ListModels, Serve, Typed, Diagnostics
<1>6. CASE Answer \/ BridgeError \/ GiveUp \/ Interrupt
  <2>1. command \in Diagnostics /\ command' = command
    BY <1>6 DEF Answer, BridgeError, GiveUp, Interrupt, InProgress, Exits
  <2> QED BY <1>3, <2>1
<1>7. CASE StartBenchmark
  <2>1. /\ file' = file /\ before' = Len(file) /\ report' = NoReport
        /\ \/ pc' = "version" /\ exit' = "running"
           \/ pc' = "refused" /\ exit' = "error"
    BY <1>7 DEF StartBenchmark, Begin, Typed, output
  <2>2. pc' = "version" => pc' \in Asking /\ pc' \notin Inner
    BY DEF Asking, Inner
  <2> QED BY <1>1, <2>1, <2>2 DEF Reported
<1>8. CASE BenchmarkStep
  <2>1. /\ exit = "running" /\ command = "benchmark" /\ command' = command /\ before' = before
        /\ exit' = IF pc' = "done" THEN "ok" ELSE IF pc' = "refused" THEN "error" ELSE "running"
        /\ Work /\ before \in Nat
        /\ report' = IF pc = "sync"
                     THEN [records |-> report.records + 1,
                           errors  |-> report.errors + IF result.error = "none" THEN 0 ELSE 1]
                     ELSE report
    BY <1>1, <1>8 DEF BenchmarkStep, Benchmarking, Report, Reported
  <2>2. CASE Version \/ (Show /\ pc' = "refused")
    <3>1. pc \in Asking /\ file' = file /\ pc # "sync" /\ pc' \in {"show", "refused"}
      BY <2>2 DEF Version, Show, output, Asking
    <3>2. Len(file) = before /\ report = NoReport
      BY <1>1, <2>1, <3>1 DEF Reported
    <3>3. pc' = "show" => pc' \in Asking /\ pc' \notin Inner
      BY DEF Asking, Inner
    <3> QED BY <2>1, <3>1, <3>2, <3>3 DEF Reported
  <2>3. CASE Show /\ pc' # "refused"
    <3>1. pc = "show" /\ run' = run + 1 /\ Repetition(1) /\ pc \in Asking
      BY <2>3 DEF Show, Asking
    <3>2. Len(file) = before /\ report = NoReport /\ report' = report
      BY <1>1, <2>1, <3>1 DEF Reported
    <3>3. Counted'
      BY <1>1, <2>1, <2>3, <3>1, <3>2, CountBegins
    <3>4. pc' \in {"unload", "warm up", "done"}
      BY <3>1 DEF Repetition
    <3>5. pc' # "done" => pc' \in Inner
      BY <3>4, Places
    <3>6. pc' \notin Asking
      BY <3>4 DEF Asking
    <3> QED BY <2>1, <3>3, <3>4, <3>5, <3>6 DEF Reported
  <2>4. ASSUME Counted', pc' \in Inner \cup {"done"}
        PROVE  Reported'
    <3>1. pc' \notin Asking /\ pc' # "refused"
      BY <2>4 DEF Inner, Asking
    <3> QED BY <2>1, <2>4, <3>1 DEF Reported
  <2>5. CASE Unload \/ Chunk \/ WarmUp \/ Verify \/ Measure \/ Streamed \/ Inspect
    <3>1. /\ pc \in Inner /\ pc # "sync" /\ pc' # "sync" /\ pc' \in Inner /\ pc' # "done"
          /\ UNCHANGED <<file, run, position, synced>>
      BY <2>5 DEF Unload, Chunk, WarmUp, Verify, Measure, Streamed, Inspect, Fail, Inner, output
    <3>2. Counted
      BY <1>1, <2>1, <3>1 DEF Reported
    <3>3. report' = report
      BY <2>1, <3>1
    <3>4. Counted'
      BY <2>1, <3>1, <3>2, <3>3, CountStays
    <3> QED BY <2>4, <3>1, <3>4
  <2>6. CASE Write
    <3>1. pc = "append" /\ pc' = "sync" /\ pc \in Inner /\ pc' \in Inner
      BY <2>6 DEF Write, Inner
    <3>2. Counted /\ report' = report
      BY <1>1, <2>1, <3>1 DEF Reported
    <3>3. Counted'
      BY <1>1, <2>1, <2>6, <3>2, CountWrites
    <3> QED BY <2>4, <3>1, <3>3
  <2>7. CASE Sync
    <3>1. pc = "sync" /\ pc \in Inner /\ pc' \in {"unload", "warm up", "done"}
      BY <2>7 DEF Sync, Inner, Repetition
    <3>2. Counted
      BY <1>1, <2>1, <3>1 DEF Reported
    <3>3. Counted'
      BY <1>1, <2>1, <2>7, <3>1, <3>2, CountSyncs
    <3> QED BY <2>4, <3>1, <3>3, Places
  <2> QED BY <2>1, <2>2, <2>3, <2>5, <2>6, <2>7 DEF Work
<1>9. CASE WriterRaises \/ Killed
  <2>1. exit' \in {"traceback", "killed"} /\ command' = command /\ before' = before
    BY <1>9 DEF WriterRaises, Killed
  <2> QED BY <1>1, <2>1 DEF Reported
<1>10. CASE ServeEnds
  <2>1. exit = "serving" /\ exit' = "ok" /\ command' = command
    BY <1>10 DEF ServeEnds, Exits
  <2> QED BY <1>1, <2>1 DEF Reported
<1>11. CASE Outside
  <2>1. /\ UNCHANGED <<command, exit, before, report, file, run, position, synced, pc, result>>
    BY <1>11 DEF Outside, OtherUse, cli, vars, output
  <2>2. Counted => Counted'
    BY <2>1, CountStays
  <2> QED BY <1>1, <2>1, <2>2 DEF Reported
<1> QED
  BY <1>2, <1>4, <1>5, <1>6, <1>7, <1>8, <1>9, <1>10, <1>11 DEF CliNext, Progress

LEMMA ReportInductive == CliSpec => []ReportInvariant
<1>1. CliInit => ReportInvariant
  BY ReportStarts, RunnerStarts DEF CliInit, ReportInvariant
<1>2. ReportInvariant /\ [CliNext]_cliVars => ReportInvariant'
  <2> SUFFICES ASSUME ReportInvariant, [CliNext]_cliVars PROVE ReportInvariant'
    OBVIOUS
  <2>1. RunnerInvariant /\ RunsAreNew /\ Reported
    BY DEF ReportInvariant
  <2>2. [Next]_vars
    BY StepsOfTheRunner
  <2>3. RunnerInvariant' /\ RunsAreNew'
    <3>1. CASE Next
      BY <2>1, <3>1, StepsAreFaithful, RunsStayNew
    <3>2. CASE UNCHANGED vars
      BY <2>1, <3>2 DEF vars, RunnerInvariant, RunnerTypeOK, Consistent, FileIsFaithful,
                        WarmUps, Warm, RunsAreNew
    <3> QED BY <2>2, <3>1, <3>2
  <2>4. Reported'
    <3>1. CASE CliNext
      BY <3>1, StepsAreReported
    <3>2. CASE UNCHANGED cliVars
      <4>1. UNCHANGED <<command, exit, before, report, file, run, position, synced, pc, result>>
        BY <3>2 DEF cliVars, vars, cli
      <4>2. Counted => Counted'
        BY <4>1, CountStays
      <4> QED BY <2>1, <4>1, <4>2 DEF Reported
    <3> QED BY <3>1, <3>2
  <2> QED BY <2>3, <2>4 DEF ReportInvariant
<1> QED BY <1>1, <1>2, PTL DEF CliSpec

\* A benchmark that ends with exit status 1 or 2 has written nothing: it may be
\* repeated into the same file.
THEOREM FailureAddsNothingHolds == CliSpec => []FailureAddsNothing
<1>1. ReportInvariant => FailureAddsNothing
  BY DEF ReportInvariant, Reported, FailureAddsNothing
<1> QED BY <1>1, ReportInductive, PTL

\* A record of this run is the one of a repetition, at its place.
LEMMA WhereRecordsAre ==
  ASSUME RunnerInvariant, Counted, pc # "sync", before \in Nat,
         NEW i \in 1..Len(file), IsRecord(file[i]), file[i].run = run
  PROVE  \E p \in 1..(position - 1) : i = before + 2 * p - 1
<1>1. /\ position \in Nat \ {0} /\ Len(file) = before + 2 * (position - 1) /\ run \in Nat
      /\ \A k \in 1..before : IsRecord(file[k]) => file[k].run < run
      /\ \A p \in 1..(position - 1) : Recorded(p)
  BY DEF Counted, RunnerInvariant, RunnerTypeOK
<1>2. i \notin 1..before
  BY <1>1
<1>3. i - before \in 1..(2 * (position - 1))
  BY <1>1, <1>2
<1>4. PICK p \in 1..(position - 1) : i - before = 2 * p - 1 \/ i - before = 2 * p
  <2> DEFINE p == (i - before + 1) \div 2
  <2>1. p \in 1..(position - 1) /\ (i - before = 2 * p - 1 \/ i - before = 2 * p)
    BY <1>1, <1>3
  <2> QED BY <2>1
<1>5. i # before + 2 * p
  BY <1>1, <1>4, NoRecords DEF Recorded
<1>6. i = before + 2 * p - 1
  BY <1>1, <1>4, <1>5
<1> QED BY <1>6

\* The lines of a command that ended well: a record for every repetition, and all
\* but one begun behind an unfinished line can be read.
LEMMA WhatCanBeRead ==
  ASSUME RunnerInvariant, Counted, pc = "done", before \in Nat,
         NEW p \in DOMAIN Plan
  PROVE  LET i == before + 2 * p - 1
         IN /\ i \in 1..Len(file) /\ i <= synced
            /\ IsRecord(file[i]) /\ file[i].run = run /\ file[i].position = p
            /\ i \in Records <=> p \notin Lost
<1> DEFINE i == before + 2 * p - 1
<1>1. /\ position = Len(Plan) + 1 /\ Len(Plan) \in Nat /\ p \in 1..Len(Plan)
      /\ Len(file) = before + 2 * (position - 1) /\ synced = Len(file)
      /\ \A q \in 1..Len(Plan) : Recorded(q)
      /\ DOMAIN file = 1..Len(file)
  BY PlanModes DEF Counted, RunnerInvariant, RunnerTypeOK
<1>2. i \in 1..Len(file) /\ i <= synced /\ i + 1 = before + 2 * p /\ i - 1 = before + 2 * (p - 1)
  BY <1>1
<1>3. IsRecord(file[i]) /\ file[i].run = run /\ file[i].position = p /\ EndsLine(i + 1)
  BY <1>1, <1>2 DEF Recorded, EndsLine
<1>4. EndsLine(i - 1) <=> p \notin Lost
  <2>1. CASE p = 1
    <3>1. i - 1 = before
      BY <1>2, <2>1
    <3> QED BY <2>1, <3>1 DEF Lost
  <2>2. CASE p # 1
    <3>1. p - 1 \in 1..Len(Plan)
      BY <1>1, <2>2
    <3>2. EndsLine(i - 1)
      BY <1>1, <1>2, <3>1 DEF Recorded, EndsLine
    <3> QED BY <2>2, <3>2 DEF Lost
  <2> QED BY <2>1, <2>2
<1>5. i \in Records <=> p \notin Lost
  BY <1>1, <1>2, <1>3, <1>4 DEF Records, Readable
<1> QED BY <1>2, <1>3, <1>5

\* What a removed member takes from the size of a set.
LEMMA OneLess ==
  ASSUME NEW S, IsFiniteSet(S), NEW x
  PROVE  /\ IsFiniteSet(S \ {x}) /\ Cardinality(S \ {x}) \in Nat
         /\ x \in S => Cardinality(S) = Cardinality(S \ {x}) + 1
         /\ x \notin S => Cardinality(S) = Cardinality(S \ {x})
<1>1. IsFiniteSet(S \ {x}) /\ x \notin S \ {x}
  BY FS_Subset
<1>2. Cardinality((S \ {x}) \cup {x}) = Cardinality(S \ {x}) + 1
  BY <1>1, FS_AddElement
<1>3. /\ x \in S => (S \ {x}) \cup {x} = S
      /\ x \notin S => S \ {x} = S
  OBVIOUS
<1> QED BY <1>1, <1>2, <1>3, FS_CardinalityType

\* A benchmark that ends with exit status 0 left exactly one record of every
\* repetition, in their order, synced and each a line of its own, and the report
\* counts these records and the errors among them.  Behind a line that a kill or a
\* failed write left unfinished the first of them is lost, no other, and it is
\* reported all the same.
THEOREM ReportIsTrueHolds == CliSpec => []ReportIsTrue
<1>1. ASSUME ReportInvariant, command = "benchmark", exit = "ok"
      PROVE  /\ {file[i].position : i \in Mine} = DOMAIN Plan \ Lost
             /\ \A i, j \in Mine : i < j => file[i].position < file[j].position
             /\ report.records = Cardinality(Mine) + Cardinality(Lost)
             /\ \E errors \in 0..Cardinality(Lost) :
                  report.errors = Cardinality(Errors(Mine)) + errors
  <2>1. /\ RunnerInvariant /\ Counted /\ pc = "done" /\ before \in Nat
    BY <1>1 DEF ReportInvariant, Reported
  <2> DEFINE lines == before + 2 * (position - 1)
             place(p) == before + 2 * p - 1
             ours == OurRecords(lines)
  <2>2. /\ position = Len(Plan) + 1 /\ Len(Plan) \in Nat /\ position - 1 = Len(Plan)
        /\ Len(file) = lines /\ DOMAIN file = 1..lines /\ DOMAIN Plan = 1..Len(Plan)
        /\ report.records = Cardinality(ours)
        /\ report.errors = Cardinality(OurErrors(lines))
    BY <2>1, PlanModes DEF Counted, RunnerInvariant, RunnerTypeOK
  <2>3. \A p \in DOMAIN Plan :
          /\ place(p) \in ours /\ file[place(p)].position = p
          /\ place(p) \in Mine <=> p \notin Lost
    <3> TAKE p \in DOMAIN Plan
    <3>1. /\ place(p) \in 1..Len(file) /\ place(p) <= synced
          /\ IsRecord(file[place(p)]) /\ file[place(p)].run = run /\ file[place(p)].position = p
          /\ place(p) \in Records <=> p \notin Lost
      BY <2>1, WhatCanBeRead
    <3> QED BY <2>2, <3>1 DEF Mine, OurRecords
  <2>4. \A i \in ours : \E p \in DOMAIN Plan : i = place(p)
    <3> TAKE i \in ours
    <3>1. i \in 1..Len(file) /\ IsRecord(file[i]) /\ file[i].run = run
      BY <2>2 DEF OurRecords
    <3>2. PICK p \in 1..(position - 1) : i = before + 2 * p - 1
      BY <2>1, <3>1, WhereRecordsAre
    <3> QED BY <2>2, <3>2
  <2>5. Mine \subseteq ours
    BY <2>2 DEF Mine, OurRecords, Records, Readable
  <2>6. \A p, q \in DOMAIN Plan : place(p) < place(q) => p < q
    BY <2>1, <2>2
  <2>7. \A i \in Mine : \E p \in DOMAIN Plan \ Lost : i = place(p) /\ file[i].position = p
    BY <2>3, <2>4, <2>5
  <2>8. IsFiniteSet(ours) /\ IsFiniteSet(OurErrors(lines))
    <3>1. lines \in Nat /\ IsFiniteSet(1..lines)
      BY <2>1, <2>2, FS_Interval
    <3>2. ours \subseteq 1..lines /\ OurErrors(lines) \subseteq 1..lines
      BY DEF OurRecords, OurErrors
    <3> QED BY <3>1, <3>2, FS_Subset
  <2>9. Errors(Mine) = {i \in Mine : file[i].error # "none"}
    BY DEF Errors
  <2>10. OurErrors(lines) = {i \in ours : file[i].error # "none"}
    BY DEF OurErrors
  <2> HIDE DEF lines, place, ours
  <2>11. {file[i].position : i \in Mine} = DOMAIN Plan \ Lost
    <3>1. \A p \in DOMAIN Plan \ Lost : place(p) \in Mine /\ file[place(p)].position = p
      BY <2>3
    <3> QED BY <2>7, <3>1
  <2>12. \A i, j \in Mine : i < j => file[i].position < file[j].position
    BY <2>6, <2>7
  <2>13. CASE Lost = {}
    <3>1. ours \subseteq Mine
      BY <2>3, <2>4, <2>13
    <3>2. Mine = ours /\ Errors(Mine) = OurErrors(lines)
      BY <2>5, <2>9, <2>10, <3>1
    <3>3. Cardinality(Lost) = 0 /\ Cardinality(Mine) \in Nat /\ Cardinality(Errors(Mine)) \in Nat
      BY <2>8, <2>13, <3>2, FS_EmptySet, FS_CardinalityType
    <3>4. 0 \in 0..Cardinality(Lost) /\ report.errors = Cardinality(Errors(Mine)) + 0
      BY <2>2, <3>2, <3>3
    <3> QED BY <2>2, <2>11, <2>12, <3>2, <3>3, <3>4
  <2>14. CASE Lost # {}
    <3>1. Lost = {1} /\ 1 \in DOMAIN Plan
      BY <2>14 DEF Lost
    <3> DEFINE lost == place(1)
    <3>2. lost \in ours /\ lost \notin Mine
      BY <2>3, <3>1
    <3>3. \A i \in ours \ {lost} : i \in Mine
      BY <2>3, <2>4, <3>1
    <3> HIDE DEF lost
    <3>4. Mine = ours \ {lost} /\ Errors(Mine) = OurErrors(lines) \ {lost}
      BY <2>5, <2>9, <2>10, <3>2, <3>3
    <3>5. Cardinality(Lost) = 1
      BY <3>1, FS_Singleton
    <3>6. Cardinality(ours) = Cardinality(Mine) + 1
      BY <2>8, <3>2, <3>4, OneLess
    <3>7. /\ Cardinality(Errors(Mine)) \in Nat
          /\ \/ Cardinality(OurErrors(lines)) = Cardinality(Errors(Mine)) + 1
             \/ Cardinality(OurErrors(lines)) = Cardinality(Errors(Mine))
      <4> DEFINE found == OurErrors(lines)
      <4>1. IsFiniteSet(found) /\ Errors(Mine) = found \ {lost}
        BY <2>8, <3>4
      <4> HIDE DEF found
      <4>2. /\ Cardinality(found \ {lost}) \in Nat
            /\ \/ Cardinality(found) = Cardinality(found \ {lost}) + 1
               \/ Cardinality(found) = Cardinality(found \ {lost})
        BY <4>1, OneLess
      <4> QED BY <4>1, <4>2 DEF found
    <3>8. \E errors \in 0..1 : report.errors = Cardinality(Errors(Mine)) + errors
      <4>1. /\ 0 \in 0..1 /\ 1 \in 0..1
            /\ \/ report.errors = Cardinality(Errors(Mine)) + 1
               \/ report.errors = Cardinality(Errors(Mine)) + 0
        BY <2>2, <3>7
      <4> QED BY <4>1
    <3> QED BY <2>2, <2>11, <2>12, <3>5, <3>6, <3>8
  <2> QED BY <2>13, <2>14
<1>2. ReportInvariant => ReportIsTrue
  BY <1>1 DEF ReportIsTrue
<1> QED BY <1>2, ReportInductive, PTL
=============================================================================
