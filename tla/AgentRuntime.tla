----------------------------- MODULE AgentRuntime -----------------------------
(***************************************************************************)
(* The bounded model/tool loop of the Python bridge                        *)
(* (ai-bridge/src/dnd_ai_bridge/agent/runtime.py), one AgentRuntime object *)
(* serving several concurrent runs on one asyncio event loop.  A step is   *)
(* what the coroutine does between two awaits: list_tools of 1C, complete  *)
(* of the model provider, call_tool of 1C.  Cancellation may be delivered  *)
(* at each of the three.                                                   *)
(***************************************************************************)
EXTENDS Naturals, Sequences

CONSTANTS
  Runs,           \* calls of AgentRuntime.run
  Tools,          \* tool names a model may ask for; 1C need not offer them
  NoTool,         \* tool_name = None of a message that is no tool result
  Conversations,  \* the message lists callers pass to run
  MaxIterations,  \* AgentLimits.max_iterations
  MaxToolCalls,   \* AgentLimits.max_total_tool_calls
  MaxBatch        \* bound: tool calls of one model answer

ASSUME LimitsAssumption ==
  /\ MaxIterations \in Nat \ {0}
  /\ MaxToolCalls \in Nat \ {0}
  /\ MaxBatch \in Nat

ASSUME NoToolAssumption == NoTool \notin Tools

Access == {"absent", "read_only", "writable"}

\* What list_tools may report: which tools 1C offers, and how each is marked.
Registry == [Tools -> Access]

Batches == UNION {[1..n -> Tools] : n \in 0..MaxBatch}

Message ==
  [role       : {"system", "user", "assistant", "tool"},
   content    : {"blank", "text", "success", "failure"},
   tool_calls : Seq(Tools),
   tool_name  : Tools \cup {NoTool}]

ASSUME ConversationsAssumption == Conversations \subseteq Seq(Message)

Outcomes ==
  {"none", "answer", "iteration_limit", "tool_call_limit", "unknown_tool",
   "tool_not_allowed", "empty_final_response", "tool_transport_failure",
   "tool_error", "registry_error", "provider_error", "cancelled"}

VARIABLES
  pc,                \* where each run awaits
  snapshot,          \* tools_by_name of each run
  conversation,      \* messages of each run
  given,             \* how many of them the caller passed
  iterations,        \* completed model completions
  total_tool_calls,  \* tool calls 1C answered
  pending,           \* rest of the batch, its head is the call in flight
  asked,             \* history: provider.complete calls started
  sent,              \* history: tool names handed to OneCClient.call_tool
  outcome            \* how the run ended

vars == <<pc, snapshot, conversation, given, iterations,
          total_tool_calls, pending, asked, sent, outcome>>

NothingOffered == [t \in Tools |-> "absent"]

AssistantMessage(content, calls) ==
  [role |-> "assistant", content |-> content, tool_calls |-> calls,
   tool_name |-> NoTool]

ToolMessage(tool, content) ==
  [role |-> "tool", content |-> content, tool_calls |-> <<>>,
   tool_name |-> tool]

-----------------------------------------------------------------------------

Init ==
  /\ pc = [r \in Runs |-> "idle"]
  /\ snapshot = [r \in Runs |-> NothingOffered]
  /\ conversation = [r \in Runs |-> <<>>]
  /\ given = [r \in Runs |-> 0]
  /\ iterations = [r \in Runs |-> 0]
  /\ total_tool_calls = [r \in Runs |-> 0]
  /\ pending = [r \in Runs |-> <<>>]
  /\ asked = [r \in Runs |-> 0]
  /\ sent = [r \in Runs |-> <<>>]
  /\ outcome = [r \in Runs |-> "none"]

MoveTo(r, place) == pc' = [pc EXCEPT ![r] = place] /\ UNCHANGED outcome

Finish(r, why) ==
  /\ pc' = [pc EXCEPT ![r] = "finished"]
  /\ outcome' = [outcome EXCEPT ![r] = why]

\* The caller's messages are copied and the registry is requested.
Start(r, messages) ==
  /\ pc[r] = "idle"
  /\ MoveTo(r, "loading")
  /\ conversation' = [conversation EXCEPT ![r] = messages]
  /\ given' = [given EXCEPT ![r] = Len(messages)]
  /\ UNCHANGED <<snapshot, iterations, total_tool_calls, pending,
                 asked, sent>>

\* The head of the while loop, with n completions behind it.
NextIteration(r, n) ==
  \/ /\ n >= MaxIterations
     /\ Finish(r, "iteration_limit")
     /\ UNCHANGED asked
  \/ /\ n < MaxIterations
     /\ MoveTo(r, "thinking")
     /\ asked' = [asked EXCEPT ![r] = @ + 1]

\* 1C answers list_tools: the run works with what is offered now to its end.
ToolsLoaded(r, offered) ==
  /\ pc[r] = "loading"
  /\ snapshot' = [snapshot EXCEPT ![r] = offered]
  /\ NextIteration(r, 0)
  /\ UNCHANGED <<conversation, given, iterations, total_tool_calls,
                 pending, sent>>

\* list_tools fails; run() does not translate what load_tools raises.
LoadFails(r) ==
  /\ pc[r] = "loading"
  /\ Finish(r, "registry_error")
  /\ UNCHANGED <<snapshot, conversation, given, iterations,
                 total_tool_calls, pending, asked, sent>>

\* Mutant: the budget of tool calls is compared with > instead of >=.
NextCallLate(r, batch, total, n) ==
  /\ pending' = [pending EXCEPT ![r] = batch]
  /\ \/ batch = <<>> /\ NextIteration(r, n) /\ UNCHANGED sent
     \/ /\ batch # <<>> /\ total > MaxToolCalls
        /\ Finish(r, "tool_call_limit")
        /\ UNCHANGED <<asked, sent>>
     \/ /\ batch # <<>> /\ total <= MaxToolCalls
        /\ MoveTo(r, "calling")
        /\ sent' = [sent EXCEPT ![r] = Append(@, Head(batch))]
        /\ UNCHANGED asked

\* The head of the for loop over the calls of one answer: the next call is
\* sent, the total budget stops it, or the batch is done.
NextCall(r, batch, total, n) ==
  /\ pending' = [pending EXCEPT ![r] = batch]
  /\ \/ /\ batch = <<>>
        /\ NextIteration(r, n)
        /\ UNCHANGED sent
     \/ /\ batch # <<>>
        /\ total >= MaxToolCalls
        /\ Finish(r, "tool_call_limit")
        /\ UNCHANGED <<asked, sent>>
     \/ /\ batch # <<>>
        /\ total < MaxToolCalls
        /\ MoveTo(r, "calling")
        /\ sent' = [sent EXCEPT ![r] = Append(@, Head(batch))]
        /\ UNCHANGED asked

\* Mutant: the registry is consulted for the name only, not for read_only.
RefusedUnknownOnly(calls, tools) ==
  {i \in DOMAIN calls : tools[calls[i]] = "absent"}

\* _validate_tool_calls: the positions it refuses, and the first one's error.
Refused(calls, tools) == {i \in DOMAIN calls : tools[calls[i]] # "read_only"}

FirstRefusal(calls, tools) ==
  LET first == CHOOSE i \in Refused(calls, tools) :
                 \A j \in Refused(calls, tools) : i <= j
  IN IF tools[calls[first]] = "absent" THEN "unknown_tool"
                                       ELSE "tool_not_allowed"

\* Mutant: calls are validated one by one, each just before it is sent.
ModelAnswersLazily(r, content, calls) ==
  /\ pc[r] = "thinking"
  /\ iterations' = [iterations EXCEPT ![r] = @ + 1]
  /\ conversation' =
       [conversation EXCEPT ![r] = Append(@, AssistantMessage(content, calls))]
  /\ \/ /\ Refused(calls, snapshot[r]) # {}
        /\ Finish(r, FirstRefusal(calls, snapshot[r]))
        /\ sent' = [sent EXCEPT ![r] = @ \o SelectSeq(calls,
             LAMBDA t : snapshot[r][t] = "read_only")]
        /\ UNCHANGED <<pending, asked>>
     \/ /\ Refused(calls, snapshot[r]) = {}
        /\ NextCall(r, calls, total_tool_calls[r], iterations[r] + 1)
  /\ UNCHANGED <<snapshot, given, total_tool_calls>>

\* The model answers with text, with nothing, or with a batch of tool calls.
ModelAnswers(r, content, calls) ==
  /\ pc[r] = "thinking"
  /\ iterations' = [iterations EXCEPT ![r] = @ + 1]
  /\ conversation' =
       [conversation EXCEPT ![r] = Append(@, AssistantMessage(content, calls))]
  /\ \/ /\ calls = <<>>
        /\ Finish(r, IF content = "blank" THEN "empty_final_response"
                                          ELSE "answer")
        /\ UNCHANGED <<pending, asked, sent>>
     \/ /\ Refused(calls, snapshot[r]) # {}
        /\ Finish(r, FirstRefusal(calls, snapshot[r]))
        /\ UNCHANGED <<pending, asked, sent>>
     \/ /\ calls # <<>>
        /\ Refused(calls, snapshot[r]) = {}
        /\ NextCall(r, calls, total_tool_calls[r], iterations[r] + 1)
  /\ UNCHANGED <<snapshot, given, total_tool_calls>>

\* Mutant: a failed completion is retried for ever from a fresh registry.
ModelFailsRetried(r) ==
  /\ pc[r] = "thinking"
  /\ MoveTo(r, "loading")
  /\ asked' = [asked EXCEPT ![r] = @ - 1]
  /\ UNCHANGED <<snapshot, conversation, given, iterations,
                 total_tool_calls, pending, sent>>

\* provider.complete raises; the exception leaves run() as it is.
ModelFails(r) ==
  /\ pc[r] = "thinking"
  /\ Finish(r, "provider_error")
  /\ UNCHANGED <<snapshot, conversation, given, iterations,
                 total_tool_calls, pending, asked, sent>>

\* Mutant: results are attributed as if the calls of a batch ended in any order.
ToolAnswersUnordered(r, content) ==
  /\ pc[r] = "calling"
  /\ total_tool_calls' = [total_tool_calls EXCEPT ![r] = @ + 1]
  /\ \E i \in DOMAIN pending[r] :
       conversation' =
         [conversation EXCEPT ![r] = Append(@, ToolMessage(pending[r][i], content))]
  /\ NextCall(r, Tail(pending[r]), total_tool_calls[r] + 1, iterations[r])
  /\ UNCHANGED <<snapshot, given, iterations>>

\* 1C answers the call in flight, with success or with a tool-level failure.
ToolAnswers(r, content) ==
  /\ pc[r] = "calling"
  /\ total_tool_calls' = [total_tool_calls EXCEPT ![r] = @ + 1]
  /\ conversation' =
       [conversation EXCEPT ![r] = Append(@, ToolMessage(Head(pending[r]), content))]
  /\ NextCall(r, Tail(pending[r]), total_tool_calls[r] + 1, iterations[r])
  /\ UNCHANGED <<snapshot, given, iterations>>

\* call_tool raises a transport or protocol error: no retry.
ToolFails(r) ==
  /\ pc[r] = "calling"
  /\ Finish(r, "tool_transport_failure")
  /\ UNCHANGED <<snapshot, conversation, given, iterations,
                 total_tool_calls, pending, asked, sent>>

\* call_tool raises anything else, such as the ValueError of arguments JSON
\* cannot carry: run() catches the two errors of OneCClient only.
ToolRaises(r) ==
  /\ pc[r] = "calling"
  /\ Finish(r, "tool_error")
  /\ UNCHANGED <<snapshot, conversation, given, iterations,
                 total_tool_calls, pending, asked, sent>>

\* CancelledError is delivered at the await the run is suspended in.
Cancel(r) ==
  /\ pc[r] \in {"loading", "thinking", "calling"}
  /\ Finish(r, "cancelled")
  /\ UNCHANGED <<snapshot, conversation, given, iterations,
                 total_tool_calls, pending, asked, sent>>

\* What the surroundings of a run owe it: an answer or an error.
Answered(r) ==
  \/ \E offered \in Registry : ToolsLoaded(r, offered)
  \/ LoadFails(r)
  \/ \E content \in {"blank", "text"}, calls \in Batches :
       ModelAnswers(r, content, calls)
  \/ ModelFails(r)
  \/ \E content \in {"success", "failure"} : ToolAnswers(r, content)
  \/ ToolFails(r)
  \/ ToolRaises(r)

Next ==
  \E r \in Runs :
    \/ \E messages \in Conversations : Start(r, messages)
    \/ Answered(r)
    \/ Cancel(r)

Spec == Init /\ [][Next]_vars

-----------------------------------------------------------------------------

TypeOK ==
  /\ pc \in [Runs -> {"idle", "loading", "thinking", "calling", "finished"}]
  /\ snapshot \in [Runs -> Registry]
  /\ conversation \in [Runs -> Seq(Message)]
  /\ given \in [Runs -> Nat]
  /\ iterations \in [Runs -> Nat]
  /\ total_tool_calls \in [Runs -> Nat]
  /\ pending \in [Runs -> Seq(Tools)]
  /\ asked \in [Runs -> Nat]
  /\ sent \in [Runs -> Seq(Tools)]
  /\ outcome \in [Runs -> Outcomes]

\* Only tools that the run's own registry snapshot marks read_only ever reach
\* OneCClient.call_tool, whatever the registry of 1C has become meanwhile.
OnlyReadOnlyToolsSent ==
  \A r \in Runs : \A i \in DOMAIN sent[r] : snapshot[r][sent[r][i]] = "read_only"

\* The limits bound what is started, not only what is completed: no completion
\* and no tool call beyond AgentLimits is ever requested, failed ones included.
LimitsKept ==
  \A r \in Runs :
    /\ asked[r] <= MaxIterations
    /\ Len(sent[r]) <= MaxToolCalls

\* A position of the transcript that the run itself produced.
Own(r) == (given[r] + 1) .. Len(conversation[r])

\* The calls the assistant message at position i made, against what follows
\* it: the first n of them are answered, in order, right behind the message.
AnsweredInOrder(r, i, n) ==
  /\ i + n <= Len(conversation[r])
  /\ \A j \in 1..n :
       /\ conversation[r][i + j].role = "tool"
       /\ conversation[r][i + j].tool_name = conversation[r][i].tool_calls[j]

\* Whenever the model is asked, it sees the result of every tool call it made
\* in this run, each once, in the order of the calls, and no other result.
ModelSeesEveryResult ==
  \A r \in Runs : pc[r] = "thinking" =>
    /\ \A i \in Own(r) : conversation[r][i].role = "assistant" =>
         AnsweredInOrder(r, i, Len(conversation[r][i].tool_calls))
    /\ \A k \in Own(r) : conversation[r][k].role = "tool" =>
         \E i \in Own(r) : i < k /\ k <= i + Len(conversation[r][i].tool_calls)

\* A batch with one refused call is refused as a whole: when a run ends with
\* unknown_tool or tool_not_allowed, its last message is the offending answer
\* and every call ever sent to 1C belongs to earlier, answered batches.
RefusedBatchNeverStarted ==
  \A r \in Runs : outcome[r] \in {"unknown_tool", "tool_not_allowed"} =>
    /\ Len(sent[r]) = total_tool_calls[r]
    /\ Refused(conversation[r][Len(conversation[r])].tool_calls, snapshot[r]) # {}

\* A run is stopped by a limit only when it has used that limit up itself,
\* and the calls that were cut off are the unanswered tail of its last batch.
LimitErrorsAreDue ==
  \A r \in Runs :
    /\ outcome[r] = "iteration_limit" =>
         iterations[r] = MaxIterations /\ pending[r] = <<>>
    /\ outcome[r] = "tool_call_limit" =>
         /\ total_tool_calls[r] = MaxToolCalls
         /\ Len(sent[r]) = MaxToolCalls
         /\ pending[r] # <<>>

\* Why the invariants above survive a step: a batch in progress holds
\* permitted calls only, and the counters of a live run agree with what it has
\* requested, up to the one request in flight.
BatchPermitted ==
  \A r \in Runs : pc[r] = "calling" =>
    /\ pending[r] # <<>>
    /\ \A i \in DOMAIN pending[r] : snapshot[r][pending[r][i]] = "read_only"

CountersAgree ==
  \A r \in Runs :
    /\ pc[r] \in {"idle", "loading"} =>
         /\ sent[r] = <<>> /\ pending[r] = <<>>
         /\ asked[r] = 0 /\ iterations[r] = 0 /\ total_tool_calls[r] = 0
    /\ pc[r] = "thinking" =>
         /\ asked[r] = iterations[r] + 1
         /\ Len(sent[r]) = total_tool_calls[r]
         /\ pending[r] = <<>>
    /\ pc[r] = "calling" =>
         /\ asked[r] = iterations[r]
         /\ Len(sent[r]) = total_tool_calls[r] + 1
    /\ pc[r] # "finished" => outcome[r] = "none"

\* The inductive invariant behind the safety theorems: together with the
\* bookkeeping above it implies that the limits, the read-only policy and the
\* refusal of whole batches hold in every reachable state of the loop.
LoopInvariant ==
  /\ TypeOK
  /\ BatchPermitted
  /\ CountersAgree
  /\ OnlyReadOnlyToolsSent
  /\ LimitsKept
  /\ RefusedBatchNeverStarted
  /\ LimitErrorsAreDue

\* The loop keeps the promise of ToolLoop, the calls in flight counted.
PhaseOf(place) ==
  CASE place = "thinking" -> "model"
    [] place = "calling" -> "tool"
    [] place = "finished" -> "over"
    [] OTHER -> "waiting"

Permitted(tools) == {t \in Tools : tools[t] = "read_only"}

Promise == INSTANCE ToolLoop WITH
  phase <- [r \in Runs |-> PhaseOf(pc[r])],
  permitted <- [r \in Runs |-> Permitted(snapshot[r])],
  called <- sent

KeepsPromise == Promise!LoopSpec

=============================================================================
