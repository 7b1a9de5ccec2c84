----------------------------- MODULE AgentProofs -----------------------------
(***************************************************************************)
(* The agent, for any number of runs, any tools and any positive limits:   *)
(* the bounded model/tool loop (AgentRuntime) and its promise (ToolLoop),  *)
(* the HTTP service that runs it (AssistantApi), and the exchange with 1C  *)
(* beneath it (AgentExchange): what it sends reaches 1C once each and in   *)
(* order, and what the model is shown is what 1C did.                      *)
(***************************************************************************)
EXTENDS AgentExchange, AssistantApi, FiniteSetTheorems, TLAPS

USE DEF Registry, Access, Outcomes

\* The initial state satisfies the inductive invariant.
LEMMA LoopInvariantInit == Init => LoopInvariant
<1> SUFFICES ASSUME Init PROVE LoopInvariant
  OBVIOUS
<1> USE DEF Init
<1>1. TypeOK
  BY DEF TypeOK, NothingOffered
<1>2. BatchPermitted /\ CountersAgree
  BY DEF BatchPermitted, CountersAgree
<1>3. OnlyReadOnlyToolsSent /\ LimitsKept
  BY LimitsAssumption DEF OnlyReadOnlyToolsSent, LimitsKept
<1>4. RefusedBatchNeverStarted /\ LimitErrorsAreDue
  BY DEF RefusedBatchNeverStarted, LimitErrorsAreDue
<1>5. QED
  BY <1>1, <1>2, <1>3, <1>4 DEF LoopInvariant

-----------------------------------------------------------------------------

\* The batches of a model answer are sequences of tool names.
LEMMA BatchesAreSequences == Batches \subseteq Seq(Tools)
<1> SUFFICES ASSUME NEW b \in Batches PROVE b \in Seq(Tools)
  OBVIOUS
<1>1. PICK n \in 0..MaxBatch : b \in [1..n -> Tools]
  BY DEF Batches
<1>2. n \in Nat
  BY <1>1, LimitsAssumption
<1>3. QED
  BY <1>1, <1>2

\* Messages the loop appends are messages.
LEMMA MessagesTyped ==
  /\ \A content \in {"blank", "text"}, calls \in Seq(Tools) :
       AssistantMessage(content, calls) \in Message
  /\ \A tool \in Tools, content \in {"success", "failure"} :
       ToolMessage(tool, content) \in Message
BY DEF AssistantMessage, ToolMessage, Message

\* The first refused position decides between the two refusals.
LEMMA RefusalOutcome ==
  ASSUME NEW calls, NEW tools
  PROVE  FirstRefusal(calls, tools) \in {"unknown_tool", "tool_not_allowed"}
BY DEF FirstRefusal

\* NextCall keeps the types, whatever sequence of calls is left.
LEMMA NextCallTypes ==
  ASSUME TypeOK, NEW r \in Runs, NEW batch \in Seq(Tools), NEW total \in Nat,
         NEW n \in Nat, NextCall(r, batch, total, n)
  PROVE  /\ pc' \in [Runs -> {"idle", "loading", "thinking", "calling", "finished"}]
         /\ pending' \in [Runs -> Seq(Tools)]
         /\ asked' \in [Runs -> Nat]
         /\ sent' \in [Runs -> Seq(Tools)]
         /\ outcome' \in [Runs -> Outcomes]
<1> USE DEF TypeOK
<1>1. pending' \in [Runs -> Seq(Tools)]
  BY DEF NextCall
<1>2. CASE batch = <<>> /\ NextIteration(r, n) /\ UNCHANGED sent
  <2>1. CASE Finish(r, "iteration_limit") /\ UNCHANGED asked
    BY <1>1, <1>2, <2>1 DEF Finish
  <2>2. CASE MoveTo(r, "thinking") /\ asked' = [asked EXCEPT ![r] = @ + 1]
    BY <1>1, <1>2, <2>2 DEF MoveTo
  <2>3. QED
    BY <1>2, <2>1, <2>2 DEF NextIteration
<1>3. CASE /\ batch # <<>>
           /\ total >= MaxToolCalls
           /\ Finish(r, "tool_call_limit")
           /\ UNCHANGED <<asked, sent>>
  BY <1>1, <1>3 DEF Finish
<1>4. CASE /\ batch # <<>>
           /\ total < MaxToolCalls
           /\ MoveTo(r, "calling")
           /\ sent' = [sent EXCEPT ![r] = Append(@, Head(batch))]
           /\ UNCHANGED asked
  BY <1>1, <1>4 DEF MoveTo
<1>5. QED
  BY <1>2, <1>3, <1>4 DEF NextCall

\* Every step keeps the types.
LEMMA TypeOKStep == TypeOK /\ BatchPermitted /\ [Next]_vars => TypeOK'
<1> SUFFICES ASSUME TypeOK, BatchPermitted, [Next]_vars PROVE TypeOK'
  OBVIOUS
<1> USE DEF TypeOK
<1>1. ASSUME NEW r \in Runs, NEW messages \in Conversations, Start(r, messages)
      PROVE  TypeOK'
  BY <1>1, ConversationsAssumption DEF Start, MoveTo
<1>2. ASSUME NEW r \in Runs, NEW offered \in Registry, ToolsLoaded(r, offered)
      PROVE  TypeOK'
  <2>1. CASE Finish(r, "iteration_limit") /\ UNCHANGED asked
    BY <1>2, <2>1 DEF ToolsLoaded, Finish
  <2>2. CASE MoveTo(r, "thinking") /\ asked' = [asked EXCEPT ![r] = @ + 1]
    BY <1>2, <2>2 DEF ToolsLoaded, MoveTo
  <2>3. QED
    BY <1>2, <2>1, <2>2 DEF ToolsLoaded, NextIteration
<1>3. ASSUME NEW r \in Runs, LoadFails(r) \/ ModelFails(r) \/ ToolFails(r) \/ ToolRaises(r) \/ Cancel(r)
      PROVE  TypeOK'
  BY <1>3 DEF LoadFails, ModelFails, ToolFails, ToolRaises, Cancel, Finish
<1>4. ASSUME NEW r \in Runs, NEW content \in {"blank", "text"},
             NEW calls \in Batches, ModelAnswers(r, content, calls)
      PROVE  TypeOK'
  <2>1. calls \in Seq(Tools)
    BY BatchesAreSequences
  <2>2. AssistantMessage(content, calls) \in Message
    BY <2>1, MessagesTyped
  <2>3. /\ iterations' \in [Runs -> Nat]
        /\ conversation' \in [Runs -> Seq(Message)]
        /\ UNCHANGED <<snapshot, given, total_tool_calls>>
    BY <1>4, <2>2 DEF ModelAnswers
  <2>4. /\ pc' \in [Runs -> {"idle", "loading", "thinking", "calling", "finished"}]
        /\ pending' \in [Runs -> Seq(Tools)]
        /\ asked' \in [Runs -> Nat]
        /\ sent' \in [Runs -> Seq(Tools)]
        /\ outcome' \in [Runs -> Outcomes]
    <3>1. CASE NextCall(r, calls, total_tool_calls[r], iterations[r] + 1)
      <4>1. total_tool_calls[r] \in Nat /\ iterations[r] + 1 \in Nat
        OBVIOUS
      <4>2. QED
        BY <2>1, <3>1, <4>1, NextCallTypes
    <3>2. ASSUME NEW why \in Outcomes, Finish(r, why),
                 UNCHANGED <<pending, asked, sent>>
          PROVE  /\ pc' \in [Runs -> {"idle", "loading", "thinking", "calling", "finished"}]
                 /\ pending' \in [Runs -> Seq(Tools)]
                 /\ asked' \in [Runs -> Nat]
                 /\ sent' \in [Runs -> Seq(Tools)]
                 /\ outcome' \in [Runs -> Outcomes]
      BY <3>2 DEF Finish
    <3>3. FirstRefusal(calls, snapshot[r]) \in Outcomes
      BY RefusalOutcome
    <3>4. (IF content = "blank" THEN "empty_final_response" ELSE "answer") \in Outcomes
      OBVIOUS
    <3>5. QED
      BY <1>4, <3>1, <3>2, <3>3, <3>4 DEF ModelAnswers
  <2>5. QED
    BY <2>3, <2>4
<1>5. ASSUME NEW r \in Runs, NEW content \in {"success", "failure"},
             ToolAnswers(r, content)
      PROVE  TypeOK'
  <2>1. Head(pending[r]) \in Tools /\ Tail(pending[r]) \in Seq(Tools)
    BY <1>5 DEF BatchPermitted, ToolAnswers
  <2>2. ToolMessage(Head(pending[r]), content) \in Message
    BY <2>1, MessagesTyped
  <2>3. /\ total_tool_calls' \in [Runs -> Nat]
        /\ conversation' \in [Runs -> Seq(Message)]
        /\ UNCHANGED <<snapshot, given, iterations>>
    BY <1>5, <2>2 DEF ToolAnswers
  <2>4. NextCall(r, Tail(pending[r]), total_tool_calls[r] + 1, iterations[r])
    BY <1>5 DEF ToolAnswers
  <2>5. total_tool_calls[r] + 1 \in Nat /\ iterations[r] \in Nat
    OBVIOUS
  <2>6. QED
    BY <2>1, <2>3, <2>4, <2>5, NextCallTypes
<1>6. CASE UNCHANGED vars
  BY <1>6 DEF vars
<1>7. QED
  BY <1>1, <1>2, <1>3, <1>4, <1>5, <1>6 DEF Next, Answered

-----------------------------------------------------------------------------

\* The invariant without the types: what the step lemmas below establish.
Bookkeeping ==
  /\ BatchPermitted
  /\ CountersAgree
  /\ OnlyReadOnlyToolsSent
  /\ LimitsKept
  /\ RefusedBatchNeverStarted
  /\ LimitErrorsAreDue

\* A run that ends without a limit or a refusal leaves the books in order.
LEMMA FinishKeepsBooks ==
  ASSUME LoopInvariant, NEW r \in Runs,
         LoadFails(r) \/ ModelFails(r) \/ ToolFails(r) \/ ToolRaises(r) \/ Cancel(r)
  PROVE  Bookkeeping'
<1> USE DEF LoopInvariant, TypeOK
<1>1. PICK why \in {"registry_error", "provider_error", "tool_transport_failure", "tool_error", "cancelled"} :
        Finish(r, why)
  BY DEF LoadFails, ModelFails, ToolFails, ToolRaises, Cancel
<1>2. UNCHANGED <<snapshot, conversation, given, iterations,
                  total_tool_calls, pending, asked, sent>>
  BY DEF LoadFails, ModelFails, ToolFails, ToolRaises, Cancel
<1>3. \A q \in Runs : q # r => pc'[q] = pc[q] /\ outcome'[q] = outcome[q]
  BY <1>1 DEF Finish
<1>4. pc'[r] = "finished" /\ outcome'[r] = why
  BY <1>1 DEF Finish
<1>5. BatchPermitted'
  BY <1>2, <1>3, <1>4 DEF BatchPermitted
<1>6. CountersAgree'
  BY <1>2, <1>3, <1>4 DEF CountersAgree
<1>7. OnlyReadOnlyToolsSent' /\ LimitsKept'
  BY <1>2 DEF OnlyReadOnlyToolsSent, LimitsKept
<1>8. RefusedBatchNeverStarted'
  BY <1>2, <1>3, <1>4 DEF RefusedBatchNeverStarted
<1>9. LimitErrorsAreDue'
  BY <1>2, <1>3, <1>4 DEF LimitErrorsAreDue
<1>10. QED
  BY <1>5, <1>6, <1>7, <1>8, <1>9 DEF Bookkeeping

\* Starting a run touches none of its counters.
LEMMA StartKeepsBooks ==
  ASSUME LoopInvariant, NEW r \in Runs, NEW messages \in Conversations,
         Start(r, messages)
  PROVE  Bookkeeping'
<1> USE DEF LoopInvariant, TypeOK, Start, MoveTo
<1>1. BatchPermitted'
  BY DEF BatchPermitted
<1>2. CountersAgree'
  BY DEF CountersAgree
<1>3. OnlyReadOnlyToolsSent' /\ LimitsKept'
  BY DEF OnlyReadOnlyToolsSent, LimitsKept
<1>4. RefusedBatchNeverStarted' /\ LimitErrorsAreDue'
  BY DEF RefusedBatchNeverStarted, LimitErrorsAreDue, CountersAgree
<1>5. QED
  BY <1>1, <1>2, <1>3, <1>4 DEF Bookkeeping

\* A fresh snapshot concerns a run that has sent nothing yet.
LEMMA LoadKeepsBooks ==
  ASSUME LoopInvariant, NEW r \in Runs, NEW offered \in Registry, ToolsLoaded(r, offered)
  PROVE  Bookkeeping'
<1> USE DEF LoopInvariant, TypeOK
<1>1. /\ pc' = [pc EXCEPT ![r] = "thinking"]
      /\ asked' = [asked EXCEPT ![r] = @ + 1]
      /\ UNCHANGED outcome
  BY LimitsAssumption DEF ToolsLoaded, NextIteration, MoveTo
<1>2. BatchPermitted'
  BY <1>1 DEF BatchPermitted, ToolsLoaded
<1>3. CountersAgree'
  BY <1>1 DEF CountersAgree, ToolsLoaded
<1>4. OnlyReadOnlyToolsSent'
  BY <1>1 DEF OnlyReadOnlyToolsSent, CountersAgree, ToolsLoaded
<1>5. LimitsKept'
  BY <1>1, LimitsAssumption DEF LimitsKept, CountersAgree, ToolsLoaded
<1>6. RefusedBatchNeverStarted' /\ LimitErrorsAreDue'
  BY <1>1 DEF RefusedBatchNeverStarted, LimitErrorsAreDue, CountersAgree, ToolsLoaded
<1>7. QED
  BY <1>2, <1>3, <1>4, <1>5, <1>6 DEF Bookkeeping

\* The head of the for loop keeps the books: batch is what is left of a
\* permitted batch, total and n count what has been answered so far.
LEMMA NextCallKeepsBooks ==
  ASSUME LoopInvariant, NEW r \in Runs, NEW batch \in Seq(Tools),
         NEW total \in Nat, NEW n \in Nat, NextCall(r, batch, total, n),
         pc[r] \in {"thinking", "calling"},
         \A i \in DOMAIN batch : snapshot[r][batch[i]] = "read_only",
         Len(sent[r]) = total, asked[r] = n,
         total_tool_calls' = [total_tool_calls EXCEPT ![r] = total],
         iterations' = [iterations EXCEPT ![r] = n],
         \E message : conversation' = [conversation EXCEPT ![r] = Append(@, message)],
         UNCHANGED snapshot
  PROVE  Bookkeeping'
<1> USE DEF LoopInvariant, TypeOK
<1>0. sent[r] \in Seq(Tools) /\ Len(sent[r]) = total
  OBVIOUS
<1>1. PICK message : conversation' = [conversation EXCEPT ![r] = Append(@, message)]
  OBVIOUS
<1>2. \A q \in Runs : q # r =>
        /\ pc'[q] = pc[q] /\ outcome'[q] = outcome[q] /\ pending'[q] = pending[q]
        /\ asked'[q] = asked[q] /\ sent'[q] = sent[q]
        /\ conversation'[q] = conversation[q] /\ iterations'[q] = iterations[q]
        /\ total_tool_calls'[q] = total_tool_calls[q]
  <2>1. \A q \in Runs : q # r =>
        /\ conversation'[q] = conversation[q] /\ iterations'[q] = iterations[q]
        /\ total_tool_calls'[q] = total_tool_calls[q]
    BY <1>1
  <2>2. \A q \in Runs : q # r =>
        /\ pc'[q] = pc[q] /\ outcome'[q] = outcome[q] /\ pending'[q] = pending[q]
        /\ asked'[q] = asked[q] /\ sent'[q] = sent[q]
    BY DEF NextCall, NextIteration, Finish, MoveTo
  <2>3. QED
    BY <2>1, <2>2
<1>3. /\ pending'[r] = batch /\ total_tool_calls'[r] = total /\ iterations'[r] = n
      /\ outcome[r] = "none" /\ asked[r] <= MaxIterations /\ Len(sent[r]) <= MaxToolCalls
  BY DEF NextCall, CountersAgree, LimitsKept
<1>4. \/ /\ batch = <<>> /\ pc'[r] = "finished" /\ outcome'[r] = "iteration_limit"
         /\ asked'[r] = n /\ n >= MaxIterations /\ sent'[r] = sent[r]
      \/ /\ batch = <<>> /\ pc'[r] = "thinking" /\ outcome'[r] = "none"
         /\ asked'[r] = n + 1 /\ n < MaxIterations /\ sent'[r] = sent[r]
      \/ /\ batch # <<>> /\ pc'[r] = "finished" /\ outcome'[r] = "tool_call_limit"
         /\ asked'[r] = n /\ total >= MaxToolCalls /\ sent'[r] = sent[r]
      \/ /\ batch # <<>> /\ pc'[r] = "calling" /\ outcome'[r] = "none"
         /\ asked'[r] = n /\ total < MaxToolCalls /\ sent'[r] = Append(sent[r], Head(batch))
  BY <1>3 DEF NextCall, NextIteration, Finish, MoveTo
<1>5. BatchPermitted'
  <2> SUFFICES ASSUME NEW q \in Runs, pc'[q] = "calling"
               PROVE  /\ pending'[q] # <<>>
                      /\ \A i \in DOMAIN pending'[q] :
                           snapshot'[q][pending'[q][i]] = "read_only"
    BY DEF BatchPermitted
  <2>1. CASE q = r
    BY <1>3, <1>4, <2>1
  <2>2. CASE q # r
    BY <1>2, <2>2 DEF BatchPermitted
  <2>3. QED
    BY <2>1, <2>2
<1>6. CountersAgree'
  <2> SUFFICES ASSUME NEW q \in Runs
               PROVE  /\ pc'[q] \in {"idle", "loading"} =>
                           /\ sent'[q] = <<>> /\ pending'[q] = <<>> /\ asked'[q] = 0
                           /\ iterations'[q] = 0 /\ total_tool_calls'[q] = 0
                      /\ pc'[q] = "thinking" =>
                           /\ asked'[q] = iterations'[q] + 1
                           /\ Len(sent'[q]) = total_tool_calls'[q]
                           /\ pending'[q] = <<>>
                      /\ pc'[q] = "calling" =>
                           /\ asked'[q] = iterations'[q]
                           /\ Len(sent'[q]) = total_tool_calls'[q] + 1
                      /\ pc'[q] # "finished" => outcome'[q] = "none"
    BY DEF CountersAgree
  <2>1. CASE q = r
    <3>1. Len(Append(sent[r], Head(batch))) = total + 1
      BY <1>0
    <3>2. QED
      BY <1>3, <1>4, <2>1, <3>1
  <2>2. CASE q # r
    <3>1. /\ pc[q] \in {"idle", "loading"} =>
               /\ sent[q] = <<>> /\ pending[q] = <<>> /\ asked[q] = 0
               /\ iterations[q] = 0 /\ total_tool_calls[q] = 0
          /\ pc[q] = "thinking" =>
               /\ asked[q] = iterations[q] + 1
               /\ Len(sent[q]) = total_tool_calls[q]
               /\ pending[q] = <<>>
          /\ pc[q] = "calling" =>
               /\ asked[q] = iterations[q]
               /\ Len(sent[q]) = total_tool_calls[q] + 1
          /\ pc[q] # "finished" => outcome[q] = "none"
      BY DEF CountersAgree
    <3>2. QED
      BY <1>2, <2>2, <3>1
  <2>3. QED
    BY <2>1, <2>2
<1>7. OnlyReadOnlyToolsSent'
  <2> SUFFICES ASSUME NEW q \in Runs, NEW i \in DOMAIN sent'[q]
               PROVE  snapshot[q][sent'[q][i]] = "read_only"
    BY DEF OnlyReadOnlyToolsSent
  <2>1. CASE sent'[q] = sent[q]
    BY <2>1 DEF OnlyReadOnlyToolsSent
  <2>2. CASE q = r /\ batch # <<>> /\ sent'[r] = Append(sent[r], Head(batch))
    <3>1. snapshot[r][Head(batch)] = "read_only"
      BY <2>2
    <3>2. CASE i \in DOMAIN sent[r]
      BY <2>2, <3>2 DEF OnlyReadOnlyToolsSent
    <3>3. CASE i = Len(sent[r]) + 1
      BY <2>2, <3>1, <3>3
    <3>4. QED
      BY <2>2, <3>2, <3>3
  <2>3. QED
    BY <1>2, <1>4, <2>1, <2>2
<1>8. LimitsKept'
  <2> SUFFICES ASSUME NEW q \in Runs
               PROVE  asked'[q] <= MaxIterations /\ Len(sent'[q]) <= MaxToolCalls
    BY DEF LimitsKept
  <2>1. CASE q = r
    <3>1. Len(Append(sent[r], Head(batch))) = total + 1
      BY <1>0
    <3>2. QED
      BY <1>3, <1>4, <2>1, <3>1, LimitsAssumption
  <2>2. CASE q # r
    BY <1>2, <2>2 DEF LimitsKept
  <2>3. QED
    BY <2>1, <2>2
<1>9. RefusedBatchNeverStarted'
  <2> SUFFICES ASSUME NEW q \in Runs,
                      outcome'[q] \in {"unknown_tool", "tool_not_allowed"}
               PROVE  /\ Len(sent'[q]) = total_tool_calls'[q]
                      /\ Refused(conversation'[q][Len(conversation'[q])].tool_calls,
                                 snapshot'[q]) # {}
    BY DEF RefusedBatchNeverStarted
  <2>1. q # r
    BY <1>4
  <2>2. QED
    BY <1>2, <2>1 DEF RefusedBatchNeverStarted
<1>10. LimitErrorsAreDue'
  <2> SUFFICES ASSUME NEW q \in Runs
               PROVE  /\ outcome'[q] = "iteration_limit" =>
                           iterations'[q] = MaxIterations /\ pending'[q] = <<>>
                      /\ outcome'[q] = "tool_call_limit" =>
                           /\ total_tool_calls'[q] = MaxToolCalls
                           /\ Len(sent'[q]) = MaxToolCalls
                           /\ pending'[q] # <<>>
    BY DEF LimitErrorsAreDue
  <2>1. CASE q = r
    BY <1>3, <1>4, <2>1, LimitsAssumption
  <2>2. CASE q # r
    BY <1>2, <2>2 DEF LimitErrorsAreDue
  <2>3. QED
    BY <2>1, <2>2
<1>11. QED
  BY <1>5, <1>6, <1>7, <1>8, <1>9, <1>10 DEF Bookkeeping

\* An answer of the model: a final one, a refused batch, or a permitted batch.
LEMMA ModelAnswersKeepsBooks ==
  ASSUME LoopInvariant, NEW r \in Runs, NEW content \in {"blank", "text"},
         NEW calls \in Batches, ModelAnswers(r, content, calls)
  PROVE  Bookkeeping'
<1> USE DEF LoopInvariant, TypeOK
<1>1. calls \in Seq(Tools)
  BY BatchesAreSequences
<1>2. /\ pc[r] = "thinking" /\ outcome[r] = "none" /\ pending[r] = <<>>
      /\ asked[r] = iterations[r] + 1 /\ Len(sent[r]) = total_tool_calls[r]
  BY DEF ModelAnswers, CountersAgree
<1>3. CASE calls # <<>> /\ Refused(calls, snapshot[r]) = {}
             /\ NextCall(r, calls, total_tool_calls[r], iterations[r] + 1)
  <2>1. \A i \in DOMAIN calls : snapshot[r][calls[i]] = "read_only"
    BY <1>3 DEF Refused
  <2>2. /\ total_tool_calls' = [total_tool_calls EXCEPT ![r] = total_tool_calls[r]]
        /\ iterations' = [iterations EXCEPT ![r] = iterations[r] + 1]
        /\ UNCHANGED snapshot
    BY DEF ModelAnswers
  <2>3. \E message : conversation' = [conversation EXCEPT ![r] = Append(@, message)]
    BY DEF ModelAnswers
  <2>4. total_tool_calls[r] \in Nat /\ iterations[r] + 1 \in Nat
    OBVIOUS
  <2>5. QED
    BY <1>1, <1>2, <1>3, <2>1, <2>2, <2>3, <2>4, NextCallKeepsBooks
<1>4. ASSUME NEW why \in {"answer", "empty_final_response", "unknown_tool", "tool_not_allowed"},
             Finish(r, why), UNCHANGED <<pending, asked, sent>>,
             why \in {"unknown_tool", "tool_not_allowed"} =>
               Refused(calls, snapshot[r]) # {}
      PROVE  Bookkeeping'
  <2>1. \A q \in Runs : q # r =>
          /\ pc'[q] = pc[q] /\ outcome'[q] = outcome[q]
          /\ conversation'[q] = conversation[q] /\ iterations'[q] = iterations[q]
    BY <1>4 DEF Finish, ModelAnswers
  <2>2. /\ pc'[r] = "finished" /\ outcome'[r] = why
        /\ iterations'[r] = iterations[r] + 1
        /\ conversation'[r] = Append(conversation[r], AssistantMessage(content, calls))
    BY <1>4 DEF Finish, ModelAnswers
  <2>3. UNCHANGED <<snapshot, total_tool_calls, pending, asked, sent>>
    BY <1>4 DEF ModelAnswers
  <2>4. BatchPermitted'
    BY <2>1, <2>2, <2>3 DEF BatchPermitted
  <2>5. CountersAgree'
    BY <2>1, <2>2, <2>3 DEF CountersAgree
  <2>6. OnlyReadOnlyToolsSent' /\ LimitsKept'
    BY <2>3 DEF OnlyReadOnlyToolsSent, LimitsKept
  <2>7. RefusedBatchNeverStarted'
    <3> SUFFICES ASSUME NEW q \in Runs,
                        outcome'[q] \in {"unknown_tool", "tool_not_allowed"}
                 PROVE  /\ Len(sent'[q]) = total_tool_calls'[q]
                        /\ Refused(conversation'[q][Len(conversation'[q])].tool_calls,
                                   snapshot'[q]) # {}
      BY DEF RefusedBatchNeverStarted
    <3>1. CASE q = r
      <4>1. AssistantMessage(content, calls).tool_calls = calls
        BY DEF AssistantMessage
      <4>2. AssistantMessage(content, calls) \in Message
        BY <1>1, MessagesTyped
      <4>3. conversation'[r][Len(conversation'[r])] = AssistantMessage(content, calls)
        BY <2>2, <4>2
      <4>4. QED
        BY <1>2, <1>4, <2>2, <2>3, <3>1, <4>1, <4>3
    <3>2. CASE q # r
      BY <2>1, <2>3, <3>2 DEF RefusedBatchNeverStarted
    <3>3. QED
      BY <3>1, <3>2
  <2>8. LimitErrorsAreDue'
    BY <2>1, <2>2, <2>3 DEF LimitErrorsAreDue
  <2>9. QED
    BY <2>4, <2>5, <2>6, <2>7, <2>8 DEF Bookkeeping
<1>5. (IF content = "blank" THEN "empty_final_response" ELSE "answer")
        \in {"answer", "empty_final_response"}
  OBVIOUS
<1>6. QED
  BY <1>3, <1>4, <1>5, RefusalOutcome DEF ModelAnswers

\* The answer of 1C to the call in flight, and what the loop does next.
LEMMA ToolAnswersKeepsBooks ==
  ASSUME LoopInvariant, NEW r \in Runs, NEW content \in {"success", "failure"},
         ToolAnswers(r, content)
  PROVE  Bookkeeping'
<1> USE DEF LoopInvariant, TypeOK
<1>1. /\ pc[r] = "calling" /\ pending[r] # <<>>
      /\ \A i \in DOMAIN pending[r] : snapshot[r][pending[r][i]] = "read_only"
      /\ asked[r] = iterations[r] /\ Len(sent[r]) = total_tool_calls[r] + 1
  BY DEF ToolAnswers, BatchPermitted, CountersAgree
<1>2. Tail(pending[r]) \in Seq(Tools)
  BY <1>1
<1>3. \A i \in DOMAIN Tail(pending[r]) : snapshot[r][Tail(pending[r])[i]] = "read_only"
  BY <1>1
<1>4. /\ NextCall(r, Tail(pending[r]), total_tool_calls[r] + 1, iterations[r])
      /\ total_tool_calls' = [total_tool_calls EXCEPT ![r] = total_tool_calls[r] + 1]
      /\ iterations' = [iterations EXCEPT ![r] = iterations[r]]
      /\ UNCHANGED snapshot
  BY DEF ToolAnswers
<1>5. \E message : conversation' = [conversation EXCEPT ![r] = Append(@, message)]
  BY DEF ToolAnswers
<1>6. total_tool_calls[r] + 1 \in Nat /\ iterations[r] \in Nat
  OBVIOUS
<1>7. QED
  BY <1>1, <1>2, <1>3, <1>4, <1>5, <1>6, NextCallKeepsBooks

\* Every step keeps the inductive invariant.
LEMMA LoopInvariantStep == LoopInvariant /\ [Next]_vars => LoopInvariant'
<1> SUFFICES ASSUME LoopInvariant, [Next]_vars PROVE LoopInvariant'
  OBVIOUS
<1>1. TypeOK'
  BY TypeOKStep DEF LoopInvariant
<1>2. Bookkeeping'
  <2>1. CASE UNCHANGED vars
    BY <2>1 DEF vars, LoopInvariant, Bookkeeping, BatchPermitted,
       CountersAgree, OnlyReadOnlyToolsSent, LimitsKept, RefusedBatchNeverStarted,
       LimitErrorsAreDue
  <2>2. QED
    BY <2>1, StartKeepsBooks, LoadKeepsBooks, FinishKeepsBooks,
       ModelAnswersKeepsBooks, ToolAnswersKeepsBooks DEF Next, Answered
<1>3. QED
  BY <1>1, <1>2 DEF LoopInvariant, Bookkeeping

\* In every reachable state of the loop, whatever the model, 1C and the callers
\* do, the inductive invariant holds.
THEOREM LoopInvariantHolds == Spec => []LoopInvariant
<1>1. QED
  BY LoopInvariantInit, LoopInvariantStep, PTL DEF Spec

\* Only tools marked read_only in the run's snapshot ever reach 1C.
THEOREM OnlyReadOnlyToolsSentHolds == Spec => []OnlyReadOnlyToolsSent
<1>1. LoopInvariant => OnlyReadOnlyToolsSent
  BY DEF LoopInvariant
<1>2. QED
  BY <1>1, LoopInvariantHolds, PTL

\* The limits of AgentLimits bound completions and calls in every run.
THEOREM LimitsKeptHolds == Spec => []LimitsKept
<1>1. LoopInvariant => LimitsKept
  BY DEF LoopInvariant
<1>2. QED
  BY <1>1, LoopInvariantHolds, PTL

\* No call of a refused batch is ever sent, and a limit error is never early.
THEOREM ErrorsAreHonest == Spec => [](RefusedBatchNeverStarted /\ LimitErrorsAreDue)
<1>1. LoopInvariant => RefusedBatchNeverStarted /\ LimitErrorsAreDue
  BY DEF LoopInvariant
<1>2. QED
  BY <1>1, LoopInvariantHolds, PTL

-----------------------------------------------------------------------------

\* The refinement: the head of the for loop calls, asks or ends.
LEMMA NextCallKeepsPromise ==
  ASSUME LoopInvariant, NEW r \in Runs, NEW batch \in Seq(Tools),
         NEW total \in Nat, NEW n \in Nat, NextCall(r, batch, total, n),
         pc[r] = "calling" \/ (pc[r] = "thinking" /\ batch # <<>>),
         \A i \in DOMAIN batch : snapshot[r][batch[i]] = "read_only",
         Len(sent[r]) = total, asked[r] = n, UNCHANGED snapshot
  PROVE  Promise!LoopNext
<1> USE DEF LoopInvariant, TypeOK
<1> DEFINE phase == [q \in Runs |-> PhaseOf(pc[q])]
<1>1. phase[r] \in {"model", "tool"} /\ (pc[r] = "calling" => phase[r] = "tool")
  BY DEF PhaseOf
<1>2. CASE batch = <<>> /\ n >= MaxIterations /\ Finish(r, "iteration_limit")
             /\ UNCHANGED <<asked, sent>>
  <2>1. phase' = [phase EXCEPT ![r] = "over"]
    BY <1>2 DEF Finish, PhaseOf
  <2>2. Promise!End(r)
    BY <1>1, <1>2, <2>1 DEF Promise!End
  <2>3. QED
    BY <2>2 DEF Promise!LoopNext
<1>3. CASE batch = <<>> /\ n < MaxIterations /\ MoveTo(r, "thinking")
             /\ asked' = [asked EXCEPT ![r] = @ + 1] /\ UNCHANGED sent
  <2>1. phase' = [phase EXCEPT ![r] = "model"]
    BY <1>3 DEF MoveTo, PhaseOf
  <2>2. Promise!Ask(r)
    BY <1>1, <1>3, <2>1 DEF Promise!Ask
  <2>3. QED
    BY <2>2 DEF Promise!LoopNext
<1>4. CASE batch # <<>> /\ Finish(r, "tool_call_limit") /\ UNCHANGED <<asked, sent>>
  <2>1. phase' = [phase EXCEPT ![r] = "over"]
    BY <1>4 DEF Finish, PhaseOf
  <2>2. Promise!End(r)
    BY <1>1, <1>4, <2>1 DEF Promise!End
  <2>3. QED
    BY <2>2 DEF Promise!LoopNext
<1>5. CASE batch # <<>> /\ total < MaxToolCalls /\ MoveTo(r, "calling")
             /\ sent' = [sent EXCEPT ![r] = Append(@, Head(batch))]
             /\ UNCHANGED asked
  <2>1. phase' = [phase EXCEPT ![r] = "tool"]
    BY <1>5 DEF MoveTo, PhaseOf
  <2>2. Head(batch) \in Tools /\ snapshot[r][Head(batch)] = "read_only"
    BY <1>5
  <2>3. Head(batch) \in [q \in Runs |-> Permitted(snapshot[q])][r]
    BY <2>2 DEF Permitted
  <2>4. Promise!Call(r, Head(batch))
    BY <1>1, <1>5, <2>1, <2>3 DEF Promise!Call
  <2>5. QED
    BY <2>2, <2>4 DEF Promise!LoopNext
<1>6. QED
  BY <1>2, <1>3, <1>4, <1>5 DEF NextCall, NextIteration

\* Every step of the loop is a step of the promise or leaves it as it is.
LEMMA PromiseStep ==
  LoopInvariant /\ [Next]_vars => [Promise!LoopNext]_(Promise!loopVars)
<1> SUFFICES ASSUME LoopInvariant, [Next]_vars
             PROVE  [Promise!LoopNext]_(Promise!loopVars)
  OBVIOUS
<1> USE DEF LoopInvariant, TypeOK
<1> DEFINE phase == [q \in Runs |-> PhaseOf(pc[q])]
<1> DEFINE permitted == [q \in Runs |-> Permitted(snapshot[q])]
<1>1. ASSUME NEW r \in Runs, NEW messages \in Conversations, Start(r, messages)
      PROVE  UNCHANGED Promise!loopVars
  <2>1. phase' = phase
    BY <1>1 DEF Start, MoveTo, PhaseOf
  <2>2. QED
    BY <1>1, <2>1 DEF Start, Promise!loopVars
<1>2. ASSUME NEW r \in Runs, NEW offered \in Registry, ToolsLoaded(r, offered)
      PROVE  Promise!LoopNext
  <2>1. /\ pc[r] = "loading" /\ asked[r] = 0
        /\ pc' = [pc EXCEPT ![r] = "thinking"]
        /\ asked' = [asked EXCEPT ![r] = 1]
    BY <1>2, LimitsAssumption DEF ToolsLoaded, NextIteration, MoveTo, CountersAgree
  <2>2. phase[r] = "waiting" /\ phase' = [phase EXCEPT ![r] = "model"]
    BY <2>1 DEF PhaseOf
  <2>3. permitted' = [permitted EXCEPT ![r] = Permitted(offered)]
    BY <1>2 DEF ToolsLoaded
  <2>4. Promise!Begin(r, Permitted(offered))
    BY <1>2, <2>1, <2>2, <2>3 DEF Promise!Begin, ToolsLoaded
  <2>5. Permitted(offered) \in SUBSET Tools
    BY DEF Permitted
  <2>6. QED
    BY <2>4, <2>5 DEF Promise!LoopNext
<1>3. ASSUME NEW r \in Runs, NEW why, Finish(r, why), pc[r] # "finished",
             UNCHANGED <<snapshot, asked, sent>>
      PROVE  Promise!LoopNext
  <2>1. phase[r] # "over" /\ phase' = [phase EXCEPT ![r] = "over"]
    BY <1>3 DEF Finish, PhaseOf
  <2>2. Promise!End(r)
    BY <1>3, <2>1 DEF Promise!End
  <2>3. QED
    BY <2>2 DEF Promise!LoopNext
<1>4. ASSUME NEW r \in Runs, LoadFails(r) \/ ModelFails(r) \/ ToolFails(r) \/ ToolRaises(r) \/ Cancel(r)
      PROVE  Promise!LoopNext
  BY <1>3, <1>4 DEF LoadFails, ModelFails, ToolFails, ToolRaises, Cancel
<1>5. ASSUME NEW r \in Runs, NEW content \in {"blank", "text"},
             NEW calls \in Batches, ModelAnswers(r, content, calls)
      PROVE  Promise!LoopNext
  <2>1. CASE calls # <<>> /\ Refused(calls, snapshot[r]) = {}
               /\ NextCall(r, calls, total_tool_calls[r], iterations[r] + 1)
    <3>1. \A i \in DOMAIN calls : snapshot[r][calls[i]] = "read_only"
      BY <2>1 DEF Refused
    <3>2. /\ calls \in Seq(Tools) /\ pc[r] = "thinking" /\ UNCHANGED snapshot
          /\ asked[r] = iterations[r] + 1 /\ Len(sent[r]) = total_tool_calls[r]
      BY <1>5, BatchesAreSequences DEF ModelAnswers, CountersAgree
    <3>3. total_tool_calls[r] \in Nat /\ iterations[r] + 1 \in Nat
      OBVIOUS
    <3>4. QED
      BY <2>1, <3>1, <3>2, <3>3, NextCallKeepsPromise
  <2>2. ASSUME NEW why, Finish(r, why), UNCHANGED <<pending, asked, sent>>
        PROVE  Promise!LoopNext
    BY <1>3, <1>5, <2>2 DEF ModelAnswers
  <2>3. QED
    BY <1>5, <2>1, <2>2 DEF ModelAnswers
<1>6. ASSUME NEW r \in Runs, NEW content \in {"success", "failure"},
             ToolAnswers(r, content)
      PROVE  Promise!LoopNext
  <2>1. /\ pc[r] = "calling" /\ pending[r] # <<>>
        /\ \A i \in DOMAIN pending[r] : snapshot[r][pending[r][i]] = "read_only"
        /\ asked[r] = iterations[r] /\ Len(sent[r]) = total_tool_calls[r] + 1
    BY <1>6 DEF ToolAnswers, BatchPermitted, CountersAgree
  <2>2. Tail(pending[r]) \in Seq(Tools)
    BY <2>1
  <2>3. \A i \in DOMAIN Tail(pending[r]) : snapshot[r][Tail(pending[r])[i]] = "read_only"
    BY <2>1
  <2>4. /\ NextCall(r, Tail(pending[r]), total_tool_calls[r] + 1, iterations[r])
        /\ UNCHANGED snapshot
    BY <1>6 DEF ToolAnswers
  <2>5. total_tool_calls[r] + 1 \in Nat /\ iterations[r] \in Nat
    OBVIOUS
  <2>6. QED
    BY <2>1, <2>2, <2>3, <2>4, <2>5, NextCallKeepsPromise
<1>7. CASE UNCHANGED vars
  <2>1. UNCHANGED <<pc, snapshot, asked, sent>>
    BY <1>7 DEF vars
  <2>2. phase' = phase /\ permitted' = permitted
    BY <2>1
  <2>3. QED
    BY <2>1, <2>2 DEF Promise!loopVars
<1>8. QED
  BY <1>1, <1>2, <1>4, <1>5, <1>6, <1>7 DEF Next, Answered

\* The bounded loop implements ToolLoop: one model or tool at a time, bounded
\* completions and calls, permitted tools only, nothing after the end.
THEOREM LoopKeepsPromise == Spec => KeepsPromise
<1>1. Init => Promise!LoopInit
  BY DEF Init, Promise!LoopInit, PhaseOf, Permitted, NothingOffered
<1>2. QED
  BY <1>1, PromiseStep, LoopInvariantHolds, PTL DEF Spec, KeepsPromise, Promise!LoopSpec

-----------------------------------------------------------------------------
(* What the model sees.  The transcript t of a run whose first g messages    *)
(* the caller passed.                                                        *)

\* The first n calls of the message at i are answered right behind it.
AnsweredFrom(t, i, n) ==
  /\ i + n <= Len(t)
  /\ \A j \in 1..n : t[i + j].role = "tool" /\ t[i + j].tool_name = t[i].tool_calls[j]

\* The answer at k belongs to a batch before it.
Wanted(t, g, k) ==
  \E i \in (g + 1)..Len(t) : i < k /\ k <= i + Len(t[i].tool_calls)

\* Every call is answered in its place, but for those of the message `but`.
WholeBut(t, g, but) ==
  /\ \A i \in (g + 1)..Len(t) : t[i].role = "assistant" /\ i # but =>
       AnsweredFrom(t, i, Len(t[i].tool_calls))
  /\ \A k \in (g + 1)..Len(t) : t[k].role = "tool" => Wanted(t, g, k)

\* The batch in progress began at i and is answered up to its rest.
BatchAt(t, g, i, rest) ==
  /\ i \in (g + 1)..Len(t)
  /\ t[i].role = "assistant"
  /\ Len(t[i].tool_calls) = (Len(t) - i) + Len(rest)
  /\ \A j \in 1..Len(rest) : rest[j] = t[i].tool_calls[(Len(t) - i) + j]
  /\ AnsweredFrom(t, i, Len(t) - i)
  /\ WholeBut(t, g, i)

TranscriptFits ==
  \A r \in Runs :
    /\ pc[r] = "loading" => given[r] = Len(conversation[r])
    /\ pc[r] = "thinking" => /\ given[r] <= Len(conversation[r])
                             /\ WholeBut(conversation[r], given[r], 0)
    /\ pc[r] = "calling" => \E i \in Nat : BatchAt(conversation[r], given[r], i, pending[r])

\* A message more leaves the earlier ones where they were.
LEMMA Appended ==
  ASSUME NEW t \in Seq(Message), NEW message \in Message
  PROVE  /\ Len(Append(t, message)) = Len(t) + 1 /\ Len(t) \in Nat
         /\ \A i \in 1..Len(t) : Append(t, message)[i] = t[i]
         /\ Append(t, message)[Len(t) + 1] = message
OBVIOUS

\* The calls of a message are counted.
LEMMA CallsCounted ==
  ASSUME NEW t \in Seq(Message), NEW k \in 1..Len(t)
  PROVE  Len(t[k].tool_calls) \in Nat
<1>1. t[k] \in Message
  OBVIOUS
<1>2. t[k].tool_calls \in Seq(Tools)
  BY <1>1 DEF Message
<1> QED BY <1>2

\* A batch that has been answered to its end leaves nothing open.
LEMMA AnsweredBatchIsWhole ==
  ASSUME NEW t \in Seq(Message), NEW g \in Nat, NEW i \in Nat, BatchAt(t, g, i, <<>>)
  PROVE  g <= Len(t) /\ WholeBut(t, g, 0)
BY DEF BatchAt, WholeBut

\* A batch is open from its message on.
LEMMA BatchBegins ==
  ASSUME NEW t \in Seq(Message), NEW g \in Nat, g <= Len(t), WholeBut(t, g, 0),
         NEW content \in {"blank", "text"}, NEW calls \in Seq(Tools)
  PROVE  BatchAt(Append(t, AssistantMessage(content, calls)), g, Len(t) + 1, calls)
<1> DEFINE u == Append(t, AssistantMessage(content, calls))
<1>1. /\ Len(u) = Len(t) + 1 /\ Len(t) \in Nat
      /\ \A i \in 1..Len(t) : u[i] = t[i]
      /\ u[Len(t) + 1] = AssistantMessage(content, calls)
  BY MessagesTyped, Appended
<1>2. /\ AssistantMessage(content, calls).role = "assistant"
      /\ AssistantMessage(content, calls).tool_calls = calls
  BY DEF AssistantMessage
<1>3. \A k \in 1..Len(t) : Len(t[k].tool_calls) \in Nat
  BY CallsCounted
<1> HIDE DEF u
<1>4. WholeBut(u, g, Len(t) + 1)
  <2>1. ASSUME NEW i \in (g + 1)..Len(u), u[i].role = "assistant", i # Len(t) + 1
        PROVE  AnsweredFrom(u, i, Len(u[i].tool_calls))
    <3>1. i \in (g + 1)..Len(t) /\ i \in 1..Len(t) /\ i # 0
      BY <1>1, <2>1
    <3>2. AnsweredFrom(t, i, Len(t[i].tool_calls))
      BY <1>1, <2>1, <3>1 DEF WholeBut
    <3>3. u[i] = t[i] /\ Len(t[i].tool_calls) \in Nat
      BY <1>1, <1>3, <3>1
    <3>4. \A j \in 1..Len(t[i].tool_calls) : i + j \in 1..Len(t)
      BY <1>1, <3>1, <3>2, <3>3 DEF AnsweredFrom
    <3> QED BY <1>1, <3>1, <3>2, <3>3, <3>4 DEF AnsweredFrom
  <2>2. ASSUME NEW k \in (g + 1)..Len(u), u[k].role = "tool" PROVE Wanted(u, g, k)
    <3>1. k \in (g + 1)..Len(t) /\ k \in 1..Len(t)
      BY <1>1, <1>2, <2>2
    <3>2. Wanted(t, g, k)
      BY <1>1, <2>2, <3>1 DEF WholeBut
    <3> QED BY <1>1, <3>1, <3>2 DEF Wanted
  <2> QED BY <2>1, <2>2 DEF WholeBut
<1>5. AnsweredFrom(u, Len(t) + 1, 0)
  BY <1>1 DEF AnsweredFrom
<1> QED BY <1>1, <1>2, <1>4, <1>5 DEF BatchAt, u

\* An answer takes the place of the call that was next.
LEMMA BatchGoesOn ==
  ASSUME NEW t \in Seq(Message), NEW g \in Nat, NEW i \in Nat, NEW rest \in Seq(Tools),
         rest # <<>>, BatchAt(t, g, i, rest), NEW content \in {"success", "failure"}
  PROVE  BatchAt(Append(t, ToolMessage(Head(rest), content)), g, i, Tail(rest))
<1> DEFINE u == Append(t, ToolMessage(Head(rest), content))
<1> DEFINE n == Len(t) - i
<1>1. /\ Len(u) = Len(t) + 1 /\ Len(t) \in Nat
      /\ \A k \in 1..Len(t) : u[k] = t[k]
      /\ u[Len(t) + 1] = ToolMessage(Head(rest), content)
  BY MessagesTyped, Appended
<1>2. /\ ToolMessage(Head(rest), content).role = "tool"
      /\ ToolMessage(Head(rest), content).tool_name = Head(rest)
  BY DEF ToolMessage
<1>3. \A k \in 1..Len(t) : Len(t[k].tool_calls) \in Nat
  BY CallsCounted
<1>4. /\ i \in 1..Len(t) /\ i \in (g + 1)..Len(t) /\ n \in Nat /\ i + n = Len(t)
      /\ u[i] = t[i] /\ t[i].role = "assistant"
      /\ Len(t[i].tool_calls) = n + Len(rest)
      /\ \A j \in 1..Len(rest) : rest[j] = t[i].tool_calls[n + j]
      /\ AnsweredFrom(t, i, n) /\ WholeBut(t, g, i)
  BY <1>1 DEF BatchAt
<1>5. /\ Len(rest) \in Nat /\ Len(rest) >= 1 /\ Len(Tail(rest)) = Len(rest) - 1
      /\ Head(rest) = rest[1]
      /\ \A j \in 1..Len(Tail(rest)) : Tail(rest)[j] = rest[j + 1]
  OBVIOUS
<1> HIDE DEF u, n
<1>6. AnsweredFrom(u, i, n + 1)
  <2> SUFFICES ASSUME NEW j \in 1..(n + 1)
               PROVE  u[i + j].role = "tool" /\ u[i + j].tool_name = u[i].tool_calls[j]
    BY <1>1, <1>4 DEF AnsweredFrom
  <2>1. CASE j = n + 1
    BY <1>1, <1>2, <1>4, <1>5, <2>1
  <2>2. CASE j # n + 1
    <3>1. j \in 1..n /\ i + j \in 1..Len(t)
      BY <1>4, <2>2
    <3> QED BY <1>1, <1>4, <3>1 DEF AnsweredFrom
  <2> QED BY <2>1, <2>2
<1>7. WholeBut(u, g, i)
  <2>1. ASSUME NEW h \in (g + 1)..Len(u), u[h].role = "assistant", h # i
        PROVE  AnsweredFrom(u, h, Len(u[h].tool_calls))
    <3>1. h \in (g + 1)..Len(t) /\ h \in 1..Len(t)
      BY <1>1, <1>2, <2>1
    <3>2. AnsweredFrom(t, h, Len(t[h].tool_calls))
      BY <1>1, <1>4, <2>1, <3>1 DEF WholeBut
    <3>3. u[h] = t[h] /\ Len(t[h].tool_calls) \in Nat
      BY <1>1, <1>3, <3>1
    <3>4. \A j \in 1..Len(t[h].tool_calls) : h + j \in 1..Len(t)
      BY <1>1, <3>1, <3>2, <3>3 DEF AnsweredFrom
    <3> QED BY <1>1, <3>1, <3>2, <3>3, <3>4 DEF AnsweredFrom
  <2>2. ASSUME NEW k \in (g + 1)..Len(u), u[k].role = "tool" PROVE Wanted(u, g, k)
    <3>1. CASE k = Len(t) + 1
      <4>1. i < k /\ k <= i + Len(u[i].tool_calls)
        BY <1>1, <1>4, <1>5, <3>1
      <4> QED BY <1>1, <1>4, <4>1 DEF Wanted
    <3>2. CASE k # Len(t) + 1
      <4>1. k \in (g + 1)..Len(t) /\ k \in 1..Len(t)
        BY <1>1, <3>2
      <4>2. Wanted(t, g, k)
        BY <1>1, <1>4, <2>2, <4>1 DEF WholeBut
      <4> QED BY <1>1, <4>1, <4>2 DEF Wanted
    <3> QED BY <3>1, <3>2
  <2> QED BY <2>1, <2>2 DEF WholeBut
<1>8. Len(u) - i = n + 1 /\ i \in (g + 1)..Len(u)
  BY <1>1, <1>4
<1>9. /\ Len(u[i].tool_calls) = (n + 1) + Len(Tail(rest))
      /\ \A j \in 1..Len(Tail(rest)) : Tail(rest)[j] = u[i].tool_calls[(n + 1) + j]
  <2>1. \A j \in 1..Len(Tail(rest)) : j + 1 \in 1..Len(rest) /\ n + (j + 1) = (n + 1) + j
    BY <1>4, <1>5
  <2> QED BY <1>4, <1>5, <2>1
<1> QED BY <1>4, <1>6, <1>7, <1>8, <1>9 DEF BatchAt, u

\* The head of the for loop keeps the transcript of the batch it goes on with.
LEMMA NextCallKeepsTranscript ==
  ASSUME TypeOK', NEW r \in Runs, NEW batch \in Seq(Tools), NEW total, NEW n,
         NextCall(r, batch, total, n), pending' = [pending EXCEPT ![r] = batch],
         TypeOK, NEW i \in Nat, BatchAt(conversation'[r], given'[r], i, batch)
  PROVE  /\ pc'[r] = "thinking" => /\ given'[r] <= Len(conversation'[r])
                                   /\ WholeBut(conversation'[r], given'[r], 0)
         /\ pc'[r] = "calling" => BatchAt(conversation'[r], given'[r], i, pending'[r])
         /\ pc'[r] # "loading" /\ \A q \in Runs : q # r => pc'[q] = pc[q]
<1>1. conversation'[r] \in Seq(Message) /\ given'[r] \in Nat /\ pending'[r] = batch
  BY DEF TypeOK
<1>2. /\ pc'[r] = "thinking" => batch = <<>>
      /\ pc'[r] # "loading" /\ \A q \in Runs : q # r => pc'[q] = pc[q]
  BY DEF NextCall, NextIteration, Finish, MoveTo, TypeOK
<1>3. QED
  BY <1>1, <1>2, AnsweredBatchIsWhole

\* A step of one run leaves the transcripts of the others alone.
LEMMA TranscriptStep == LoopInvariant /\ TranscriptFits /\ [Next]_vars => TranscriptFits'
<1> SUFFICES ASSUME LoopInvariant, TranscriptFits, [Next]_vars PROVE TranscriptFits'
  OBVIOUS
<1>0. TypeOK /\ TypeOK'
  BY LoopInvariantStep DEF LoopInvariant
<1>1. ASSUME NEW r \in Runs, NEW messages \in Conversations, Start(r, messages)
      PROVE  TranscriptFits'
  BY <1>0, <1>1 DEF Start, MoveTo, TranscriptFits, TypeOK
<1>2. ASSUME NEW r \in Runs, NEW offered \in Registry, ToolsLoaded(r, offered)
      PROVE  TranscriptFits'
  <2>1. /\ UNCHANGED <<conversation, given, pending>>
        /\ pc[r] = "loading" /\ pc'[r] # "loading" /\ pc'[r] # "calling"
        /\ \A q \in Runs : q # r => pc'[q] = pc[q]
    BY <1>0, <1>2 DEF ToolsLoaded, NextIteration, Finish, MoveTo, TypeOK
  <2>2. given[r] = Len(conversation[r]) /\ given[r] \in Nat
    BY <1>0, <2>1 DEF TranscriptFits, TypeOK
  <2>3. WholeBut(conversation[r], given[r], 0)
    BY <2>2 DEF WholeBut
  <2>4. QED
    BY <2>1, <2>2, <2>3 DEF TranscriptFits
<1>3. ASSUME NEW r \in Runs, LoadFails(r) \/ ModelFails(r) \/ ToolFails(r) \/ ToolRaises(r) \/ Cancel(r)
      PROVE  TranscriptFits'
  BY <1>0, <1>3 DEF LoadFails, ModelFails, ToolFails, ToolRaises, Cancel, Finish, TranscriptFits, TypeOK
<1>4. ASSUME NEW r \in Runs, NEW content \in {"blank", "text"},
             NEW calls \in Batches, ModelAnswers(r, content, calls)
      PROVE  TranscriptFits'
  <2>1. /\ calls \in Seq(Tools) /\ pc[r] = "thinking" /\ UNCHANGED given
        /\ conversation'[r] = Append(conversation[r], AssistantMessage(content, calls))
        /\ \A q \in Runs : q # r => conversation'[q] = conversation[q]
    BY <1>0, <1>4, BatchesAreSequences DEF ModelAnswers, TypeOK
  <2>2. BatchAt(conversation'[r], given'[r], Len(conversation[r]) + 1, calls)
        /\ Len(conversation[r]) + 1 \in Nat
    BY <1>0, <2>1, BatchBegins DEF TranscriptFits, TypeOK
  <2>3. CASE NextCall(r, calls, total_tool_calls[r], iterations[r] + 1)
    <3>1. pending' = [pending EXCEPT ![r] = calls]
      BY <2>3 DEF NextCall
    <3>2. \A q \in Runs : q # r => pending'[q] = pending[q]
      BY <1>0, <3>1 DEF TypeOK
    <3>3. /\ pc'[r] = "thinking" => /\ given'[r] <= Len(conversation'[r])
                                   /\ WholeBut(conversation'[r], given'[r], 0)
          /\ pc'[r] = "calling" =>
               BatchAt(conversation'[r], given'[r], Len(conversation[r]) + 1, pending'[r])
          /\ pc'[r] # "loading" /\ \A q \in Runs : q # r => pc'[q] = pc[q]
      BY <1>0, <2>1, <2>2, <2>3, <3>1, NextCallKeepsTranscript
    <3>4. QED
      BY <2>1, <2>2, <3>2, <3>3 DEF TranscriptFits
  <2>4. CASE pc' = [pc EXCEPT ![r] = "finished"] /\ UNCHANGED pending
    BY <1>0, <2>1, <2>4 DEF TranscriptFits, TypeOK
  <2>5. QED
    BY <1>4, <2>3, <2>4 DEF ModelAnswers, Finish
<1>5. ASSUME NEW r \in Runs, NEW content \in {"success", "failure"}, ToolAnswers(r, content)
      PROVE  TranscriptFits'
  <2>1. /\ pc[r] = "calling" /\ UNCHANGED given
        /\ pending[r] \in Seq(Tools) /\ pending[r] # <<>> /\ Tail(pending[r]) \in Seq(Tools)
        /\ NextCall(r, Tail(pending[r]), total_tool_calls[r] + 1, iterations[r])
        /\ conversation'[r] = Append(conversation[r], ToolMessage(Head(pending[r]), content))
        /\ \A q \in Runs : q # r => conversation'[q] = conversation[q]
    BY <1>0, <1>5 DEF ToolAnswers, TypeOK, LoopInvariant, BatchPermitted
  <2>2. PICK i \in Nat : BatchAt(conversation[r], given[r], i, pending[r])
    BY <2>1 DEF TranscriptFits
  <2>3. BatchAt(conversation'[r], given'[r], i, Tail(pending[r]))
    BY <1>0, <2>1, <2>2, BatchGoesOn DEF TypeOK
  <2>4. pending' = [pending EXCEPT ![r] = Tail(pending[r])]
    BY <2>1 DEF NextCall
  <2>5. \A q \in Runs : q # r => pending'[q] = pending[q]
    BY <1>0, <2>4 DEF TypeOK
  <2>6. /\ pc'[r] = "thinking" => /\ given'[r] <= Len(conversation'[r])
                                 /\ WholeBut(conversation'[r], given'[r], 0)
        /\ pc'[r] = "calling" => BatchAt(conversation'[r], given'[r], i, pending'[r])
        /\ pc'[r] # "loading" /\ \A q \in Runs : q # r => pc'[q] = pc[q]
    BY <1>0, <2>1, <2>3, <2>4, NextCallKeepsTranscript
  <2>7. QED
    BY <2>1, <2>5, <2>6 DEF TranscriptFits
<1>6. CASE UNCHANGED vars
  BY <1>6 DEF vars, TranscriptFits
<1>7. QED
  BY <1>1, <1>2, <1>3, <1>4, <1>5, <1>6 DEF Next, Answered

\* When the model is asked, its calls of this run are all answered, in their
\* order and once each, whatever the batches, and nothing else is answered.
THEOREM ModelSeesEveryResultHolds == Spec => []ModelSeesEveryResult
<1>1. Init => TranscriptFits
  BY DEF Init, TranscriptFits
<1>2. LoopInvariant /\ TranscriptFits => ModelSeesEveryResult
  <2> SUFFICES ASSUME LoopInvariant, TranscriptFits, NEW r \in Runs, pc[r] = "thinking"
               PROVE  /\ \A i \in Own(r) : conversation[r][i].role = "assistant" =>
                           AnsweredInOrder(r, i, Len(conversation[r][i].tool_calls))
                      /\ \A k \in Own(r) : conversation[r][k].role = "tool" =>
                           \E i \in Own(r) : i < k /\ k <= i + Len(conversation[r][i].tool_calls)
    BY DEF ModelSeesEveryResult
  <2>1. WholeBut(conversation[r], given[r], 0) /\ given[r] \in Nat
    BY DEF TranscriptFits, LoopInvariant, TypeOK
  <2>2. QED
    BY <2>1 DEF WholeBut, AnsweredFrom, AnsweredInOrder, Wanted, Own
<1>3. QED
  BY <1>1, <1>2, TranscriptStep, LoopInvariantHolds, PTL DEF Spec

-----------------------------------------------------------------------------
(* The service: it runs the loop, and keeps the clients open for it.       *)

\* Every step of the service is a step of the loop, or leaves it as it is.
LEMMA ServiceStepIsLoopStep == [ApiNext]_apiVars => [Next]_vars
<1> SUFFICES ASSUME [ApiNext]_apiVars PROVE [Next]_vars
  OBVIOUS
<1>1. ASSUME NEW r \in Runs, Request(r) \/ Proceed(r) \/ Abort(r) PROVE Next
  BY <1>1 DEF Request, Proceed, Abort, Next
<1>2. CASE Startup \/ Stop \/ \E r \in Runs : InvalidRequest(r)
  BY <1>2 DEF Startup, Stop, InvalidRequest, Shutdown, Drained, CloseOllama, CloseOneC
<1>3. CASE UNCHANGED apiVars
  BY <1>3 DEF apiVars
<1> QED BY <1>1, <1>2, <1>3 DEF ApiNext

\* The runs of the service are runs of the loop, so that whatever is proved of
\* the loop holds of the requests of POST /v1/agent/run.
THEOREM ServiceImplementsLoop == ApiSpec => Spec
<1>1. ApiInit => Init
  BY DEF ApiInit
<1> QED BY <1>1, ServiceStepIsLoopStep, PTL DEF ApiSpec, Spec

\* The requests of the service keep the promise of ToolLoop.
THEOREM ServiceKeepsPromise == ApiSpec => KeepsPromise
BY ServiceImplementsLoop, LoopKeepsPromise

\* A run that goes on was in flight before, and only a request begins one.
LEMMA FlightGoesOn ==
  ASSUME LoopInvariant, NEW r \in Runs, Answered(r) \/ Cancel(r)
  PROVE  r \in InFlight /\ InFlight' \subseteq InFlight
<1> USE DEF LoopInvariant, TypeOK
<1>1. pc[r] \in {"loading", "thinking", "calling"}
  BY DEF Answered, Cancel, ToolsLoaded, LoadFails, ModelAnswers, ModelFails, ToolAnswers,
         ToolFails, ToolRaises
<1>2. \E place : pc' = [pc EXCEPT ![r] = place]
  BY DEF Answered, Cancel, ToolsLoaded, LoadFails, ModelAnswers, ModelFails, ToolAnswers,
         ToolFails, ToolRaises, NextCall, NextIteration, MoveTo, Finish
<1>3. \A q \in Runs : q # r => pc'[q] = pc[q]
  BY <1>2
<1> QED BY <1>1, <1>3 DEF InFlight

\* Why the transport of a request is never closed under it: the lifespan ends
\* only when nothing is in flight, and until then nobody closes a client.
ServiceInvariant ==
  /\ InFlight # {} => server \in {"serving", "draining"}
  /\ server \in {"serving", "draining"} => clients = {"onec", "ollama"}

LEMMA ServiceInvariantStep ==
  LoopInvariant /\ ServiceInvariant /\ [ApiNext]_apiVars => ServiceInvariant'
<1> SUFFICES ASSUME LoopInvariant, ServiceInvariant, [ApiNext]_apiVars
             PROVE  ServiceInvariant'
  OBVIOUS
<1>1. ASSUME NEW r \in Runs, Request(r) PROVE ServiceInvariant'
  BY <1>1 DEF Request, ServiceInvariant
<1>2. ASSUME NEW r \in Runs, Proceed(r) \/ Abort(r) PROVE ServiceInvariant'
  BY <1>2, FlightGoesOn DEF Proceed, Abort, ServiceInvariant
<1>3. CASE UNCHANGED <<vars, clients>> /\ server' = server
  BY <1>3 DEF vars, InFlight, ServiceInvariant
<1>4. CASE Startup \/ Stop
  <2>1. InFlight' = InFlight
    BY <1>4 DEF Startup, Stop, Shutdown, Drained, CloseOllama, CloseOneC, vars, InFlight
  <2> QED BY <1>4, <2>1 DEF Startup, Stop, Shutdown, Drained, CloseOllama, CloseOneC,
                            ServiceInvariant
<1> QED BY <1>1, <1>2, <1>3, <1>4 DEF ApiNext, InvalidRequest, apiVars

\* A request is never at work with a closed transport, through shutdown, drain
\* and the closing of the clients, for any number of requests.
THEOREM ClientsOpenWhileAtWorkHolds == ApiSpec => []ClientsOpenWhileAtWork
<1>1. ApiInit => ServiceInvariant
  BY DEF ApiInit, Init, InFlight, ServiceInvariant
<1>2. ServiceInvariant => ClientsOpenWhileAtWork
  BY DEF ServiceInvariant, ClientsOpenWhileAtWork
<1>3. ApiSpec => []LoopInvariant
  BY ServiceImplementsLoop, LoopInvariantHolds, PTL
<1> QED BY <1>1, <1>2, <1>3, ServiceInvariantStep, PTL DEF ApiSpec

-----------------------------------------------------------------------------
(* The exchange with 1C.                                                   *)

HIDE DEF Registry, Access, Outcomes

\* Why nothing is carried out twice: the message a run has on the wire is the
\* call it sent last, not yet carried out, or the answer to it, and a run whose
\* model is at work has nothing on the wire.
WireAgrees(r) ==
  /\ total_tool_calls[r] <= Len(served[r]) /\ Len(served[r]) <= Len(sent[r])
  /\ \A i \in DOMAIN served[r] : served[r][i].tool = sent[r][i]
  /\ pc[r] \in {"idle", "loading"} => wire[r].kind # "call" /\ served[r] = <<>>
  /\ pc[r] = "thinking" => wire[r] = OneC!Silence /\ Len(served[r]) = Len(sent[r])
  /\ pc[r] = "calling" =>
       /\ wire[r].kind \notin {"health", "tools"}
       /\ OneC!Received(r) /\ OneC!Code(wire[r]) = "ok" =>
            wire[r].body \in {"success", "failure"} /\ Len(served[r]) = Len(sent[r])
  /\ wire[r].kind = "call" =>
       Len(sent[r]) = Len(served[r]) + 1 /\ wire[r].tool = sent[r][Len(sent[r])]

Agrees ==
  /\ OneC!ExchangeTypeOK
  /\ \A r \in Runs : WireAgrees(r)

ExchangeInvariant == LoopInvariant /\ Agrees

\* Putting a message on one caller's wire leaves the others alone.
LEMMA PutEffect ==
  ASSUME OneC!ExchangeTypeOK, NEW r \in Runs, NEW message \in OneC!Messages,
         OneC!Put(r, message)
  PROVE  /\ wire' \in [Runs -> OneC!Messages]
         /\ wire'[r] = message
         /\ \A q \in Runs : q # r => wire'[q] = wire[q]
BY DEF OneC!ExchangeTypeOK, OneC!Put

\* The requests and responses of the exchange are messages.
LEMMA MessagesExist ==
  /\ OneC!Silence \in OneC!Messages
  /\ OneC!Get("tools") \in OneC!Messages /\ OneC!Get("health") \in OneC!Messages
  /\ \A tool \in Tools, body \in OneC!Bodies : OneC!Post(tool, body) \in OneC!Messages
BY DEF OneC!Messages

\* A response of any of the statuses and contents is a message.
LEMMA ResponsesExist ==
  /\ \A status \in {200, 400, 401, 403, 404, 413, 415, 500, 502}, body \in OneC!Contents :
       OneC!Response(status, body) \in OneC!Messages
  /\ \A offered \in Registry : OneC!ToolList(offered) \in OneC!Messages
BY DEF OneC!Messages

\* The fields of the messages.
LEMMA MessageKinds ==
  /\ OneC!Silence.kind = "silence"
  /\ \A endpoint : OneC!Get(endpoint).kind = endpoint
  /\ \A tool, body : /\ OneC!Post(tool, body).kind = "call"
                     /\ OneC!Post(tool, body).tool = tool
  /\ \A status, body : /\ OneC!Response(status, body).kind = "response"
                       /\ OneC!Response(status, body).status = status
                       /\ OneC!Response(status, body).body = body
  /\ \A offered : /\ OneC!ToolList(offered).kind = "response"
                  /\ OneC!ToolList(offered).status = 200
                  /\ OneC!ToolList(offered).body = "tools"
                  /\ OneC!ToolList(offered).offered = offered
BY DEF OneC!Silence, OneC!Get, OneC!Post, OneC!Response, OneC!ToolList

\* A list of tools on the wire is one of those 1C may offer.
LEMMA ListsAreOffered ==
  ASSUME NEW message \in OneC!Messages, message.kind = "response", message.body = "tools"
  PROVE  message.offered \in Registry
<1>1. CASE message \in {OneC!Silence, OneC!Get("health"), OneC!Get("tools")}
  BY <1>1, MessageKinds
<1>2. ASSUME NEW tool \in Tools \cup {NoTool}, NEW body \in OneC!Bodies,
             message = OneC!Post(tool, body)
      PROVE  FALSE
  BY <1>2, MessageKinds
<1>3. ASSUME NEW status, NEW body \in OneC!Contents, message = OneC!Response(status, body)
      PROVE  FALSE
  <2>1. message.body = body
    BY <1>3, MessageKinds
  <2>2. "tools" \notin OneC!Contents
    BY DEF OneC!Contents, OneC!TransportCodes
  <2>3. QED
    BY <2>1, <2>2
<1>4. ASSUME NEW offered \in Registry, message = OneC!ToolList(offered)
      PROVE  message.offered \in Registry
  BY <1>4, MessageKinds
<1>5. QED
  BY <1>1, <1>2, <1>3, <1>4 DEF OneC!Messages

\* Only an answer of 1C is read as one: an error status and a foreign body are not.
LEMMA ForeignIsNoAnswer ==
  /\ \A status \in {200, 401, 403, 404, 500, 502} :
       OneC!Code(OneC!Response(status, "foreign")) # "ok"
  /\ \A status \in {400, 413, 415, 500}, body \in OneC!Contents :
       OneC!Code(OneC!Response(status, body)) # "ok"
  /\ \A body \in OneC!Contents : OneC!Code(OneC!Response(200, body)) = "ok"
       => body # "foreign"
<1>1. \A status, body : /\ OneC!Response(status, body).status = status
                        /\ OneC!Response(status, body).body = body
  BY MessageKinds
<1>2. "ok" \notin OneC!Contents /\ "ok" \notin OneC!TransportCodes
  BY DEF OneC!Contents, OneC!TransportCodes
<1>3. ASSUME NEW status \in {200, 401, 403, 404, 500, 502}
      PROVE  OneC!Code(OneC!Response(status, "foreign")) # "ok"
  BY <1>1, <1>2 DEF OneC!Code
<1>4. ASSUME NEW status \in {400, 413, 415, 500}, NEW body \in OneC!Contents
      PROVE  OneC!Code(OneC!Response(status, body)) # "ok"
  <2> DEFINE response == OneC!Response(status, body)
  <2>1. response.status = status /\ status # 200
    BY <1>1
  <2> HIDE DEF response
  <2>2. OneC!Code(response) = IF response.body \in OneC!TransportCodes
                              THEN response.body ELSE "invalid_transport_error"
    BY <2>1 DEF OneC!Code
  <2>3. OneC!Code(response) # "ok"
    BY <1>2, <2>2
  <2>4. QED
    BY <2>3 DEF response
<1>5. ASSUME NEW body \in OneC!Contents, OneC!Code(OneC!Response(200, body)) = "ok"
      PROVE  body # "foreign"
  BY <1>3, <1>5
<1>6. QED
  BY <1>3, <1>4, <1>5

\* A call on the wire that 1C does not refuse names a tool.
LEMMA CallsNameTools ==
  ASSUME NEW message \in OneC!Messages, message.kind = "call",
         OneC!Refusal(message) = OneC!Silence
  PROVE  message.tool \in Tools
<1>1. CASE message \in {OneC!Silence, OneC!Get("health"), OneC!Get("tools")}
  BY <1>1, MessageKinds
<1>2. ASSUME NEW tool \in Tools \cup {NoTool}, NEW body \in OneC!Bodies,
             message = OneC!Post(tool, body)
      PROVE  message.tool \in Tools
  <2>1. message.tool = tool
    BY <1>2, MessageKinds
  <2>2. OneC!Response(400, "invalid_request") # OneC!Silence
    BY MessageKinds
  <2>3. tool # NoTool
    BY <2>1, <2>2 DEF OneC!Refusal
  <2>4. QED
    BY <2>1, <2>3
<1>3. ASSUME NEW status, NEW body, message = OneC!Response(status, body)
      PROVE  FALSE
  BY <1>3, MessageKinds
<1>4. ASSUME NEW offered \in Registry, message = OneC!ToolList(offered)
      PROVE  FALSE
  BY <1>4, MessageKinds
<1>5. QED
  BY <1>1, <1>2, <1>3, <1>4 DEF OneC!Messages

\* What 1C and its publication can do to one exchange: answer without carrying
\* anything out, or carry the call on the wire out and answer it.
LEMMA ServiceEffect ==
  ASSUME OneC!ExchangeTypeOK, NEW r \in Runs, OneC!Service(r)
  PROVE  /\ OneC!ExchangeTypeOK'
         /\ \A q \in Runs : q # r => wire'[q] = wire[q] /\ served'[q] = served[q]
         /\ wire[r].kind # "silence" /\ wire'[r].kind = "response"
         /\ \/ /\ served' = served
               /\ \/ OneC!Code(wire'[r]) # "ok"
                  \/ wire[r].kind \in {"health", "tools"}
            \/ /\ wire[r].kind = "call"
               /\ \E answer :
                    /\ served'[r] = Append(served[r], [tool |-> wire[r].tool, answer |-> answer])
                    /\ OneC!Code(wire'[r]) = "ok" => wire'[r].body = answer
               /\ OneC!Code(wire'[r]) = "ok" => wire'[r].body \in {"success", "failure"}
<1>0. /\ wire \in [Runs -> OneC!Messages]
      /\ served \in [Runs -> Seq([tool : Tools, answer : {"success", "failure", "unknown"}])]
      /\ /\ wire' \in [Runs -> OneC!Messages]
         /\ served' \in [Runs -> Seq([tool : Tools, answer : {"success", "failure", "unknown"}])]
         => OneC!ExchangeTypeOK'
  BY DEF OneC!ExchangeTypeOK
<1>1. ASSUME NEW status \in {200, 400, 401, 403, 404, 413, 415, 500, 502},
             NEW body \in OneC!Contents, OneC!Put(r, OneC!Response(status, body))
      PROVE  /\ wire' \in [Runs -> OneC!Messages]
             /\ wire'[r] = OneC!Response(status, body) /\ wire'[r].kind = "response"
             /\ wire'[r].body = body
             /\ \A q \in Runs : q # r => wire'[q] = wire[q]
  <2>1. OneC!Response(status, body) \in OneC!Messages
    BY ResponsesExist
  <2>2. QED
    BY <1>1, <2>1, PutEffect, MessageKinds
<1>2. CASE OneC!ServeHealth(r)
  <2>1. "healthy" \in OneC!Contents
    BY DEF OneC!Contents
  <2>2. OneC!Put(r, OneC!Response(200, "healthy")) /\ served' = served /\ wire[r].kind = "health"
    BY <1>2 DEF OneC!ServeHealth
  <2>3. /\ wire' \in [Runs -> OneC!Messages] /\ wire'[r].kind = "response"
        /\ \A q \in Runs : q # r => wire'[q] = wire[q]
    BY <1>1, <2>1, <2>2
  <2>4. OneC!ExchangeTypeOK'
    BY <1>0, <2>2, <2>3
  <2>5. QED
    BY <2>2, <2>3, <2>4
<1>3. CASE OneC!ServeTools(r)
  <2>1. ASSUME NEW offered \in Registry, OneC!Put(r, OneC!ToolList(offered))
        PROVE  /\ wire' \in [Runs -> OneC!Messages] /\ wire'[r].kind = "response"
               /\ \A q \in Runs : q # r => wire'[q] = wire[q]
    BY <2>1, PutEffect, ResponsesExist, MessageKinds
  <2>2. /\ "unusable" \in OneC!Contents
        /\ "transport_internal_error" \in OneC!Contents
        /\ "foreign" \in OneC!Contents
    BY DEF OneC!Contents, OneC!TransportCodes
  <2>3. served' = served /\ wire[r].kind = "tools"
    BY <1>3 DEF OneC!ServeTools
  <2>4. /\ wire' \in [Runs -> OneC!Messages] /\ wire'[r].kind = "response"
        /\ \A q \in Runs : q # r => wire'[q] = wire[q]
    <3>1. CASE \E offered \in Registry : OneC!Put(r, OneC!ToolList(offered))
      BY <2>1, <3>1
    <3>2. CASE \E status \in {200, 500}, body \in OneC!Contents :
                 OneC!Put(r, OneC!Response(status, body))
      BY <1>1, <3>2
    <3>3. \/ \E offered \in Registry : OneC!Put(r, OneC!ToolList(offered))
          \/ \E status \in {200, 500}, body \in OneC!Contents :
               OneC!Put(r, OneC!Response(status, body))
      BY <1>3, <2>2 DEF OneC!ServeTools
    <3>4. QED
      BY <3>1, <3>2, <3>3
  <2>5. OneC!ExchangeTypeOK'
    BY <1>0, <2>3, <2>4
  <2>6. QED
    BY <2>3, <2>4, <2>5
<1>4. CASE OneC!RefuseCall(r)
  <2>1. PICK status \in {400, 413}, body \in OneC!Contents :
          OneC!Refusal(wire[r]) = OneC!Response(status, body)
    <3>1. {"invalid_request", "request_too_large", "invalid_json"} \subseteq OneC!Contents
      BY DEF OneC!Contents, OneC!TransportCodes
    <3>2. OneC!Refusal(wire[r]) \in {OneC!Response(400, "invalid_request"),
            OneC!Response(413, "request_too_large"), OneC!Response(400, "invalid_json")}
      BY <1>4 DEF OneC!RefuseCall, OneC!Refusal
    <3>3. QED
      BY <3>1, <3>2
  <2>2. OneC!Put(r, OneC!Response(status, body)) /\ served' = served /\ wire[r].kind = "call"
    BY <1>4, <2>1 DEF OneC!RefuseCall
  <2>3. /\ wire' \in [Runs -> OneC!Messages] /\ wire'[r].kind = "response"
        /\ wire'[r] = OneC!Response(status, body)
        /\ \A q \in Runs : q # r => wire'[q] = wire[q]
    BY <1>1, <2>2
  <2>4. OneC!Code(wire'[r]) # "ok"
    BY <2>3, ForeignIsNoAnswer
  <2>5. OneC!ExchangeTypeOK'
    BY <1>0, <2>2, <2>3
  <2>6. QED
    BY <2>2, <2>3, <2>4, <2>5
<1>5. CASE OneC!ServeCall(r)
  <2>1. wire[r].tool \in Tools
    BY <1>0, <1>5, CallsNameTools DEF OneC!ServeCall
  <2>2. ASSUME NEW answer \in {"success", "failure", "unknown"}, OneC!Served(r, answer)
        PROVE  /\ served' \in [Runs -> Seq([tool : Tools,
                                            answer : {"success", "failure", "unknown"}])]
               /\ served'[r] = Append(served[r], [tool |-> wire[r].tool, answer |-> answer])
               /\ \A q \in Runs : q # r => served'[q] = served[q]
    <3> DEFINE Entry == [tool : Tools, answer : {"success", "failure", "unknown"}]
    <3> DEFINE entry == [tool |-> wire[r].tool, answer |-> answer]
    <3>1. entry \in Entry
      BY <2>1
    <3>2. served' = [served EXCEPT ![r] = Append(@, entry)]
      BY <2>2 DEF OneC!Served
    <3>3. served \in [Runs -> Seq(Entry)]
      BY <1>0
    <3> HIDE DEF Entry, entry
    <3>4. served' \in [Runs -> Seq(Entry)] /\ served'[r] = Append(served[r], entry)
      BY <3>1, <3>2, <3>3
    <3>5. \A q \in Runs : q # r => served'[q] = served[q]
      BY <3>2, <3>3
    <3>6. QED
      BY <3>4, <3>5 DEF Entry, entry
  <2>3. CASE \E answer \in {"success", "failure"} :
               OneC!Put(r, OneC!Response(200, answer)) /\ OneC!Served(r, answer)
    <3>1. {"success", "failure"} \subseteq OneC!Contents
      BY DEF OneC!Contents
    <3>2. PICK answer \in {"success", "failure"} :
            OneC!Put(r, OneC!Response(200, answer)) /\ OneC!Served(r, answer)
      BY <2>3
    <3>3. /\ wire' \in [Runs -> OneC!Messages] /\ wire'[r].kind = "response"
          /\ wire'[r].body = answer
          /\ \A q \in Runs : q # r => wire'[q] = wire[q]
      BY <1>1, <3>1, <3>2
    <3>4. OneC!ExchangeTypeOK'
      BY <1>0, <2>2, <3>2, <3>3
    <3>5. wire[r].kind = "call"
      BY <1>5 DEF OneC!ServeCall
    <3>6. QED
      BY <2>2, <3>2, <3>3, <3>4, <3>5
  <2>4. CASE \E body \in {"transport_internal_error", "foreign"} :
               OneC!Put(r, OneC!Response(500, body)) /\ OneC!Served(r, "unknown")
    <3>1. {"transport_internal_error", "foreign"} \subseteq OneC!Contents
      BY DEF OneC!Contents, OneC!TransportCodes
    <3>2. PICK body \in {"transport_internal_error", "foreign"} :
            OneC!Put(r, OneC!Response(500, body)) /\ OneC!Served(r, "unknown")
      BY <2>4
    <3>3. /\ wire' \in [Runs -> OneC!Messages] /\ wire'[r].kind = "response"
          /\ wire'[r] = OneC!Response(500, body)
          /\ \A q \in Runs : q # r => wire'[q] = wire[q]
      BY <1>1, <3>1, <3>2
    <3>4. OneC!ExchangeTypeOK'
      BY <1>0, <2>2, <3>2, <3>3
    <3>5. wire[r].kind = "call" /\ OneC!Code(wire'[r]) # "ok"
      BY <1>5, <3>1, <3>3, ForeignIsNoAnswer DEF OneC!ServeCall
    <3>6. QED
      BY <2>2, <3>2, <3>3, <3>4, <3>5
  <2>5. QED
    BY <1>5, <2>3, <2>4 DEF OneC!ServeCall
<1>6. CASE OneC!Publication(r)
  <2>1. "foreign" \in OneC!Contents
    BY DEF OneC!Contents
  <2>2. PICK status \in {200, 401, 403, 404, 500, 502} :
          OneC!Put(r, OneC!Response(status, "foreign")) /\ UNCHANGED served
    BY <1>6 DEF OneC!Publication
  <2>3. /\ wire' \in [Runs -> OneC!Messages] /\ wire'[r].kind = "response"
        /\ wire'[r] = OneC!Response(status, "foreign")
        /\ \A q \in Runs : q # r => wire'[q] = wire[q]
    BY <1>1, <2>1, <2>2
  <2>4. OneC!Code(wire'[r]) # "ok" /\ wire[r].kind # "silence"
    BY <1>6, <2>3, ForeignIsNoAnswer DEF OneC!Publication
  <2>5. OneC!ExchangeTypeOK'
    BY <1>0, <2>2, <2>3
  <2>6. QED
    BY <2>2, <2>3, <2>4, <2>5
<1>7. QED
  BY <1>2, <1>3, <1>4, <1>5, <1>6 DEF OneC!Service

-----------------------------------------------------------------------------

\* The initial state satisfies the invariant.
LEMMA ExchangeInvariantInit == ExchangeInit => ExchangeInvariant
<1> SUFFICES ASSUME ExchangeInit PROVE ExchangeInvariant
  OBVIOUS
<1>1. LoopInvariant
  BY LoopInvariantInit DEF ExchangeInit
<1>2. OneC!ExchangeTypeOK
  BY MessagesExist DEF ExchangeInit, OneC!ExchangeInit, OneC!ExchangeTypeOK
<1>3. ASSUME NEW r \in Runs PROVE WireAgrees(r)
  <2>1. wire[r] = OneC!Silence /\ served[r] = <<>>
    BY DEF ExchangeInit, OneC!ExchangeInit
  <2>2. pc[r] = "idle" /\ sent[r] = <<>> /\ total_tool_calls[r] = 0
    BY DEF ExchangeInit, Init
  <2>3. QED
    BY <2>1, <2>2, MessageKinds DEF WireAgrees
<1>4. QED
  BY <1>1, <1>2, <1>3 DEF ExchangeInvariant, Agrees

\* What the other runs need of a step of run r.
Untouched(q) ==
  /\ pc'[q] = pc[q] /\ sent'[q] = sent[q]
  /\ total_tool_calls'[q] = total_tool_calls[q]
  /\ wire'[q] = wire[q] /\ served'[q] = served[q]

\* A run that a step does not touch stays in agreement.
LEMMA UntouchedAgrees ==
  ASSUME NEW q \in Runs, WireAgrees(q), Untouched(q)
  PROVE  WireAgrees(q)'
BY DEF WireAgrees, Untouched, OneC!Received, OneC!Code

\* A run that ends keeps the agreement, whatever is left on the wire.
LEMMA EndingAgrees ==
  ASSUME NEW r \in Runs, WireAgrees(r), pc'[r] = "finished", sent'[r] = sent[r],
         total_tool_calls'[r] = total_tool_calls[r], served'[r] = served[r],
         wire'[r] = wire[r] \/ wire'[r] = OneC!Silence
  PROVE  WireAgrees(r)'
<1>1. wire'[r].kind = "call" => wire'[r] = wire[r]
  BY MessageKinds
<1>2. QED
  BY <1>1 DEF WireAgrees

\* Where a step of the loop may lead: to the end, to the model, or to a call.
Advances(r) ==
  \/ pc'[r] \in {"finished", "thinking"} /\ sent'[r] = sent[r]
  \/ /\ pc'[r] = "calling" /\ Head(pending'[r]) \in Tools
     /\ sent'[r] = Append(sent[r], Head(pending'[r]))

\* Going on after everything sent was carried out and answered.
LEMMA ContinueAgrees ==
  ASSUME OneC!ExchangeTypeOK, NEW r \in Runs, WireAgrees(r), sent[r] \in Seq(Tools),
         Continue(r), Advances(r), Len(served[r]) = Len(sent[r]),
         total_tool_calls'[r] <= Len(served[r])
  PROVE  /\ OneC!ExchangeTypeOK' /\ WireAgrees(r)'
         /\ served' = served /\ \A q \in Runs : q # r => wire'[q] = wire[q]
<1>1. PICK message \in NextMessage(r) : OneC!Put(r, message) /\ served' = served
  BY DEF Continue
<1>2. message \in OneC!Messages
  <2>1. CASE message = OneC!Silence
    BY <2>1, MessagesExist
  <2>2. CASE pc'[r] = "calling" /\ message \in {OneC!Post(Head(pending'[r]), body) :
                                               body \in OneC!Bodies}
    BY <2>2, MessagesExist DEF Advances
  <2>3. QED
    BY <1>1, <2>1, <2>2 DEF NextMessage
<1>3. /\ wire' \in [Runs -> OneC!Messages] /\ wire'[r] = message
      /\ \A q \in Runs : q # r => wire'[q] = wire[q]
  BY <1>1, <1>2, PutEffect
<1>4. OneC!ExchangeTypeOK'
  BY <1>1, <1>3 DEF OneC!ExchangeTypeOK
<1>5. /\ served[r] \in Seq([tool : Tools, answer : {"success", "failure", "unknown"}])
      /\ Len(served[r]) \in Nat /\ Len(sent[r]) \in Nat
      /\ DOMAIN served[r] = 1..Len(served[r])
  <2>1. served[r] \in Seq([tool : Tools, answer : {"success", "failure", "unknown"}])
    BY DEF OneC!ExchangeTypeOK
  <2>2. QED
    BY <2>1
<1>6. CASE pc'[r] # "calling"
  <2>1. message = OneC!Silence
    BY <1>1, <1>6 DEF NextMessage
  <2>2. pc'[r] \in {"finished", "thinking"} /\ sent'[r] = sent[r]
    BY <1>6 DEF Advances
  <2>3. wire'[r].kind = "silence"
    BY <1>3, <2>1, MessageKinds
  <2>4. QED
    BY <1>1, <1>3, <1>4, <2>1, <2>2, <2>3 DEF WireAgrees
<1>7. CASE pc'[r] = "calling"
  <2> DEFINE called == Head(pending'[r])
  <2>1. called \in Tools /\ sent'[r] = Append(sent[r], called)
    BY <1>7 DEF Advances
  <2>2. \/ message.kind = "silence"
        \/ message.kind = "call" /\ message.tool = called
    BY <1>1, MessageKinds DEF NextMessage
  <2> HIDE DEF called
  <2>3. /\ Len(sent'[r]) = Len(sent[r]) + 1 /\ sent'[r][Len(sent'[r])] = called
        /\ \A i \in DOMAIN served[r] : sent'[r][i] = sent[r][i]
    BY <1>5, <2>1
  <2>4. \A i \in DOMAIN served'[r] : served'[r][i].tool = sent'[r][i]
    BY <1>1, <2>3 DEF WireAgrees
  <2>5. ~OneC!Received(r)'
    BY <1>3, <2>2 DEF OneC!Received
  <2>6. total_tool_calls'[r] <= Len(served'[r]) /\ Len(served'[r]) <= Len(sent'[r])
    BY <1>1, <1>5, <2>3
  <2>7. QED
    BY <1>1, <1>3, <1>4, <1>7, <2>2, <2>3, <2>4, <2>5, <2>6 DEF WireAgrees
<1>8. QED
  BY <1>6, <1>7

-----------------------------------------------------------------------------

\* The head of the for loop leads to the end, to the model, or to a call.
LEMMA NextCallAdvances ==
  ASSUME TypeOK, NEW r \in Runs, NEW batch \in Seq(Tools), NEW total, NEW n,
         NextCall(r, batch, total, n)
  PROVE  /\ Advances(r)
         /\ \A q \in Runs : q # r => pc'[q] = pc[q] /\ sent'[q] = sent[q]
<1>1. CASE batch # <<>> /\ MoveTo(r, "calling")
           /\ sent' = [sent EXCEPT ![r] = Append(@, Head(batch))]
  <2>1. Head(batch) \in Tools
    BY <1>1
  <2>2. pending'[r] = batch
    BY DEF NextCall, TypeOK
  <2>3. /\ pc'[r] = "calling" /\ sent'[r] = Append(sent[r], Head(batch))
        /\ \A q \in Runs : q # r => pc'[q] = pc[q] /\ sent'[q] = sent[q]
    BY <1>1 DEF MoveTo, TypeOK
  <2>4. QED
    BY <2>1, <2>2, <2>3 DEF Advances
<1>2. CASE sent' = sent /\ \E place \in {"finished", "thinking"} :
             pc' = [pc EXCEPT ![r] = place]
  BY <1>2 DEF Advances, TypeOK
<1>3. QED
  BY <1>1, <1>2 DEF NextCall, NextIteration, Finish, MoveTo

\* Ending a run changes its place only.
LEMMA EndingTouches ==
  ASSUME TypeOK, NEW r \in Runs,
         LoadFails(r) \/ ToolFails(r) \/ ToolRaises(r) \/ ModelFails(r) \/ Cancel(r)
  PROVE  /\ pc'[r] = "finished" /\ sent' = sent /\ total_tool_calls' = total_tool_calls
         /\ \A q \in Runs : q # r => pc'[q] = pc[q]
<1>1. pc' = [pc EXCEPT ![r] = "finished"]
      /\ sent' = sent /\ total_tool_calls' = total_tool_calls
  BY DEF LoadFails, ToolFails, ToolRaises, ModelFails, Cancel, Finish
<1>2. QED
  BY <1>1 DEF TypeOK

\* The run that moves agrees, and the others are untouched.
LEMMA AgreementGathers ==
  ASSUME Agrees, NEW r \in Runs, OneC!ExchangeTypeOK', WireAgrees(r)',
         \A q \in Runs : q # r => Untouched(q)
  PROVE  Agrees'
<1>1. ASSUME NEW q \in Runs PROVE WireAgrees(q)'
  BY UntouchedAgrees DEF Agrees
<1>2. QED
  BY <1>1 DEF Agrees

\* Starting a run asks for the tools.
LEMMA BeginAgrees ==
  ASSUME LoopInvariant, Agrees, NEW r \in Runs, Begin(r)
  PROVE  Agrees'
<1>1. PICK messages \in Conversations : Start(r, messages)
  BY DEF Begin
<1>2. /\ pc[r] = "idle" /\ pc'[r] = "loading" /\ sent' = sent
      /\ total_tool_calls' = total_tool_calls
      /\ \A q \in Runs : q # r => pc'[q] = pc[q]
  BY <1>1 DEF Start, MoveTo, LoopInvariant, TypeOK
<1>3. OneC!Put(r, OneC!Get("tools")) /\ served' = served
  BY DEF Begin, OneC!Ask
<1>4. /\ wire' \in [Runs -> OneC!Messages] /\ wire'[r] = OneC!Get("tools")
      /\ \A q \in Runs : q # r => wire'[q] = wire[q]
  BY <1>3, MessagesExist, PutEffect DEF Agrees
<1>5. OneC!ExchangeTypeOK'
  BY <1>3, <1>4 DEF Agrees, OneC!ExchangeTypeOK
<1>6. WireAgrees(r)'
  BY <1>2, <1>3, <1>4, MessageKinds DEF Agrees, WireAgrees
<1>7. QED
  BY <1>2, <1>3, <1>4, <1>5, <1>6, AgreementGathers DEF Untouched

\* A run whose tools were listed, or refused to be.
LEMMA LoadingAgrees ==
  ASSUME LoopInvariant, Agrees, NEW r \in Runs, Loaded(r) \/ NotLoaded(r)
  PROVE  Agrees'
<1>1. pc[r] = "loading" /\ Continue(r) /\ total_tool_calls' = total_tool_calls
  BY DEF Loaded, NotLoaded, ToolsLoaded, LoadFails
<1>2. /\ sent[r] = <<>> /\ served[r] = <<>> /\ total_tool_calls[r] = 0
      /\ sent[r] \in Seq(Tools)
  BY <1>1 DEF LoopInvariant, TypeOK, CountersAgree, Agrees, WireAgrees
<1>3. /\ pc'[r] \in {"finished", "thinking"} /\ sent' = sent
      /\ \A q \in Runs : q # r => pc'[q] = pc[q]
  BY DEF Loaded, NotLoaded, ToolsLoaded, LoadFails, NextIteration, Finish, MoveTo,
         LoopInvariant, TypeOK
<1>4. /\ OneC!ExchangeTypeOK' /\ WireAgrees(r)'
      /\ served' = served /\ \A q \in Runs : q # r => wire'[q] = wire[q]
  <2>1. Advances(r) /\ Len(served[r]) = Len(sent[r])
        /\ total_tool_calls'[r] <= Len(served[r])
    BY <1>1, <1>2, <1>3 DEF Advances
  <2>2. QED
    BY <1>1, <1>2, <2>1, ContinueAgrees DEF Agrees
<1>5. QED
  BY <1>1, <1>3, <1>4, AgreementGathers DEF Untouched

\* The model answers: the first call of its batch is sent, if there is one.
LEMMA ModelAgrees ==
  ASSUME LoopInvariant, Agrees, NEW r \in Runs, ModelSpeaks(r)
  PROVE  Agrees'
<1>1. pc[r] = "thinking" /\ Continue(r) /\ total_tool_calls' = total_tool_calls
  BY DEF ModelSpeaks, ModelAnswers, ModelFails
<1>2. /\ Advances(r)
      /\ \A q \in Runs : q # r => pc'[q] = pc[q] /\ sent'[q] = sent[q]
  <2>1. CASE ModelFails(r)
    BY <2>1, EndingTouches DEF Advances, LoopInvariant
  <2>2. ASSUME NEW content \in {"blank", "text"}, NEW calls \in Batches,
               ModelAnswers(r, content, calls)
        PROVE  /\ Advances(r)
               /\ \A q \in Runs : q # r => pc'[q] = pc[q] /\ sent'[q] = sent[q]
    <3>1. CASE NextCall(r, calls, total_tool_calls[r], iterations[r] + 1)
      BY <2>2, <3>1, BatchesAreSequences, NextCallAdvances DEF LoopInvariant
    <3>2. CASE sent' = sent /\ pc' = [pc EXCEPT ![r] = "finished"]
      BY <3>2 DEF Advances, LoopInvariant, TypeOK
    <3>3. QED
      BY <2>2, <3>1, <3>2 DEF ModelAnswers, Finish
  <2>3. QED
    BY <2>1, <2>2 DEF ModelSpeaks
<1>3. /\ OneC!ExchangeTypeOK' /\ WireAgrees(r)'
      /\ served' = served /\ \A q \in Runs : q # r => wire'[q] = wire[q]
  <2>1. sent[r] \in Seq(Tools) /\ Len(served[r]) = Len(sent[r])
        /\ total_tool_calls'[r] <= Len(served[r])
    BY <1>1 DEF LoopInvariant, TypeOK, Agrees, WireAgrees
  <2>2. QED
    BY <1>1, <1>2, <2>1, ContinueAgrees DEF Agrees
<1>4. QED
  BY <1>1, <1>2, <1>3, AgreementGathers DEF Untouched

\* The agent can read an answer: 1C has carried out everything it was sent.
LEMMA AnswerReceived ==
  ASSUME LoopInvariant, Agrees, NEW r \in Runs, Answers(r)
  PROVE  /\ wire[r].body \in {"success", "failure"} /\ Len(served[r]) = Len(sent[r])
         /\ pc[r] = "calling" /\ sent[r] \in Seq(Tools) /\ Len(sent[r]) = total_tool_calls[r] + 1
         /\ total_tool_calls' = [total_tool_calls EXCEPT ![r] = @ + 1]
         /\ total_tool_calls'[r] = Len(served[r])
         /\ NextCall(r, Tail(pending[r]), total_tool_calls[r] + 1, iterations[r])
         /\ Tail(pending[r]) \in Seq(Tools)
<1>1. /\ pc[r] = "calling"
      /\ total_tool_calls' = [total_tool_calls EXCEPT ![r] = @ + 1]
      /\ NextCall(r, Tail(pending[r]), total_tool_calls[r] + 1, iterations[r])
  BY DEF Answers, ToolAnswers
<1>2. /\ sent[r] \in Seq(Tools) /\ Len(sent[r]) = total_tool_calls[r] + 1
      /\ total_tool_calls'[r] = total_tool_calls[r] + 1
  BY <1>1 DEF LoopInvariant, TypeOK, CountersAgree
<1>3. wire[r].body \in {"success", "failure"} /\ Len(served[r]) = Len(sent[r])
  BY <1>1 DEF Answers, Agrees, WireAgrees
<1>4. Tail(pending[r]) \in Seq(Tools)
  <2>1. pending[r] \in Seq(Tools) /\ pending[r] # <<>>
    BY <1>1 DEF LoopInvariant, TypeOK, BatchPermitted
  <2>2. QED
    BY <2>1
<1>5. QED
  BY <1>1, <1>2, <1>3, <1>4

\* A result of 1C: the next call of the batch is sent, if there is one.
LEMMA AnswersAgree ==
  ASSUME LoopInvariant, Agrees, NEW r \in Runs, Answers(r)
  PROVE  Agrees'
<1>1. /\ Advances(r)
      /\ \A q \in Runs : q # r => pc'[q] = pc[q] /\ sent'[q] = sent[q]
  BY AnswerReceived, NextCallAdvances DEF LoopInvariant
<1>2. /\ OneC!ExchangeTypeOK' /\ WireAgrees(r)'
      /\ served' = served /\ \A q \in Runs : q # r => wire'[q] = wire[q]
  <2>1. total_tool_calls'[r] <= Len(served[r]) /\ Continue(r)
    BY AnswerReceived DEF Answers, LoopInvariant, TypeOK
  <2>2. QED
    BY <1>1, <2>1, AnswerReceived, ContinueAgrees DEF Agrees
<1>3. \A q \in Runs : q # r => total_tool_calls'[q] = total_tool_calls[q]
  BY AnswerReceived DEF LoopInvariant, TypeOK
<1>4. QED
  BY <1>1, <1>2, <1>3, AgreementGathers DEF Untouched

\* A run that ends, its exchange answered, given up or cancelled.
LEMMA EndAgrees ==
  ASSUME LoopInvariant, Agrees, NEW r \in Runs,
         CallFails(r) \/ NotEncoded(r) \/ GiveUp(r) \/ Abandon(r)
  PROVE  Agrees'
<1>1. /\ pc'[r] = "finished" /\ sent' = sent /\ total_tool_calls' = total_tool_calls
      /\ \A q \in Runs : q # r => pc'[q] = pc[q]
  BY EndingTouches DEF CallFails, NotEncoded, GiveUp, Abandon, LoopInvariant
<1>2. served' = served /\ (wire' = wire \/ OneC!Put(r, OneC!Silence))
  BY <1>1 DEF CallFails, NotEncoded, GiveUp, Abandon, Continue, NextMessage
<1>3. /\ wire' \in [Runs -> OneC!Messages]
      /\ wire'[r] = wire[r] \/ wire'[r] = OneC!Silence
      /\ \A q \in Runs : q # r => wire'[q] = wire[q]
  <2>1. CASE wire' = wire
    BY <2>1 DEF Agrees, OneC!ExchangeTypeOK
  <2>2. CASE OneC!Put(r, OneC!Silence)
    BY <2>2, MessagesExist, PutEffect DEF Agrees
  <2>3. QED
    BY <1>2, <2>1, <2>2
<1>4. OneC!ExchangeTypeOK'
  BY <1>2, <1>3 DEF Agrees, OneC!ExchangeTypeOK
<1>5. WireAgrees(r)'
  BY <1>1, <1>2, <1>3, EndingAgrees DEF Agrees
<1>6. QED
  BY <1>1, <1>2, <1>3, <1>4, <1>5, AgreementGathers DEF Untouched

\* 1C or the publication acts: a call is carried out when it is answered, once.
LEMMA ServeAgrees ==
  ASSUME LoopInvariant, Agrees, NEW r \in Runs, Serve(r)
  PROVE  Agrees'
<1>1. /\ pc' = pc /\ sent' = sent /\ total_tool_calls' = total_tool_calls
      /\ OneC!Service(r)
  BY DEF Serve, vars
<1>2. /\ wire[r].kind # "silence" /\ wire'[r].kind = "response" /\ OneC!ExchangeTypeOK'
      /\ \A q \in Runs : q # r => wire'[q] = wire[q] /\ served'[q] = served[q]
  BY <1>1, ServiceEffect DEF Agrees
<1>3. pc[r] # "thinking" /\ wire'[r].kind # "call"
  BY <1>2, MessageKinds DEF Agrees, WireAgrees
<1>4. CASE /\ served' = served
           /\ OneC!Code(wire'[r]) # "ok" \/ wire[r].kind \in {"health", "tools"}
  <2>1. pc[r] = "calling" => OneC!Code(wire'[r]) # "ok" /\ wire'[r].kind \notin {"health", "tools"}
    BY <1>2, <1>4 DEF Agrees, WireAgrees
  <2>2. WireAgrees(r)
    BY DEF Agrees
  <2>3. WireAgrees(r)'
    BY <1>1, <1>2, <1>3, <1>4, <2>1, <2>2 DEF WireAgrees, OneC!Code
  <2>4. QED
    BY <1>1, <1>2, <1>4, <2>3, AgreementGathers DEF Untouched
<1>5. ASSUME NEW answer, wire[r].kind = "call",
             served'[r] = Append(served[r], [tool |-> wire[r].tool, answer |-> answer]),
             OneC!Code(wire'[r]) = "ok" => wire'[r].body \in {"success", "failure"}
      PROVE  WireAgrees(r)'
  <2> DEFINE entry == [tool |-> wire[r].tool, answer |-> answer]
  <2>1. entry.tool = wire[r].tool /\ served'[r] = Append(served[r], entry)
    BY <1>5
  <2> HIDE DEF entry
  <2>2. /\ served[r] \in Seq([tool : Tools, answer : {"success", "failure", "unknown"}])
        /\ sent[r] \in Seq(Tools) /\ total_tool_calls[r] \in Nat
    BY DEF Agrees, OneC!ExchangeTypeOK, LoopInvariant, TypeOK
  <2>3. /\ Len(sent[r]) = Len(served[r]) + 1 /\ wire[r].tool = sent[r][Len(sent[r])]
        /\ total_tool_calls[r] <= Len(served[r])
        /\ \A i \in 1..Len(served[r]) : served[r][i].tool = sent[r][i]
        /\ pc[r] \notin {"idle", "loading"}
    BY <1>5, <2>2 DEF Agrees, WireAgrees
  <2>4. /\ Len(served'[r]) = Len(served[r]) + 1 /\ DOMAIN served'[r] = 1..Len(served[r]) + 1
        /\ served'[r][Len(served[r]) + 1] = entry
        /\ \A i \in 1..Len(served[r]) : served'[r][i] = served[r][i]
    BY <2>1, <2>2
  <2>5. \A i \in DOMAIN served'[r] : served'[r][i].tool = sent[r][i]
    BY <2>1, <2>2, <2>3, <2>4
  <2>6. total_tool_calls[r] <= Len(served'[r]) /\ Len(served'[r]) = Len(sent[r])
    BY <2>2, <2>3, <2>4
  <2>7. Len(served'[r]) <= Len(sent[r])
    BY <2>2, <2>6
  <2>8. QED
    BY <1>1, <1>2, <1>3, <1>5, <2>3, <2>5, <2>6, <2>7 DEF WireAgrees, OneC!Code
<1>6. CASE /\ wire[r].kind = "call"
           /\ \E answer : served'[r] =
                Append(served[r], [tool |-> wire[r].tool, answer |-> answer])
           /\ OneC!Code(wire'[r]) = "ok" => wire'[r].body \in {"success", "failure"}
  <2>1. WireAgrees(r)'
    BY <1>5, <1>6
  <2>2. QED
    BY <1>1, <1>2, <2>1, AgreementGathers DEF Untouched
<1>7. QED
  BY <1>1, <1>4, <1>6, ServiceEffect DEF Agrees

-----------------------------------------------------------------------------

\* Every step of the exchange is a step of the agent loop, or leaves it alone.
LEMMA StepIsLoopStep ==
  ASSUME LoopInvariant, Agrees, [ExchangeNext]_exchangeVars
  PROVE  [Next]_vars
<1>1. ASSUME NEW r \in Runs, Begin(r) PROVE Next
  BY <1>1 DEF Begin, Next
<1>2. ASSUME NEW r \in Runs, Loaded(r) PROVE Next
  <2>1. wire[r] \in OneC!Messages
    BY DEF Agrees, OneC!ExchangeTypeOK
  <2>2. wire[r].offered \in Registry
    BY <1>2, <2>1, ListsAreOffered DEF Loaded, OneC!Received
  <2>3. QED
    BY <1>2, <2>2 DEF Loaded, Next, Answered
<1>3. ASSUME NEW r \in Runs, Answers(r) PROVE Next
  BY <1>3, AnswerReceived DEF Answers, Next, Answered
<1>4. ASSUME NEW r \in Runs, NotLoaded(r) \/ ModelSpeaks(r) \/ CallFails(r) \/ NotEncoded(r) \/ GiveUp(r)
      PROVE  Next
  BY <1>4 DEF NotLoaded, ModelSpeaks, CallFails, NotEncoded, GiveUp, Next, Answered
<1>5. ASSUME NEW r \in Runs, Abandon(r) PROVE Next
  BY <1>5 DEF Abandon, Next
<1>6. ASSUME NEW r \in Runs, Serve(r) PROVE UNCHANGED vars
  BY <1>6 DEF Serve
<1>7. CASE UNCHANGED exchangeVars
  BY <1>7 DEF exchangeVars
<1>8. QED
  BY <1>1, <1>2, <1>3, <1>4, <1>5, <1>6, <1>7 DEF ExchangeNext, ClientStep

\* A stuttering step keeps the agreement.
LEMMA StutteringAgrees ==
  ASSUME Agrees, UNCHANGED exchangeVars
  PROVE  Agrees'
<1>1. /\ pc' = pc /\ sent' = sent /\ total_tool_calls' = total_tool_calls
      /\ wire' = wire /\ served' = served
  BY DEF exchangeVars, vars
<1>2. OneC!ExchangeTypeOK'
  BY <1>1 DEF Agrees, OneC!ExchangeTypeOK
<1>3. ASSUME NEW q \in Runs PROVE WireAgrees(q)'
  BY <1>1, UntouchedAgrees DEF Agrees, Untouched
<1>4. QED
  BY <1>2, <1>3 DEF Agrees

\* The invariant is inductive.
LEMMA ExchangeInvariantStep ==
  ExchangeInvariant /\ [ExchangeNext]_exchangeVars => ExchangeInvariant'
<1> SUFFICES ASSUME ExchangeInvariant, [ExchangeNext]_exchangeVars
             PROVE  ExchangeInvariant'
  OBVIOUS
<1>1. LoopInvariant /\ Agrees
  BY DEF ExchangeInvariant
<1>2. LoopInvariant'
  BY <1>1, StepIsLoopStep, LoopInvariantStep
<1>3. Agrees'
  BY <1>1, BeginAgrees, LoadingAgrees, ModelAgrees, AnswersAgree, EndAgrees, ServeAgrees,
     StutteringAgrees DEF ExchangeNext, ClientStep
<1>4. QED
  BY <1>2, <1>3 DEF ExchangeInvariant

\* The invariant of the exchange holds for any number of runs.
THEOREM ExchangeInvariantHolds == ExchangeSpec => []ExchangeInvariant
<1>1. ExchangeInit => ExchangeInvariant
  BY ExchangeInvariantInit
<1>2. ExchangeInvariant /\ [ExchangeNext]_exchangeVars => ExchangeInvariant'
  BY ExchangeInvariantStep
<1>3. QED
  BY <1>1, <1>2, PTL DEF ExchangeSpec

\* 1C carries out the calls of a run once each, in the order they were sent,
\* whatever the network, the publication and cancellation do to the exchanges.
THEOREM CarriedOutOnceHolds == ExchangeSpec => []CarriedOutOnce
<1>1. ExchangeInvariant => CarriedOutOnce
  BY DEF ExchangeInvariant, Agrees, WireAgrees, CarriedOutOnce
<1>2. QED
  BY <1>1, ExchangeInvariantHolds, PTL

\* The agent with the real exchange implements the agent whose 1C answers or
\* fails, so everything proved of AgentRuntime holds with it.
THEOREM ExchangeImplementsLoop == ExchangeSpec => Spec
<1>1. ExchangeInit => Init
  BY DEF ExchangeInit
<1>2. ExchangeInvariant /\ [ExchangeNext]_exchangeVars => [Next]_vars
  BY StepIsLoopStep DEF ExchangeInvariant
<1>3. QED
  BY <1>1, <1>2, ExchangeInvariantHolds, PTL DEF ExchangeSpec, Spec

-----------------------------------------------------------------------------
(* What the transcript of a run says about 1C.                             *)

\* Why a result is never attributed to another call: the results are as many as
\* the answered calls, each one is the answer 1C gave at that place, the call in
\* flight is the next of the batch, and an answer that was not read yet is the
\* last one 1C gave.
Reported(r) ==
  /\ Cardinality(Results(r)) = total_tool_calls[r]
  /\ \A k \in Results(r) : served[r][Rank(r, k)] = Shown(r, k)
  /\ pc[r] \in {"idle", "loading"} => given[r] = Len(conversation[r])
  /\ Len(sent[r]) <= total_tool_calls[r] + 1
  /\ pc[r] = "calling" =>
       /\ sent[r][Len(sent[r])] = Head(pending[r])
       /\ wire[r] = OneC!Silence => Len(served[r]) = total_tool_calls[r]
       /\ OneC!Received(r) /\ OneC!Code(wire[r]) = "ok" =>
            served[r][Len(served[r])].answer = wire[r].body
  /\ pc[r] = "finished" /\ (wire[r].kind = "call" \/ Len(served[r]) > total_tool_calls[r]) =>
       outcome[r] \in {"tool_transport_failure", "cancelled"}

Reports == \A r \in Runs : Reported(r)

\* What a step of one run leaves of another.
Apart(q) ==
  /\ Untouched(q)
  /\ conversation'[q] = conversation[q] /\ given'[q] = given[q]
  /\ pending'[q] = pending[q] /\ outcome'[q] = outcome[q]

LEMMA ApartIsReported ==
  ASSUME NEW q \in Runs, Reported(q), Apart(q)
  PROVE  Reported(q)'
<1>1. Results(q)' = Results(q)
  BY DEF Apart, Results, Own
<1>2. \A k \in Results(q) : Rank(q, k)' = Rank(q, k) /\ Shown(q, k)' = Shown(q, k)
  BY <1>1 DEF Apart, Rank, Shown
<1>3. OneC!Received(q)' = OneC!Received(q) /\ OneC!Code(wire'[q]) = OneC!Code(wire[q])
  BY DEF Apart, Untouched, OneC!Received
<1> QED BY <1>1, <1>2, <1>3 DEF Apart, Untouched, Reported

\* The results of a transcript can be counted.
LEMMA ResultsFinite ==
  ASSUME TypeOK, NEW r \in Runs
  PROVE  /\ IsFiniteSet(Results(r)) /\ Cardinality(Results(r)) \in Nat
         /\ Results(r) \subseteq 1..Len(conversation[r])
         /\ \A k \in Results(r) : /\ Rank(r, k) \in 1..Cardinality(Results(r))
                                  /\ IsFiniteSet({j \in Results(r) : j <= k})
<1>1. given[r] \in Nat /\ Len(conversation[r]) \in Nat
  BY DEF TypeOK
<1>2. Results(r) \subseteq 1..Len(conversation[r]) /\ Results(r) \subseteq Own(r)
  BY <1>1 DEF Results, Own
<1>3. IsFiniteSet(1..Len(conversation[r]))
  BY <1>1, FS_Interval
<1>4. IsFiniteSet(Results(r)) /\ Cardinality(Results(r)) \in Nat
  BY <1>2, <1>3, FS_Subset, FS_CardinalityType
<1>5. ASSUME NEW k \in Results(r)
      PROVE  Rank(r, k) \in 1..Cardinality(Results(r)) /\ IsFiniteSet({j \in Results(r) : j <= k})
  <2> DEFINE before == {j \in Results(r) : j <= k}
  <2>1. before \subseteq Results(r) /\ k \in before
    BY <1>1, <1>2
  <2>2. IsFiniteSet(before) /\ Cardinality(before) \in Nat
        /\ Cardinality(before) <= Cardinality(Results(r))
    BY <1>4, <2>1, FS_Subset, FS_CardinalityType
  <2>3. Cardinality(before) # 0
    BY <2>1, <2>2, FS_EmptySet
  <2> QED BY <1>4, <2>2, <2>3 DEF Rank
<1> QED BY <1>2, <1>4, <1>5

\* A message that is no result leaves the results as they are.
LEMMA ResultsKept ==
  ASSUME TypeOK, NEW r \in Runs, given'[r] = given[r],
         \/ conversation'[r] = conversation[r]
         \/ \E message \in Message : /\ conversation'[r] = Append(conversation[r], message)
                                     /\ message.role # "tool"
  PROVE  /\ Results(r)' = Results(r)
         /\ \A k \in Results(r) : Rank(r, k)' = Rank(r, k) /\ Shown(r, k)' = Shown(r, k)
<1>1. CASE conversation'[r] = conversation[r]
  <2>1. Results(r)' = Results(r)
    BY <1>1 DEF Results, Own
  <2> QED BY <1>1, <2>1 DEF Rank, Shown
<1>2. ASSUME NEW message \in Message, conversation'[r] = Append(conversation[r], message),
             message.role # "tool"
      PROVE  /\ Results(r)' = Results(r)
             /\ \A k \in Results(r) : Rank(r, k)' = Rank(r, k) /\ Shown(r, k)' = Shown(r, k)
  <2>1. conversation[r] \in Seq(Message) /\ given[r] \in Nat
    BY DEF TypeOK
  <2>2. /\ Len(conversation'[r]) = Len(conversation[r]) + 1 /\ Len(conversation[r]) \in Nat
        /\ \A i \in 1..Len(conversation[r]) : conversation'[r][i] = conversation[r][i]
        /\ conversation'[r][Len(conversation[r]) + 1] = message
    BY <1>2, <2>1, Appended
  <2>3. ASSUME NEW k \in Results(r)' PROVE k \in Results(r)
    <3>1. k \in (given[r] + 1)..(Len(conversation[r]) + 1) /\ conversation'[r][k].role = "tool"
      BY <2>2 DEF Results, Own
    <3>2. k \in 1..Len(conversation[r])
      BY <1>2, <2>1, <2>2, <3>1
    <3> QED BY <2>1, <2>2, <3>1, <3>2 DEF Results, Own
  <2>4. ASSUME NEW k \in Results(r) PROVE k \in Results(r)'
    BY <2>1, <2>2 DEF Results, Own
  <2>5. Results(r)' = Results(r)
    BY <2>3, <2>4
  <2>6. \A k \in Results(r) : k \in 1..Len(conversation[r])
    BY ResultsFinite
  <2> QED BY <2>2, <2>5, <2>6 DEF Rank, Shown
<1> QED BY <1>1, <1>2

\* A result more is the last one, and the others stay the how-manieth they were.
LEMMA ResultAdded ==
  ASSUME TypeOK, NEW r \in Runs, NEW message \in Message, message.role = "tool",
         given'[r] = given[r], given[r] <= Len(conversation[r]),
         conversation'[r] = Append(conversation[r], message),
         NEW last \in Nat, last = Len(conversation[r]) + 1
  PROVE  /\ Results(r)' = Results(r) \cup {last}
         /\ Cardinality(Results(r)') = Cardinality(Results(r)) + 1
         /\ \A k \in Results(r) : Rank(r, k)' = Rank(r, k) /\ Shown(r, k)' = Shown(r, k)
         /\ Rank(r, last)' = Cardinality(Results(r)) + 1
         /\ Shown(r, last)' =
              [tool |-> message.tool_name, answer |-> message.content]
<1>1. conversation[r] \in Seq(Message) /\ given[r] \in Nat
  BY DEF TypeOK
<1>2. /\ Len(conversation'[r]) = last /\ Len(conversation[r]) \in Nat
      /\ \A i \in 1..Len(conversation[r]) : conversation'[r][i] = conversation[r][i]
      /\ conversation'[r][last] = message
  BY <1>1, Appended
<1>3. Results(r) \subseteq 1..Len(conversation[r]) /\ IsFiniteSet(Results(r))
      /\ Cardinality(Results(r)) \in Nat
  BY ResultsFinite
<1>4. Results(r)' = Results(r) \cup {last}
  <2>1. ASSUME NEW k \in Results(r)' PROVE k \in Results(r) \cup {last}
    <3>1. k \in (given[r] + 1)..last /\ conversation'[r][k].role = "tool"
      BY <1>2 DEF Results, Own
    <3> QED BY <1>1, <1>2, <3>1 DEF Results, Own
  <2>2. ASSUME NEW k \in Results(r) PROVE k \in Results(r)'
    BY <1>1, <1>2 DEF Results, Own
  <2>3. last \in Results(r)'
    BY <1>1, <1>2 DEF Results, Own
  <2> QED BY <2>1, <2>2, <2>3
<1>5. Cardinality(Results(r)') = Cardinality(Results(r)) + 1
  <2>1. last \notin Results(r)
    BY <1>2, <1>3
  <2>2. Cardinality(Results(r) \cup {last}) = Cardinality(Results(r)) + 1
    BY <1>3, <2>1, FS_AddElement
  <2> QED BY <1>4, <2>2
<1>6. ASSUME NEW k \in Results(r)
      PROVE  Rank(r, k)' = Rank(r, k) /\ Shown(r, k)' = Shown(r, k)
  <2>1. k \in 1..Len(conversation[r])
    BY <1>3
  <2>2. {j \in Results(r)' : j <= k} = {j \in Results(r) : j <= k}
    BY <1>2, <1>4, <2>1
  <2> QED BY <1>2, <2>1, <2>2 DEF Rank, Shown
<1>7. {j \in Results(r)' : j <= last} = Results(r)'
  BY <1>2, <1>3, <1>4
<1>8. Rank(r, last)' = Cardinality(Results(r)) + 1
  BY <1>5, <1>7 DEF Rank
<1>9. Shown(r, last)' = [tool |-> message.tool_name, answer |-> message.content]
  BY <1>2 DEF Shown
<1> QED BY <1>4, <1>5, <1>6, <1>8, <1>9

\* A step of a run leaves the other runs alone.
LEMMA OthersApart ==
  ASSUME LoopInvariant, Agrees, NEW r \in Runs,
         Begin(r) \/ ClientStep(r) \/ Abandon(r) \/ Serve(r)
  PROVE  \A q \in Runs : q # r => Apart(q)
<1> USE DEF LoopInvariant, TypeOK, Agrees, OneC!ExchangeTypeOK
<1>1. ASSUME NEW place, pc' = [pc EXCEPT ![r] = place],
             NEW q \in Runs, q # r PROVE pc'[q] = pc[q]
  BY <1>1
<1>2. ASSUME NEW message, OneC!Put(r, message), NEW q \in Runs, q # r PROVE wire'[q] = wire[q]
  BY <1>2 DEF OneC!Put
<1>3. ASSUME NEW batch, NEW total, NEW n, NextCall(r, batch, total, n), NEW q \in Runs, q # r
      PROVE  /\ pc'[q] = pc[q] /\ sent'[q] = sent[q]
             /\ pending'[q] = pending[q] /\ outcome'[q] = outcome[q]
  BY <1>3 DEF NextCall, NextIteration, MoveTo, Finish
<1>4. ASSUME Begin(r), NEW q \in Runs, q # r PROVE Apart(q)
  BY <1>2, <1>4 DEF Begin, Start, MoveTo, OneC!Ask, Apart, Untouched
<1>5. ASSUME Continue(r), NEW q \in Runs, q # r PROVE wire'[q] = wire[q] /\ served'[q] = served[q]
  BY <1>2, <1>5 DEF Continue
<1>6. ASSUME NEW offered, ToolsLoaded(r, offered), Continue(r), NEW q \in Runs, q # r
      PROVE  Apart(q)
  BY <1>5, <1>6 DEF ToolsLoaded, NextIteration, MoveTo, Finish, Apart, Untouched
<1>7. ASSUME LoadFails(r) \/ ToolFails(r) \/ ToolRaises(r) \/ ModelFails(r) \/ Cancel(r),
             Continue(r) \/ UNCHANGED <<wire, served>>, NEW q \in Runs, q # r
      PROVE  Apart(q)
  <2>1. wire'[q] = wire[q] /\ served'[q] = served[q]
    BY <1>5, <1>7
  <2> QED BY <1>7, <2>1 DEF LoadFails, ToolFails, ToolRaises, ModelFails, Cancel, Finish, Apart, Untouched
<1>8. ASSUME NEW content, NEW calls, ModelAnswers(r, content, calls), Continue(r), NEW q \in Runs, q # r
      PROVE  Apart(q)
  <2>1. wire'[q] = wire[q] /\ served'[q] = served[q]
    BY <1>5, <1>8
  <2>2. /\ conversation'[q] = conversation[q] /\ given'[q] = given[q]
        /\ total_tool_calls'[q] = total_tool_calls[q]
    BY <1>8 DEF ModelAnswers
  <2>3. /\ pc'[q] = pc[q] /\ sent'[q] = sent[q]
        /\ pending'[q] = pending[q] /\ outcome'[q] = outcome[q]
    BY <1>3, <1>8 DEF ModelAnswers, Finish
  <2> QED BY <2>1, <2>2, <2>3 DEF Apart, Untouched
<1>9. ASSUME NEW content, ToolAnswers(r, content), Continue(r), NEW q \in Runs, q # r
      PROVE  Apart(q)
  <2>1. wire'[q] = wire[q] /\ served'[q] = served[q]
    BY <1>5, <1>9
  <2>2. /\ conversation'[q] = conversation[q] /\ given'[q] = given[q]
        /\ total_tool_calls'[q] = total_tool_calls[q]
    BY <1>9 DEF ToolAnswers
  <2>3. /\ pc'[q] = pc[q] /\ sent'[q] = sent[q]
        /\ pending'[q] = pending[q] /\ outcome'[q] = outcome[q]
    BY <1>3, <1>9 DEF ToolAnswers
  <2> QED BY <2>1, <2>2, <2>3 DEF Apart, Untouched
<1>10. ASSUME Serve(r), NEW q \in Runs, q # r PROVE Apart(q)
  BY <1>10, ServiceEffect DEF Serve, vars, Apart, Untouched
<1>11. CASE Loaded(r)
  BY <1>6, <1>11 DEF Loaded
<1>12. CASE NotLoaded(r) \/ CallFails(r) \/ NotEncoded(r) \/ GiveUp(r) \/ Abandon(r)
  BY <1>7, <1>12 DEF NotLoaded, CallFails, NotEncoded, GiveUp, Abandon
<1>13. CASE ModelSpeaks(r)
  BY <1>7, <1>8, <1>13 DEF ModelSpeaks
<1>14. CASE Answers(r)
  BY <1>9, <1>14 DEF Answers
<1> QED BY <1>4, <1>10, <1>11, <1>12, <1>13, <1>14 DEF ClientStep
\* The run that moves reports, and the others are left alone.
LEMMA ReportsGather ==
  ASSUME LoopInvariant, Agrees, Reports, NEW r \in Runs,
         Begin(r) \/ ClientStep(r) \/ Abandon(r) \/ Serve(r), Reported(r)'
  PROVE  Reports'
<1>1. ASSUME NEW q \in Runs PROVE Reported(q)'
  BY OthersApart, ApartIsReported DEF Reports
<1> QED BY <1>1 DEF Reports

\* A run begins, or is refused its tools: it has no result to show.
LEMMA BeginReports ==
  ASSUME LoopInvariant, Agrees, Reports, NEW r \in Runs, Begin(r)
  PROVE  Reported(r)'
<1> USE DEF LoopInvariant, TypeOK
<1>1. PICK messages \in Conversations : Start(r, messages)
  BY DEF Begin
<1>2. /\ pc[r] = "idle" /\ pc'[r] = "loading" /\ sent'[r] = <<>> /\ total_tool_calls'[r] = 0
      /\ given'[r] = Len(messages) /\ conversation'[r] = messages
  BY <1>1 DEF Start, MoveTo, CountersAgree
<1>3. Len(messages) \in Nat
  BY ConversationsAssumption
<1>4. Results(r)' = {}
  BY <1>2, <1>3 DEF Results, Own
<1>5. Cardinality(Results(r)') = 0
  BY <1>4, FS_EmptySet
<1> QED BY <1>2, <1>3, <1>4, <1>5 DEF Reported

LEMMA LoadingReports ==
  ASSUME LoopInvariant, Agrees, Reports, NEW r \in Runs, Loaded(r) \/ NotLoaded(r)
  PROVE  Reported(r)'
<1> USE DEF LoopInvariant, TypeOK
<1>1. /\ pc[r] = "loading" /\ pc'[r] \in {"finished", "thinking"} /\ Continue(r)
      /\ UNCHANGED <<conversation, given, total_tool_calls, sent, pending>>
  BY DEF Loaded, NotLoaded, ToolsLoaded, LoadFails, NextIteration, Finish, MoveTo
<1>2. served'[r] = served[r] /\ wire'[r] = OneC!Silence
  BY <1>1 DEF Continue, NextMessage, OneC!Put, Agrees, OneC!ExchangeTypeOK
<1>3. served[r] = <<>> /\ total_tool_calls[r] = 0 /\ Len(sent[r]) <= 1
  BY <1>1 DEF CountersAgree, Agrees, WireAgrees
<1>4. /\ Results(r)' = Results(r)
      /\ \A k \in Results(r) : Rank(r, k)' = Rank(r, k) /\ Shown(r, k)' = Shown(r, k)
  BY <1>1, ResultsKept
<1> QED BY <1>1, <1>2, <1>3, <1>4, MessageKinds DEF Reports, Reported

\* Where the head of the for loop leads, the call in flight is the next one.
LEMMA NextCallIsNext ==
  ASSUME TypeOK, NEW r \in Runs, NEW batch \in Seq(Tools), NEW total, NEW n,
         NextCall(r, batch, total, n)
  PROVE  /\ pc'[r] \in {"finished", "thinking", "calling"}
         /\ pc'[r] = "calling" => /\ sent'[r][Len(sent'[r])] = Head(pending'[r])
                                  /\ Len(sent'[r]) = Len(sent[r]) + 1
         /\ pc'[r] # "calling" => sent'[r] = sent[r]
<1> USE DEF TypeOK
<1>1. pending'[r] = batch /\ sent[r] \in Seq(Tools)
  BY DEF NextCall
<1>2. CASE batch # <<>> /\ MoveTo(r, "calling")
           /\ sent' = [sent EXCEPT ![r] = Append(@, Head(batch))]
  <2>1. sent'[r] = Append(sent[r], Head(batch)) /\ Head(batch) \in Tools /\ pc'[r] = "calling"
    BY <1>2 DEF MoveTo
  <2> QED BY <1>1, <2>1
<1>3. CASE sent' = sent /\ \E place \in {"finished", "thinking"} : pc' = [pc EXCEPT ![r] = place]
  BY <1>3
<1> QED BY <1>2, <1>3 DEF NextCall, NextIteration, Finish, MoveTo

\* After the wire was used for the next message, it holds nothing, or a call.
LEMMA ContinueSays ==
  ASSUME Agrees, NEW r \in Runs, Continue(r)
  PROVE  /\ served'[r] = served[r] /\ ~OneC!Received(r)'
         /\ pc'[r] # "calling" => wire'[r] = OneC!Silence
<1>1. PICK message \in NextMessage(r) : OneC!Put(r, message) /\ served' = served
  BY DEF Continue
<1>2. wire'[r] = message
  BY <1>1 DEF OneC!Put, Agrees, OneC!ExchangeTypeOK
<1>3. message.kind # "response"
  BY <1>1, MessageKinds DEF NextMessage
<1> QED BY <1>1, <1>2, <1>3 DEF NextMessage, OneC!Received

LEMMA ModelReports ==
  ASSUME LoopInvariant, Agrees, Reports, NEW r \in Runs, ModelSpeaks(r)
  PROVE  Reported(r)'
<1> USE DEF LoopInvariant, TypeOK
<1>1. /\ pc[r] = "thinking" /\ Continue(r) /\ UNCHANGED <<given, total_tool_calls>>
      /\ Len(served[r]) = Len(sent[r]) /\ Len(sent[r]) = total_tool_calls[r]
  BY DEF ModelSpeaks, ModelAnswers, ModelFails, CountersAgree, Agrees, WireAgrees
<1>2. /\ served'[r] = served[r] /\ ~OneC!Received(r)'
      /\ pc'[r] # "calling" => wire'[r] = OneC!Silence
  BY <1>1, ContinueSays
<1>3. /\ pc'[r] \in {"finished", "thinking", "calling"}
      /\ pc'[r] = "calling" => /\ sent'[r][Len(sent'[r])] = Head(pending'[r])
                               /\ Len(sent'[r]) = Len(sent[r]) + 1
      /\ pc'[r] # "calling" => sent'[r] = sent[r]
  <2>1. CASE ModelFails(r)
    BY <2>1, EndingTouches
  <2>2. ASSUME NEW content \in {"blank", "text"}, NEW calls \in Batches,
               ModelAnswers(r, content, calls)
        PROVE  /\ pc'[r] \in {"finished", "thinking", "calling"}
               /\ pc'[r] = "calling" => /\ sent'[r][Len(sent'[r])] = Head(pending'[r])
                                        /\ Len(sent'[r]) = Len(sent[r]) + 1
               /\ pc'[r] # "calling" => sent'[r] = sent[r]
    <3>1. CASE NextCall(r, calls, total_tool_calls[r], iterations[r] + 1)
      BY <3>1, BatchesAreSequences, NextCallIsNext
    <3>2. CASE sent' = sent /\ pc' = [pc EXCEPT ![r] = "finished"]
      BY <3>2
    <3> QED BY <2>2, <3>1, <3>2 DEF ModelAnswers, Finish
  <2> QED BY <2>1, <2>2 DEF ModelSpeaks
<1>4. /\ Results(r)' = Results(r)
      /\ \A k \in Results(r) : Rank(r, k)' = Rank(r, k) /\ Shown(r, k)' = Shown(r, k)
  <2>1. \/ conversation'[r] = conversation[r]
        \/ \E message \in Message : /\ conversation'[r] = Append(conversation[r], message)
                                    /\ message.role # "tool"
    <3>1. CASE ModelFails(r)
      BY <3>1 DEF ModelFails
    <3>2. ASSUME NEW content \in {"blank", "text"}, NEW calls \in Batches,
                 ModelAnswers(r, content, calls)
          PROVE  \E message \in Message : /\ conversation'[r] = Append(conversation[r], message)
                                          /\ message.role # "tool"
      <4>1. AssistantMessage(content, calls) \in Message
        BY BatchesAreSequences, MessagesTyped
      <4>2. AssistantMessage(content, calls).role # "tool"
        BY DEF AssistantMessage
      <4> QED BY <3>2, <4>1, <4>2 DEF ModelAnswers
    <3> QED BY <3>1, <3>2 DEF ModelSpeaks
  <2> QED BY <1>1, <2>1, ResultsKept
<1>5. wire'[r] = OneC!Silence => wire'[r].kind # "call"
  BY MessageKinds
<1>6. total_tool_calls[r] \in Nat /\ Len(sent[r]) \in Nat
  OBVIOUS
<1> QED BY <1>1, <1>2, <1>3, <1>4, <1>5, <1>6 DEF Reports, Reported

LEMMA AnswersReport ==
  ASSUME LoopInvariant, Agrees, Reports, TranscriptFits, NEW r \in Runs, Answers(r)
  PROVE  Reported(r)'
<1> USE DEF LoopInvariant, TypeOK
<1> DEFINE message == ToolMessage(Head(pending[r]), wire[r].body)
<1>1. /\ pc[r] = "calling" /\ pending[r] \in Seq(Tools) /\ pending[r] # <<>>
      /\ wire[r].body \in {"success", "failure"} /\ Len(served[r]) = Len(sent[r])
      /\ Len(sent[r]) = total_tool_calls[r] + 1 /\ total_tool_calls'[r] = total_tool_calls[r] + 1
      /\ NextCall(r, Tail(pending[r]), total_tool_calls[r] + 1, iterations[r])
      /\ Tail(pending[r]) \in Seq(Tools)
      /\ Continue(r) /\ OneC!Received(r) /\ OneC!Code(wire[r]) = "ok"
  BY AnswerReceived DEF Answers, BatchPermitted
<1>2. given'[r] = given[r] /\ conversation'[r] = Append(conversation[r], message)
  BY DEF Answers, ToolAnswers
<1>3. message \in Message /\ message.role = "tool"
      /\ message.tool_name = Head(pending[r]) /\ message.content = wire[r].body
  <2>1. Head(pending[r]) \in Tools
    BY <1>1
  <2>2. message \in Message
    BY <1>1, <2>1, MessagesTyped
  <2>3. message.role = "tool" /\ message.tool_name = Head(pending[r])
        /\ message.content = wire[r].body
    BY DEF ToolMessage
  <2> QED BY <2>2, <2>3
<1> HIDE DEF message
<1>0. PICK last \in Nat : last = Len(conversation[r]) + 1
  OBVIOUS
<1>4. given[r] <= Len(conversation[r])
  BY <1>1 DEF TranscriptFits, BatchAt
<1>5. /\ Results(r)' = Results(r) \cup {last}
      /\ Cardinality(Results(r)') = Cardinality(Results(r)) + 1
      /\ \A k \in Results(r) : Rank(r, k)' = Rank(r, k) /\ Shown(r, k)' = Shown(r, k)
      /\ Rank(r, last)' = Cardinality(Results(r)) + 1
      /\ Shown(r, last)' = [tool |-> Head(pending[r]), answer |-> wire[r].body]
  BY <1>0, <1>2, <1>3, <1>4, ResultAdded
<1>6. /\ served'[r] = served[r] /\ ~OneC!Received(r)'
      /\ pc'[r] # "calling" => wire'[r] = OneC!Silence
  BY <1>1, ContinueSays
<1>7. /\ pc'[r] \in {"finished", "thinking", "calling"}
      /\ pc'[r] = "calling" => /\ sent'[r][Len(sent'[r])] = Head(pending'[r])
                               /\ Len(sent'[r]) = Len(sent[r]) + 1
      /\ pc'[r] # "calling" => sent'[r] = sent[r]
  BY <1>1, NextCallIsNext
<1>8. served[r][Len(served[r])] = [tool |-> Head(pending[r]), answer |-> wire[r].body]
  <2>1. served[r] \in Seq([tool : Tools, answer : {"success", "failure", "unknown"}])
    BY DEF Agrees, OneC!ExchangeTypeOK
  <2>0. Len(served[r]) \in 1..Len(served[r]) /\ DOMAIN served[r] = 1..Len(served[r])
    <3>1. total_tool_calls[r] \in Nat
      OBVIOUS
    <3> QED BY <1>1, <2>1, <3>1
  <2>2. served[r][Len(served[r])] \in [tool : Tools, answer : {"success", "failure", "unknown"}]
    <3> DEFINE Entry == [tool : Tools, answer : {"success", "failure", "unknown"}]
    <3>1. served[r] \in Seq(Entry)
      BY <2>1
    <3> HIDE DEF Entry
    <3>2. served[r][Len(served[r])] \in Entry
      BY <2>0, <3>1
    <3> QED BY <3>2 DEF Entry
  <2>3. served[r][Len(served[r])].tool = sent[r][Len(sent[r])]
    BY <1>1, <2>0, <2>1 DEF Agrees, WireAgrees
  <2>4. /\ sent[r][Len(sent[r])] = Head(pending[r])
        /\ served[r][Len(served[r])].answer = wire[r].body
    BY <1>1 DEF Reports, Reported
  <2> QED BY <2>2, <2>3, <2>4
<1>9. Cardinality(Results(r)) = total_tool_calls[r]
      /\ \A k \in Results(r) : served[r][Rank(r, k)] = Shown(r, k)
  BY DEF Reports, Reported
<1>10. \A k \in Results(r)' : served'[r][Rank(r, k)'] = Shown(r, k)'
  <2>1. served'[r][Rank(r, last)'] = Shown(r, last)'
    BY <1>1, <1>5, <1>6, <1>8, <1>9
  <2> QED BY <1>5, <1>6, <1>9, <2>1
<1>11. wire'[r] = OneC!Silence => wire'[r].kind # "call"
  BY MessageKinds
<1>12. total_tool_calls[r] \in Nat /\ Len(sent[r]) \in Nat
  OBVIOUS
<1> QED BY <1>1, <1>5, <1>6, <1>7, <1>9, <1>10, <1>11, <1>12 DEF Reported

\* A run that ends shows what it showed before.
LEMMA EndReports ==
  ASSUME LoopInvariant, Agrees, Reports, NEW r \in Runs,
         CallFails(r) \/ NotEncoded(r) \/ GiveUp(r) \/ Abandon(r)
  PROVE  Reported(r)'
<1> USE DEF LoopInvariant, TypeOK
<1>1. /\ pc'[r] = "finished" /\ sent' = sent /\ total_tool_calls' = total_tool_calls
  BY EndingTouches DEF CallFails, NotEncoded, GiveUp, Abandon
<1>2. /\ UNCHANGED <<conversation, given>> /\ served' = served
      /\ pc[r] \in {"loading", "thinking", "calling"}
      /\ \/ outcome'[r] \in {"tool_transport_failure", "cancelled"}
         \/ pc[r] = "loading" /\ wire'[r] = wire[r]
         \/ pc[r] = "calling" /\ wire[r] = OneC!Silence /\ wire'[r] = wire[r]
  BY DEF CallFails, NotEncoded, GiveUp, Abandon, LoadFails, ToolFails, ToolRaises, Cancel,
         Finish, Continue
<1>3. /\ Results(r)' = Results(r)
      /\ \A k \in Results(r) : Rank(r, k)' = Rank(r, k) /\ Shown(r, k)' = Shown(r, k)
  BY <1>2, ResultsKept
<1>4. /\ Cardinality(Results(r)) = total_tool_calls[r]
      /\ \A k \in Results(r) : served[r][Rank(r, k)] = Shown(r, k)
      /\ Len(sent[r]) <= total_tool_calls[r] + 1
      /\ pc[r] = "calling" /\ wire[r] = OneC!Silence => Len(served[r]) = total_tool_calls[r]
  BY DEF Reports, Reported
<1>5. pc[r] = "loading" => wire[r].kind # "call" /\ Len(served[r]) = 0
  BY DEF Agrees, WireAgrees
<1>6. OneC!Silence.kind # "call"
  BY MessageKinds
<1>7. pc'[r] = "finished" /\ (wire'[r].kind = "call" \/ Len(served'[r]) > total_tool_calls'[r]) =>
        outcome'[r] \in {"tool_transport_failure", "cancelled"}
  BY <1>1, <1>2, <1>4, <1>5, <1>6
<1> QED BY <1>1, <1>2, <1>3, <1>4, <1>7 DEF Reported

\* What 1C carries out while the run waits is the answer it will read, and what
\* it carries out for a run that is over is lost to a run that ended with an error.
LEMMA ServeReports ==
  ASSUME LoopInvariant, Agrees, Reports, NEW r \in Runs, Serve(r)
  PROVE  Reported(r)'
<1> USE DEF LoopInvariant, TypeOK
<1>1. UNCHANGED vars /\ OneC!Service(r)
  BY DEF Serve
<1>2. /\ pc' = pc /\ sent' = sent /\ total_tool_calls' = total_tool_calls /\ pending' = pending
      /\ outcome' = outcome /\ given' = given /\ conversation' = conversation
  BY <1>1 DEF vars
<1>3. /\ wire[r].kind # "silence" /\ wire'[r].kind = "response" /\ wire'[r] # OneC!Silence
  BY <1>1, ServiceEffect, MessageKinds DEF Agrees
<1>4. /\ Results(r)' = Results(r)
      /\ \A k \in Results(r) : Rank(r, k)' = Rank(r, k) /\ Shown(r, k)' = Shown(r, k)
  BY <1>2, ResultsKept
<1>5. CASE /\ served' = served
           /\ OneC!Code(wire'[r]) # "ok" \/ wire[r].kind \in {"health", "tools"}
  <2>1. pc[r] = "calling" => OneC!Code(wire'[r]) # "ok"
    BY <1>5 DEF Agrees, WireAgrees
  <2> QED BY <1>2, <1>3, <1>4, <1>5, <2>1 DEF Reports, Reported
<1>6. ASSUME NEW answer, wire[r].kind = "call",
             served'[r] = Append(served[r], [tool |-> wire[r].tool, answer |-> answer]),
             OneC!Code(wire'[r]) = "ok" => wire'[r].body = answer
      PROVE  Reported(r)'
  <2> DEFINE entry == [tool |-> wire[r].tool, answer |-> answer]
  <2>1. entry.answer = answer /\ served'[r] = Append(served[r], entry)
    BY <1>6
  <2> HIDE DEF entry
  <2>2. served[r] \in Seq([tool : Tools, answer : {"success", "failure", "unknown"}])
    BY DEF Agrees, OneC!ExchangeTypeOK
  <2>3. /\ Len(served'[r]) = Len(served[r]) + 1 /\ Len(served[r]) \in Nat
        /\ served'[r][Len(served'[r])] = entry
        /\ \A i \in 1..Len(served[r]) : served'[r][i] = served[r][i]
    BY <2>1, <2>2
  <2>4. /\ Cardinality(Results(r)) = total_tool_calls[r] /\ total_tool_calls[r] <= Len(served[r])
        /\ total_tool_calls[r] \in Nat
    BY DEF Reports, Reported, Agrees, WireAgrees
  <2>5. ASSUME NEW k \in Results(r) PROVE Rank(r, k) \in 1..Len(served[r])
    <3>1. Rank(r, k) \in 1..total_tool_calls[r]
      BY <2>4, ResultsFinite
    <3> QED BY <2>3, <2>4, <3>1
  <2>6. \A k \in Results(r) : served'[r][Rank(r, k)'] = Shown(r, k)'
    BY <1>4, <2>3, <2>5 DEF Reports, Reported
  <2> QED BY <1>2, <1>3, <1>4, <1>6, <2>1, <2>3, <2>6 DEF Reports, Reported
<1> QED BY <1>1, <1>5, <1>6, ServiceEffect DEF Agrees

LEMMA ReportsStep ==
  ExchangeInvariant /\ TranscriptFits /\ Reports /\ [ExchangeNext]_exchangeVars => Reports'
<1> SUFFICES ASSUME LoopInvariant, Agrees, TranscriptFits, Reports,
                    [ExchangeNext]_exchangeVars
             PROVE  Reports'
  BY DEF ExchangeInvariant
<1>1. CASE UNCHANGED exchangeVars
  <2>1. UNCHANGED <<vars, pc, sent, total_tool_calls, pending, outcome, given, conversation, wire, served>>
    BY <1>1 DEF exchangeVars, vars
  <2>2. \A q \in Runs : Apart(q)
    BY <2>1 DEF Apart, Untouched
  <2> QED BY <2>2, ApartIsReported DEF Reports
<1>2. ASSUME NEW r \in Runs, Begin(r) \/ ClientStep(r) \/ Abandon(r) \/ Serve(r)
      PROVE  Reports'
  <2>1. Reported(r)'
    BY <1>2, BeginReports, LoadingReports, ModelReports, AnswersReport, EndReports, ServeReports
       DEF ClientStep
  <2> QED BY <1>2, <2>1, ReportsGather
<1> QED BY <1>1, <1>2 DEF ExchangeNext

\* The transcript a model is shown says what 1C did: each call 1C carried out is
\* there once, with its answer and in 1C's order, but for the one in flight, and
\* a run that never learns of one ends with an error or was cancelled.
THEOREM ModelSeesWhatWasDoneHolds == ExchangeSpec => []ModelSeesWhatWasDone
<1>1. ExchangeInit => TranscriptFits
  BY DEF ExchangeInit, Init, TranscriptFits
<1>2. ExchangeInvariant /\ TranscriptFits /\ [ExchangeNext]_exchangeVars => TranscriptFits'
  BY StepIsLoopStep, TranscriptStep DEF ExchangeInvariant
<1>3. ExchangeInit => Reports
  <2> SUFFICES ASSUME ExchangeInit, NEW r \in Runs PROVE Reported(r)
    BY DEF Reports
  <2>1. /\ pc[r] = "idle" /\ sent[r] = <<>> /\ total_tool_calls[r] = 0
        /\ given[r] = 0 /\ conversation[r] = <<>>
    BY DEF ExchangeInit, Init
  <2>2. Results(r) = {} /\ Cardinality(Results(r)) = 0
    BY <2>1, FS_EmptySet DEF Results, Own
  <2> QED BY <2>1, <2>2 DEF Reported
<1>4. ExchangeInvariant /\ Reports => ModelSeesWhatWasDone
  <2> SUFFICES ASSUME ExchangeInvariant, Reports, NEW r \in Runs
               PROVE  /\ Len(served[r]) \in {Cardinality(Results(r)), Cardinality(Results(r)) + 1}
                      /\ \A k \in Results(r) : served[r][Rank(r, k)] = Shown(r, k)
                      /\ Len(served[r]) > Cardinality(Results(r)) =>
                           \/ pc[r] = "calling"
                           \/ outcome[r] \in {"tool_transport_failure", "cancelled"}
    BY DEF ModelSeesWhatWasDone
  <2>1. /\ total_tool_calls[r] \in Nat /\ Len(served[r]) \in Nat /\ Len(sent[r]) \in Nat
        /\ pc[r] \in {"idle", "loading", "thinking", "calling", "finished"}
    BY DEF ExchangeInvariant, LoopInvariant, TypeOK, Agrees, OneC!ExchangeTypeOK
  <2>2. /\ total_tool_calls[r] <= Len(served[r]) /\ Len(served[r]) <= Len(sent[r])
        /\ pc[r] \in {"idle", "loading"} => served[r] = <<>>
        /\ pc[r] = "thinking" => Len(served[r]) = Len(sent[r]) /\ Len(sent[r]) = total_tool_calls[r]
    BY DEF ExchangeInvariant, LoopInvariant, CountersAgree, Agrees, WireAgrees
  <2> QED BY <2>1, <2>2 DEF Reports, Reported
<1> QED BY <1>1, <1>2, <1>3, <1>4, ReportsStep, ExchangeInvariantHolds, PTL DEF ExchangeSpec
=============================================================================
