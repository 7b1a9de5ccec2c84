---------------------------- MODULE AgentExchange ----------------------------
(***************************************************************************)
(* AgentRuntime with OneCClient and the HTTP service of 1C in place of the *)
(* assumption that 1C answers or fails: what a run asks of 1C goes over    *)
(* OneCExchange, one exchange at a time, and what 1C has really carried    *)
(* out is compared with what the run and its model know of it.             *)
(***************************************************************************)
EXTENDS AgentRuntime, FiniteSets

VARIABLES wire, served

OneC == INSTANCE OneCExchange WITH Callers <- Runs, Blank <- NoTool, Offers <- Registry

exchangeVars == <<vars, wire, served>>

ExchangeInit == Init /\ OneC!ExchangeInit

\* load_tools of ToolRegistry requests the descriptors as soon as a run starts.
Begin(r) ==
  /\ \E messages \in Conversations : Start(r, messages)
  /\ OneC!Ask(r, OneC!Get("tools"))

\* What the client puts on the wire after a step of the loop: the call it has
\* come to, or nothing, when there is none or its arguments cannot be encoded.
NextMessage(r) ==
  {OneC!Silence} \cup
  (IF pc'[r] = "calling"
   THEN {OneC!Post(Head(pending'[r]), body) : body \in OneC!Bodies} ELSE {})

Continue(r) == \E message \in NextMessage(r) : OneC!Put(r, message) /\ UNCHANGED served

\* The descriptors arrive, and _validate_descriptor accepts every one.
Loaded(r) ==
  /\ OneC!Received(r)
  /\ OneC!Code(wire[r]) = "ok" /\ wire[r].body = "tools"
  /\ ToolsLoaded(r, wire[r].offered)
  /\ Continue(r)

\* The response is an error, or a descriptor is refused.
NotLoaded(r) ==
  /\ OneC!Received(r)
  /\ OneC!Code(wire[r]) # "ok" \/ wire[r].body # "tools"
  /\ LoadFails(r)
  /\ Continue(r)

\* provider.complete: the answer of the model, and the first call of its batch.
ModelSpeaks(r) ==
  /\ \/ \E content \in {"blank", "text"}, calls \in Batches :
          ModelAnswers(r, content, calls)
     \/ ModelFails(r)
  /\ Continue(r)

\* call_tool returns a ToolResult, the run goes on to the next call.
Answers(r) ==
  /\ OneC!Received(r)
  /\ OneC!Code(wire[r]) = "ok"
  /\ ToolAnswers(r, wire[r].body)
  /\ Continue(r)

\* Mutant: a call that failed in transport is sent once more.
CallFailsRetried(r) ==
  /\ OneC!Received(r)
  /\ pc[r] = "calling" /\ OneC!Code(wire[r]) # "ok"
  /\ OneC!Put(r, OneC!Post(Head(pending[r]), "fits"))
  /\ UNCHANGED <<vars, served>>

\* call_tool raises: the response is an error.
CallFails(r) ==
  /\ OneC!Received(r)
  /\ OneC!Code(wire[r]) # "ok"
  /\ ToolFails(r)
  /\ Continue(r)

\* The arguments could not be encoded: call_tool raises before it sends.
NotEncoded(r) ==
  /\ wire[r] = OneC!Silence
  /\ ToolRaises(r)
  /\ UNCHANGED <<wire, served>>

\* Mutant: the timeout applies to the listing of the tools only.
GiveUpListing(r) ==
  /\ wire[r] # OneC!Silence
  /\ LoadFails(r)
  /\ UNCHANGED <<wire, served>>

\* The timeout passes or the connection fails, wherever the message is; the
\* request may still be carried out.
GiveUp(r) ==
  /\ wire[r] # OneC!Silence
  /\ LoadFails(r) \/ ToolFails(r)
  /\ UNCHANGED <<wire, served>>

\* The task is cancelled; what is on the wire is not called back.
Abandon(r) == Cancel(r) /\ UNCHANGED <<wire, served>>

\* 1C and its publication act on what is on the wire, wanted or not.
Serve(r) == OneC!Service(r) /\ UNCHANGED vars

ClientStep(r) ==
  \/ Loaded(r) \/ NotLoaded(r) \/ ModelSpeaks(r)
  \/ Answers(r) \/ CallFails(r) \/ NotEncoded(r) \/ GiveUp(r)

ExchangeNext == \E r \in Runs : Begin(r) \/ ClientStep(r) \/ Abandon(r) \/ Serve(r)

ExchangeSpec == ExchangeInit /\ [][ExchangeNext]_exchangeVars

\* Nothing is assumed of 1C or of the network: the client's own timeouts suffice.
FairExchangeSpec == ExchangeSpec /\ \A r \in Runs : WF_exchangeVars(ClientStep(r))

-----------------------------------------------------------------------------

\* The results in the transcript of a run: where they are, the how-manieth each
\* of them is, and what the model reads there.
Results(r) == {k \in Own(r) : conversation[r][k].role = "tool"}
Rank(r, k) == Cardinality({j \in Results(r) : j <= k})
Shown(r, k) ==
  [tool |-> conversation[r][k].tool_name, answer |-> conversation[r][k].content]

\* What the model is shown is what 1C did: every call 1C carried out for a run
\* is in the transcript with 1C's answer, in 1C's order, except for the one call
\* in flight, and a run that has lost one ends with an error or is cancelled.
ModelSeesWhatWasDone ==
  \A r \in Runs :
    /\ Len(served[r]) \in {Cardinality(Results(r)), Cardinality(Results(r)) + 1}
    /\ \A k \in Results(r) : served[r][Rank(r, k)] = Shown(r, k)
    /\ Len(served[r]) > Cardinality(Results(r)) =>
         \/ pc[r] = "calling"
         \/ outcome[r] \in {"tool_transport_failure", "cancelled"}

\* No call reaches 1C twice, out of turn or uninvited, however late: 1C carries
\* out the calls of a run one by one, in the order the run sent them.
CarriedOutOnce ==
  \A r \in Runs :
    /\ total_tool_calls[r] <= Len(served[r])
    /\ Len(served[r]) <= Len(sent[r])
    /\ \A i \in DOMAIN served[r] : served[r][i].tool = sent[r][i]

\* A run ends even when 1C never answers again.
RunsEndWithoutOneC == \A r \in Runs : pc[r] = "loading" ~> pc[r] = "finished"
=============================================================================
