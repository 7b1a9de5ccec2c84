----------------------------- MODULE AssistantApi -----------------------------
(***************************************************************************)
(* The local HTTP service around AgentRuntime: the ASGI application of     *)
(* api/app.py, its error mapping, and the resources composition.py opens   *)
(* and closes with it.  A request of POST /v1/agent/run is one run; the    *)
(* exception handlers answer in the step that ends it.                     *)
(***************************************************************************)
EXTENDS AgentRuntime, FiniteSets

VARIABLES
  server,   \* "down", "serving", "draining", "closing", "closing onec", "stopped"
  clients,  \* the HTTP clients that are open
  reply     \* what each request was answered with, or NoReply

apiVars == <<vars, server, clients, reply>>

NoReply == [status |-> 0, code |-> "none"]

\* _RUNTIME_STATUS_BY_CODE, the codes of AgentError.
StatusByCode ==
  [unknown_tool |-> 502, tool_not_allowed |-> 502, empty_final_response |-> 502,
   iteration_limit |-> 422, tool_call_limit |-> 422, tool_transport_failure |-> 503]

\* agent_error_handler for AgentError, unexpected_error_handler for the rest;
\* a CancelledError passes both.
ReplyFor(why) ==
  CASE why = "answer" -> [status |-> 200, code |-> "none"]
    [] why \in DOMAIN StatusByCode -> [status |-> StatusByCode[why], code |-> why]
    [] why = "cancelled" -> NoReply
    [] OTHER -> [status |-> 500, code |-> "internal_error"]

ApiInit == Init /\ server = "down" /\ clients = {} /\ reply = [r \in Runs |-> NoReply]

InFlight == {r \in Runs : pc[r] \in {"loading", "thinking", "calling"}}

\* lifespan: build_application_resources opens both clients before the server
\* accepts a request.
Startup ==
  /\ server = "down"
  /\ server' = "serving"
  /\ clients' = {"onec", "ollama"}
  /\ UNCHANGED <<vars, reply>>

\* run_agent with a body AgentRunRequest accepts.
Request(r) ==
  /\ server = "serving"
  /\ reply[r] = NoReply
  /\ \E messages \in Conversations : messages # <<>> /\ Start(r, messages)
  /\ UNCHANGED <<server, clients, reply>>

\* invalid_request_handler: the body is refused before the service is called.
InvalidRequest(r) ==
  /\ server = "serving"
  /\ pc[r] = "idle" /\ reply[r] = NoReply
  /\ reply' = [reply EXCEPT ![r] = [status |-> 422, code |-> "invalid_request"]]
  /\ UNCHANGED <<vars, server, clients>>

\* A step of a run; the one that ends it is answered at once.
Proceed(r) ==
  /\ Answered(r)
  /\ reply' = IF pc'[r] = "finished"
              THEN [reply EXCEPT ![r] = ReplyFor(outcome'[r])] ELSE reply
  /\ UNCHANGED <<server, clients>>

\* The server cancels the task of a request; nothing is answered.
Abort(r) == Cancel(r) /\ UNCHANGED <<server, clients, reply>>

\* Mutant: the lifespan is left without waiting for the requests in flight.
DrainedAtOnce == server = "draining" /\ server' = "closing" /\ UNCHANGED <<vars, clients, reply>>

\* uvicorn stops accepting, then waits for the requests in flight.
Shutdown == server = "serving" /\ server' = "draining" /\ UNCHANGED <<vars, clients, reply>>
Drained ==
  /\ server = "draining" /\ InFlight = {}
  /\ server' = "closing"
  /\ UNCHANGED <<vars, clients, reply>>

\* Mutant: the two clients are closed one after the other without a finally.
CloseOllamaOrGiveUp ==
  /\ server = "closing"
  /\ \/ clients' = clients \ {"ollama"} /\ server' = "closing onec"
     \/ clients' = clients /\ server' = "stopped"
  /\ UNCHANGED <<vars, reply>>

\* ApplicationResources.close: ollama_client.close returns or raises, in either
\* case the `finally` goes on to the other client.
CloseOllama ==
  /\ server = "closing"
  /\ server' = "closing onec"
  /\ \/ clients' = clients \ {"ollama"}
     \/ UNCHANGED clients
  /\ UNCHANGED <<vars, reply>>

CloseOneC ==
  /\ server = "closing onec"
  /\ clients' = clients \ {"onec"}
  /\ server' = "stopped"
  /\ UNCHANGED <<vars, reply>>

Stop == Shutdown \/ Drained \/ CloseOllama \/ CloseOneC

ApiNext ==
  \/ Startup
  \/ \E r \in Runs : Request(r) \/ InvalidRequest(r) \/ Proceed(r) \/ Abort(r)
  \/ Stop

ApiSpec == ApiInit /\ [][ApiNext]_apiVars

\* httpx timeouts end every await of a run, uvicorn's shutdown goes on by itself.
FairApiSpec ==
  /\ ApiSpec
  /\ \A r \in Runs : WF_apiVars(Proceed(r))
  /\ WF_apiVars(Drained \/ CloseOllama \/ CloseOneC)

-----------------------------------------------------------------------------

\* A request is at work only while both clients are open, through shutdown and
\* drain: no coroutine is left behind with a closed transport.
ClientsOpenWhileAtWork == InFlight # {} => clients = {"onec", "ollama"}

\* Once told to stop, the service answers or cancels what is in flight and ends
\* with the client of 1C closed, even when closing the one of Ollama fails.
StopsClean == server = "draining" ~> (server = "stopped" /\ "onec" \notin clients)

\* Every accepted request is answered unless it is cancelled.
EveryRequestIsAnswered ==
  \A r \in Runs : pc[r] = "loading" ~> (reply[r] # NoReply \/ outcome[r] = "cancelled")
=============================================================================
