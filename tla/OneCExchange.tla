----------------------------- MODULE OneCExchange -----------------------------
(***************************************************************************)
(* One HTTP exchange between OneCClient (onec_client.py) and the HTTP      *)
(* service of 1C (HTTPИнтерфейсАссистентаСервер), with the web publication *)
(* between them.  A caller has one message on the wire: its request, later *)
(* the response to it.  The client waits no longer than its timeout and    *)
(* never repeats a request; a message that is never handled or never       *)
(* received is a lost one, and a request the client has given up is still  *)
(* on its way.                                                             *)
(***************************************************************************)
EXTENDS Naturals, Sequences

CONSTANTS
  Callers,  \* the coroutines that use the client
  Tools,    \* names they call
  Blank,    \* a name of spaces only
  Offers    \* what GET /tools may list

VARIABLES
  wire,     \* the message between each caller and 1C
  served    \* history: the calls the dispatcher of 1C was given, and its answers

exchange == <<wire, served>>

Silence == [kind |-> "silence"]

\* What json= makes of the arguments: a JSON object 1C reads, one of more than
\* 64 KiB, or one 1C does not read (NaN, a key that is no identifier of 1C).
Bodies == {"fits", "oversized", "unreadable"}

Get(endpoint) == [kind |-> endpoint]
Post(tool, body) == [kind |-> "call", tool |-> tool, body |-> body]

Response(status, body) == [kind |-> "response", status |-> status, body |-> body]
ToolList(offered) ==
  [kind |-> "response", status |-> 200, body |-> "tools", offered |-> offered]

TransportCodes ==
  {"invalid_request", "request_too_large", "unsupported_media_type",
   "invalid_json", "transport_internal_error"}

Contents ==
  TransportCodes \cup
  {"healthy", "unusable", "success", "failure", "foreign"}

Messages ==
  {Silence, Get("health"), Get("tools")}
  \cup {Post(tool, body) : tool \in Tools \cup {Blank}, body \in Bodies}
  \cup {Response(status, body) :
         status \in {200, 400, 401, 403, 404, 413, 415, 500, 502}, body \in Contents}
  \cup {ToolList(offered) : offered \in Offers}

ExchangeTypeOK ==
  /\ wire \in [Callers -> Messages]
  /\ served \in [Callers -> Seq([tool : Tools,
                                 answer : {"success", "failure", "unknown"}])]

ExchangeInit ==
  /\ wire = [c \in Callers |-> Silence]
  /\ served = [c \in Callers |-> <<>>]

-----------------------------------------------------------------------------

Put(c, message) == wire' = [wire EXCEPT ![c] = message]

\* ПроверкаСостояния.
ServeHealth(c) ==
  /\ wire[c].kind = "health"
  /\ Put(c, Response(200, "healthy"))
  /\ UNCHANGED served

\* ПолучитьИнструменты: the descriptions, among them perhaps one the bridge
\* cannot use; building them fails, or writing them as JSON, which is outside
\* the Попытка and leaves the answer to the platform.
ServeTools(c) ==
  /\ wire[c].kind = "tools"
  /\ \/ \E offered \in Offers : Put(c, ToolList(offered))
     \/ Put(c, Response(200, "unusable"))
     \/ Put(c, Response(500, "transport_internal_error"))
     \/ Put(c, Response(500, "foreign"))
  /\ UNCHANGED served

\* The checks of ВыполнитьИнструмент before anything is carried out, in their
\* order; the Content-Type the client sends always passes.
Refusal(call) ==
  IF call.tool = Blank THEN Response(400, "invalid_request")
  ELSE IF call.body = "oversized" THEN Response(413, "request_too_large")
  ELSE IF call.body = "unreadable" THEN Response(400, "invalid_json") ELSE Silence

RefuseCall(c) ==
  /\ wire[c].kind = "call" /\ Refusal(wire[c]) # Silence
  /\ Put(c, Refusal(wire[c]))
  /\ UNCHANGED served

Served(c, answer) ==
  served' = [served EXCEPT ![c] = Append(@, [tool |-> wire[c].tool, answer |-> answer])]

\* Mutant: the arguments are checked after the tool was carried out.
ServeBeforeChecks(c) ==
  /\ wire[c].kind = "call" /\ wire[c].tool # Blank
  /\ \E answer \in {"success", "failure"} :
       /\ Put(c, IF Refusal(wire[c]) = Silence THEN Response(200, answer)
                                               ELSE Refusal(wire[c]))
       /\ Served(c, answer)

\* The dispatcher carries the tool out: success, or a failure of the tool, an
\* unknown name and an exception of the tool among them.  A result that cannot
\* be written as JSON, or an exception outside the tool, is HTTP 500.
ServeCall(c) ==
  /\ wire[c].kind = "call" /\ Refusal(wire[c]) = Silence
  /\ \/ \E answer \in {"success", "failure"} :
          Put(c, Response(200, answer)) /\ Served(c, answer)
     \/ \E body \in {"transport_internal_error", "foreign"} :
          Put(c, Response(500, body)) /\ Served(c, "unknown")

\* The publication answers for 1C: it refuses the credentials or the path before
\* 1C sees the request, or cannot reach 1C, or has lost 1C's answer.
Publication(c) ==
  /\ \/ /\ wire[c].kind \in {"health", "tools", "call"}
        /\ \E status \in {401, 403, 404} : Put(c, Response(status, "foreign"))
     \/ /\ wire[c].kind # "silence"
        /\ \E status \in {200, 500, 502} : Put(c, Response(status, "foreign"))
  /\ UNCHANGED served

Service(c) ==
  ServeHealth(c) \/ ServeTools(c) \/ RefuseCall(c) \/ ServeCall(c) \/ Publication(c)

-----------------------------------------------------------------------------

\* Mutant: every 200 is a good answer and every other status one error.
CodeByStatusOnly(response) ==
  IF response.status = 200 THEN "ok" ELSE "unexpected_http_status"

\* _validate_http_status, _safe_transport_error, _parse_success_json and the
\* contracts of models.py: what the client makes of a response.
Code(response) ==
  IF response.status = 200
  THEN IF response.body = "foreign" THEN "protocol_error" ELSE "ok"
  ELSE IF response.status \in {400, 413, 415, 500}
  THEN IF response.body \in TransportCodes THEN response.body ELSE "invalid_transport_error"
  ELSE IF response.status = 401 THEN "authentication_failed"
  ELSE IF response.status = 403 THEN "authorization_failed" ELSE "unexpected_http_status"

\* The client sends a request: nothing of its own is on the wire.
Ask(c, request) ==
  /\ wire[c] = Silence
  /\ Put(c, request)
  /\ UNCHANGED served

Received(c) == wire[c].kind = "response"

\* Codes that tell the user 1C has not begun to carry the call out.
RefusalCodes ==
  {"invalid_request", "request_too_large", "unsupported_media_type",
   "invalid_json", "authentication_failed", "authorization_failed"}
=============================================================================
