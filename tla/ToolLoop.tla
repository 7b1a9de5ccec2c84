------------------------------- MODULE ToolLoop -------------------------------
(***************************************************************************)
(* What a run of the agent promises, without saying how: it has the model  *)
(* or a tool at work, one at a time, starts a bounded number of            *)
(* completions and of calls, calls permitted tools only, decides what is   *)
(* permitted once, and once over it starts nothing.                        *)
(***************************************************************************)
EXTENDS Naturals, Sequences

CONSTANTS Runs, Tools, MaxIterations, MaxToolCalls

VARIABLES
  phase,      \* "waiting", "model", "tool" or "over"
  permitted,  \* the tools a run may call
  asked,      \* completions a run has started
  called      \* tool calls a run has started

loopVars == <<phase, permitted, asked, called>>

LoopInit ==
  /\ phase = [r \in Runs |-> "waiting"]
  /\ permitted = [r \in Runs |-> {}]
  /\ asked = [r \in Runs |-> 0]
  /\ called = [r \in Runs |-> <<>>]

\* The run learns which tools it may call and asks the model.
Begin(r, tools) ==
  /\ phase[r] = "waiting"
  /\ phase' = [phase EXCEPT ![r] = "model"]
  /\ permitted' = [permitted EXCEPT ![r] = tools]
  /\ asked' = [asked EXCEPT ![r] = 1]
  /\ UNCHANGED called

\* A tool is done: the model is asked again.
Ask(r) ==
  /\ phase[r] = "tool"
  /\ asked[r] < MaxIterations
  /\ phase' = [phase EXCEPT ![r] = "model"]
  /\ asked' = [asked EXCEPT ![r] = @ + 1]
  /\ UNCHANGED <<permitted, called>>

\* The model or a tool is done: a permitted tool is called.
Call(r, t) ==
  /\ phase[r] \in {"model", "tool"}
  /\ t \in permitted[r]
  /\ Len(called[r]) < MaxToolCalls
  /\ phase' = [phase EXCEPT ![r] = "tool"]
  /\ called' = [called EXCEPT ![r] = Append(@, t)]
  /\ UNCHANGED <<permitted, asked>>

\* The run ends, before it began or with the model or a tool at work.
End(r) ==
  /\ phase[r] # "over"
  /\ phase' = [phase EXCEPT ![r] = "over"]
  /\ UNCHANGED <<permitted, asked, called>>

LoopNext ==
  \E r \in Runs :
    \/ \E tools \in SUBSET Tools : Begin(r, tools)
    \/ Ask(r)
    \/ \E t \in Tools : Call(r, t)
    \/ End(r)

LoopSpec == LoopInit /\ [][LoopNext]_loopVars
=============================================================================
