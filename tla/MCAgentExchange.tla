---------------------------- MODULE MCAgentExchange ----------------------------
(***************************************************************************)
(* Small instances of AgentExchange.                                       *)
(***************************************************************************)
EXTENDS AgentExchange

CONSTANTS t1, t2

UserMessage == [role |-> "user", content |-> "text", tool_calls |-> <<>>,
                tool_name |-> NoTool]

\* A caller may replay an earlier, even an unfinished, exchange.
Replays == {<<UserMessage>>,
            <<UserMessage, AssistantMessage("text", <<t1>>)>>}
=============================================================================
