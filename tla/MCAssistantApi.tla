---------------------------- MODULE MCAssistantApi ----------------------------
(***************************************************************************)
(* Two requests of the service, one tool that may be missing or writable.  *)
(***************************************************************************)
EXTENDS AssistantApi

UserMessage == [role |-> "user", content |-> "text", tool_calls |-> <<>>,
                tool_name |-> NoTool]

OneQuestion == {<<UserMessage>>}
=============================================================================
