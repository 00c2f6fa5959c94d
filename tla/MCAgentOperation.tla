-------------------------- MODULE MCAgentOperation --------------------------
(***************************************************************************)
(* AgentOperation on small sets for TLC.                                   *)
(***************************************************************************)
EXTENDS AgentOperation

CONSTANTS write1, item1, item2

MCPlan == <<item1, item2>>

Writing == [messages : {{write1}}, strands : BOOLEAN]
Planning == [messages : {{item1}}, strands : {FALSE}]
Either == Writing \cup Planning
=============================================================================
