------------------------------- MODULE MCServer -------------------------------
(***************************************************************************)
(* Two parts of mcp-server that share no state, its MCP sessions and the   *)
(* digests of unread chats: checked one after the other, each from its     *)
(* start.                                                                  *)
(***************************************************************************)
EXTENDS UnreadDigest, McpSessions

MCInit == Init /\ McpInit

MCNext ==
  \/ McpInit /\ Next /\ UNCHANGED mcpVars
  \/ Init /\ McpNext /\ UNCHANGED vars

MCSpec == MCInit /\ [][MCNext]_<<vars, mcpVars>> /\ Fairness /\ McpFairness
================================================================================
