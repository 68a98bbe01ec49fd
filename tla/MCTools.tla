-------------------------------- MODULE MCTools --------------------------------
(***************************************************************************)
(* The two sides of the tools of mcp-server, which share no state here:    *)
(* the retried calls of its write tools, and the way a call finds to the   *)
(* connectors.  Checked one after the other, each from its start.          *)
(***************************************************************************)
EXTENDS ToolCalls, ToolRouting

MCInit == Init /\ RoutingInit

MCNext ==
  \/ RoutingInit /\ Next /\ UNCHANGED routingVars
  \/ Init /\ RoutingNext /\ UNCHANGED vars

MCSpec == MCInit /\ [][MCNext]_<<vars, routingVars>>
================================================================================
