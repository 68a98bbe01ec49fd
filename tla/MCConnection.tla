------------------------------ MODULE MCConnection ------------------------------
(***************************************************************************)
(* Two parts that share no state: the socket of the WhatsApp connector,    *)
(* and the jobs that carry messages to the Brain.  A behaviour is one of   *)
(* either, and fair to it.                                                 *)
(***************************************************************************)
EXTENDS BaileysConnection, MCBrain

VARIABLE part

MCInit == Init /\ BrainInit /\ part \in {"connection", "jobs"}

MCNext ==
  /\ UNCHANGED part
  /\ \/ part = "connection" /\ Next /\ UNCHANGED brainVars
     \/ part = "jobs" /\ BrainNext /\ UNCHANGED vars

MCSpec ==
  /\ MCInit /\ [][MCNext]_<<vars, brainVars, part>>
  /\ part = "connection" => Fairness
  /\ part = "jobs" => BrainFairness
================================================================================
