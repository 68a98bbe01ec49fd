----------------------------- MODULE MCPublishers -----------------------------
(***************************************************************************)
(* The WhatsApp and the Instagram publisher, which share the class of      *)
(* their retainer and nothing else: checked one after the other, each from *)
(* its start, the other one at rest with its client connected.             *)
(***************************************************************************)
EXTENDS EventPublisher, InstagramPublisher

MCInit == Init /\ IgPublisherInit /\ ~(timer /\ igTimer)

MCNext ==
  \/ IgPublisherInit /\ ~igTimer /\ Next /\ UNCHANGED igPublisherVars
  \/ Init /\ ~timer /\ IgPublisherNext /\ UNCHANGED vars

MCSpec ==
  /\ MCInit /\ [][MCNext]_<<vars, igPublisherVars>>
  /\ Fairness /\ IgPublisherFairness
===============================================================================
