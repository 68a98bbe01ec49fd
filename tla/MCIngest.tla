------------------------------- MODULE MCIngest -------------------------------
(***************************************************************************)
(* The ingestion of WhatsApp and of Instagram messages, which meet in no   *)
(* row, and the process of the Synapse bridge: each checked from its       *)
(* start, the others at rest, which for the bridge's process is its exit.  *)
(***************************************************************************)
EXTENDS WhatsAppIngest, InstagramIngest, SynapseBridge

VARIABLE part   \* the one that runs

MCKinds == <<"dm", "comment">>

MCEventKinds == [m1 |-> "in", m2 |-> "own", m3 |-> "optin"]

\* Nothing of a process that has exited is left to be fair to.
BridgeExited ==
  /\ link = "down" /\ timer = FALSE /\ stage = "exited" /\ links = 0
  /\ buffer = [l \in Loops |-> <<>>] /\ loop = [l \in Loops |-> Rest]
  /\ knownJid = FALSE /\ freshJid = FALSE /\ fetching = FALSE
  /\ entries = <<>> /\ ticks = 0 /\ horizon = 0
  /\ forwarded = {} /\ sighting = [m \in Events |-> [at |-> 0, after |-> {}]] /\ again = {}
  /\ arrivals = 0 /\ outages = 0

MCInit ==
  /\ Init /\ IgIngestInit /\ part \in {"whatsapp", "instagram", "bridge"}
  /\ IF part = "bridge" THEN BridgeInit ELSE BridgeExited

MCNext ==
  /\ part' = part
  /\ \/ part = "whatsapp" /\ Next /\ UNCHANGED <<igIngestVars, bridgeVars>>
     \/ part = "instagram" /\ IgIngestNext /\ UNCHANGED <<vars, bridgeVars>>
     \/ part = "bridge" /\ BridgeNext /\ UNCHANGED <<vars, igIngestVars>>

MCSpec ==
  /\ MCInit /\ [][MCNext]_<<vars, igIngestVars, bridgeVars, part>>
  /\ part = "whatsapp" => Fairness
  /\ BridgeFairness
================================================================================
