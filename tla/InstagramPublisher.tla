-------------------------- MODULE InstagramPublisher --------------------------
(***************************************************************************)
(* InstagramEventPublisher of connectors/instagram/src/publisher.ts, fed   *)
(* by the webhook of webhook.ts.  It has a retainer of its own (the class  *)
(* EventRetainer models) and, unlike the WhatsApp publisher, tries to      *)
(* connect at every webhook that finds NATS away, refuses to connect once  *)
(* it shuts down, and puts a failed batch back without counting what it    *)
(* leaves out.  Each action runs from one await to the next.               *)
(***************************************************************************)
EXTENDS EventRetainer, Sequences

CONSTANTS MaxWebhooks,   \* bound: events Meta delivers
          MaxOutages     \* bound: times the transport is lost

ASSUME WebhookAssumption == MaxWebhooks \in Nat /\ MaxOutages \in Nat

VARIABLES
  igClient,      \* `nc`: "none" (null), or its transport, "up" or "down"
  igConnected, igConnecting, igShuttingDown,
  igTimer,       \* is `reconnectTimer` armed?
  igQueue,       \* the retainer
  igBatch,       \* what drainRetention() holds while it awaits the flush
  igDraining,
  igNews,        \* status events watchStatus() has not read
  igCount,       \* events handed to publish()
  igFate,        \* where each of them went
  igOutages

igConn == <<igClient, igConnected, igConnecting, igShuttingDown, igTimer>>
igKept == <<igQueue, igBatch, igDraining, igCount, igFate>>
igNet  == <<igNews, igOutages>>
igPublisherVars == <<igConn, igKept, igNet>>

Webhooks == 1 .. MaxWebhooks

Fates == INSTANCE EventFate WITH Emissions <- Webhooks, fate <- igFate

FatesAre(S, f) == [n \in Webhooks |-> IF n \in S THEN f ELSE igFate[n]]

\* main() awaits the first connect() before the webhook is served.
IgPublisherInit ==
  /\ \/ igClient = "up" /\ igConnected = TRUE /\ igTimer = FALSE
     \/ igClient = "none" /\ igConnected = FALSE /\ igTimer = TRUE
  /\ igConnecting = FALSE /\ igShuttingDown = FALSE
  /\ igQueue = {} /\ igBatch = {} /\ igDraining = FALSE
  /\ igNews = <<>> /\ igCount = 0 /\ igOutages = 0
  /\ igFate = [n \in Webhooks |-> "none"]

\* scheduleReconnect(), in the state the step ends in: a client that is there retries by itself.
IgSchedule ==
  igTimer' = (igTimer \/ (~igConnected' /\ ~igConnecting' /\ ~igShuttingDown' /\ igClient' = "none"))

\* drainRetention() up to its await: everything held is published and a flush awaited.
IgDrain ==
  IF igDraining \/ igQueue = {}
  THEN UNCHANGED <<igQueue, igBatch, igDraining>>
  ELSE igBatch' = igQueue /\ igQueue' = {} /\ igDraining' = TRUE

(***************************************************************************)
(* A webhook.  Meta has its 200 before anything is done with it, so what   *)
(* is not published or held from here on is gone.                          *)
(***************************************************************************)
IgPublished(key) ==
  /\ igConnected
  /\ igFate' = FatesAre({igCount + 1}, "published")
  /\ UNCHANGED <<igQueue, igTimer>>

IgDuplicate(key) ==
  /\ ~igConnected /\ IsDuplicate(igQueue, key)
  /\ igFate' = FatesAre({igCount + 1}, "duplicate")
  /\ UNCHANGED igQueue
  /\ IgSchedule

IgRetained(key) ==
  /\ ~igConnected /\ ~IsDuplicate(igQueue, key)
  /\ \E cut \in Seqs(igQueue) \cup {0} :
       LET item == [key |-> key, seq |-> igCount + 1] IN
       /\ igQueue' = Enqueue(igQueue, item, cut)
       /\ igFate' = [n \in Webhooks |-> IF n = item.seq THEN "held"
                                        ELSE IF n \notin Seqs(igQueue) \ Seqs(igQueue') THEN igFate[n]
                                        ELSE IF n <= cut THEN "expired" ELSE "overflow"]
  /\ IgSchedule

IgWebhook(key) ==
  /\ igCount < MaxWebhooks /\ ~igShuttingDown
  /\ igCount' = igCount + 1
  /\ UNCHANGED <<igClient, igConnected, igConnecting, igShuttingDown, igBatch, igDraining, igNet>>
  /\ IgPublished(key) \/ IgDuplicate(key) \/ IgRetained(key)

(***************************************************************************)
(* The connection.                                                         *)
(***************************************************************************)
\* The timer fires and calls connect().
IgTimerFires ==
  /\ igTimer /\ ~igShuttingDown
  /\ igTimer' = FALSE
  /\ igConnecting' = (igConnecting \/ ~igConnected)
  /\ UNCHANGED <<igClient, igConnected, igShuttingDown, igKept, igNet>>

IgConnectOk ==
  /\ igConnecting /\ ~igShuttingDown
  /\ igClient' = "up" /\ igConnected' = TRUE /\ igConnecting' = FALSE
  /\ igNews' = <<>>
  /\ IgDrain
  /\ UNCHANGED <<igShuttingDown, igTimer, igCount, igFate, igOutages>>

\* `connecting` is cleared before scheduleReconnect() looks at it.
IgConnectFails ==
  /\ igConnecting /\ ~igShuttingDown
  /\ igConnecting' = FALSE /\ igConnected' = FALSE
  /\ UNCHANGED <<igClient, igShuttingDown>>
  /\ IgSchedule
  /\ UNCHANGED <<igKept, igNet>>

IgLinkDown ==
  /\ igClient = "up" /\ igOutages < MaxOutages /\ ~igShuttingDown
  /\ igClient' = "down" /\ igOutages' = igOutages + 1
  /\ igNews' = Append(igNews, "Disconnect")
  /\ UNCHANGED <<igConnected, igConnecting, igShuttingDown, igTimer, igKept>>

IgLinkUp ==
  /\ igClient = "down" /\ ~igShuttingDown
  /\ igClient' = "up"
  /\ igNews' = Append(igNews, "Reconnect")
  /\ UNCHANGED <<igConnected, igConnecting, igShuttingDown, igTimer, igKept, igOutages>>

\* watchStatus() reads the next event of its client.
IgStatus ==
  /\ igNews # <<>> /\ igClient # "none" /\ ~igShuttingDown
  /\ igConnected' = (Head(igNews) = "Reconnect")
  /\ igNews' = Tail(igNews)
  /\ IF igConnected' THEN IgDrain ELSE UNCHANGED <<igQueue, igBatch, igDraining>>
  /\ UNCHANGED <<igClient, igConnecting, igShuttingDown, igTimer, igCount, igFate, igOutages>>

\* The client closes for good, and closed() settles.
IgClosed ==
  /\ igClient # "none" /\ ~igShuttingDown
  /\ igOutages < MaxOutages /\ igOutages' = igOutages + 1
  /\ igClient' = "none" /\ igConnected' = FALSE
  /\ igNews' = <<>>
  /\ UNCHANGED <<igConnecting, igShuttingDown, igKept>>
  /\ IgSchedule

\* Mutated: what is held when the flush returns is counted, not what it has flushed.
IgFlushedAll ==
  /\ igDraining /\ igClient = "up" /\ ~igShuttingDown
  /\ igFate' = FatesAre(Seqs(igBatch \cup igQueue), "republished")
  /\ igBatch' = {} /\ igDraining' = FALSE
  /\ UNCHANGED <<igQueue, igConn, igNet, igCount>>

\* The flush returns: the batch is counted, and what came meanwhile is the next one.
IgFlushed ==
  /\ igDraining /\ igClient = "up" /\ ~igShuttingDown
  /\ igFate' = FatesAre(Seqs(igBatch), "republished")
  /\ IF igConnected /\ igQueue # {}
     THEN igBatch' = igQueue /\ igQueue' = {} /\ igDraining' = TRUE
     ELSE igBatch' = {} /\ igDraining' = FALSE /\ UNCHANGED igQueue
  /\ UNCHANGED <<igConn, igNet, igCount>>

\* The flush rejects or takes more than 2 s: the batch goes back in front, without what
\* was queued again meanwhile, and the client counts as disconnected even if its link is up.
IgFlushFails ==
  LET back == Requeueable(igQueue, igBatch) IN
  /\ igDraining /\ ~igShuttingDown
  /\ igQueue' = RequeueFront(igQueue, igBatch)
  /\ igFate' = FatesAre(Seqs(igBatch \ back), "superseded")
  /\ igBatch' = {} /\ igDraining' = FALSE
  /\ igConnected' = FALSE
  /\ UNCHANGED <<igClient, igConnecting, igShuttingDown>>
  /\ IgSchedule
  /\ UNCHANGED <<igNet, igCount>>

\* SIGINT: disconnect() clears the retainer and the process exits.
IgShutDown ==
  /\ ~igShuttingDown
  /\ igShuttingDown' = TRUE /\ igTimer' = FALSE
  /\ igFate' = FatesAre(Seqs(igQueue) \cup Seqs(igBatch), "cleared")
  /\ igQueue' = {} /\ igBatch' = {} /\ igDraining' = FALSE
  /\ UNCHANGED <<igClient, igConnected, igConnecting, igCount, igNet>>

IgPublisherNext ==
  \/ \E key \in Keys : IgWebhook(key)
  \/ IgTimerFires \/ IgConnectOk \/ IgConnectFails
  \/ IgLinkDown \/ IgLinkUp \/ IgStatus \/ IgClosed
  \/ IgFlushed \/ IgFlushFails \/ IgShutDown

\* Timers fire and status events are read; the client gets its link back; a flush ends one
\* way or the other; NATS, tried again and again, takes a connection in the end.
IgPublisherFairness ==
  /\ WF_igPublisherVars(IgTimerFires) /\ WF_igPublisherVars(IgLinkUp)
  /\ WF_igPublisherVars(IgStatus) /\ WF_igPublisherVars(IgFlushed \/ IgFlushFails)
  /\ WF_igPublisherVars(IgConnectOk \/ IgConnectFails) /\ SF_igPublisherVars(IgConnectOk)

IgPublisherSpec == IgPublisherInit /\ [][IgPublisherNext]_igPublisherVars

-----------------------------------------------------------------------------
IgPublisherTypeOK ==
  /\ igClient \in {"none", "up", "down"}
  /\ {igConnected, igConnecting, igShuttingDown, igTimer, igDraining} \subseteq BOOLEAN
  /\ igQueue \cup igBatch \subseteq Entry(igCount)
  /\ igCount \in 0 .. MaxWebhooks /\ igOutages \in 0 .. MaxOutages
  /\ igFate \in [Webhooks -> Fates!Fates]

\* Meta was told 200, so an event that was not published is held until it is republished,
\* dropped by the cap or the window, or superseded by its copy: no path of a failed drain
\* loses one (publisher.ts:1-8, "are no longer discarded").
HeldIsKept ==
  {n \in Webhooks : igFate[n] = "held"} = Seqs(igQueue) \cup Seqs(igBatch)

\* Each event gets one fate in the order Meta delivered them, and a settled one keeps it:
\* the publisher implements the same promise as the WhatsApp one.
InstagramFates == Fates!Spec

\* Types, and nothing accepted from Meta is forgotten.
IgPublisherInv == IgPublisherTypeOK /\ HeldIsKept
=============================================================================
