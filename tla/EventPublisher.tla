--------------------------- MODULE EventPublisher ---------------------------
(***************************************************************************)
(* EventPublisher of connectors/whatsapp-web/src/events/publisher.ts: the  *)
(* events of a connector are published to NATS, or retained while NATS is  *)
(* away and republished in FIFO order when it returns.                     *)
(*                                                                         *)
(* The JavaScript is single threaded, so a handler runs from one await to  *)
(* the next without interruption: each action below is one such stretch.   *)
(* The NATS client object and the server are the environment.  The client  *)
(* reports a lost or regained transport through the status iterator, later *)
(* than it happens (`notices`); a published event sits on the `wire` until *)
(* the server takes it, and a lost transport loses any part of the wire.   *)
(***************************************************************************)
EXTENDS EventRetainer, Sequences

CONSTANTS MaxEmits,     \* bound: events handed to the publisher
          MaxFlaps      \* bound: times a transport is lost

ASSUME PublisherAssumption == MaxEmits \in Nat /\ MaxFlaps \in Nat

Emissions == 1 .. MaxEmits

VARIABLES
  client,      \* `nc`: "none" (null), or the state of the client's transport
  connected, connecting, stopped,
  timer,       \* is `reconnectTimer` armed?
  closing,     \* is disconnect() awaiting nc.close()?
  queue,       \* the retainer
  batch,       \* entries drainRetention() holds while it awaits the flush
  flush,       \* "idle" (`draining` is false), "waiting", or "broken"
  accepted,    \* events handed to emit()
  fate,        \* the counter each emission was last counted in
  notices,     \* status events not yet read by watchStatus()
  wire,        \* emissions published and not yet taken by the server
  delivered,   \* times the server took each emission
  retried,     \* emissions whose flush failed at least once
  flaps        \* transports lost so far

Fate == INSTANCE EventFate WITH Emissions <- Emissions, fate <- fate

connVars   == <<client, connected, connecting, timer, closing>>
queueVars  == <<queue, batch, flush, accepted, fate, retried>>
netVars    == <<notices, wire, delivered, flaps>>
vars == <<client, connected, connecting, stopped, timer, closing, queue, batch,
          flush, accepted, fate, notices, wire, delivered, retried, flaps>>

(* The fates after every emission in S has been counted as f. *)
Counted(S, f) == [s \in Emissions |-> IF s \in S THEN f ELSE fate[s]]

-----------------------------------------------------------------------------
(* main() awaits the first connect() before it registers the handlers that *)
(* emit, so the system starts where that attempt succeeded or failed.      *)
Init ==
  /\ \/ client = "up" /\ connected = TRUE /\ timer = FALSE
     \/ client = "none" /\ connected = FALSE /\ timer = TRUE
  /\ connecting = FALSE /\ stopped = FALSE /\ closing = FALSE
  /\ queue = {} /\ batch = {} /\ flush = "idle"
  /\ accepted = 0 /\ fate = [s \in Emissions |-> "none"]
  /\ notices = <<>> /\ wire = {} /\ delivered = [s \in Emissions |-> 0]
  /\ retried = {} /\ flaps = 0

(* scheduleReconnect(), called with the given values of `connecting`, `nc`. *)
ScheduleReconnect(inFlight, nc) ==
  timer' = (timer \/ (~stopped /\ ~inFlight /\ nc = "none"))

(* drainRetention() up to its first await, called with `connected` = TRUE   *)
(* and the given client: everything held is published and a flush awaited.  *)
(* On a closed client publish() throws, the batch goes back as it was, and  *)
(* markDisconnected() runs.                                                 *)
DrainRetention(nc) ==
  IF flush # "idle" \/ stopped \/ queue = {}
  THEN connected' = TRUE /\ UNCHANGED <<queue, batch, flush, wire>>
  ELSE IF nc = "closed"
  THEN connected' = FALSE /\ UNCHANGED <<queue, batch, flush, wire>>
  ELSE /\ connected' = TRUE
       /\ batch' = queue
       /\ queue' = {}
       /\ wire' = wire \cup Seqs(queue)
       /\ flush' = "waiting"

-----------------------------------------------------------------------------

(* emit(): publish now, or retain. *)
EmitPublished(key) ==
  /\ accepted < MaxEmits
  /\ connected /\ client \in {"up", "down"}
  /\ accepted' = accepted + 1
  /\ fate' = Counted({accepted + 1}, "published")
  /\ wire' = wire \cup {accepted + 1}
  /\ UNCHANGED <<connVars, stopped, queue, batch, flush, retried, notices,
                 delivered, flaps>>

(* enqueue(): the key waits already, or the entry is pushed after the       *)
(* expired head entries left and before the overflow is evicted.  A publish *)
(* that threw has cleared `connected` first.                                *)
EmitRetained(key) ==
  /\ accepted < MaxEmits
  /\ ~connected \/ client \in {"none", "closed"}
  /\ accepted' = accepted + 1
  /\ connected' = FALSE
  /\ \/ /\ IsDuplicate(queue, key)
        /\ fate' = Counted({accepted + 1}, "duplicate")
        /\ UNCHANGED queue
     \/ /\ ~IsDuplicate(queue, key)
        /\ \E cut \in Seqs(queue) \cup {0} :
             LET item == [key |-> key, seq |-> accepted + 1]
                 kept == DropExpired(queue, cut) \cup {item}
             IN /\ queue' = Enqueue(queue, item, cut)
                /\ fate' = [s \in Emissions |->
                     IF s = item.seq THEN "held"
                     ELSE IF s \in Seqs(queue) \ Seqs(kept) THEN "expired"
                     ELSE IF s \in Seqs(kept) \ Seqs(queue') THEN "overflow"
                     ELSE fate[s]]
  /\ UNCHANGED <<client, connecting, timer, closing, stopped, batch, flush,
                 retried, netVars>>

Emit(key) == EmitPublished(key) \/ EmitRetained(key)

(* The timer of scheduleReconnect() fires and calls connect(). *)
TimerFire ==
  /\ timer
  /\ timer' = FALSE
  /\ IF connecting \/ connected
     THEN UNCHANGED <<connecting, stopped>>
     ELSE connecting' = TRUE /\ stopped' = FALSE
  /\ UNCHANGED <<client, connected, closing, queueVars, netVars>>

ConnectOk ==
  /\ connecting
  /\ client' = "up"
  /\ connecting' = FALSE
  /\ notices' = <<>>
  /\ DrainRetention("up")
  /\ UNCHANGED <<stopped, timer, closing, accepted, fate, delivered, retried,
                 flaps>>

(* The catch block clears `connecting` before it schedules the retry.      *)
ConnectFail ==
  /\ connecting
  /\ connected' = FALSE
  /\ connecting' = FALSE
  /\ ScheduleReconnect(FALSE, client)
  /\ UNCHANGED <<client, stopped, closing, queueVars, netVars>>

(* watchStatus() reads one status event. *)
StatusDisconnect ==
  /\ client # "none" /\ notices # <<>> /\ Head(notices) = "disconnect"
  /\ notices' = Tail(notices)
  /\ connected' = FALSE
  /\ UNCHANGED <<client, connecting, stopped, timer, closing, queueVars, wire,
                 delivered, flaps>>

(* Mutated: RECONNECT does not drain. *)
ReconnectSilently ==
  /\ client # "none" /\ notices # <<>> /\ Head(notices) = "reconnect"
  /\ notices' = Tail(notices)
  /\ connected' = TRUE
  /\ UNCHANGED <<client, connecting, stopped, timer, closing, queueVars, wire,
                 delivered, flaps>>

StatusReconnect ==
  /\ client # "none" /\ notices # <<>> /\ Head(notices) = "reconnect"
  /\ notices' = Tail(notices)
  /\ DrainRetention(client)
  /\ UNCHANGED <<client, connecting, stopped, timer, closing, accepted, fate,
                 delivered, retried, flaps>>

(* The server answers the flush after everything published before it. *)
FlushAnswered ==
  flush = "waiting" /\ client = "up" /\ Seqs(batch) \cap wire = {}

(* The flush is confirmed: the batch is counted, and the drain loop goes on *)
(* with what was queued meanwhile.                                          *)
FlushConfirmed ==
  /\ FlushAnswered
  /\ fate' = Counted(Seqs(batch), "republished")
  /\ IF connected /\ queue # {}
     THEN /\ batch' = queue
          /\ queue' = {}
          /\ wire' = wire \cup Seqs(queue)
          /\ UNCHANGED flush
     ELSE /\ batch' = {}
          /\ flush' = "idle"
          /\ UNCHANGED <<queue, wire>>
  /\ UNCHANGED <<connVars, stopped, accepted, notices, delivered, retried,
                 flaps>>

(* Mutated: the requeued batch is counted as republished. *)
FlushFailedCounted ==
  /\ flush # "idle"
  /\ queue' = RequeueFront(queue, batch)
  /\ fate' = Counted(Seqs(batch), "republished")
  /\ retried' = retried \cup Seqs(batch)
  /\ batch' = {}
  /\ flush' = "idle"
  /\ connected' = FALSE
  /\ ScheduleReconnect(connecting, client)
  /\ UNCHANGED <<client, connecting, stopped, closing, accepted, netVars>>

(* The flush is rejected, or takes more than its 2 s, be it that the link  *)
(* is slow or was lost: requeueFront(), markDisconnected().                *)
FlushFailed ==
  /\ flush # "idle"
  /\ queue' = RequeueFront(queue, batch)
  /\ fate' = Counted(Seqs(batch \ Requeueable(queue, batch)), "superseded")
  /\ retried' = retried \cup Seqs(batch)
  /\ batch' = {}
  /\ flush' = "idle"
  /\ connected' = FALSE
  /\ ScheduleReconnect(connecting, client)
  /\ UNCHANGED <<client, connecting, stopped, closing, accepted, netVars>>

(* watchClosed(): the client gave up, or disconnect() closed it. *)
WatchClosed ==
  /\ client = "closed"
  /\ client' = "none"
  /\ connected' = FALSE
  /\ notices' = <<>>
  /\ ScheduleReconnect(connecting, "none")
  /\ UNCHANGED <<connecting, stopped, closing, queueVars, wire, delivered,
                 flaps>>

(* disconnect(), called once by main()'s signal handler, up to its await. *)
Disconnect ==
  /\ ~stopped
  /\ stopped' = TRUE
  /\ timer' = FALSE
  /\ queue' = {}
  /\ fate' = Counted(Seqs(queue), "cleared")
  /\ IF client = "none"
     THEN connected' = FALSE /\ UNCHANGED <<client, closing, flush, wire>>
     ELSE /\ client' = "closed"
          /\ closing' = TRUE
          /\ wire' = {}
          /\ flush' = IF flush = "idle" THEN "idle" ELSE "broken"
          /\ UNCHANGED connected
  /\ UNCHANGED <<connecting, batch, accepted, retried, notices, delivered,
                 flaps>>

(* ... and after it. *)
DisconnectDone ==
  /\ closing /\ client \in {"closed", "none"}
  /\ closing' = FALSE
  /\ client' = "none"
  /\ notices' = <<>>
  /\ connected' = FALSE
  /\ UNCHANGED <<connecting, timer, stopped, queueVars, wire, delivered, flaps>>

-----------------------------------------------------------------------------
(* The environment: the server and the transport of the NATS client. *)
ServerTakes(s) ==
  /\ client = "up" /\ s \in wire
  /\ wire' = wire \ {s}
  /\ delivered' = [delivered EXCEPT ![s] = @ + 1]
  /\ UNCHANGED <<connVars, stopped, queueVars, notices, flaps>>

BreakFlush == flush' = IF flush = "idle" THEN "idle" ELSE "broken"

LinkDown ==
  /\ client = "up" /\ flaps < MaxFlaps
  /\ client' = "down"
  /\ flaps' = flaps + 1
  /\ notices' = Append(notices, "disconnect")
  /\ wire' \in SUBSET wire
  /\ BreakFlush
  /\ UNCHANGED <<connected, connecting, stopped, timer, closing, queue, batch,
                 accepted, fate, delivered, retried>>

(* The client's own reconnect loop succeeds; what was buffered while the   *)
(* transport was down is either sent or was reset by the redial.           *)
LinkUp ==
  /\ client = "down"
  /\ client' = "up"
  /\ notices' = Append(notices, "reconnect")
  /\ \/ UNCHANGED <<wire, flush>>
     \/ wire' = {} /\ BreakFlush
  /\ UNCHANGED <<connected, connecting, stopped, timer, closing, queue, batch,
                 accepted, fate, delivered, retried, flaps>>

(* The client gives up (for instance on a repeated authentication error).  *)
LinkClosed ==
  /\ client = "down"
  /\ client' = "closed"
  /\ wire' = {}
  /\ BreakFlush
  /\ UNCHANGED <<connected, connecting, stopped, timer, closing, queue, batch,
                 accepted, fate, notices, delivered, retried, flaps>>

Next ==
  \/ \E key \in Keys : Emit(key)
  \/ TimerFire \/ ConnectOk \/ ConnectFail
  \/ StatusDisconnect \/ StatusReconnect
  \/ FlushConfirmed \/ FlushFailed
  \/ WatchClosed \/ Disconnect \/ DisconnectDone
  \/ \E s \in Emissions : ServerTakes(s)
  \/ LinkDown \/ LinkUp \/ LinkClosed

Spec == Init /\ [][Next]_vars

(* Timers fire, promises settle and the status iterator is read: the       *)
(* JavaScript runtime is fair to every handler that is due.  Of NATS it is  *)
(* assumed that it takes what it receives, that a lost transport comes back *)
(* or is given up, and that connecting does not fail for ever.              *)
Fairness ==
  /\ WF_vars(TimerFire)
  /\ WF_vars(StatusDisconnect) /\ WF_vars(StatusReconnect)
  /\ WF_vars(FlushConfirmed) /\ WF_vars(FlushFailed)
  /\ WF_vars(WatchClosed) /\ WF_vars(DisconnectDone)
  /\ SF_vars(ConnectOk)
  /\ WF_vars(LinkUp \/ LinkClosed)
  /\ WF_vars(\E s \in Emissions : ServerTakes(s))

FairSpec == Spec /\ Fairness

-----------------------------------------------------------------------------
(* Every variable has its type. *)
TypeOK ==
  /\ client \in {"none", "up", "down", "closed"}
  /\ connected \in BOOLEAN /\ connecting \in BOOLEAN /\ stopped \in BOOLEAN
  /\ timer \in BOOLEAN /\ closing \in BOOLEAN
  /\ queue \in SUBSET Entry(accepted) /\ batch \in SUBSET Entry(accepted)
  /\ flush \in {"idle", "waiting", "broken"}
  /\ accepted \in 0 .. MaxEmits
  /\ fate \in [Emissions -> Fate!Fates]
  /\ notices \in Seq({"disconnect", "reconnect"})
  /\ wire \in SUBSET (1 .. accepted)
  /\ delivered \in [Emissions -> Nat]
  /\ retried \in SUBSET Emissions
  /\ flaps \in 0 .. MaxFlaps

(* Accounting: an accepted event is held exactly while it is in the queue  *)
(* or in the batch being flushed, never in both, so the counters of        *)
(* retentionStats() account for every event.                               *)
HeldExactly ==
  /\ {s \in Emissions : fate[s] = "held"} = Seqs(queue) \cup Seqs(batch)
  /\ Seqs(queue) \cap Seqs(batch) = {}
  /\ \A s \in Emissions : fate[s] = "none" <=> s > accepted

(* enqueue(), drain() and requeueFront() together never hold two entries   *)
(* with one key, also when a key is emitted again while its first event is *)
(* in a batch whose flush then fails.                                      *)
OneEntryPerKey ==
  \A q \in {queue, batch} : \A i, j \in q :
     i.key = j.key \/ i.seq = j.seq => i = j

(* requeueFront() may put a batch at the head: whatever was queued while    *)
(* it was being flushed is younger than all of it.                         *)
BatchBeforeQueue == \A i \in batch, j \in queue : i.seq < j.seq

(* Retained events are confirmed in the order in which they were accepted, *)
(* over failed flushes and reconnections.                                  *)
RepublishedInOrder ==
  \A s \in Emissions, i \in queue \cup batch :
     fate[s] = "republished" => s < i.seq

(* An event counted as republished did reach the server.                   *)
RepublishedReachedServer ==
  \A s \in Emissions : fate[s] = "republished" => delivered[s] > 0

(* The server sees an event twice only when a flush of it failed.          *)
CopiesOnlyAfterFailedFlush ==
  \A s \in Emissions : delivered[s] > 1 => s \in retried

(* A publisher that is not shut down and has no client is connecting or    *)
(* has the retry armed: the comment in connect() tells of the outage in    *)
(* which the in-flight guard cancelled the retry.                          *)
RetryArmed == ~stopped /\ client = "none" => timer \/ connecting

(* The strengthenings that make the invariants above inductive. *)

(* Which states of the connection go together: disconnect() leaves no retry *)
(* armed, and a client exists only outside connect().                       *)
ConnectionInv ==
  /\ timer => ~stopped /\ ~connecting /\ client = "none"
  /\ closing => stopped
  /\ connected => client # "none"
  /\ connecting => client = "none" /\ ~closing
  /\ RetryArmed

(* `draining` is set exactly while there is a batch. *)
DrainInv == flush = "idle" <=> batch = {}

(* A flush that may still be confirmed lost nothing of its batch. *)
FlushInv ==
  flush = "waiting" =>
    \A s \in Seqs(batch) : s \in wire \/ delivered[s] > 0

(* An event no flush of which failed has been sent at most once, and not   *)
(* at all while it waits in the queue.                                     *)
CopyInv ==
  \A s \in Emissions \ retried :
    /\ delivered[s] <= 1
    /\ s \in wire => delivered[s] = 0
    /\ s \in Seqs(queue) \/ s > accepted => delivered[s] = 0 /\ s \notin wire

(* The publisher implements the abstract life of an event. *)
FateSpec == Fate!Spec

(* A drain gave up on a client that has its link, or did not see in time   *)
(* that it has it back: no status will follow, so nothing sets `connected`. *)
Stuck == client = "up" /\ ~connected /\ notices = <<>>

(* An event that is held is eventually settled, unless the publisher is    *)
(* shut down or Stuck (see the README, section 5): outages, failing        *)
(* connects, hung flushes and clients that give up do not lose the drain.  *)
HeldIsSettled ==
  \A s \in Emissions : fate[s] = "held" ~> fate[s] # "held" \/ stopped \/ Stuck

(* What the retainer, the batch in hand and the counters say of an event   *)
(* agrees at every step: it is held exactly while it is unsettled, once    *)
(* per key, goes out again in the order it was accepted, is counted as     *)
(* republished when the server has it, and twice there only after a flush  *)
(* that failed; and a publisher that is not stopped keeps a retry armed.   *)
PublisherInv ==
  /\ TypeOK /\ RetryArmed /\ HeldExactly /\ OneEntryPerKey
  /\ RepublishedInOrder /\ RepublishedReachedServer /\ CopiesOnlyAfterFailedFlush
=============================================================================
