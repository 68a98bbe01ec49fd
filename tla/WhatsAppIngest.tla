---------------------------- MODULE WhatsAppIngest ----------------------------
(***************************************************************************)
(* From a message WhatsApp delivers to those who hear of it: the event     *)
(* handlers of connectors/whatsapp-web/src/baileys-client.ts store it and  *)
(* emit it once, mcp-server's ingestion stores what it hears in the same *)
(* table, and the Synapse bridge forwards it to the gateway.               *)
(*                                                                         *)
(* A handler works through the messages of one delivery, and the handlers  *)
(* of several deliveries interleave at their awaits.  The same message may *)
(* come live, live again (after a reconnect) and in a history sync.        *)
(***************************************************************************)
EXTENDS Naturals, Sequences

CONSTANTS Msgs,
          Audio,        \* those that are voice notes
          Mine,         \* those the account itself has sent
          Handlers,     \* the deliveries
          None,
          MaxAttempts,  \* GatewayClient.maxAttempts
          MaxAuth,      \* GatewayClient.maxAuthAttempts
          MaxFaults,    \* bound: queries that fail, events republished
          MaxRestarts   \* bound: restarts of the connector and the bridge

ASSUME IngestAssumption ==
  /\ Audio \subseteq Msgs /\ Mine \subseteq Msgs /\ None \notin Msgs \cup {"in", "out"}
  /\ MaxAttempts \in Nat \ {0} /\ MaxAuth \in Nat \ {0}
  /\ MaxFaults \in Nat /\ MaxRestarts \in Nat

VARIABLES
  live,        \* the handlers of a live delivery, not of a history sync
  todo,        \* of each handler: the messages left, the one in hand first
  step,        \* "idle", "begin", "store", "upload", "emit", "done"
  rows,        \* direction of each message's row, or None
  emitted,     \* 'message' events of each message
  missed,      \* messages that failed, or were first stored, without an event
  toServer,    \* copies of each event on their way to mcp-server
  toBridge,    \* and to the bridge
  own,         \* the bridge knows its account's JID
  seen,        \* the bridge's DedupCache
  current,     \* the message the bridge is forwarding, or None
  attempt,     \* its attempts so far
  auth,        \* of which 401
  forwards,    \* forwards begun of each message
  faults, restarts

handler == <<live, todo, step, missed>>
wire == <<toServer, toBridge>>
bridge == <<own, seen, current, attempt, auth, forwards>>
bounds == <<faults, restarts>>
vars == <<handler, rows, emitted, wire, bridge, bounds>>

Zero == [m \in Msgs |-> 0]

Init ==
  /\ live = {} /\ todo = [h \in Handlers |-> <<>>] /\ step = [h \in Handlers |-> "idle"]
  /\ rows = [m \in Msgs |-> None] /\ emitted = Zero /\ missed = {}
  /\ toServer = Zero /\ toBridge = Zero
  /\ own = FALSE /\ seen = {} /\ current = None /\ attempt = 0 /\ auth = 0
  /\ forwards = Zero /\ faults = 0 /\ restarts = 0

Fault == faults < MaxFaults /\ faults' = faults + 1 /\ UNCHANGED restarts

InHand(h, m) == \E i \in 1 .. Len(todo[h]) : todo[h][i] = m

Direction(m) == IF m \in Mine THEN "out" ELSE "in"

-----------------------------------------------------------------------------
(* The handlers.                                                           *)

(* messages.upsert, or messaging-history.set *)
Delivered(h, list) ==
  /\ step[h] = "idle"
  /\ live' \in {live, live \cup {h}}
  /\ todo' = [todo EXCEPT ![h] = list]
  /\ step' = [step EXCEPT ![h] = "begin"]
  /\ UNCHANGED <<rows, emitted, missed, wire, bridge, bounds>>

(* The handler is done with the message in hand. *)
NextMessage(h) ==
  /\ todo' = [todo EXCEPT ![h] = Tail(@)]
  /\ step' = [step EXCEPT ![h] = IF Len(todo[h]) = 1 THEN "done" ELSE "begin"]

Misses(h) == missed' = missed \cup {Head(todo[h])}

(* NATS delivers an event to each subscriber at most once. *)
Publish(m) ==
  \E x, y \in {0, 1} :
    /\ toServer' = [toServer EXCEPT ![m] = @ + x]
    /\ toBridge' = [toBridge EXCEPT ![m] = @ + y]

(* ensureConversation() and ensureParticipant() *)
Ensured(h) ==
  /\ step[h] = "begin"
  /\ step' = [step EXCEPT ![h] = "store"]
  /\ UNCHANGED <<live, todo, missed, rows, emitted, wire, bridge, bounds>>

(* One of them throws: the handler logs it and takes the next message. *)
EnsureFails(h) ==
  /\ step[h] = "begin" /\ Fault
  /\ NextMessage(h) /\ Misses(h)
  /\ UNCHANGED <<live, rows, emitted, wire, bridge>>

(* Mutated: a message that had its row goes on as a new one. *)
InsertedOrNot(m) == TRUE

(* storeMessage() has made the row: ON CONFLICT DO NOTHING. *)
Inserted(m) == rows[m] = None

(* Only a live message that is new goes on to its event; a voice note's    *)
(* waits for the upload first.                                             *)
Store(h) ==
  LET m == Head(todo[h]) IN
  /\ step[h] = "store"
  /\ rows' = [rows EXCEPT ![m] = IF @ = None THEN Direction(m) ELSE @]
  /\ IF h \in live /\ Inserted(m)
     THEN /\ step' = [step EXCEPT ![h] = IF m \in Audio THEN "upload" ELSE "emit"]
          /\ UNCHANGED <<todo, missed>>
     ELSE NextMessage(h) /\ IF Inserted(m) THEN Misses(h) ELSE UNCHANGED missed
  /\ UNCHANGED <<live, emitted, wire, bridge, bounds>>

(* A failed insert returns null, as a duplicate does. *)
StoreFails(h) ==
  /\ step[h] = "store" /\ Fault
  /\ NextMessage(h) /\ Misses(h)
  /\ UNCHANGED <<live, rows, emitted, wire, bridge>>

(* buildAudioAttachmentsBeforeEmit(): the upload and the presigned URL, or *)
(* their failure; the event goes out in either case.                       *)
Uploaded(h) ==
  /\ step[h] = "upload"
  /\ step' = [step EXCEPT ![h] = "emit"]
  /\ UNCHANGED <<live, todo, missed, rows, emitted, wire, bridge, bounds>>

(* Mutated: the wait for the upload is not bounded. *)
WaitsOn(h) == FALSE /\ UNCHANGED vars

(* An upload that hangs is waited for no longer than the timeout. *)
UploadTimeout(h) ==
  /\ step[h] = "upload"
  /\ step' = [step EXCEPT ![h] = "emit"]
  /\ UNCHANGED <<live, todo, missed, rows, emitted, wire, bridge, bounds>>

Emit(h) ==
  LET m == Head(todo[h]) IN
  /\ step[h] = "emit"
  /\ emitted' = [emitted EXCEPT ![m] = @ + 1]
  /\ Publish(m) /\ NextMessage(h)
  /\ UNCHANGED <<live, missed, rows, bridge, bounds>>

(* The publisher's drain sends an event again after a flush that failed. *)
Republished(m) ==
  /\ emitted[m] > 0 /\ Fault
  /\ Publish(m)
  /\ UNCHANGED <<handler, rows, emitted, bridge>>

(* The connector restarts: its handlers are gone. *)
ConnectorRestarts ==
  /\ restarts < MaxRestarts /\ restarts' = restarts + 1
  /\ missed' = missed \cup {m \in Msgs : \E h \in Handlers : InHand(h, m)}
  /\ todo' = [h \in Handlers |-> <<>>]
  /\ step' = [h \in Handlers |-> IF step[h] = "idle" THEN "idle" ELSE "done"]
  /\ UNCHANGED <<live, rows, emitted, wire, bridge, faults>>

-----------------------------------------------------------------------------
(* handleMessageReceived() of mcp-server: every message it hears of is     *)
(* saved as an inbound one, unless it has its row.                         *)
ServerIngests(m) ==
  /\ toServer[m] > 0 /\ toServer' = [toServer EXCEPT ![m] = @ - 1]
  /\ rows' = [rows EXCEPT ![m] = IF @ = None THEN "in" ELSE @]
  /\ UNCHANGED <<handler, emitted, toBridge, bridge, bounds>>

-----------------------------------------------------------------------------
(* The bridge, one event at a time.                                        *)

(* DedupCache.has(), which records what it had not seen. *)
Duplicate(m) == m \in seen

(* handle(): without the own JID, asked for until /me has answered once,   *)
(* everything is dropped, before the filter looks for a duplicate.         *)
BridgeTakes(m) ==
  /\ current = None /\ toBridge[m] > 0
  /\ toBridge' = [toBridge EXCEPT ![m] = @ - 1]
  /\ \/ own' = TRUE /\ UNCHANGED bounds
     \/ ~own /\ own' = FALSE /\ Fault
  /\ seen' = IF own' THEN seen \cup {m} ELSE seen
  /\ IF own' /\ ~Duplicate(m)
     THEN /\ current' = m
          /\ forwards' = [forwards EXCEPT ![m] = @ + 1]
     ELSE UNCHANGED <<current, forwards>>
  /\ UNCHANGED <<handler, rows, emitted, toServer, attempt, auth>>

ForwardEnds == current' = None /\ attempt' = 0 /\ auth' = 0

(* The next attempt of the loop, or the budget is exhausted. *)
Retry ==
  IF attempt + 1 < MaxAttempts
  THEN attempt' = attempt + 1 /\ UNCHANGED current
  ELSE attempt' = 0 /\ current' = None

(* GatewayClient.forward(): delivered or refused for good, a 401 once more *)
(* or once too many, or an error worth a retry.                            *)
Post ==
  /\ current # None
  /\ \/ ForwardEnds
     \/ auth + 1 < MaxAuth /\ Retry
        /\ auth' = IF current' = None THEN 0 ELSE auth + 1
     \/ Retry /\ auth' = IF current' = None THEN 0 ELSE auth
  /\ UNCHANGED <<handler, rows, emitted, wire, own, seen, forwards, bounds>>

BridgeRestarts ==
  /\ restarts < MaxRestarts /\ restarts' = restarts + 1
  /\ own' = FALSE /\ seen' = {} /\ ForwardEnds
  /\ UNCHANGED <<handler, rows, emitted, wire, forwards, faults>>

-----------------------------------------------------------------------------
(* The messages of a delivery, each once. *)
Deliveries == {<<m>> : m \in Msgs} \cup {p \in Msgs \X Msgs : p[1] # p[2]}

(* What a handler does next, an upload that may hang apart. *)
HandlerSteps(h) ==
  Ensured(h) \/ EnsureFails(h) \/ Store(h) \/ StoreFails(h)
    \/ UploadTimeout(h) \/ Emit(h)

Next ==
  \/ \E h \in Handlers :
       \/ \E list \in Deliveries : Delivered(h, list)
       \/ HandlerSteps(h) \/ Uploaded(h)
  \/ \E m \in Msgs : Republished(m) \/ ServerIngests(m) \/ BridgeTakes(m)
  \/ Post \/ ConnectorRestarts \/ BridgeRestarts

Spec == Init /\ [][Next]_vars

(* Handlers go on after their awaits, timers fire, requests end. *)
Fairness ==
  /\ \A h \in Handlers : WF_vars(HandlerSteps(h))
  /\ WF_vars(Post)

FairSpec == Spec /\ Fairness

-----------------------------------------------------------------------------
(* Every variable has its type; a handler in the midst of a delivery has a *)
(* message in hand, and the bridge's cache holds what it was sent.         *)
IngestTypeOK ==
  /\ live \subseteq Handlers /\ missed \subseteq Msgs /\ seen \subseteq Msgs
  /\ step \in [Handlers -> {"idle", "begin", "store", "upload", "emit", "done"}]
  /\ \A h \in Handlers : step[h] \notin {"idle", "done"} => todo[h] # <<>>
  /\ rows \in [Msgs -> {None, "in", "out"}]
  /\ {emitted, toServer, toBridge, forwards} \subseteq [Msgs -> Nat]
  /\ current \in Msgs \cup {None} /\ {attempt, auth, faults, restarts} \subseteq Nat

(* However its deliveries interleave, a message has at most one event: the *)
(* handler whose insert made the row emits it, and no other.               *)
EmittedOnce == \A m \in Msgs : emitted[m] <= 1

(* mcp-server files everything it hears as inbound, and both write the     *)
(* same table: the row of a message the account sent still says so.        *)
DirectionKept == \A m \in Msgs : rows[m] \in {None, Direction(m)}

(* An event republished or delivered twice is forwarded to the gateway     *)
(* once: "a re-published operator reply must not double-count as two team  *)
(* touches" (filter.ts:154-156), short of a restart of the bridge.         *)
ForwardedOnce == \A m \in Msgs : forwards[m] <= 1 + restarts

(* A message a live handler has in hand has its event in the end, unless   *)
(* another delivery stored it (a history sync first: without an event), a  *)
(* query failed or the connector died.  An upload that hangs, of this      *)
(* message or an earlier one of the delivery, does not keep it.            *)
HeardIsEmitted ==
  \A h \in Handlers, m \in Msgs :
    h \in live /\ InHand(h, m) /\ rows[m] = None
      ~> emitted[m] > 0 \/ m \in missed

(* Types; one event and one forward of a message, and its row keeps its    *)
(* direction.                                                              *)
IngestInv == IngestTypeOK /\ EmittedOnce /\ DirectionKept /\ ForwardedOnce
=============================================================================
