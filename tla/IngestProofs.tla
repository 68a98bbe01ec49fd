----------------------------- MODULE IngestProofs -----------------------------
(***************************************************************************)
(* IngestInv, IgIngestInv and BridgeInv for every number of messages,      *)
(* handlers, copies, connections and events: the ingestion of WhatsApp and *)
(* of Instagram messages, and the process of the Synapse bridge.           *)
(***************************************************************************)
EXTENDS WhatsAppIngest, InstagramIngest, SynapseBridge, FiniteSetTheorems,
        WellFoundedInduction, SequenceTheorems, TLAPS

(***************************************************************************)
(* WhatsAppIngest: the types.                                              *)
(***************************************************************************)
Steps == {"idle", "begin", "store", "upload", "emit", "done"}

(* A handler that is neither idle nor done has a message in hand. *)
HandlerTypes ==
  /\ live \subseteq Handlers /\ missed \subseteq Msgs
  /\ step \in [Handlers -> Steps] /\ todo \in [Handlers -> Seq(Msgs)]
  /\ \A h \in Handlers : step[h] \notin {"idle", "done"} => todo[h] # <<>>

Counters ==
  /\ emitted \in [Msgs -> Nat] /\ toServer \in [Msgs -> Nat]
  /\ toBridge \in [Msgs -> Nat] /\ forwards \in [Msgs -> Nat]
  /\ rows \in [Msgs -> {None, "in", "out"}]

BridgeSide ==
  /\ seen \subseteq Msgs /\ current \in Msgs \cup {None}
  /\ attempt \in Nat /\ auth \in Nat /\ faults \in Nat /\ restarts \in Nat

(* A handler done with its message goes on to the next one or ends. *)
LEMMA NextMessageKeeps ==
  ASSUME HandlerTypes, NEW h \in Handlers, todo[h] # <<>>, NextMessage(h)
  PROVE  /\ step' \in [Handlers -> Steps] /\ todo' \in [Handlers -> Seq(Msgs)]
         /\ \A g \in Handlers : step'[g] \notin {"idle", "done"} => todo'[g] # <<>>
         /\ step'[h] \in {"begin", "done"}
         /\ \A g \in Handlers : g # h => step'[g] = step[g] /\ todo'[g] = todo[g]
<1>1. /\ Tail(todo[h]) \in Seq(Msgs) /\ Len(Tail(todo[h])) = Len(todo[h]) - 1
      /\ Len(todo[h]) \in Nat \ {0}
  BY HeadTailProperties, EmptySeq DEF HandlerTypes
<1>2. todo' \in [Handlers -> Seq(Msgs)] /\ todo'[h] = Tail(todo[h])
      /\ \A g \in Handlers : g # h => todo'[g] = todo[g]
  BY <1>1 DEF NextMessage, HandlerTypes
<1>3. step' \in [Handlers -> Steps] /\ step'[h] = (IF Len(todo[h]) = 1 THEN "done" ELSE "begin")
      /\ \A g \in Handlers : g # h => step'[g] = step[g]
  BY DEF NextMessage, HandlerTypes, Steps
<1>4. Len(todo[h]) # 1 => todo'[h] # <<>>
  <2>1. Len(todo[h]) # 1 => Len(todo'[h]) # 0
    BY <1>1, <1>2
  <2>2. QED
    BY <2>1, EmptySeq
<1>5. QED
  BY <1>2, <1>3, <1>4 DEF HandlerTypes

LEMMA InHandIsMessage ==
  ASSUME HandlerTypes, NEW h \in Handlers, step[h] \notin {"idle", "done"}
  PROVE  todo[h] # <<>> /\ Head(todo[h]) \in Msgs
BY HeadTailProperties DEF HandlerTypes

LEMMA DeliveriesAreSequences ==
  ASSUME NEW list \in Deliveries
  PROVE  list \in Seq(Msgs) /\ list # <<>>
<1>1. CASE \E m \in Msgs : list = <<m>>
  BY <1>1
<1>2. CASE list \in Msgs \X Msgs
  <2>1. PICK m \in Msgs, n \in Msgs : list = <<m, n>>
    BY <1>2
  <2>2. QED
    BY <2>1
<1>3. QED
  BY <1>1, <1>2 DEF Deliveries

LEMMA HandlerTypesStep ==
  ASSUME HandlerTypes, [Next]_vars
  PROVE  HandlerTypes'
<1>0. CASE UNCHANGED handler
  BY <1>0 DEF handler, HandlerTypes
<1>1. ASSUME NEW h \in Handlers, NEW list \in Deliveries, Delivered(h, list) PROVE HandlerTypes'
  BY <1>1, DeliveriesAreSequences DEF Delivered, HandlerTypes, Steps
<1>2. ASSUME NEW h \in Handlers, Ensured(h) PROVE HandlerTypes'
  BY <1>2 DEF Ensured, HandlerTypes, Steps
<1>3. ASSUME NEW h \in Handlers, EnsureFails(h) PROVE HandlerTypes'
  BY <1>3, NextMessageKeeps, InHandIsMessage DEF EnsureFails, Misses, HandlerTypes
<1>4. ASSUME NEW h \in Handlers, Store(h) PROVE HandlerTypes'
  <2>1. step[h] = "store" /\ UNCHANGED live
    BY <1>4 DEF Store
  <2>2. CASE h \in live /\ Inserted(Head(todo[h]))
    BY <1>4, <2>1, <2>2 DEF Store, HandlerTypes, Steps
  <2>3. CASE ~(h \in live /\ Inserted(Head(todo[h])))
    <3>1. NextMessage(h) /\ missed' \in {missed, missed \cup {Head(todo[h])}}
      BY <1>4, <2>3 DEF Store, Misses
    <3>2. QED
      BY <2>1, <3>1, NextMessageKeeps, InHandIsMessage DEF HandlerTypes
  <2>4. QED
    BY <2>2, <2>3
<1>5. ASSUME NEW h \in Handlers, StoreFails(h) PROVE HandlerTypes'
  BY <1>5, NextMessageKeeps, InHandIsMessage DEF StoreFails, Misses, HandlerTypes
<1>6. ASSUME NEW h \in Handlers, UploadTimeout(h) \/ Uploaded(h) PROVE HandlerTypes'
  BY <1>6 DEF UploadTimeout, Uploaded, HandlerTypes, Steps
<1>7. ASSUME NEW h \in Handlers, Emit(h) PROVE HandlerTypes'
  BY <1>7, NextMessageKeeps, InHandIsMessage DEF Emit, HandlerTypes
<1>8. CASE ConnectorRestarts
  BY <1>8, EmptySeq DEF ConnectorRestarts, HandlerTypes, Steps
<1>9. CASE \/ \E m \in Msgs : Republished(m) \/ ServerIngests(m) \/ BridgeTakes(m)
           \/ Post \/ BridgeRestarts
  BY <1>0, <1>9 DEF Republished, ServerIngests, BridgeTakes, Post, BridgeRestarts
<1>10. CASE UNCHANGED vars
  BY <1>0, <1>10 DEF vars
<1>11. QED
  BY <1>1, <1>2, <1>3, <1>4, <1>5, <1>6, <1>7, <1>8, <1>9, <1>10 DEF Next, HandlerSteps

(* An attempt budget and the counters stay numbers. *)
LEMMA BridgeSideStep ==
  ASSUME BridgeSide, HandlerTypes, Counters, [Next]_vars
  PROVE  BridgeSide'
<1> USE IngestAssumption DEF BridgeSide
<1>1. CASE UNCHANGED <<seen, current, attempt, auth>> /\ faults' \in {faults, faults + 1}
           /\ restarts' \in {restarts, restarts + 1}
  BY <1>1
<1>2. ASSUME NEW m \in Msgs, BridgeTakes(m) PROVE BridgeSide'
  <2>1. /\ faults' \in {faults, faults + 1} /\ UNCHANGED <<restarts, attempt, auth>>
        /\ current' \in {m, current} /\ seen' \in {seen, seen \cup {m}}
    BY <1>2 DEF BridgeTakes, Fault, bounds
  <2>2. QED
    BY <2>1
<1>3. CASE Post
  <2>1. UNCHANGED <<seen, faults, restarts>> /\ current' \in {current, None}
        /\ attempt' \in {0, attempt + 1} /\ auth' \in {0, auth, auth + 1}
    BY <1>3 DEF Post, ForwardEnds, Retry, bounds
  <2>2. QED
    BY <2>1
<1>4. CASE BridgeRestarts
  BY <1>4 DEF BridgeRestarts, ForwardEnds
<1>5. CASE ConnectorRestarts
  BY <1>1, <1>5 DEF ConnectorRestarts, bridge
<1>6. CASE \E m \in Msgs : Republished(m) \/ ServerIngests(m)
  BY <1>1, <1>6 DEF Republished, ServerIngests, Fault, bridge, bounds
<1>7. ASSUME NEW h \in Handlers,
             \/ \E list \in Deliveries : Delivered(h, list)
             \/ HandlerSteps(h) \/ Uploaded(h)
      PROVE  BridgeSide'
  BY <1>1, <1>7 DEF Delivered, HandlerSteps, Ensured, EnsureFails, Store, StoreFails,
                    UploadTimeout, Uploaded, Emit, Fault, bridge, bounds
<1>8. CASE UNCHANGED vars
  BY <1>1, <1>8 DEF vars, bridge, bounds
<1>9. QED
  BY <1>2, <1>3, <1>4, <1>5, <1>6, <1>7, <1>8 DEF Next

LEMMA CountersStep ==
  ASSUME HandlerTypes, Counters, [Next]_vars
  PROVE  Counters'
<1> USE DEF Counters
<1>1. CASE UNCHANGED <<emitted, toServer, toBridge, forwards, rows>>
  BY <1>1
<1>2. ASSUME NEW h \in Handlers, Store(h) PROVE Counters'
  BY <1>2 DEF Store, Direction, wire, bridge
<1>3. ASSUME NEW h \in Handlers, Emit(h) PROVE Counters'
  <2>1. Head(todo[h]) \in Msgs
    BY <1>3, InHandIsMessage DEF Emit
  <2>2. PICK x \in {0, 1}, y \in {0, 1} :
          /\ toServer' = [toServer EXCEPT ![Head(todo[h])] = @ + x]
          /\ toBridge' = [toBridge EXCEPT ![Head(todo[h])] = @ + y]
    BY <1>3 DEF Emit, Publish
  <2>3. QED
    BY <1>3, <2>1, <2>2 DEF Emit, bridge
<1>4. ASSUME NEW m \in Msgs, Republished(m) PROVE Counters'
  BY <1>4 DEF Republished, Publish, bridge
<1>5. ASSUME NEW m \in Msgs, ServerIngests(m) PROVE Counters'
  BY <1>5 DEF ServerIngests, bridge
<1>6. ASSUME NEW m \in Msgs, BridgeTakes(m) PROVE Counters'
  BY <1>6 DEF BridgeTakes
<1>7. CASE Post \/ ConnectorRestarts \/ BridgeRestarts \/ UNCHANGED vars
  BY <1>1, <1>7 DEF Post, ConnectorRestarts, BridgeRestarts, vars, wire, bridge
<1>8. ASSUME NEW h \in Handlers,
             \/ \E list \in Deliveries : Delivered(h, list)
             \/ Ensured(h) \/ EnsureFails(h) \/ StoreFails(h) \/ UploadTimeout(h) \/ Uploaded(h)
      PROVE  Counters'
  BY <1>1, <1>8 DEF Delivered, Ensured, EnsureFails, StoreFails, UploadTimeout, Uploaded,
                    wire, bridge
<1>9. QED
  BY <1>2, <1>3, <1>4, <1>5, <1>6, <1>7, <1>8 DEF Next, HandlerSteps

-----------------------------------------------------------------------------
(* What makes one event of a message.  Who waits to emit it is the one     *)
(* that made its row, so that no event of it is out yet; and whoever hears *)
(* of a message finds its row.                                             *)
Awaits(h) == step[h] \in {"upload", "emit"}

OneEmitter ==
  /\ \A m \in Msgs : emitted[m] <= 1
  /\ \A m \in Msgs : emitted[m] > 0 => rows[m] # None
  /\ \A m \in Msgs : toServer[m] > 0 => emitted[m] > 0
  /\ \A h \in Handlers :
       Awaits(h) => emitted[Head(todo[h])] = 0 /\ rows[Head(todo[h])] # None
  /\ \A h, g \in Handlers :
       Awaits(h) /\ Awaits(g) /\ Head(todo[h]) = Head(todo[g]) => h = g

(* A step that leaves the heads of those who wait, or ends their wait.     *)
LEMMA OneEmitterKept ==
  ASSUME OneEmitter, UNCHANGED <<emitted, toServer>>,
         \A m \in Msgs : rows[m] # None => rows'[m] # None,
         \A h \in Handlers : Awaits(h)' => Awaits(h) /\ Head(todo'[h]) = Head(todo[h]),
         HandlerTypes
  PROVE  OneEmitter'
<1>1. \A h \in Handlers : Awaits(h) => Head(todo[h]) \in Msgs
  BY InHandIsMessage DEF Awaits
<1>2. QED
  BY <1>1 DEF OneEmitter

LEMMA OneEmitterStep ==
  ASSUME OneEmitter, HandlerTypes, HandlerTypes', Counters, [Next]_vars
  PROVE  OneEmitter'
<1> USE IngestAssumption
<1>0. CASE UNCHANGED <<todo, step, emitted, toServer, rows>>
  BY <1>0, OneEmitterKept DEF Awaits
<1>1. ASSUME NEW h \in Handlers, NEW list \in Deliveries, Delivered(h, list)
      PROVE  OneEmitter'
  <2>1. UNCHANGED <<rows, emitted, toServer>> /\ step'[h] = "begin"
        /\ \A g \in Handlers : g # h => step'[g] = step[g] /\ todo'[g] = todo[g]
    BY <1>1 DEF Delivered, wire, HandlerTypes
  <2>2. QED
    BY <2>1, OneEmitterKept DEF Awaits
<1>2. ASSUME NEW h \in Handlers, Ensured(h) PROVE OneEmitter'
  <2>1. UNCHANGED <<rows, emitted, toServer, todo>> /\ step'[h] = "store"
        /\ \A g \in Handlers : g # h => step'[g] = step[g]
    BY <1>2 DEF Ensured, wire, HandlerTypes
  <2>2. QED
    BY <2>1, OneEmitterKept DEF Awaits
<1>3. ASSUME NEW h \in Handlers, EnsureFails(h) \/ StoreFails(h) PROVE OneEmitter'
  <2>1. UNCHANGED <<rows, emitted, toServer>> /\ NextMessage(h) /\ todo[h] # <<>>
    BY <1>3, InHandIsMessage DEF EnsureFails, StoreFails, wire
  <2>2. QED
    BY <2>1, OneEmitterKept, NextMessageKeeps DEF Awaits
<1>4. ASSUME NEW h \in Handlers, Store(h) PROVE OneEmitter'
  <2> DEFINE m == Head(todo[h])
  <2>1. /\ step[h] = "store" /\ UNCHANGED <<emitted, toServer>> /\ m \in Msgs
        /\ rows' = [rows EXCEPT ![m] = IF @ = None THEN Direction(m) ELSE @]
        /\ todo[h] # <<>>
    BY <1>4, InHandIsMessage DEF Store, wire
  <2>2. /\ rows'[m] # None
        /\ \A n \in Msgs : rows[n] # None => rows'[n] # None
    BY <2>1 DEF Counters, Direction
  <2>3. CASE h \in live /\ Inserted(m)
    <3>1. /\ UNCHANGED todo /\ \A g \in Handlers : g # h => step'[g] = step[g]
      BY <1>4, <2>3 DEF Store, HandlerTypes
    <3>2. emitted[m] = 0 /\ \A g \in Handlers : Awaits(g) => Head(todo[g]) # m
      BY <2>1, <2>3 DEF OneEmitter, Inserted, Counters
    <3>3. \A g \in Handlers : Awaits(g)' =>
            IF g = h THEN TRUE ELSE Awaits(g) /\ Head(todo[g]) \in Msgs
      BY <3>1, InHandIsMessage DEF Awaits
    <3>4. QED
      BY <2>1, <2>2, <3>1, <3>2, <3>3 DEF OneEmitter
  <2>4. CASE ~(h \in live /\ Inserted(m))
    <3>1. NextMessage(h)
      BY <1>4, <2>4 DEF Store
    <3>2. QED
      BY <2>1, <2>2, <3>1, OneEmitterKept, NextMessageKeeps DEF Awaits
  <2>5. QED
    BY <2>3, <2>4
<1>5. ASSUME NEW h \in Handlers, UploadTimeout(h) \/ Uploaded(h) PROVE OneEmitter'
  <2>1. /\ UNCHANGED <<rows, emitted, toServer, todo>> /\ Awaits(h)
        /\ \A g \in Handlers : g # h => step'[g] = step[g]
    BY <1>5 DEF UploadTimeout, Uploaded, wire, HandlerTypes, Awaits
  <2>2. QED
    BY <2>1, OneEmitterKept DEF Awaits
<1>6. ASSUME NEW h \in Handlers, Emit(h) PROVE OneEmitter'
  <2> DEFINE m == Head(todo[h])
  <2>1. /\ step[h] = "emit" /\ m \in Msgs /\ todo[h] # <<>> /\ NextMessage(h)
        /\ emitted' = [emitted EXCEPT ![m] = @ + 1] /\ UNCHANGED rows
    BY <1>6, InHandIsMessage DEF Emit
  <2>2. PICK x \in {0, 1}, y \in {0, 1} :
          /\ toServer' = [toServer EXCEPT ![m] = @ + x]
          /\ toBridge' = [toBridge EXCEPT ![m] = @ + y]
    BY <1>6 DEF Emit, Publish
  <2>3. emitted[m] = 0 /\ rows[m] # None /\ Awaits(h)
    BY <2>1 DEF OneEmitter, Awaits
  <2>4. emitted'[m] = 1 /\ \A n \in Msgs : n # m => emitted'[n] = emitted[n] /\ toServer'[n] = toServer[n]
    BY <2>1, <2>2, <2>3 DEF Counters
  <2>5. \A g \in Handlers : Awaits(g)' =>
          Awaits(g) /\ g # h /\ todo'[g] = todo[g] /\ Head(todo[g]) \in Msgs
    BY <2>1, NextMessageKeeps, InHandIsMessage DEF Awaits
  <2>6. \A g \in Handlers : Awaits(g)' => Head(todo[g]) # m
    BY <2>3, <2>5 DEF OneEmitter
  <2>7. QED
    BY <2>1, <2>3, <2>4, <2>5, <2>6 DEF OneEmitter
<1>7. ASSUME NEW m \in Msgs, Republished(m) PROVE OneEmitter'
  <2>1. UNCHANGED <<rows, emitted, todo, step>> /\ emitted[m] > 0
    BY <1>7 DEF Republished, handler
  <2>2. PICK x \in {0, 1}, y \in {0, 1} :
          /\ toServer' = [toServer EXCEPT ![m] = @ + x]
          /\ toBridge' = [toBridge EXCEPT ![m] = @ + y]
    BY <1>7 DEF Republished, Publish
  <2>3. \A n \in Msgs : n # m => toServer'[n] = toServer[n]
    BY <2>2 DEF Counters
  <2>4. QED
    BY <2>1, <2>3 DEF OneEmitter, Awaits
<1>8. ASSUME NEW m \in Msgs, ServerIngests(m) PROVE OneEmitter'
  <2>1. /\ UNCHANGED <<emitted, todo, step>>
        /\ rows' = [rows EXCEPT ![m] = IF @ = None THEN "in" ELSE @]
        /\ toServer[m] > 0 /\ toServer' = [toServer EXCEPT ![m] = @ - 1]
    BY <1>8 DEF ServerIngests, handler
  <2>2. /\ \A n \in Msgs : rows[n] # None => rows'[n] # None
        /\ \A n \in Msgs : toServer'[n] > 0 => toServer[n] > 0
    BY <2>1 DEF Counters
  <2>3. \A h \in Handlers : Awaits(h) => Head(todo[h]) \in Msgs
    BY InHandIsMessage DEF Awaits
  <2>4. QED
    BY <2>1, <2>2, <2>3 DEF OneEmitter, Awaits
<1>9. CASE ConnectorRestarts
  <2>1. UNCHANGED <<rows, emitted, toServer>> /\ \A h \in Handlers : ~Awaits(h)'
    BY <1>9 DEF ConnectorRestarts, wire, Awaits
  <2>2. QED
    BY <2>1, OneEmitterKept
<1>10. CASE (\E m \in Msgs : BridgeTakes(m)) \/ Post \/ BridgeRestarts \/ UNCHANGED vars
  BY <1>0, <1>10 DEF BridgeTakes, Post, BridgeRestarts, vars, handler, wire
<1>11. QED
  BY <1>1, <1>2, <1>3, <1>4, <1>5, <1>6, <1>7, <1>8, <1>9, <1>10 DEF Next, HandlerSteps

(* The bridge begins a second forward of a message only when a restart has *)
(* emptied its cache.                                                      *)
ForwardBound ==
  \A m \in Msgs : forwards[m] <= 1 + restarts /\ (m \notin seen => forwards[m] <= restarts)

LEMMA ForwardBoundStep ==
  ASSUME ForwardBound, Counters, BridgeSide, [Next]_vars
  PROVE  ForwardBound'
<1> USE DEF ForwardBound, Counters, BridgeSide
<1>0. CASE UNCHANGED <<seen, forwards>> /\ restarts' \in {restarts, restarts + 1}
  BY <1>0
<1>1. ASSUME NEW m \in Msgs, BridgeTakes(m) PROVE ForwardBound'
  <2>1. UNCHANGED restarts /\ seen' \in {seen, seen \cup {m}}
    BY <1>1 DEF BridgeTakes, Fault, bounds
  <2>2. CASE own' /\ ~Duplicate(m)
    <3>1. m \notin seen /\ seen' = seen \cup {m} /\ forwards' = [forwards EXCEPT ![m] = @ + 1]
      BY <1>1, <2>2 DEF BridgeTakes, Duplicate
    <3>2. QED
      BY <2>1, <3>1
  <2>3. CASE ~(own' /\ ~Duplicate(m))
    <3>1. UNCHANGED forwards
      BY <1>1, <2>3 DEF BridgeTakes
    <3>2. QED
      BY <2>1, <3>1
  <2>4. QED
    BY <2>2, <2>3
<1>2. CASE BridgeRestarts
  BY <1>2 DEF BridgeRestarts
<1>3. CASE Post \/ ConnectorRestarts \/ UNCHANGED vars
  BY <1>0, <1>3 DEF Post, ConnectorRestarts, vars, bridge, bounds
<1>4. ASSUME NEW m \in Msgs, Republished(m) \/ ServerIngests(m) PROVE ForwardBound'
  BY <1>0, <1>4 DEF Republished, ServerIngests, Fault, bridge, bounds
<1>5. ASSUME NEW h \in Handlers,
             \/ \E list \in Deliveries : Delivered(h, list)
             \/ HandlerSteps(h) \/ Uploaded(h)
      PROVE  ForwardBound'
  BY <1>0, <1>5 DEF Delivered, HandlerSteps, Ensured, EnsureFails, Store, StoreFails,
                    UploadTimeout, Uploaded, Emit, Fault, bridge, bounds
<1>6. QED
  BY <1>1, <1>2, <1>3, <1>4, <1>5 DEF Next

(* mcp-server would file an own message as inbound, but it always comes    *)
(* second.                                                                 *)
LEMMA DirectionStep ==
  ASSUME DirectionKept, OneEmitter, HandlerTypes, Counters, [Next]_vars
  PROVE  DirectionKept'
<1> USE DEF DirectionKept, Counters
<1>0. CASE UNCHANGED rows
  BY <1>0 DEF Direction
<1>1. ASSUME NEW h \in Handlers, Store(h) PROVE DirectionKept'
  <2>1. Head(todo[h]) \in Msgs
    BY <1>1, InHandIsMessage DEF Store
  <2>2. QED
    BY <1>1, <2>1 DEF Store, Direction
<1>2. ASSUME NEW m \in Msgs, ServerIngests(m) PROVE DirectionKept'
  <2>1. rows[m] # None
    BY <1>2 DEF ServerIngests, OneEmitter
  <2>2. UNCHANGED rows
    BY <1>2, <2>1 DEF ServerIngests
  <2>3. QED
    BY <1>0, <2>2
<1>3. CASE Post \/ ConnectorRestarts \/ BridgeRestarts \/ UNCHANGED vars
  BY <1>0, <1>3 DEF Post, ConnectorRestarts, BridgeRestarts, vars
<1>4. ASSUME NEW m \in Msgs, Republished(m) \/ BridgeTakes(m) PROVE DirectionKept'
  BY <1>0, <1>4 DEF Republished, BridgeTakes
<1>5. ASSUME NEW h \in Handlers,
             \/ \E list \in Deliveries : Delivered(h, list)
             \/ Ensured(h) \/ EnsureFails(h) \/ StoreFails(h)
             \/ UploadTimeout(h) \/ Uploaded(h) \/ Emit(h)
      PROVE  DirectionKept'
  BY <1>0, <1>5 DEF Delivered, Ensured, EnsureFails, StoreFails, UploadTimeout, Uploaded, Emit
<1>6. QED
  BY <1>1, <1>2, <1>3, <1>4, <1>5 DEF Next, HandlerSteps

(* IngestInv: whatever the handlers' interleaving, the copies NATS makes   *)
(* and the restarts, a message has one event, its row keeps its direction, *)
(* and it is forwarded once for each life of the bridge.                   *)
THEOREM IngestCorrect == Spec => []IngestInv
<1> DEFINE IInv == /\ HandlerTypes /\ Counters /\ BridgeSide
                   /\ OneEmitter /\ DirectionKept /\ ForwardBound
<1>1. Init => IInv
  <2> SUFFICES ASSUME Init PROVE IInv
    OBVIOUS
  <2>1. HandlerTypes
    BY DEF Init, HandlerTypes, Steps
  <2>2. Counters /\ BridgeSide
    BY DEF Init, Zero, Counters, BridgeSide
  <2>3. OneEmitter /\ DirectionKept /\ ForwardBound
    BY DEF Init, Zero, OneEmitter, Awaits, DirectionKept, ForwardBound
  <2>4. QED
    BY <2>1, <2>2, <2>3
<1>2. IInv /\ [Next]_vars => IInv'
  BY HandlerTypesStep, CountersStep, BridgeSideStep, OneEmitterStep, DirectionStep,
     ForwardBoundStep
<1>3. IInv => IngestInv
  <2> SUFFICES ASSUME IInv PROVE IngestInv
    OBVIOUS
  <2>1. IngestTypeOK
    BY DEF IngestTypeOK, HandlerTypes, Steps, Counters, BridgeSide
  <2>2. EmittedOnce /\ ForwardedOnce
    BY DEF OneEmitter, EmittedOnce, ForwardBound, ForwardedOnce
  <2>3. QED
    BY <2>1, <2>2 DEF IngestInv
<1>4. QED
  BY <1>1, <1>2, <1>3, PTL DEF Spec

(***************************************************************************)
(* InstagramIngest.                                                        *)
(***************************************************************************)
Senders == {c.sender : c \in Copies}
Stages  == {"conv", "person", "member", "row"}

(* What handleEvent() finds in a copy, whoever made it. *)
LEMMA CopyFacts ==
  ASSUME NEW c \in Copies
  PROVE  /\ c.of \in Happenings /\ c.kind = HappeningKinds[c.of] /\ c.ts \in Nat
         /\ c.conv \in Convs /\ c.sender \in Senders
<1>1. Happenings = 1 .. Len(HappeningKinds) /\ Len(HappeningKinds) \in Nat
  BY IgIngestAssumption, LenProperties DEF Happenings
<1>2. Cardinality(Happenings) \in Nat
  BY <1>1, FS_Interval
<1>3. c.conv \in Convs /\ c.sender \in Senders
  BY DEF Convs, Senders
<1>4. CASE \E e \in Happenings,
              now \in Cardinality(Happenings) .. Cardinality(Happenings) + MaxCopies :
             c = LiveCopy(e, now)
  BY <1>1, <1>2, <1>3, <1>4, IgIngestAssumption DEF LiveCopy
<1>5. CASE \E e \in Happenings : c = JobCopy(e)
  BY <1>1, <1>3, <1>5 DEF JobCopy
<1>6. QED
  BY <1>4, <1>5 DEF Copies

IgHandlerTypes ==
  igHandler \in [IgHandlers \cup {Job} -> {Free} \cup [at : Stages, copy : Copies]]

IgWireTypes ==
  /\ igWire \subseteq Copies /\ igClock \in 0 .. MaxCopies
  /\ igJob \in [at : 0 .. Len(Sections) + 1, todo : SUBSET Happenings]

IgTableTypes ==
  /\ igConvs \in [Convs -> Nat] /\ igPeople \subseteq Senders
  /\ igMembers \subseteq Convs \X igPeople
  /\ \A m \in igMsgs : m.of \in Happenings /\ m.conv \in Convs /\ m.ts \in Nat

(* The copy a handler works on has come as far as its query says. *)
IgFar ==
  \A h \in IgHandlers \cup {Job} :
    LET c == igHandler[h].copy IN
    /\ igHandler[h].at \in {"person", "member", "row"} => igConvs[c.conv] >= c.ts
    /\ igHandler[h].at \in {"member", "row"} => c.sender \in igPeople
    /\ igHandler[h].at = "row" => <<c.conv, c.sender>> \in igMembers

(* The id of a row names what happened, not who told of it. *)
IgNamed ==
  \A m \in igMsgs :
    HappeningKinds[m.of] # "mention" => m.id = <<HappeningKinds[m.of], m.of, 0>>

IgInv ==
  /\ IgHandlerTypes /\ IgWireTypes /\ IgTableTypes
  /\ IgFar /\ IgNamed /\ RowsOnce /\ RowsAreFiled

LEMMA IgInitial == IgIngestInit => IgInv
<1> SUFFICES ASSUME IgIngestInit PROVE IgInv
  OBVIOUS
<1> USE IgIngestAssumption DEF IgIngestInit
<1>1. IgHandlerTypes /\ IgFar
  BY DEF IgHandlerTypes, IgFar, Free
<1>2. IgWireTypes
  BY DEF IgWireTypes, Sections
<1>3. IgTableTypes /\ IgNamed /\ RowsOnce /\ RowsAreFiled
  BY DEF IgTableTypes, IgNamed, RowsOnce, RowsAreFiled
<1>4. QED
  BY <1>1, <1>2, <1>3 DEF IgInv

(* A handler that ends, or that begins, and tables that stay.              *)
LEMMA IgTablesStay ==
  ASSUME IgInv, UNCHANGED igTables, IgHandlerTypes', IgWireTypes',
         \A h \in IgHandlers \cup {Job} :
           \/ igHandler'[h] = igHandler[h]
           \/ igHandler'[h].at \in {"free", "conv"}
  PROVE  IgInv'
<1>1. IgTableTypes' /\ IgNamed' /\ RowsOnce' /\ RowsAreFiled'
  BY DEF IgInv, igTables, IgTableTypes, IgNamed, RowsOnce, RowsAreFiled
<1>2. IgFar'
  BY DEF IgInv, igTables, IgFar
<1>3. QED
  BY <1>1, <1>2 DEF IgInv

LEMMA TakesKeeps ==
  ASSUME IgInv, NEW h \in IgHandlers \cup {Job}, NEW c \in Copies, Takes(h, c),
         UNCHANGED igTables, IgWireTypes'
  PROVE  IgInv'
<1>1. [at |-> "conv", copy |-> c] \in [at : Stages, copy : Copies]
  BY DEF Stages
<1>2. IgHandlerTypes'
  BY <1>1 DEF Takes, IgInv, IgHandlerTypes
<1>3. \A g \in IgHandlers \cup {Job} :
        igHandler'[g] = igHandler[g] \/ igHandler'[g].at = "conv"
  BY DEF Takes, IgInv, IgHandlerTypes
<1>4. QED
  BY <1>2, <1>3, IgTablesStay

LEMMA FreedKeeps ==
  ASSUME IgInv, NEW h \in IgHandlers \cup {Job}, igHandler' = [igHandler EXCEPT ![h] = Free]
  PROVE  /\ IgHandlerTypes' /\ igHandler'[h].at = "free"
         /\ \A g \in IgHandlers \cup {Job} : g # h => igHandler'[g] = igHandler[g]
<1>1. igHandler'[h] = Free /\ IgHandlerTypes'
      /\ \A g \in IgHandlers \cup {Job} : g # h => igHandler'[g] = igHandler[g]
  BY DEF IgInv, IgHandlerTypes
<1>2. Free.at = "free"
  BY DEF Free
<1>3. QED
  BY <1>1, <1>2

(* The handler goes on with its copy. *)
LEMMA GoesKeeps ==
  ASSUME IgInv, NEW h \in IgHandlers \cup {Job}, NEW next \in Stages,
         igHandler[h].at \in Stages, Goes(h, next)
  PROVE  /\ IgHandlerTypes' /\ igHandler[h].copy \in Copies
         /\ igHandler'[h].at = next /\ igHandler'[h].copy = igHandler[h].copy
         /\ \A g \in IgHandlers \cup {Job} : g # h => igHandler'[g] = igHandler[g]
<1>1. igHandler[h] \in [at : Stages, copy : Copies]
  BY DEF IgInv, IgHandlerTypes, Free, Stages
<1>2. igHandler'[h] = [igHandler[h] EXCEPT !.at = next]
      /\ \A g \in IgHandlers \cup {Job} : g # h => igHandler'[g] = igHandler[g]
  BY DEF Goes, IgInv, IgHandlerTypes
<1>3. igHandler'[h] \in [at : Stages, copy : Copies]
  BY <1>1, <1>2
<1>4. IgHandlerTypes'
  BY <1>2, <1>3 DEF Goes, IgInv, IgHandlerTypes
<1>5. QED
  BY <1>1, <1>2, <1>4

LEMMA ConversationStep ==
  ASSUME IgInv, NEW h \in IgHandlers \cup {Job}, UpsertConversation(h)
  PROVE  IgInv'
<1> DEFINE c == igHandler[h].copy
<1>1. /\ igHandler[h].at \in Stages /\ Goes(h, "person")
      /\ igConvs' = [igConvs EXCEPT ![c.conv] = Last(@, c.ts)]
      /\ UNCHANGED <<igPeople, igMembers, igMsgs, igWire, igClock, igJob>>
  BY DEF UpsertConversation, Stages
<1>2. /\ IgHandlerTypes' /\ c \in Copies /\ igHandler'[h].at = "person"
      /\ igHandler'[h].copy = c
      /\ \A g \in IgHandlers \cup {Job} : g # h => igHandler'[g] = igHandler[g]
  BY <1>1, GoesKeeps DEF Stages
<1>3. c.conv \in Convs /\ c.ts \in Nat
  BY <1>2, CopyFacts
<1>4. /\ igConvs' \in [Convs -> Nat] /\ igConvs'[c.conv] >= c.ts
      /\ \A v \in Convs : igConvs'[v] >= igConvs[v]
  BY <1>1, <1>3 DEF IgInv, IgTableTypes, Last
<1>5. IgTableTypes' /\ IgWireTypes' /\ IgNamed' /\ RowsOnce'
  BY <1>1, <1>4 DEF IgInv, IgTableTypes, IgWireTypes, IgNamed, RowsOnce
<1>6. RowsAreFiled'
  <2> SUFFICES ASSUME NEW m \in igMsgs
               PROVE  igConvs'[m.conv] >= m.ts
    BY <1>1 DEF IgInv, RowsAreFiled
  <2>1. m.conv \in Convs /\ m.ts \in Nat /\ igConvs[m.conv] >= m.ts
    BY DEF IgInv, IgTableTypes, RowsAreFiled
  <2>2. QED
    BY <1>4, <2>1 DEF IgInv, IgTableTypes
<1>7. IgFar'
  <2> SUFFICES ASSUME NEW g \in IgHandlers \cup {Job}
               PROVE  LET d == igHandler'[g].copy IN
                      /\ igHandler'[g].at \in {"person", "member", "row"}
                           => igConvs'[d.conv] >= d.ts
                      /\ igHandler'[g].at \in {"member", "row"} => d.sender \in igPeople
                      /\ igHandler'[g].at = "row" => <<d.conv, d.sender>> \in igMembers
    BY <1>1 DEF IgFar
  <2>1. CASE g = h
    BY <1>2, <1>4, <2>1
  <2>2. CASE g # h /\ igHandler[g].at \in Stages
    <3>1. igHandler[g].copy \in Copies /\ igHandler'[g] = igHandler[g]
      BY <1>2, <2>2 DEF IgInv, IgHandlerTypes, Free, Stages
    <3>2. igHandler[g].copy.conv \in Convs /\ igHandler[g].copy.ts \in Nat
      BY <3>1, CopyFacts
    <3>3. igHandler[g].at \in {"person", "member", "row"}
            => igConvs[igHandler[g].copy.conv] >= igHandler[g].copy.ts
      BY DEF IgInv, IgFar
    <3>4. igHandler[g].at \in {"person", "member", "row"}
            => igConvs'[igHandler[g].copy.conv] >= igHandler[g].copy.ts
      BY <1>4, <3>2, <3>3 DEF IgInv, IgTableTypes
    <3>5. QED
      BY <3>1, <3>4 DEF IgInv, IgFar
  <2>3. CASE g # h /\ igHandler[g].at \notin Stages
    BY <1>2, <2>3 DEF Stages
  <2>4. QED
    BY <2>1, <2>2, <2>3
<1>8. QED
  BY <1>2, <1>5, <1>6, <1>7 DEF IgInv

LEMMA ParticipantStep ==
  ASSUME IgInv, NEW h \in IgHandlers \cup {Job}, UpsertParticipant(h)
  PROVE  IgInv'
<1> DEFINE c == igHandler[h].copy
<1>1. /\ igHandler[h].at = "person" /\ Goes(h, "member")
      /\ igPeople' = igPeople \cup {c.sender}
      /\ UNCHANGED <<igConvs, igMembers, igMsgs, igWire, igClock, igJob>>
  BY DEF UpsertParticipant
<1>2. /\ IgHandlerTypes' /\ c \in Copies /\ igHandler'[h].at = "member"
      /\ igHandler'[h].copy = c
      /\ \A g \in IgHandlers \cup {Job} : g # h => igHandler'[g] = igHandler[g]
  BY <1>1, GoesKeeps DEF Stages
<1>3. c.sender \in Senders
  BY <1>2, CopyFacts
<1>4. IgTableTypes' /\ IgWireTypes' /\ IgNamed' /\ RowsOnce' /\ RowsAreFiled'
  BY <1>1, <1>3 DEF IgInv, IgTableTypes, IgWireTypes, IgNamed, RowsOnce, RowsAreFiled
<1>5. IgFar'
  BY <1>1, <1>2 DEF IgInv, IgFar
<1>6. QED
  BY <1>2, <1>4, <1>5 DEF IgInv

LEMMA JoinStep ==
  ASSUME IgInv, NEW h \in IgHandlers \cup {Job}, JoinConversation(h)
  PROVE  IgInv'
<1> DEFINE c == igHandler[h].copy
<1>1. /\ igHandler[h].at = "member" /\ Goes(h, "row")
      /\ igMembers' = igMembers \cup {<<c.conv, c.sender>>}
      /\ UNCHANGED <<igConvs, igPeople, igMsgs, igWire, igClock, igJob>>
  BY DEF JoinConversation
<1>2. /\ IgHandlerTypes' /\ c \in Copies /\ igHandler'[h].at = "row"
      /\ igHandler'[h].copy = c
      /\ \A g \in IgHandlers \cup {Job} : g # h => igHandler'[g] = igHandler[g]
  BY <1>1, GoesKeeps DEF Stages
<1>3. c.conv \in Convs /\ c.sender \in igPeople
  BY <1>1, <1>2, CopyFacts DEF IgInv, IgFar
<1>4. IgTableTypes' /\ IgWireTypes' /\ IgNamed' /\ RowsOnce' /\ RowsAreFiled'
  BY <1>1, <1>3 DEF IgInv, IgTableTypes, IgWireTypes, IgNamed, RowsOnce, RowsAreFiled
<1>5. IgFar'
  BY <1>1, <1>2 DEF IgInv, IgFar
<1>6. QED
  BY <1>2, <1>4, <1>5 DEF IgInv

(* A row with this id is the row of what happened. *)
LEMMA InsertStep ==
  ASSUME IgInv, NEW h \in IgHandlers \cup {Job}, InsertMessage(h)
  PROVE  IgInv'
<1> DEFINE c == igHandler[h].copy
           row == [id |-> RowId(c), of |-> c.of, conv |-> c.conv, sender |-> c.sender,
                   ts |-> c.ts]
<1>1. /\ igHandler[h].at = "row" /\ igHandler' = [igHandler EXCEPT ![h] = Free]
      /\ igMsgs' = IF \E m \in igMsgs : m.id = row.id THEN igMsgs ELSE igMsgs \cup {row}
      /\ UNCHANGED <<igConvs, igPeople, igMembers, igWire, igClock, igJob>>
  BY DEF InsertMessage
<1>2. /\ IgHandlerTypes' /\ igHandler'[h].at = "free"
      /\ \A g \in IgHandlers \cup {Job} : g # h => igHandler'[g] = igHandler[g]
  BY <1>1, FreedKeeps
<1>3. c \in Copies
  BY <1>1 DEF IgInv, IgHandlerTypes, Free
<1>4. /\ c.of \in Happenings /\ c.kind = HappeningKinds[c.of] /\ c.ts \in Nat
      /\ c.conv \in Convs
  BY <1>3, CopyFacts
<1>5. /\ igConvs[c.conv] >= c.ts /\ c.sender \in igPeople
      /\ <<c.conv, c.sender>> \in igMembers
  BY <1>1 DEF IgInv, IgFar
<1>6. IgFar' /\ IgWireTypes'
  BY <1>1, <1>2 DEF IgInv, IgFar, IgWireTypes
<1>7. /\ row.of = c.of /\ row.conv = c.conv /\ row.sender = c.sender /\ row.ts = c.ts
      /\ HappeningKinds[c.of] # "mention" => row.id = <<HappeningKinds[c.of], c.of, 0>>
  BY <1>4 DEF RowId
<1> HIDE DEF row
<1>8. IgTableTypes' /\ IgNamed' /\ RowsAreFiled'
  BY <1>1, <1>4, <1>5, <1>7 DEF IgInv, IgTableTypes, IgNamed, RowsAreFiled
<1>9. RowsOnce'
  <2>1. CASE \E m \in igMsgs : m.id = row.id
    BY <1>1, <2>1 DEF IgInv, RowsOnce
  <2>2. CASE ~\E m \in igMsgs : m.id = row.id
    <3>1. \A m \in igMsgs : HappeningKinds[c.of] # "mention" => m.of # c.of
      BY <1>7, <2>2 DEF IgInv, IgNamed
    <3>2. QED
      BY <1>1, <1>7, <2>2, <3>1 DEF IgInv, RowsOnce
  <2>3. QED
    BY <2>1, <2>2
<1>10. QED
  BY <1>2, <1>6, <1>8, <1>9 DEF IgInv

LEMMA IgInvStep ==
  ASSUME IgInv, [IgIngestNext]_igIngestVars
  PROVE  IgInv'
<1> USE IgIngestAssumption
<1>1. CASE MetaDelivers
  <2>1. UNCHANGED <<igTables, igHandler, igJob>> /\ igClock < MaxCopies /\ igClock' = igClock + 1
    BY <1>1 DEF MetaDelivers
  <2>2. PICK e \in Happenings : igWire' = igWire \cup {LiveCopy(e, Now)}
    BY <1>1 DEF MetaDelivers
  <2>3. Cardinality(Happenings) \in Nat
    <3>1. Happenings = 1 .. Len(HappeningKinds) /\ Len(HappeningKinds) \in Nat
      BY LenProperties DEF Happenings
    <3>2. IsFiniteSet(Happenings)
      BY <3>1, FS_Interval
    <3>3. QED
      BY <3>2, FS_CardinalityType
  <2>4. Now \in Cardinality(Happenings) .. Cardinality(Happenings) + MaxCopies
    BY <2>1, <2>3 DEF Now, IgInv, IgWireTypes
  <2>5. LiveCopy(e, Now) \in Copies
    BY <2>4 DEF Copies
  <2>6. IgWireTypes'
    BY <2>1, <2>2, <2>5 DEF IgInv, IgWireTypes
  <2>7. QED
    BY <2>1, <2>6, IgTablesStay DEF IgInv, IgHandlerTypes
<1>2. CASE CopyLost
  <2>1. UNCHANGED <<igTables, igHandler>> /\ IgWireTypes'
    BY <1>2 DEF CopyLost, IgInv, IgWireTypes
  <2>2. QED
    BY <2>1, IgTablesStay DEF IgInv, IgHandlerTypes
<1>3. ASSUME NEW h \in IgHandlers, Consumed(h) PROVE IgInv'
  <2>1. PICK c \in igWire : igWire' = igWire \ {c} /\ Takes(h, c)
    BY <1>3 DEF Consumed
  <2>2. UNCHANGED igTables /\ IgWireTypes' /\ c \in Copies
    BY <1>3, <2>1 DEF Consumed, IgInv, IgWireTypes
  <2>3. QED
    BY <2>1, <2>2, TakesKeeps
<1>4. ASSUME NEW h \in IgHandlers \cup {Job}, HandlerFails(h) PROVE IgInv'
  <2>1. UNCHANGED <<igTables, igWire, igClock, igJob>>
        /\ igHandler' = [igHandler EXCEPT ![h] = Free]
    BY <1>4 DEF HandlerFails
  <2>2. QED
    BY <2>1, FreedKeeps, IgTablesStay DEF IgInv, IgWireTypes
<1>5. CASE JobStarts \/ JobLists \/ JobEnds
  <2>1. UNCHANGED <<igTables, igWire, igClock, igHandler>>
    BY <1>5 DEF JobStarts, JobLists, JobEnds
  <2>2. igJob' \in [at : 0 .. Len(Sections) + 1, todo : SUBSET Happenings]
    <3>1. DOMAIN Sections = 1 .. 4 /\ Len(Sections) = 4
      BY DEF Sections
    <3>2. igJob \in [at : 0 .. 5, todo : SUBSET Happenings]
      BY <3>1 DEF IgInv, IgWireTypes
    <3>3. CASE JobStarts
      BY <3>1, <3>2, <3>3 DEF JobStarts
    <3>4. CASE JobLists
      <4>1. PICK listed \in SUBSET Happenings :
              igJob.at \in 1 .. 4 /\ igJob' = [at |-> igJob.at + 1, todo |-> listed]
        BY <3>1, <3>4 DEF JobLists
      <4>2. QED
        BY <3>1, <4>1
    <3>5. CASE JobEnds
      BY <3>1, <3>2, <3>5 DEF JobEnds
    <3>6. QED
      BY <1>5, <3>3, <3>4, <3>5
  <2>3. IgWireTypes'
    BY <2>1, <2>2 DEF IgInv, IgWireTypes
  <2>4. QED
    BY <2>1, <2>3, IgTablesStay DEF IgInv, IgHandlerTypes
<1>6. CASE JobIngests
  <2>1. PICK e \in igJob.todo : /\ Takes(Job, JobCopy(e))
                                /\ igJob' = [igJob EXCEPT !.todo = @ \ {e}]
    BY <1>6 DEF JobIngests
  <2>2. e \in Happenings /\ igJob' \in [at : 0 .. Len(Sections) + 1, todo : SUBSET Happenings]
    BY <2>1 DEF IgInv, IgWireTypes
  <2>3. UNCHANGED igTables /\ IgWireTypes' /\ JobCopy(e) \in Copies
    BY <1>6, <2>2 DEF JobIngests, IgInv, IgWireTypes, Copies
  <2>4. QED
    BY <2>1, <2>3, TakesKeeps
<1>7. CASE UNCHANGED igIngestVars
  BY <1>7, IgTablesStay DEF igIngestVars, IgInv, IgHandlerTypes, IgWireTypes
<1>8. QED
  BY <1>1, <1>2, <1>3, <1>4, <1>5, <1>6, <1>7, ConversationStep, ParticipantStep, JoinStep,
     InsertStep DEF IgIngestNext, HandleEvent

(* IgIngestInv: however the copies of the webhook and of the backfill      *)
(* interleave, what happened has one row, filed with its conversation,     *)
(* its sender and the sender's membership.                                 *)
THEOREM IgIngestCorrect == IgIngestSpec => []IgIngestInv
<1>1. IgInv => IgIngestInv
  <2> SUFFICES ASSUME IgInv PROVE IgIngestInv
    OBVIOUS
  <2>1. /\ igConvs \in [Convs -> Nat] /\ igPeople \subseteq {c.sender : c \in Copies}
        /\ igMembers \subseteq Convs \X igPeople
        /\ \A m \in igMsgs : m.of \in Happenings /\ m.conv \in Convs
    BY DEF IgInv, IgTableTypes, Senders
  <2>2. \A h \in IgHandlers \cup {Job} :
          igHandler[h].at \in {"free", "conv", "person", "member", "row"}
    BY DEF IgInv, IgHandlerTypes, Free, Stages
  <2>3. /\ igWire \subseteq Copies /\ igClock \in 0 .. MaxCopies
        /\ igJob.at \in 0 .. Len(Sections) + 1 /\ igJob.todo \subseteq Happenings
    BY DEF IgInv, IgWireTypes
  <2>4. QED
    BY <2>1, <2>2, <2>3 DEF IgInv, IgIngestInv, IgIngestTypeOK
<1>2. QED
  BY <1>1, IgInitial, IgInvStep, PTL DEF IgIngestSpec

(***************************************************************************)
(* SynapseBridge: the connection and its loops.                            *)
(***************************************************************************)
Busy == [at : {"waits", "judge", "forward"}, hand : Events, knows : BOOLEAN]

ConnectionTypes ==
  /\ link \in {"down", "connecting", "up"} /\ links \in 0 .. MaxLinks
  /\ stage \in {"running", "stopping", "exited"}
  /\ stage = "running" => (timer <=> link = "down")

(* Whoever waits for the own JID has a request under way. *)
LoopTypes ==
  /\ buffer \in [Loops -> Seq(Events)] /\ loop \in [Loops -> {Rest} \cup Busy]
  /\ (freshJid => knownJid) /\ knownJid \in BOOLEAN /\ freshJid \in BOOLEAN
  /\ \A l \in Loops : loop[l].at = "waits" => fetching

LEMMA ConnectionStep ==
  ASSUME ConnectionTypes, [BridgeNext]_bridgeVars
  PROVE  ConnectionTypes'
<1> USE BridgeAssumption DEF ConnectionTypes
<1>0. CASE UNCHANGED bridgeLink
  BY <1>0 DEF bridgeLink
<1>1. CASE ConnectOk
  BY <1>1 DEF ConnectOk
<1>2. CASE ConnectFails
  BY <1>2 DEF ConnectFails, ScheduleReconnect
<1>3. CASE LinkClosed
  BY <1>3 DEF LinkClosed, ScheduleReconnect
<1>4. CASE TimerFires
  BY <1>4 DEF TimerFires
<1>5. CASE Stop
  BY <1>5 DEF Stop
<1>6. CASE Exit
  BY <1>6 DEF Exit
<1>7. CASE \/ \E m \in Events : Arrives(m)
           \/ FetchOk \/ FetchFails \/ JidExpires \/ TtlPasses
           \/ \E l \in Loops : LoopSteps(l)
           \/ UNCHANGED bridgeVars
  BY <1>0, <1>7 DEF Arrives, FetchOk, FetchFails, JidExpires, TtlPasses, LoopSteps, TakeEvent,
                    Judge, ForwardDone, bridgeVars
<1>8. QED
  BY <1>1, <1>2, <1>3, <1>4, <1>5, <1>6, <1>7 DEF BridgeNext

LEMMA BusyLoop ==
  ASSUME LoopTypes, NEW l \in Loops, loop[l].at \in {"waits", "judge", "forward"}
  PROVE  loop[l] \in Busy
BY DEF LoopTypes, Rest

LEMMA LoopGoesKeeps ==
  ASSUME LoopTypes, NEW l \in Loops, NEW to \in {Rest} \cup Busy, LoopGoes(l, to),
         to.at = "waits" => fetching', fetching => fetching',
         UNCHANGED <<knownJid, freshJid>>, buffer' \in [Loops -> Seq(Events)]
  PROVE  LoopTypes'
<1>1. /\ loop' \in [Loops -> {Rest} \cup Busy] /\ loop'[l] = to
      /\ \A k \in Loops : k # l => loop'[k] = loop[k]
  BY DEF LoopGoes, LoopTypes
<1>2. QED
  BY <1>1 DEF LoopTypes

LEMMA AnsweredKeeps ==
  ASSUME LoopTypes, Answered, knownJid' \in BOOLEAN
  PROVE  /\ loop' \in [Loops -> {Rest} \cup Busy]
         /\ \A l \in Loops : loop'[l].at # "waits"
<1> SUFFICES ASSUME NEW l \in Loops
             PROVE  loop'[l] \in {Rest} \cup Busy /\ loop'[l].at # "waits"
  BY DEF Answered
<1>1. CASE loop[l].at = "waits"
  <2>1. loop[l] \in Busy
    BY <1>1, BusyLoop
  <2>2. loop'[l] = [loop[l] EXCEPT !.at = "judge", !.knows = knownJid']
    BY <1>1 DEF Answered
  <2>3. QED
    BY <2>1, <2>2 DEF Busy
<1>2. CASE loop[l].at # "waits"
  BY <1>2 DEF Answered, LoopTypes
<1>3. QED
  BY <1>1, <1>2

LEMMA LoopStep ==
  ASSUME LoopTypes, [BridgeNext]_bridgeVars
  PROVE  LoopTypes'
<1>0. CASE UNCHANGED <<buffer, loop, bridgeJid>>
  BY <1>0 DEF LoopTypes, bridgeJid
<1>1. CASE LinkClosed
  <2>1. UNCHANGED <<loop, bridgeJid>>
        /\ \/ UNCHANGED buffer
           \/ buffer' = [buffer EXCEPT ![links] = <<>>]
    BY <1>1 DEF LinkClosed
  <2>2. buffer' \in [Loops -> Seq(Events)]
    BY <2>1, EmptySeq DEF LoopTypes
  <2>3. QED
    BY <2>1, <2>2 DEF LoopTypes, bridgeJid
<1>2. CASE Exit
  <2>1. /\ buffer' = [l \in Loops |-> <<>>] /\ loop' = [l \in Loops |-> Rest]
        /\ UNCHANGED <<knownJid, freshJid>>
    BY <1>2 DEF Exit
  <2>2. QED
    BY <2>1, EmptySeq DEF LoopTypes, Rest
<1>3. ASSUME NEW m \in Events, Arrives(m) PROVE LoopTypes'
  <2>1. UNCHANGED <<loop, bridgeJid>> /\ buffer' = [buffer EXCEPT ![links] = Append(@, m)]
    BY <1>3 DEF Arrives
  <2>2. \A l \in Loops : Append(buffer[l], m) \in Seq(Events)
    BY AppendProperties DEF LoopTypes
  <2>3. buffer' \in [Loops -> Seq(Events)]
    BY <2>1, <2>2 DEF LoopTypes
  <2>4. QED
    BY <2>1, <2>3 DEF LoopTypes, bridgeJid
<1>4. ASSUME NEW l \in Loops, TakeEvent(l) PROVE LoopTypes'
  <2> DEFINE to == [at |-> IF freshJid THEN "judge" ELSE "waits", hand |-> Head(buffer[l]),
                    knows |-> freshJid]
  <2>1. /\ buffer[l] # <<>> /\ buffer' = [buffer EXCEPT ![l] = Tail(@)] /\ LoopGoes(l, to)
        /\ fetching' = (fetching \/ ~freshJid) /\ UNCHANGED <<knownJid, freshJid>>
    BY <1>4 DEF TakeEvent
  <2>2. Head(buffer[l]) \in Events /\ Tail(buffer[l]) \in Seq(Events)
    BY <2>1, HeadTailProperties DEF LoopTypes
  <2>3. to \in Busy /\ (to.at = "waits" => ~freshJid)
    BY <2>2 DEF Busy, LoopTypes
  <2>4. buffer' \in [Loops -> Seq(Events)]
    BY <2>1, <2>2 DEF LoopTypes
  <2> HIDE DEF to
  <2>5. QED
    BY <2>1, <2>3, <2>4, LoopGoesKeeps
<1>5. CASE FetchOk
  <2>1. knownJid' = TRUE /\ freshJid' = TRUE /\ Answered /\ UNCHANGED buffer
    BY <1>5 DEF FetchOk
  <2>2. QED
    BY <2>1, AnsweredKeeps DEF LoopTypes
<1>6. CASE FetchFails
  <2>1. UNCHANGED <<knownJid, freshJid, buffer>> /\ Answered
    BY <1>6 DEF FetchFails
  <2>2. QED
    BY <2>1, AnsweredKeeps DEF LoopTypes
<1>7. CASE JidExpires
  BY <1>7 DEF JidExpires, LoopTypes
<1>8. ASSUME NEW l \in Loops, Judge(l) PROVE LoopTypes'
  <2>1. UNCHANGED <<buffer, bridgeJid>> /\ loop[l] \in Busy
    BY <1>8, BusyLoop DEF Judge
  <2>2. LoopGoes(l, Rest) \/ LoopGoes(l, [loop[l] EXCEPT !.at = "forward"])
    BY <1>8 DEF Judge
  <2>3. [loop[l] EXCEPT !.at = "forward"] \in Busy
        /\ [loop[l] EXCEPT !.at = "forward"].at = "forward"
    BY <2>1 DEF Busy
  <2>4. QED
    BY <2>1, <2>2, <2>3, LoopGoesKeeps DEF bridgeJid, LoopTypes, Rest
<1>9. ASSUME NEW l \in Loops, ForwardDone(l) PROVE LoopTypes'
  BY <1>9, LoopGoesKeeps DEF ForwardDone, bridgeJid, LoopTypes, Rest
<1>10. CASE ConnectOk \/ ConnectFails \/ TimerFires \/ Stop \/ TtlPasses \/ UNCHANGED bridgeVars
  BY <1>0, <1>10 DEF ConnectOk, ConnectFails, TimerFires, Stop, TtlPasses, bridgeVars, bridgeJid
<1>11. QED
  BY <1>1, <1>2, <1>3, <1>4, <1>5, <1>6, <1>7, <1>8, <1>9, <1>10 DEF BridgeNext, LoopSteps

(***************************************************************************)
(* SynapseBridge: the deduplication cache.                                 *)
(***************************************************************************)
Entries   == [key : Events, at : Nat]
Sightings == [at : Nat, after : SUBSET Events]

(* The least element of a set of numbers. *)
LEMMA Least ==
  ASSUME NEW T, T \subseteq Nat, T # {}
  PROVE  \E x \in T : \A y \in T : x <= y
<1>1. PICK x \in T : \A y \in T : ~(<<y, x>> \in OpToRel(<, Nat))
  BY NatLessThanWellFounded, WFMin
<1>2. \A y \in T : ~(y < x)
  BY <1>1 DEF OpToRel
<1>3. \A y \in T : x \in Nat /\ y \in Nat
  OBVIOUS
<1>4. QED
  BY <1>2, <1>3

(* evictExpired() drops a run of expired entries from the front. *)
LEMMA EvictedFacts ==
  ASSUME entries \in Seq(Entries), horizon \in Nat
  PROVE  \E n \in 0 .. Len(entries) :
           /\ \A i \in 1 .. n : Expired(entries[i])
           /\ Evicted \in Seq(Entries) /\ Len(Evicted) = Len(entries) - n
           /\ \A i \in 1 .. Len(entries) - n : Evicted[i] = entries[i + n]
<1> DEFINE P(n) == /\ \A i \in 1 .. n : Expired(entries[i])
                   /\ n < Len(entries) => ~Expired(entries[n + 1])
           dead == CHOOSE n \in 0 .. Len(entries) : P(n)
           Alive == {i \in 1 .. Len(entries) : ~Expired(entries[i])}
<1>1. Len(entries) \in Nat
  BY LenProperties
<1>2. \E n \in 0 .. Len(entries) : P(n)
  <2>1. CASE Alive = {}
    BY <1>1, <2>1
  <2>2. CASE Alive # {}
    <3>1. Alive \subseteq Nat
      BY <1>1
    <3>2. \E x \in Alive : \A y \in Alive : x <= y
      BY <2>2, <3>1, Least
    <3>3. PICK x \in Alive : \A y \in Alive : x <= y
      BY <3>2
    <3>4. x - 1 \in 0 .. Len(entries) /\ P(x - 1)
      BY <1>1, <3>3
    <3>5. QED
      BY <3>4
  <2>3. QED
    BY <2>1, <2>2
<1>3. dead \in 0 .. Len(entries) /\ P(dead)
  BY <1>2, Zenon
<1>4. Evicted = SubSeq(entries, dead + 1, Len(entries))
  BY DEF Evicted
<1> HIDE DEF dead
<1>5. \A i \in dead + 1 .. Len(entries) : entries[i] \in Entries
  BY <1>1, <1>3, ElementOfSeq
<1>6. /\ Evicted \in Seq(Entries)
      /\ Len(Evicted) = IF dead + 1 <= Len(entries) THEN Len(entries) - (dead + 1) + 1 ELSE 0
      /\ \A i \in 1 .. Len(entries) - (dead + 1) + 1 : Evicted[i] = entries[dead + 1 + i - 1]
  BY <1>1, <1>3, <1>4, <1>5, SubSeqProperties
<1>7. Len(Evicted) = Len(entries) - dead
      /\ \A i \in 1 .. Len(entries) - dead : Evicted[i] = entries[i + dead]
  <2>1. dead \in Int /\ 0 <= dead /\ dead <= Len(entries) /\ Len(entries) \in Int
    BY <1>1, <1>3
  <2>2. Len(Evicted) = Len(entries) - dead
    BY <1>6, <2>1
  <2>3. ASSUME NEW i \in 1 .. Len(entries) - dead PROVE Evicted[i] = entries[i + dead]
    <3>1. i \in 1 .. Len(entries) - (dead + 1) + 1 /\ dead + 1 + i - 1 = i + dead
      BY <2>1
    <3>2. Evicted[i] = entries[dead + 1 + i - 1]
      BY <1>6, <3>1, Zenon
    <3>3. QED
      BY <3>1, <3>2, Zenon
  <2>4. QED
    BY <2>2, <2>3
<1>8. QED
  BY <1>3, <1>6, <1>7

(* The keys differ, an entry has the time of the last sighting, and what   *)
(* stands behind it was recorded after it took its place.                  *)
Ordered(s, w) ==
  /\ \A i \in 1 .. Len(s) : w[s[i].key].at = s[i].at
  /\ \A i, j \in 1 .. Len(s) :
       i < j => s[i].key # s[j].key /\ s[j].key \in w[s[i].key].after

LEMMA SuffixOrdered ==
  ASSUME NEW s \in Seq(Entries), NEW t \in Seq(Entries), NEW w, Ordered(s, w),
         NEW n \in 0 .. Len(s), Len(t) = Len(s) - n,
         \A i \in 1 .. Len(s) - n : t[i] = s[i + n]
  PROVE  Ordered(t, w)
<1>1. Len(s) \in Nat /\ Len(t) \in Nat
  BY LenProperties
<1>2. \A i \in 1 .. Len(t) : i + n \in 1 .. Len(s) /\ t[i] = s[i + n]
  BY <1>1
<1>4. \A i \in 1 .. Len(t) : w[t[i].key].at = t[i].at
  BY <1>2 DEF Ordered
<1>5. ASSUME NEW i \in 1 .. Len(t), NEW j \in 1 .. Len(t), i < j
      PROVE  t[i].key # t[j].key /\ t[j].key \in w[t[i].key].after
  <2> DEFINE a == i + n
             b == j + n
  <2>1. a \in 1 .. Len(s) /\ b \in 1 .. Len(s) /\ a < b
    BY <1>1, <1>5
  <2>2. t[i] = s[a] /\ t[j] = s[b]
    BY <1>2
  <2> HIDE DEF a, b
  <2>3. QED
    BY <2>1, <2>2 DEF Ordered
<1>6. QED
  BY <1>4, <1>5 DEF Ordered

(* The sightings after a lookup of m: its key has a place and keeps it, or *)
(* is put after all others.                                                *)
LEMMA TouchedOrdered ==
  ASSUME NEW s \in Seq(Entries), NEW w \in [Events -> Sightings], NEW x \in [Events -> Sightings],
         NEW m \in Events, Ordered(s, w), ticks \in Nat,
         x[m].at = ticks + 1, x[m].after = w[m].after,
         \A n \in Events : n # m => x[n] = w[n]
  PROVE  /\ Touched(s, m) \in Seq(Entries) /\ Len(Touched(s, m)) = Len(s)
         /\ \A i \in 1 .. Len(s) : Touched(s, m)[i].key = s[i].key
         /\ Ordered(Touched(s, m), x)
<1> DEFINE e == [key |-> m, at |-> ticks + 1]
           t == Touched(s, m)
<1>1. Len(s) \in Nat /\ s \in [1 .. Len(s) -> Entries]
  BY LenProperties
<1>2. e \in Entries /\ e.key = m /\ e.at = ticks + 1
  BY DEF Entries
<1> HIDE DEF e
<1>3. t = [i \in 1 .. Len(s) |-> IF s[i].key = m THEN e ELSE s[i]]
  BY DEF Touched, e
<1>4. \A i \in 1 .. Len(s) : s[i] \in Entries
  BY <1>1
<1>5. t \in [1 .. Len(s) -> Entries]
  BY <1>2, <1>3, <1>4
<1> HIDE DEF t
<1>6. t \in Seq(Entries) /\ Len(t) = Len(s)
  BY <1>1, <1>5, SeqDef
<1>7. \A i \in 1 .. Len(s) : t[i] = IF s[i].key = m THEN e ELSE s[i]
  BY <1>3
<1>8. \A i \in 1 .. Len(s) : /\ t[i].key = s[i].key /\ s[i].key \in Events
                             /\ t[i].at = IF s[i].key = m THEN ticks + 1 ELSE s[i].at
  BY <1>2, <1>4, <1>7 DEF Entries
<1>9. \A n \in Events : x[n].after = w[n].after
  OBVIOUS
<1>10. Ordered(t, x)
  <2>1. ASSUME NEW i \in 1 .. Len(s) PROVE x[t[i].key].at = t[i].at
    <3>1. w[s[i].key].at = s[i].at /\ s[i].key \in Events /\ t[i].key = s[i].key
      BY <1>8 DEF Ordered
    <3>2. x[s[i].key].at = IF s[i].key = m THEN ticks + 1 ELSE s[i].at
      BY <3>1
    <3>3. QED
      BY <1>8, <3>1, <3>2, Zenon
  <2>2. ASSUME NEW i \in 1 .. Len(s), NEW j \in 1 .. Len(s), i < j
        PROVE  t[i].key # t[j].key /\ t[j].key \in x[t[i].key].after
    <3>1. s[i].key # s[j].key /\ s[j].key \in w[s[i].key].after
      BY <2>2 DEF Ordered
    <3>2. QED
      BY <1>8, <1>9, <3>1, Zenon
  <2>3. QED
    BY <1>6, <2>1, <2>2 DEF Ordered
<1>11. QED
  BY <1>6, <1>8, <1>10 DEF t

LEMMA AppendedOrdered ==
  ASSUME NEW s \in Seq(Entries), NEW w \in [Events -> Sightings], NEW x \in [Events -> Sightings],
         NEW m \in Events, Ordered(s, w), ~Found(s, m), ticks \in Nat,
         x[m].at = ticks + 1,
         \A n \in Events : n # m => x[n].at = w[n].at /\ x[n].after = w[n].after \cup {m}
  PROVE  LET t == Append(s, [key |-> m, at |-> ticks + 1]) IN
         /\ t \in Seq(Entries) /\ Len(t) = Len(s) + 1
         /\ \A i \in 1 .. Len(s) : t[i] = s[i]
         /\ t[Len(s) + 1].key = m
         /\ Ordered(t, x)
<1> DEFINE e == [key |-> m, at |-> ticks + 1]
           t == Append(s, e)
<1>1. Len(s) \in Nat /\ \A i \in 1 .. Len(s) : s[i] \in Entries
  BY LenProperties
<1>2. e \in Entries /\ e.key = m /\ e.at = ticks + 1
  BY DEF Entries
<1> HIDE DEF e
<1>3. /\ t \in Seq(Entries) /\ Len(t) = Len(s) + 1
      /\ \A i \in 1 .. Len(s) : t[i] = s[i]
      /\ t[Len(s) + 1] = e
  BY <1>2, AppendProperties
<1> HIDE DEF t
<1>4. \A i \in 1 .. Len(s) : s[i].key \in Events /\ s[i].key # m
  BY <1>1 DEF Found, Entries
<1>5. \A i \in 1 .. Len(t) : x[t[i].key].at = t[i].at
  BY <1>1, <1>2, <1>3, <1>4 DEF Ordered
<1>6. ASSUME NEW i \in 1 .. Len(t), NEW j \in 1 .. Len(t), i < j
      PROVE  t[i].key # t[j].key /\ t[j].key \in x[t[i].key].after
  <2>1. i \in 1 .. Len(s) /\ t[i] = s[i]
    BY <1>1, <1>3, <1>6
  <2>2. CASE j = Len(s) + 1
    BY <1>2, <1>3, <1>4, <2>1, <2>2
  <2>3. CASE j \in 1 .. Len(s)
    BY <1>3, <1>4, <1>6, <2>1, <2>3 DEF Ordered
  <2>4. QED
    BY <1>1, <1>3, <2>2, <2>3
<1>7. QED
  BY <1>2, <1>3, <1>5, <1>6 DEF Ordered, t, e

(* Before the oldest insertion goes, all that stand behind it, a full      *)
(* cache of them, were recorded after it.                                  *)
LEMMA CapCounts ==
  ASSUME NEW t \in Seq(Entries), NEW w, Ordered(t, w), NEW N \in Nat, Len(t) = N + 1,
         IsFiniteSet(w[t[1].key].after)
  PROVE  Cardinality(w[t[1].key].after) >= N
<1> DEFINE A == w[t[1].key].after
           f == [i \in 1 .. N |-> t[i + 1].key]
<1>1. \A i \in 1 .. N : i + 1 \in 1 .. Len(t) /\ 1 \in 1 .. Len(t) /\ 1 < i + 1
  OBVIOUS
<1>2. \A i \in 1 .. N : t[i + 1].key \in A
  BY <1>1 DEF Ordered
<1>3. \A i, j \in 1 .. N : i # j => t[i + 1].key # t[j + 1].key
  BY <1>1 DEF Ordered
<1>4. f \in Injection(1 .. N, A)
  BY <1>2, <1>3 DEF Injection, IsInjective
<1>5. Cardinality(1 .. N) <= Cardinality(A) /\ Cardinality(1 .. N) = N
  <2>1. Cardinality(1 .. N) <= Cardinality(A)
    BY <1>4, FS_Injection
  <2>2. Cardinality(1 .. N) = N
    <3>1. 1 \in Int /\ N \in Int /\ N >= 0
      OBVIOUS
    <3>2. Cardinality(1 .. N) = IF 1 > N THEN 0 ELSE N - 1 + 1
      BY <3>1, FS_Interval, Zenon
    <3>3. QED
      BY <3>1, <3>2
  <2>3. QED
    BY <2>1, <2>2
<1>6. Cardinality(A) \in Nat
  BY FS_CardinalityType
<1>7. QED
  BY <1>5, <1>6

CacheTypes ==
  /\ entries \in Seq(Entries) /\ ticks \in Nat /\ horizon \in 0 .. ticks
  /\ sighting \in [Events -> Sightings]
  /\ forwarded \subseteq [msg : Events, fromMe : BOOLEAN]

(* What was seen within its TTL has an entry, unless as many others have   *)
(* come after it as the cache holds.                                       *)
Remembers(m) ==
  Found(entries, m) \/ Cardinality(sighting[m].after) >= DedupMax

CacheInv ==
  /\ CacheTypes /\ Ordered(entries, sighting) /\ Len(entries) <= DedupMax
  /\ \A m \in Events : IsFiniteSet(sighting[m].after)
  /\ \A m \in Events : sighting[m].at > horizon => Remembers(m)

(* An entry that has not expired is not evicted. *)
LEMMA EvictedKeeps ==
  ASSUME CacheInv
  PROVE  /\ Evicted \in Seq(Entries) /\ Len(Evicted) <= Len(entries)
         /\ Ordered(Evicted, sighting)
         /\ \A m \in Events :
              Found(entries, m) /\ sighting[m].at > horizon => Found(Evicted, m) /\ Seen(m)
         /\ \A i \in 1 .. Len(Evicted) : Found(entries, Evicted[i].key)
<1> USE DEF CacheInv, CacheTypes
<1>1. PICK n \in 0 .. Len(entries) :
        /\ \A i \in 1 .. n : Expired(entries[i])
        /\ Evicted \in Seq(Entries) /\ Len(Evicted) = Len(entries) - n
        /\ \A i \in 1 .. Len(entries) - n : Evicted[i] = entries[i + n]
  <2>1. horizon \in Nat
    OBVIOUS
  <2>2. QED
    BY <2>1, EvictedFacts
<1>2. Len(entries) \in Nat /\ Len(Evicted) \in Nat
  BY <1>1, LenProperties
<1>3. Ordered(Evicted, sighting)
  BY <1>1, SuffixOrdered
<1>4. ASSUME NEW m \in Events, Found(entries, m), sighting[m].at > horizon
      PROVE  Found(Evicted, m) /\ Seen(m)
  <2>1. PICK i \in 1 .. Len(entries) : entries[i].key = m
    BY <1>4 DEF Found
  <2>2. entries[i].at = sighting[m].at /\ entries[i].at \in Nat
    <3>1. entries[i] \in Entries
      BY ElementOfSeq
    <3>2. QED
      BY <2>1, <3>1 DEF Ordered, Entries
  <2>3. ~Expired(entries[i])
    BY <1>4, <2>2 DEF Expired
  <2>4. i - n \in 1 .. Len(Evicted) /\ Evicted[i - n] = entries[i]
    <3>1. i \notin 1 .. n
      BY <1>1, <2>3
    <3>2. i - n \in 1 .. Len(entries) - n /\ (i - n) + n = i
      BY <1>2, <3>1
    <3>3. Evicted[i - n] = entries[(i - n) + n] /\ Len(Evicted) = Len(entries) - n
      BY <1>1, <3>2
    <3>4. QED
      BY <3>2, <3>3, Zenon
  <2>5. QED
    BY <2>1, <2>3, <2>4 DEF Found, Seen
<1>5. \A i \in 1 .. Len(Evicted) : Found(entries, Evicted[i].key)
  <2> SUFFICES ASSUME NEW i \in 1 .. Len(Evicted) PROVE Found(entries, Evicted[i].key)
    OBVIOUS
  <2>1. i + n \in 1 .. Len(entries) /\ Evicted[i] = entries[i + n]
    BY <1>1, <1>2
  <2>2. QED
    BY <2>1 DEF Found
<1>6. QED
  BY <1>1, <1>2, <1>3, <1>4, <1>5

(* What a lookup of m leaves of the sightings. *)
LEMMA SightingStep ==
  ASSUME CacheInv, NEW m \in Events, Sighted(m)
  PROVE  /\ sighting' \in [Events -> Sightings]
         /\ \A n \in Events : IsFiniteSet(sighting'[n].after)
         /\ sighting'[m].at = ticks + 1
         /\ Found(Evicted, m) =>
              /\ sighting'[m].after = sighting[m].after
              /\ \A n \in Events : n # m => sighting'[n] = sighting[n]
         /\ ~Found(Evicted, m) =>
              \A n \in Events : n # m => /\ sighting'[n].at = sighting[n].at
                                         /\ sighting'[n].after = sighting[n].after \cup {m}
<1> USE DEF CacheInv, CacheTypes
<1> DEFINE old == [at |-> ticks + 1,
                   after |-> IF Found(Evicted, m) THEN sighting[m].after ELSE {}]
           new(n) == [sighting[n] EXCEPT !.after = @ \cup {m}]
<1>1. sighting' = [n \in Events |-> IF n = m THEN old
                                    ELSE IF Found(Evicted, m) THEN sighting[n] ELSE new(n)]
  BY DEF Sighted
<1>2. \A n \in Events : sighting[n] \in Sightings
  OBVIOUS
<1>3. /\ old \in Sightings /\ old.at = ticks + 1 /\ IsFiniteSet(old.after)
      /\ Found(Evicted, m) => old.after = sighting[m].after
  BY <1>2, FS_EmptySet DEF Sightings
<1>4. \A n \in Events : /\ new(n) \in Sightings /\ new(n).at = sighting[n].at
                        /\ new(n).after = sighting[n].after \cup {m}
  BY <1>2 DEF Sightings
<1>5. \A n \in Events : IsFiniteSet(sighting[n].after \cup {m})
  BY FS_AddElement
<1> HIDE DEF old, new
<1>6. sighting' \in [Events -> Sightings]
  BY <1>1, <1>2, <1>3, <1>4
<1>7. \A n \in Events : sighting'[n] = IF n = m THEN old
                                       ELSE IF Found(Evicted, m) THEN sighting[n] ELSE new(n)
  BY <1>1
<1>8. \A n \in Events : IsFiniteSet(sighting'[n].after)
  BY <1>3, <1>4, <1>5, <1>7
<1>9. QED
  BY <1>3, <1>4, <1>6, <1>7, <1>8

(* What was counted after a message stays counted, but for m itself. *)
LEMMA CountsStay ==
  ASSUME CacheInv, BridgeAssumption, NEW m \in Events, Sighted(m), NEW n \in Events, n # m,
         Cardinality(sighting[n].after) >= DedupMax
  PROVE  Cardinality(sighting'[n].after) >= DedupMax
<1>1. sighting[n].after \subseteq sighting'[n].after
  BY SightingStep
<1>2. IsFiniteSet(sighting'[n].after)
  BY SightingStep
<1>3. /\ Cardinality(sighting[n].after) <= Cardinality(sighting'[n].after)
      /\ Cardinality(sighting[n].after) \in Nat /\ Cardinality(sighting'[n].after) \in Nat
  BY <1>1, <1>2, FS_Subset, FS_CardinalityType
<1>4. QED
  BY <1>3 DEF BridgeAssumption

(* The entries of a lookup whose key has a place, or is put last. *)
LEMMA SightedKeeps ==
  ASSUME CacheInv, NEW m \in Events, Sighted(m)
  PROVE  /\ entries' \in Seq(Entries) /\ Ordered(entries', sighting')
         /\ Len(entries') <= DedupMax
         /\ Found(entries', m)
         /\ \A n \in Events : n # m /\ Found(Evicted, n) =>
              Found(entries', n) \/ Cardinality(sighting'[n].after) >= DedupMax
         /\ \A i \in 1 .. Len(entries') :
              entries'[i].key = m \/ Found(entries, entries'[i].key)
<1> USE BridgeAssumption DEF CacheInv, CacheTypes
<1>1. /\ Evicted \in Seq(Entries) /\ Len(Evicted) <= DedupMax /\ Ordered(Evicted, sighting)
      /\ \A i \in 1 .. Len(Evicted) : Found(entries, Evicted[i].key)
      /\ Len(Evicted) \in Nat
  <2>1. Len(entries) \in Nat /\ DedupMax \in Nat
    BY LenProperties
  <2>2. Len(Evicted) \in Nat
    BY EvictedKeeps, LenProperties
  <2>3. QED
    BY <2>1, <2>2, EvictedKeeps
<1>2. CASE Found(Evicted, m)
  <2>1. /\ Touched(Evicted, m) \in Seq(Entries) /\ Len(Touched(Evicted, m)) = Len(Evicted)
        /\ \A i \in 1 .. Len(Evicted) : Touched(Evicted, m)[i].key = Evicted[i].key
        /\ Ordered(Touched(Evicted, m), sighting')
    <3>1. /\ sighting' \in [Events -> Sightings] /\ sighting'[m].at = ticks + 1
          /\ sighting'[m].after = sighting[m].after
          /\ \A n \in Events : n # m => sighting'[n] = sighting[n]
      BY <1>2, SightingStep
    <3>2. QED
      BY <1>1, <3>1, TouchedOrdered
  <2>2. entries' = Touched(Evicted, m)
    <3>1. Record(Evicted, m) = Touched(Evicted, m)
      BY <1>1, <1>2, <2>1 DEF Record
    <3>2. QED
      BY <3>1 DEF Sighted
  <2>3. \A n \in Events : Found(Evicted, n) => Found(entries', n)
    BY <2>1, <2>2 DEF Found
  <2>4. QED
    BY <1>1, <1>2, <2>1, <2>2, <2>3
<1>3. CASE ~Found(Evicted, m)
  <2> DEFINE t == Append(Evicted, [key |-> m, at |-> ticks + 1])
  <2>1. /\ t \in Seq(Entries) /\ Len(t) = Len(Evicted) + 1
        /\ \A i \in 1 .. Len(Evicted) : t[i] = Evicted[i]
        /\ t[Len(Evicted) + 1].key = m /\ Ordered(t, sighting')
    <3>1. /\ sighting' \in [Events -> Sightings] /\ sighting'[m].at = ticks + 1
          /\ \A n \in Events : n # m => /\ sighting'[n].at = sighting[n].at
                                        /\ sighting'[n].after = sighting[n].after \cup {m}
      BY <1>3, SightingStep
    <3>2. QED
      BY <1>1, <1>3, <3>1, AppendedOrdered
  <2>2. entries' = IF Len(t) > DedupMax THEN Tail(t) ELSE t
    <3>1. ~Seen(m)
      BY <1>3 DEF Seen, Found
    <3>2. QED
      BY <1>3, <3>1 DEF Sighted, Record
  <2> HIDE DEF t
  <2>3. \A i \in 1 .. Len(t) : t[i].key = m \/ Found(entries, t[i].key)
    BY <1>1, <2>1
  <2>4. Found(t, m) /\ \A n \in Events : Found(Evicted, n) => Found(t, n)
    <3>1. Len(Evicted) + 1 \in 1 .. Len(t) /\ \A i \in 1 .. Len(Evicted) : i \in 1 .. Len(t)
      BY <1>1, <2>1
    <3>2. Found(t, m)
      BY <2>1, <3>1, Zenon DEF Found
    <3>3. \A n \in Events : Found(Evicted, n) => Found(t, n)
      BY <2>1, <3>1, Zenon DEF Found
    <3>4. QED
      BY <3>2, <3>3
  <2>5. CASE Len(t) <= DedupMax
    <3>1. entries' = t
      BY <1>1, <2>1, <2>2, <2>5
    <3>2. QED
      BY <2>1, <2>3, <2>4, <2>5, <3>1
  <2>6. CASE Len(t) > DedupMax
    <3>1. Len(t) = DedupMax + 1 /\ DedupMax \in Nat \ {0} /\ t # <<>> /\ entries' = Tail(t)
      BY <1>1, <2>1, <2>2, <2>6
    <3>2. /\ Tail(t) \in Seq(Entries) /\ Len(Tail(t)) = DedupMax
          /\ \A i \in 1 .. DedupMax : Tail(t)[i] = t[i + 1]
      BY <2>1, <3>1, HeadTailProperties
    <3>3. Ordered(Tail(t), sighting')
      <4>1. /\ 1 \in 0 .. Len(t) /\ Len(Tail(t)) = Len(t) - 1
            /\ \A i \in 1 .. Len(t) - 1 : Tail(t)[i] = t[i + 1]
        BY <3>1, <3>2
      <4>2. QED
        BY <2>1, <3>2, <4>1, SuffixOrdered
    <3>4. Found(Tail(t), m)
      BY <1>1, <2>1, <3>1, <3>2 DEF Found
    <3>5. ASSUME NEW n \in Events, n # m, Found(Evicted, n)
          PROVE  Found(Tail(t), n) \/ Cardinality(sighting'[n].after) >= DedupMax
      <4>1. PICK i \in 1 .. Len(t) : t[i].key = n
        BY <2>4, <3>5 DEF Found
      <4>2. CASE i = 1
        <5>1. IsFiniteSet(sighting'[t[1].key].after)
          BY <4>1, <4>2, SightingStep
        <5>2. QED
          BY <2>1, <3>1, <4>1, <4>2, <5>1, CapCounts
      <4>3. CASE i # 1
        <5>1. i - 1 \in 1 .. DedupMax /\ Tail(t)[i - 1] = t[i]
          BY <3>1, <3>2, <4>3
        <5>2. QED
          BY <3>2, <4>1, <5>1 DEF Found
      <4>4. QED
        BY <4>2, <4>3
    <3>6. \A i \in 1 .. Len(Tail(t)) : Tail(t)[i].key = m \/ Found(entries, Tail(t)[i].key)
      BY <2>3, <3>1, <3>2
    <3>7. QED
      BY <3>1, <3>2, <3>3, <3>4, <3>5, <3>6
  <2>7. QED
    BY <1>1, <2>1, <2>5, <2>6
<1>4. QED
  BY <1>2, <1>3

Forwarded(m) == \E f \in forwarded : f.msg = m

DedupInv ==
  CacheInv /\ NotForwardedAgain /\ OwnIsFlagged /\ DroppedMayComeAgain

LEMMA CacheAfterLookup ==
  ASSUME CacheInv, NEW m \in Events, Sighted(m),
         forwarded' \subseteq [msg : Events, fromMe : BOOLEAN]
  PROVE  CacheInv'
<1> USE BridgeAssumption DEF CacheInv, CacheTypes
<1>1. ticks' = ticks + 1 /\ horizon' = horizon
  BY DEF Sighted
<1>2. /\ sighting' \in [Events -> Sightings]
      /\ \A n \in Events : IsFiniteSet(sighting'[n].after)
      /\ entries' \in Seq(Entries) /\ Ordered(entries', sighting')
      /\ Len(entries') <= DedupMax /\ Found(entries', m)
  BY SightingStep, SightedKeeps
<1>3. ASSUME NEW n \in Events, n # m, sighting'[n].at > horizon
      PROVE  Found(entries', n) \/ Cardinality(sighting'[n].after) >= DedupMax
  <2>1. sighting'[n].at = sighting[n].at
    BY <1>3, SightingStep
  <2>2. Remembers(n)
    BY <1>3, <2>1
  <2>3. CASE Found(entries, n)
    <3>1. Found(Evicted, n)
      BY <1>3, <2>1, <2>3, EvictedKeeps
    <3>2. QED
      BY <1>3, <3>1, SightedKeeps
  <2>4. CASE Cardinality(sighting[n].after) >= DedupMax
    BY <1>3, <2>4, CountsStay
  <2>5. QED
    BY <2>2, <2>3, <2>4 DEF Remembers
<1>4. \A n \in Events : sighting'[n].at > horizon' => Remembers(n)'
  BY <1>1, <1>2, <1>3 DEF Remembers
<1>5. ticks' \in Nat /\ horizon' \in 0 .. ticks'
  BY <1>1
<1>6. QED
  BY <1>2, <1>4, <1>5

(* The filter lets a message pass: the cache still held what it was bound  *)
(* to hold, so the message is no repetition; its sender was told with the  *)
(* own JID known.                                                          *)
LEMMA JudgeStep ==
  ASSUME DedupInv, LoopTypes, NEW l \in Loops, Judge(l)
  PROVE  DedupInv'
<1> DEFINE m == loop[l].hand
           pass == [msg |-> m, fromMe |-> FromMe(m, loop[l].knows)]
<1>1. m \in Events /\ loop[l].knows \in BOOLEAN
  BY BusyLoop DEF Judge, Busy
<1>2. CASE Gated(m) \/ ~Judged(loop[l].knows)
  <2>1. UNCHANGED bridgeDedup
    BY <1>2 DEF Judge
  <2>2. QED
    BY <2>1 DEF bridgeDedup, DedupInv, CacheInv, CacheTypes, Remembers, NotForwardedAgain,
                OwnIsFlagged, DroppedMayComeAgain
<1>3. CASE ~(Gated(m) \/ ~Judged(loop[l].knows))
  <2>1. Sighted(m) /\ loop[l].knows
    BY <1>3 DEF Judge, Judged
  <2>2. pass \in [msg : Events, fromMe : BOOLEAN] /\ pass.msg = m
    BY <1>1 DEF FromMe
  <2>3. pass.fromMe <=> EventKinds[m] \in {"own", "flagged"}
    BY <2>1 DEF FromMe
  <2>4. /\ \A i \in 1 .. Len(entries') :
             entries'[i].key = m \/ Found(entries, entries'[i].key)
    BY <1>1, <2>1, SightedKeeps DEF DedupInv
  <2>5. \A k : Found(entries, k) => EventKinds[k] = "optin" \/ Forwarded(k)
    BY DEF DedupInv, DroppedMayComeAgain, Found, Forwarded
  <2>6. CASE Seen(m) \/ EventKinds[m] = "optin"
    <3>1. UNCHANGED <<forwarded, again>>
      BY <1>3, <2>6 DEF Judge
    <3>2. CacheInv'
      BY <1>1, <2>1, <3>1, CacheAfterLookup DEF DedupInv, CacheInv, CacheTypes
    <3>3. Seen(m) => Found(entries, m)
      BY EvictedKeeps DEF Seen, DedupInv
    <3>4. DroppedMayComeAgain'
      BY <2>4, <2>5, <2>6, <3>1, <3>3 DEF DroppedMayComeAgain, Forwarded
    <3>5. QED
      BY <3>1, <3>2, <3>4 DEF DedupInv, NotForwardedAgain, OwnIsFlagged
  <2>7. CASE ~(Seen(m) \/ EventKinds[m] = "optin")
    <3>1. /\ forwarded' = forwarded \cup {pass}
          /\ again' = IF Repeats(m) THEN again \cup {m} ELSE again
      BY <1>3, <2>7 DEF Judge
    <3>2. CacheInv'
      <4>1. forwarded' \subseteq [msg : Events, fromMe : BOOLEAN]
        BY <2>2, <3>1 DEF DedupInv, CacheInv, CacheTypes
      <4>2. QED
        BY <1>1, <2>1, <4>1, CacheAfterLookup DEF DedupInv
    <3>3. ~Repeats(m)
      <4>1. SUFFICES ASSUME Repeats(m) PROVE FALSE
        OBVIOUS
      <4>2. sighting[m].at > horizon /\ Cardinality(sighting[m].after) < DedupMax
            /\ IsFiniteSet(sighting[m].after)
        BY <1>1, <4>1 DEF Repeats, DedupInv, CacheInv
      <4>3. Cardinality(sighting[m].after) \in Nat /\ DedupMax \in Nat
        BY <4>2, FS_CardinalityType, BridgeAssumption
      <4>4. Found(entries, m)
        BY <1>1, <4>2, <4>3 DEF DedupInv, CacheInv, Remembers
      <4>5. Seen(m)
        BY <1>1, <4>2, <4>4, EvictedKeeps DEF DedupInv
      <4>6. QED
        BY <2>7, <4>5
    <3>4. NotForwardedAgain'
      BY <3>1, <3>3 DEF DedupInv, NotForwardedAgain
    <3>5. OwnIsFlagged'
      BY <2>2, <2>3, <3>1 DEF DedupInv, OwnIsFlagged
    <3>6. /\ \E f \in forwarded' : f.msg = m
          /\ \A k : Forwarded(k) => \E f \in forwarded' : f.msg = k
      BY <2>2, <3>1 DEF Forwarded
    <3>7. DroppedMayComeAgain'
      BY <2>4, <2>5, <3>6 DEF DroppedMayComeAgain, Forwarded
    <3>8. QED
      BY <3>2, <3>4, <3>5, <3>7 DEF DedupInv
  <2>8. QED
    BY <2>6, <2>7
<1>4. QED
  BY <1>2, <1>3

LEMMA DedupStep ==
  ASSUME DedupInv, LoopTypes, [BridgeNext]_bridgeVars
  PROVE  DedupInv'
<1>0. CASE UNCHANGED bridgeDedup
  BY <1>0 DEF bridgeDedup, DedupInv, CacheInv, CacheTypes, Remembers, NotForwardedAgain,
              OwnIsFlagged, DroppedMayComeAgain
<1>1. CASE TtlPasses
  <2>1. /\ UNCHANGED <<entries, ticks, forwarded, sighting, again>>
        /\ horizon' \in horizon + 1 .. ticks
    BY <1>1 DEF TtlPasses
  <2>2. CacheTypes'
    BY <2>1 DEF DedupInv, CacheInv, CacheTypes
  <2>3. \A m \in Events : sighting[m].at > horizon' => sighting[m].at > horizon
    <3>1. \A m \in Events : sighting[m].at \in Nat
      BY DEF DedupInv, CacheInv, CacheTypes, Sightings
    <3>2. horizon \in Nat /\ ticks \in Nat
      BY DEF DedupInv, CacheInv, CacheTypes
    <3>3. QED
      BY <2>1, <3>1, <3>2
  <2>4. QED
    BY <2>1, <2>2, <2>3 DEF DedupInv, CacheInv, Remembers, NotForwardedAgain, OwnIsFlagged,
                            DroppedMayComeAgain
<1>2. CASE \/ ConnectOk \/ ConnectFails \/ LinkClosed \/ TimerFires \/ Stop \/ Exit
           \/ \E m \in Events : Arrives(m)
           \/ FetchOk \/ FetchFails \/ JidExpires
           \/ \E l \in Loops : TakeEvent(l) \/ ForwardDone(l)
           \/ UNCHANGED bridgeVars
  BY <1>0, <1>2 DEF ConnectOk, ConnectFails, LinkClosed, TimerFires, Stop, Exit, Arrives,
                    FetchOk, FetchFails, JidExpires, TakeEvent, ForwardDone, bridgeVars
<1>3. QED
  BY <1>1, <1>2, JudgeStep DEF BridgeNext, LoopSteps

(* BridgeInv: over every number of connections whose loops run at once,    *)
(* nothing the cache still has to hold goes to the gateway again, what the *)
(* account sent goes out as its own, and what was dropped unjudged is not  *)
(* held for a duplicate.                                                   *)
THEOREM BridgeCorrect == BridgeSpec => []BridgeInv
<1> DEFINE IInv == ConnectionTypes /\ LoopTypes /\ DedupInv
<1>1. BridgeInit => IInv
  <2> SUFFICES ASSUME BridgeInit PROVE IInv
    OBVIOUS
  <2> USE BridgeAssumption DEF BridgeInit
  <2>1. ConnectionTypes
    BY DEF ConnectionTypes
  <2>2. LoopTypes
    BY EmptySeq DEF LoopTypes, Rest
  <2>3. CacheTypes
    BY DEF CacheTypes, Sightings
  <2>4. /\ Len(entries) = 0
        /\ \A m \in Events : sighting[m].at = 0 /\ sighting[m].after = {}
    OBVIOUS
  <2>5. CacheInv
    <3>1. Ordered(entries, sighting) /\ Len(entries) <= DedupMax
      BY <2>4 DEF Ordered
    <3>2. /\ \A m \in Events : IsFiniteSet(sighting[m].after)
          /\ \A m \in Events : ~(sighting[m].at > horizon)
      <4>1. horizon = 0 /\ ~(0 > 0)
        OBVIOUS
      <4>2. \A m \in Events : sighting[m].at = horizon
        BY <2>4, <4>1
      <4>3. \A m \in Events : IsFiniteSet(sighting[m].after)
        BY <2>4, FS_EmptySet, Zenon
      <4> HIDE DEF BridgeInit
      <4>4. \A m \in Events : ~(sighting[m].at > horizon)
        BY <4>1, <4>2
      <4>5. QED
        BY <4>3, <4>4
    <3>3. QED
      BY <2>3, <3>1, <3>2 DEF CacheInv
  <2>6. NotForwardedAgain /\ OwnIsFlagged /\ DroppedMayComeAgain
    BY <2>4 DEF NotForwardedAgain, OwnIsFlagged, DroppedMayComeAgain
  <2>7. QED
    BY <2>1, <2>2, <2>5, <2>6 DEF DedupInv
<1>2. IInv /\ [BridgeNext]_bridgeVars => IInv'
  BY ConnectionStep, LoopStep, DedupStep
<1>3. IInv => BridgeInv
  <2> SUFFICES ASSUME IInv PROVE BridgeInv
    OBVIOUS
  <2>1. \A l \in Loops : loop[l] # Rest => loop[l].at \in {"waits", "judge", "forward"}
    BY DEF LoopTypes, Busy
  <2>2. again \subseteq Events /\ Len(entries) <= DedupMax /\ horizon <= ticks
    BY DEF DedupInv, NotForwardedAgain, CacheInv, CacheTypes
  <2>3. BridgeTypeOK
    BY <2>1, <2>2 DEF BridgeTypeOK, ConnectionTypes, LoopTypes
  <2>4. QED
    BY <2>3 DEF BridgeInv, DedupInv
<1>4. QED
  BY <1>1, <1>2, <1>3, PTL DEF BridgeSpec
=============================================================================
