------------------------ MODULE EventPublisherProofs ------------------------
(***************************************************************************)
(* Proofs about EventPublisher for every set of keys, every cap and every  *)
(* bound.  The invariants are proved in layers, each from the ones before: *)
(* types, the connection, the accounting of held events, their order, and  *)
(* the copies the server sees.                                             *)
(***************************************************************************)
EXTENDS EventPublisher, InstagramPublisher, FiniteSetTheorems, SequenceTheorems, TLAPS

-----------------------------------------------------------------------------
(* enqueue() adds the new entry, which survives the eviction because it is *)
(* the newest, and brings back nothing else.                               *)
LEMMA EnqueueKeeps ==
  ASSUME NEW n \in Nat, NEW q \in SUBSET Entry(n), NEW key \in Keys, NEW cut \in Int
  PROVE  LET item == [key |-> key, seq |-> n + 1]
         IN  /\ Enqueue(q, item, cut) \subseteq DropExpired(q, cut) \cup {item}
             /\ DropExpired(q, cut) \subseteq q
             /\ item \in Enqueue(q, item, cut)
<1> DEFINE item == [key |-> key, seq |-> n + 1]
           kept == DropExpired(q, cut) \cup {item}
<1>1. DropExpired(q, cut) \subseteq q
  BY DEF DropExpired
<1>2. Newer(kept, item) = {}
  BY <1>1 DEF Newer, Entry
<1>3. Cardinality(Newer(kept, item)) < MaxEvents
  BY <1>2, FS_EmptySet, RetainerAssumption
<1>4. QED
  BY <1>1, <1>3 DEF Enqueue, DropOverflow

LEMMA EntryGrows ==
  ASSUME NEW n \in Nat
  PROVE  Entry(n) \subseteq Entry(n + 1)
  BY DEF Entry

LEMMA SeqsBound ==
  ASSUME NEW n \in Nat, NEW q \in SUBSET Entry(n)
  PROVE  Seqs(q) \subseteq 1 .. n
  BY DEF Entry, Seqs

(* The status events stay a sequence of the two kinds. *)
LEMMA NoticesType ==
  /\ <<>> \in Seq({"disconnect", "reconnect"})
  /\ \A n \in Seq({"disconnect", "reconnect"}) :
       /\ \A e \in {"disconnect", "reconnect"} :
            Append(n, e) \in Seq({"disconnect", "reconnect"})
       /\ n # <<>> => Tail(n) \in Seq({"disconnect", "reconnect"})
<1>1. <<>> \in Seq({"disconnect", "reconnect"})
  BY EmptySeq
<1>2. ASSUME NEW n \in Seq({"disconnect", "reconnect"}),
             NEW e \in {"disconnect", "reconnect"}
      PROVE  Append(n, e) \in Seq({"disconnect", "reconnect"})
  BY AppendProperties
<1>3. ASSUME NEW n \in Seq({"disconnect", "reconnect"}), n # <<>>
      PROVE  Tail(n) \in Seq({"disconnect", "reconnect"})
  BY <1>3, HeadTailProperties
<1>4. QED BY <1>1, <1>2, <1>3

(* Counting emissions as f keeps the counters in their range. *)
LEMMA CountedType ==
  ASSUME NEW S, NEW f \in Fate!Fates, fate \in [Emissions -> Fate!Fates]
  PROVE  Counted(S, f) \in [Emissions -> Fate!Fates]
  BY DEF Counted

LEMMA FateValues ==
  {"none", "held", "published", "republished", "duplicate", "overflow",
   "expired", "superseded", "cleared"} = Fate!Fates
  BY DEF Fate!Fates, Fate!Settled

-----------------------------------------------------------------------------
(* Type correctness: every variable of the publisher keeps its type.       *)
THEOREM TypeCorrect == Spec => []TypeOK
<1> USE PublisherAssumption
<1>1. Init => TypeOK
  <2> SUFFICES ASSUME Init PROVE TypeOK
    OBVIOUS
  <2>1. fate \in [Emissions -> Fate!Fates] /\ delivered \in [Emissions -> Nat]
    BY FateValues DEF Init
  <2>2. accepted \in 0 .. MaxEmits /\ flaps \in 0 .. MaxFlaps
    BY DEF Init
  <2>3. QED
    BY <2>1, <2>2, NoticesType DEF Init, TypeOK
<1>2. TypeOK /\ [Next]_vars => TypeOK'
  <2> SUFFICES ASSUME TypeOK, [Next]_vars PROVE TypeOK'
    OBVIOUS
  <2>0. /\ accepted \in Nat /\ flaps \in Nat
        /\ \A f \in Fate!Fates : \A S : Counted(S, f) \in [Emissions -> Fate!Fates]
    BY CountedType DEF TypeOK
  <2> USE DEF TypeOK
  <2>1. ASSUME NEW key \in Keys, EmitPublished(key) PROVE TypeOK'
    <3>1. fate' \in [Emissions -> Fate!Fates]
      BY <2>1, <2>0, FateValues DEF EmitPublished
    <3>2. queue' \in SUBSET Entry(accepted') /\ batch' \in SUBSET Entry(accepted')
      BY <2>1, <2>0, EntryGrows DEF EmitPublished
    <3>3. /\ accepted' \in 0 .. MaxEmits
          /\ wire' \in SUBSET (1 .. accepted')
      BY <2>1, <2>0 DEF EmitPublished
    <3>4. QED
      BY <2>1, <3>1, <3>2, <3>3 DEF EmitPublished, connVars
  <2>2. ASSUME NEW key \in Keys, EmitRetained(key) PROVE TypeOK'
    <3>1. accepted' \in 0 .. MaxEmits /\ accepted' = accepted + 1
      BY <2>2 DEF EmitRetained
    <3>2. fate' \in [Emissions -> Fate!Fates]
      <4>1. CASE fate' = Counted({accepted + 1}, "duplicate")
        BY <4>1, <2>0, FateValues
      <4>2. CASE fate' # Counted({accepted + 1}, "duplicate")
        BY <2>2, <4>2, FateValues DEF EmitRetained
      <4>3. QED BY <4>1, <4>2
    <3>3. queue' \in SUBSET Entry(accepted')
      <4>1. CASE UNCHANGED queue
        BY <4>1, <3>1, <2>0, EntryGrows
      <4>2. CASE ~UNCHANGED queue
        <5> DEFINE item == [key |-> key, seq |-> accepted + 1]
        <5>1. PICK cut \in Seqs(queue) \cup {0} : queue' = Enqueue(queue, item, cut)
          BY <2>2, <4>2 DEF EmitRetained
        <5>2. queue' \subseteq queue \cup {item}
          BY <5>1 DEF Enqueue, DropOverflow, DropExpired
        <5>3. item \in Entry(accepted')
          BY <3>1, <2>0 DEF Entry
        <5>4. QED BY <5>2, <5>3, <3>1, <2>0, EntryGrows
      <4>3. QED BY <4>1, <4>2
    <3>4. batch' \in SUBSET Entry(accepted')
      BY <2>2, <2>0, EntryGrows DEF EmitRetained
    <3>5. wire' \in SUBSET (1 .. accepted')
      BY <2>2, <2>0 DEF EmitRetained, netVars
    <3>6. connected' \in BOOLEAN
      BY <2>2 DEF EmitRetained
    <3>7. QED BY <2>2, <3>5, <3>6, <3>1, <3>2, <3>3, <3>4 DEF EmitRetained, netVars
  <2>3. CASE TimerFire
    BY <2>3 DEF TimerFire, queueVars, netVars
  <2>a. ASSUME NEW nc, DrainRetention(nc), UNCHANGED accepted
        PROVE  /\ connected' \in BOOLEAN /\ wire' \in SUBSET (1 .. accepted')
               /\ queue' \in SUBSET Entry(accepted')
               /\ batch' \in SUBSET Entry(accepted')
               /\ flush' \in {"idle", "waiting", "broken"}
    <3>1. Seqs(queue) \subseteq 1 .. accepted
      BY <2>0, SeqsBound
    <3>2. QED BY <2>a, <3>1 DEF DrainRetention
  <2>4. CASE ConnectOk
    BY <2>4, <2>a, NoticesType DEF ConnectOk
  <2>5. CASE ConnectFail
    BY <2>5 DEF ConnectFail, ScheduleReconnect, queueVars, netVars
  <2>6. CASE StatusDisconnect
    BY <2>6, NoticesType DEF StatusDisconnect, queueVars
  <2>7. CASE StatusReconnect
    BY <2>7, <2>a, NoticesType DEF StatusReconnect
  <2>8. CASE FlushConfirmed
    <3>1. fate' \in [Emissions -> Fate!Fates]
      BY <2>8, <2>0, FateValues DEF FlushConfirmed, FlushAnswered
    <3>2. /\ wire' \in SUBSET (1 .. accepted')
          /\ queue' \in SUBSET Entry(accepted') /\ batch' \in SUBSET Entry(accepted')
          /\ flush' \in {"idle", "waiting", "broken"}
      <4>1. Seqs(queue) \subseteq 1 .. accepted
        BY <2>0, SeqsBound
      <4>2. QED BY <2>8, <4>1 DEF FlushConfirmed, FlushAnswered
    <3>3. QED BY <2>8, <3>1, <3>2 DEF FlushConfirmed, FlushAnswered, connVars
  <2>9. CASE FlushFailed
    <3>1. fate' \in [Emissions -> Fate!Fates]
      BY <2>9, <2>0, FateValues DEF FlushFailed
    <3>2. queue' \subseteq queue \cup batch
      BY <2>9 DEF FlushFailed, RequeueFront, Requeueable
    <3>3. retried' \in SUBSET Emissions
      <4>1. Seqs(batch) \subseteq 1 .. accepted
        BY <2>0, SeqsBound
      <4>2. retried' = retried \cup Seqs(batch)
        BY <2>9 DEF FlushFailed
      <4>3. 1 .. accepted \subseteq Emissions
        BY DEF Emissions
      <4>4. QED BY <4>1, <4>2, <4>3
    <3>4. QED
      BY <2>9, <3>1, <3>2, <3>3 DEF FlushFailed, ScheduleReconnect, netVars
  <2>10. CASE WatchClosed
    BY <2>10, NoticesType DEF WatchClosed, ScheduleReconnect, queueVars
  <2>11. CASE Disconnect
    <3>1. fate' \in [Emissions -> Fate!Fates]
      BY <2>11, <2>0, FateValues DEF Disconnect
    <3>2. QED BY <2>11, <3>1 DEF Disconnect
  <2>12. CASE DisconnectDone
    BY <2>12, NoticesType DEF DisconnectDone, queueVars
  <2>13. ASSUME NEW s \in Emissions, ServerTakes(s) PROVE TypeOK'
    BY <2>13 DEF ServerTakes, connVars, queueVars
  <2>14. CASE LinkDown
    BY <2>14, <2>0, NoticesType DEF LinkDown, BreakFlush
  <2>15. CASE LinkUp
    BY <2>15, NoticesType DEF LinkUp, BreakFlush
  <2>16. CASE LinkClosed
    BY <2>16 DEF LinkClosed, BreakFlush
  <2>17. CASE UNCHANGED vars
    BY <2>17 DEF vars
  <2>18. QED
    BY <2>1, <2>2, <2>3, <2>4, <2>5, <2>6, <2>7, <2>8, <2>9, <2>10, <2>11,
       <2>12, <2>13, <2>14, <2>15, <2>16, <2>17 DEF Next, Emit
<1>3. QED BY <1>1, <1>2, PTL DEF Spec

-----------------------------------------------------------------------------
(* The retry is never lost: whatever the order of failed attempts, closed   *)
(* clients and timers, a publisher without a client has the next attempt    *)
(* under way or armed.  `closing` and `stopped` are needed because the rest *)
(* of disconnect() drops the client without scheduling anything.            *)
LEMMA ConnectionStep == TypeOK /\ ConnectionInv /\ [Next]_vars => ConnectionInv'
<1> SUFFICES ASSUME TypeOK, ConnectionInv, [Next]_vars PROVE ConnectionInv'
  OBVIOUS
<1> USE DEF TypeOK, ConnectionInv, RetryArmed
<1>1. ASSUME NEW key \in Keys, EmitPublished(key) PROVE ConnectionInv'
  BY <1>1 DEF EmitPublished, connVars
<1>2. ASSUME NEW key \in Keys, EmitRetained(key) PROVE ConnectionInv'
  BY <1>2 DEF EmitRetained
<1>3. CASE TimerFire
  BY <1>3 DEF TimerFire
<1>4. CASE ConnectOk
  BY <1>4 DEF ConnectOk, DrainRetention
<1>5. CASE ConnectFail
  BY <1>5 DEF ConnectFail, ScheduleReconnect
<1>6. CASE StatusDisconnect
  BY <1>6 DEF StatusDisconnect
<1>7. CASE StatusReconnect
  BY <1>7 DEF StatusReconnect, DrainRetention
<1>8. CASE FlushConfirmed
  BY <1>8 DEF FlushConfirmed, FlushAnswered, connVars
<1>9. CASE FlushFailed
  BY <1>9 DEF FlushFailed, ScheduleReconnect
<1>10. CASE WatchClosed
  BY <1>10 DEF WatchClosed, ScheduleReconnect
<1>11. CASE Disconnect
  BY <1>11 DEF Disconnect
<1>12. CASE DisconnectDone
  BY <1>12 DEF DisconnectDone
<1>13. ASSUME NEW s \in Emissions, ServerTakes(s) PROVE ConnectionInv'
  BY <1>13 DEF ServerTakes, connVars
<1>14. CASE LinkDown \/ LinkUp \/ LinkClosed
  BY <1>14 DEF LinkDown, LinkUp, LinkClosed
<1>15. CASE UNCHANGED vars
  BY <1>15 DEF vars
<1>16. QED
  BY <1>1, <1>2, <1>3, <1>4, <1>5, <1>6, <1>7, <1>8, <1>9, <1>10, <1>11,
     <1>12, <1>13, <1>14, <1>15 DEF Next, Emit

\* Client, connecting, retry timer and notices only stand as connect(),
\* watchStatus() and scheduleReconnect() leave them; never a retry beside a client.
THEOREM ConnectionCorrect == Spec => []ConnectionInv
<1>1. Init => ConnectionInv
  BY DEF Init, ConnectionInv, RetryArmed
<1>2. QED BY <1>1, ConnectionStep, TypeCorrect, PTL DEF Spec

(* RetryArmed of the safety run, for every instance. *)
THEOREM RetryNeverLost == Spec => []RetryArmed
<1>1. ConnectionInv => RetryArmed
  BY DEF ConnectionInv
<1>2. QED BY <1>1, ConnectionCorrect, PTL

-----------------------------------------------------------------------------
(* A step leaves the retainer, the counters and the batch alone unless it   *)
(* is one of the handlers that work on them.                                *)
LEMMA QueueUntouched ==
  ASSUME \/ TimerFire \/ ConnectFail \/ StatusDisconnect \/ WatchClosed
         \/ DisconnectDone \/ LinkDown \/ LinkUp \/ LinkClosed
         \/ \E s \in Emissions : ServerTakes(s)
         \/ UNCHANGED vars
  PROVE  UNCHANGED <<queue, batch, accepted, fate, retried>>
  BY DEF TimerFire, ConnectFail, StatusDisconnect, WatchClosed, DisconnectDone,
         LinkDown, LinkUp, LinkClosed, ServerTakes, queueVars, vars

(* `draining` is set exactly while a batch is out. *)
LEMMA DrainStep == DrainInv /\ [Next]_vars => DrainInv'
<1> SUFFICES ASSUME DrainInv, [Next]_vars PROVE DrainInv'
  OBVIOUS
<1> USE DEF DrainInv
<1>1. ASSUME NEW nc, DrainRetention(nc) PROVE DrainInv'
  BY <1>1 DEF DrainRetention
<1>2. CASE ConnectOk \/ StatusReconnect
  BY <1>1, <1>2 DEF ConnectOk, StatusReconnect
<1>3. CASE FlushConfirmed \/ FlushFailed
  BY <1>3 DEF FlushConfirmed, FlushAnswered, FlushFailed
<1>4. CASE Disconnect \/ LinkDown \/ LinkUp \/ LinkClosed
  BY <1>4 DEF Disconnect, LinkDown, LinkUp, LinkClosed, BreakFlush
<1>5. ASSUME NEW key \in Keys, Emit(key) PROVE DrainInv'
  BY <1>5 DEF Emit, EmitPublished, EmitRetained
<1>6. CASE \/ TimerFire \/ ConnectFail \/ StatusDisconnect \/ WatchClosed
           \/ DisconnectDone \/ UNCHANGED vars
           \/ \E s \in Emissions : ServerTakes(s)
  BY <1>6 DEF TimerFire, ConnectFail, StatusDisconnect, WatchClosed,
              DisconnectDone, ServerTakes, queueVars, vars
<1>7. QED
  BY <1>2, <1>3, <1>4, <1>5, <1>6 DEF Next

-----------------------------------------------------------------------------
(* The accounting and the order of the retainer hold together: a batch goes *)
(* back in order because it is older than the queue, its superseded entries *)
(* are told from the others because emissions are unique, and an event once *)
(* republished is older than everything held.                               *)
RetainerInv ==
  HeldExactly /\ OneEntryPerKey /\ BatchBeforeQueue /\ RepublishedInOrder

(* Membership in the emissions of a set of entries. *)
LEMMA InSeqs == \A q, s : s \in Seqs(q) <=> \E i \in q : i.seq = s
  BY DEF Seqs

LEMMA InKeys == \A q, k : k \in KeysOf(q) <=> \E i \in q : i.key = k
  BY DEF KeysOf

LEMMA EntryFields ==
  ASSUME TypeOK
  PROVE  \A i \in queue \cup batch :
           /\ i.seq \in Emissions /\ i.seq \in Nat /\ i.seq <= accepted
           /\ i.key \in Keys
<1>1. accepted \in 0 .. MaxEmits
  BY DEF TypeOK
<1>2. QED BY <1>1, PublisherAssumption DEF TypeOK, Entry, Emissions

LEMMA RetainerEmitPublished ==
  ASSUME TypeOK, RetainerInv, NEW key \in Keys, EmitPublished(key)
  PROVE  RetainerInv'
<1> USE EntryFields DEF RetainerInv
<1>1. /\ accepted \in Nat /\ accepted' = accepted + 1
      /\ queue' = queue /\ batch' = batch
      /\ fate' = [s \in Emissions |->
                    IF s = accepted + 1 THEN "published" ELSE fate[s]]
  BY DEF EmitPublished, TypeOK, Counted
<1>2. accepted + 1 \notin Seqs(queue) \cup Seqs(batch)
  BY <1>1, InSeqs
<1>3. HeldExactly'
  BY <1>1, <1>2 DEF HeldExactly, Emissions
<1>4. RepublishedInOrder'
  BY <1>1 DEF RepublishedInOrder
<1>5. QED
  BY <1>1, <1>3, <1>4 DEF OneEntryPerKey, BatchBeforeQueue

LEMMA RetainerEmitRetained ==
  ASSUME TypeOK, RetainerInv, NEW key \in Keys, EmitRetained(key)
  PROVE  RetainerInv'
<1> DEFINE item == [key |-> key, seq |-> accepted + 1]
<1> USE EntryFields DEF RetainerInv
<1>1. accepted \in Nat /\ accepted' = accepted + 1 /\ batch' = batch
  BY DEF EmitRetained, TypeOK
<1>2. accepted + 1 \notin Seqs(queue) \cup Seqs(batch)
  BY <1>1, InSeqs
<1>3. CASE fate' = Counted({accepted + 1}, "duplicate") /\ queue' = queue
  <2>1. fate' = [s \in Emissions |->
                   IF s = accepted + 1 THEN "duplicate" ELSE fate[s]]
    BY <1>3 DEF Counted
  <2>2. HeldExactly'
    <3>1. ASSUME NEW s \in Emissions
          PROVE  /\ fate'[s] = "held" <=> s \in Seqs(queue) \cup Seqs(batch)
                 /\ fate'[s] = "none" <=> s > accepted'
      BY <1>1, <1>2, <2>1 DEF HeldExactly, Emissions
    <3>2. QED BY <1>1, <1>3, <3>1 DEF HeldExactly
  <2>3. RepublishedInOrder'
    BY <1>1, <1>3, <2>1 DEF RepublishedInOrder
  <2>4. QED BY <1>1, <1>3, <2>2, <2>3 DEF OneEntryPerKey, BatchBeforeQueue
<1>4. CASE ~(fate' = Counted({accepted + 1}, "duplicate") /\ queue' = queue)
  <2>1. PICK cut \in Seqs(queue) \cup {0} :
          LET kept == DropExpired(queue, cut) \cup {item}
          IN /\ queue' = Enqueue(queue, item, cut)
             /\ fate' = [s \in Emissions |->
                  IF s = accepted + 1 THEN "held"
                  ELSE IF s \in Seqs(queue) \ Seqs(kept) THEN "expired"
                  ELSE IF s \in Seqs(kept) \ Seqs(queue') THEN "overflow"
                  ELSE fate[s]]
    BY <1>4 DEF EmitRetained
  <2> DEFINE kept == DropExpired(queue, cut) \cup {item}
  <2>2. cut \in Int
    BY InSeqs
  <2>3. /\ queue' \subseteq kept /\ kept \subseteq queue \cup {item}
        /\ item \in queue'
    <3>1. queue \in SUBSET Entry(accepted)
      BY DEF TypeOK
    <3>2. QED BY <1>1, <2>1, <2>2, <3>1, EnqueueKeeps
  <2>4. key \notin KeysOf(queue)
    BY <1>4 DEF EmitRetained, IsDuplicate
  <2>5. OneEntryPerKey'
    BY <1>1, <2>3, <2>4, InKeys DEF OneEntryPerKey
  <2>6. BatchBeforeQueue'
    BY <1>1, <2>3 DEF BatchBeforeQueue
  <2>7. ASSUME NEW s \in Emissions PROVE fate'[s] = "held" <=> s \in Seqs(queue') \cup Seqs(batch)
    <3>1. CASE s = accepted + 1
      BY <1>1, <2>1, <2>3, <3>1, InSeqs
    <3>2. CASE s # accepted + 1
      <4>1. s \in Seqs(kept) <=> s \in Seqs(DropExpired(queue, cut))
        BY <3>2, InSeqs
      <4>2. s \in Seqs(queue') => s \in Seqs(kept)
        BY <2>3, InSeqs
      <4>3. s \in Seqs(kept) => s \in Seqs(queue)
        BY <4>1, InSeqs DEF DropExpired
      <4>4. fate[s] = "held" <=> s \in Seqs(queue) \cup Seqs(batch)
        BY DEF HeldExactly
      <4>5. ~(s \in Seqs(queue) /\ s \in Seqs(batch))
        BY DEF HeldExactly
      <4>6. fate'[s] = IF s \in Seqs(queue) \ Seqs(kept) THEN "expired"
                       ELSE IF s \in Seqs(kept) \ Seqs(queue') THEN "overflow"
                       ELSE fate[s]
        BY <2>1, <3>2
      <4>7. QED BY <4>2, <4>3, <4>4, <4>5, <4>6
    <3>3. QED BY <3>1, <3>2
  <2>8. Seqs(queue') \subseteq Seqs(queue) \cup {accepted + 1}
    BY <2>3, InSeqs
  <2>9. ASSUME NEW s \in Emissions PROVE (fate'[s] = "none") <=> s > accepted'
    <3>1. fate[s] = "none" <=> s > accepted
      BY DEF HeldExactly
    <3>2. s \in Seqs(queue) => fate[s] # "none"
      BY <3>1, <1>1, InSeqs DEF Emissions
    <3>3. s # accepted + 1 => (s \in Seqs(kept) => s \in Seqs(queue))
      <4>1. \A i \in kept : i = item \/ i \in queue
        BY <2>3
      <4>2. QED BY <4>1, InSeqs
    <3>4. s # accepted + 1 => (fate'[s] = "none" <=> fate[s] = "none")
      BY <2>1, <3>2, <3>3
    <3>5. s = accepted + 1 => fate'[s] = "held"
      BY <2>1
    <3>6. QED BY <1>1, <3>1, <3>4, <3>5 DEF Emissions
  <2>10. HeldExactly'
    <3>1. Seqs(queue') \cap Seqs(batch') = {}
      BY <1>1, <1>2, <2>8 DEF HeldExactly
    <3>2. Seqs(queue') \cup Seqs(batch') \subseteq Emissions
      <4>1. accepted + 1 \in Emissions
        BY <1>1, PublisherAssumption DEF EmitRetained, Emissions
      <4>2. QED BY <1>1, <2>8, <4>1, InSeqs
    <3>3. QED BY <1>1, <2>7, <2>9, <3>1, <3>2 DEF HeldExactly
  <2>11. RepublishedInOrder'
    <3>1. ASSUME NEW s \in Emissions, fate'[s] = "republished"
          PROVE  fate[s] = "republished" /\ s <= accepted
      <4>1. fate[s] = "republished"
        BY <2>1, <3>1
      <4>2. QED BY <1>1, <4>1 DEF HeldExactly, Emissions
    <3>2. QED BY <1>1, <2>3, <3>1 DEF RepublishedInOrder, Emissions
  <2>12. QED BY <2>5, <2>6, <2>10, <2>11
<1>5. QED BY <1>3, <1>4

LEMMA RetainerDrain ==
  ASSUME TypeOK, RetainerInv, DrainInv, NEW nc, DrainRetention(nc),
         UNCHANGED <<accepted, fate>>
  PROVE  RetainerInv'
<1> USE EntryFields DEF RetainerInv
<1>1. CASE UNCHANGED <<queue, batch>>
  BY <1>1 DEF HeldExactly, OneEntryPerKey, BatchBeforeQueue, RepublishedInOrder
<1>2. CASE ~UNCHANGED <<queue, batch>>
  <2>1. batch' = queue /\ queue' = {} /\ batch = {}
    BY <1>2 DEF DrainRetention, DrainInv
  <2>2. HeldExactly'
    BY <2>1, InSeqs DEF HeldExactly
  <2>3. QED
    BY <2>1, <2>2 DEF OneEntryPerKey, BatchBeforeQueue, RepublishedInOrder
<1>3. QED BY <1>1, <1>2

(* The batch is confirmed: it is older than all that is held afterwards.    *)
LEMMA RetainerConfirmed ==
  ASSUME TypeOK, RetainerInv, FlushConfirmed
  PROVE  RetainerInv'
<1> USE EntryFields DEF RetainerInv
<1>1. /\ \/ batch' = queue /\ queue' = {}
         \/ batch' = {} /\ queue' = queue
      /\ accepted' = accepted
      /\ fate' = [s \in Emissions |->
                    IF s \in Seqs(batch) THEN "republished" ELSE fate[s]]
  BY DEF FlushConfirmed, FlushAnswered, Counted
<1>2. Seqs(batch') \cup Seqs(queue') = Seqs(queue) /\ Seqs(batch') \cap Seqs(queue') = {}
  BY <1>1, InSeqs
<1>3. HeldExactly'
  <2>1. ASSUME NEW s \in Emissions
        PROVE  /\ fate'[s] = "held" <=> s \in Seqs(queue)
               /\ fate'[s] = "none" <=> s > accepted
    <3>1. s \in Seqs(batch) => fate[s] = "held" /\ s \notin Seqs(queue)
      BY DEF HeldExactly
    <3>2. fate[s] = "held" <=> s \in Seqs(queue) \cup Seqs(batch)
      BY DEF HeldExactly
    <3>3. fate[s] = "none" <=> s > accepted
      BY DEF HeldExactly
    <3>4. QED BY <1>1, <3>1, <3>2, <3>3
  <2>2. Seqs(queue) \subseteq Emissions
    BY InSeqs
  <2>3. QED BY <1>1, <1>2, <2>1, <2>2 DEF HeldExactly
<1>4. OneEntryPerKey' /\ BatchBeforeQueue'
  BY <1>1 DEF OneEntryPerKey, BatchBeforeQueue
<1>5. RepublishedInOrder'
  <2>1. ASSUME NEW s \in Emissions, fate'[s] = "republished", NEW i \in queue
        PROVE  s < i.seq
    <3>1. CASE s \in Seqs(batch)
      BY <3>1, InSeqs DEF BatchBeforeQueue
    <3>2. CASE s \notin Seqs(batch)
      BY <1>1, <2>1, <3>2 DEF RepublishedInOrder
    <3>3. QED BY <3>1, <3>2
  <2>2. QED BY <1>1, <2>1 DEF RepublishedInOrder
<1>6. QED BY <1>3, <1>4, <1>5

(* The batch goes back, but for the entries whose key was queued again.     *)
LEMMA RetainerFailed ==
  ASSUME TypeOK, RetainerInv, FlushFailed
  PROVE  RetainerInv'
<1> DEFINE back == Requeueable(queue, batch)
<1> USE EntryFields DEF RetainerInv
<1>1. /\ queue' = queue \cup back /\ batch' = {} /\ accepted' = accepted
      /\ fate' = [s \in Emissions |->
                    IF s \in Seqs(batch \ back) THEN "superseded" ELSE fate[s]]
  BY DEF FlushFailed, RequeueFront, Counted
<1>2. back \subseteq batch /\ \A i \in back, j \in queue : i.key # j.key
  BY InKeys DEF Requeueable
<1>3. Seqs(batch) = Seqs(back) \cup Seqs(batch \ back)
  BY <1>2, InSeqs
<1>4. Seqs(back) \cap Seqs(batch \ back) = {}
  BY <1>2, InSeqs DEF OneEntryPerKey
<1>5. Seqs(queue') = Seqs(queue) \cup Seqs(back) /\ Seqs(batch') = {}
  BY <1>1, InSeqs
<1>6. HeldExactly'
  <2>1. ASSUME NEW s \in Emissions
        PROVE  /\ fate'[s] = "held" <=> s \in Seqs(queue')
               /\ fate'[s] = "none" <=> s > accepted
    <3>1. /\ fate[s] = "held" <=> s \in Seqs(queue) \cup Seqs(batch)
          /\ ~(s \in Seqs(queue) /\ s \in Seqs(batch))
          /\ fate[s] = "none" <=> s > accepted
      BY DEF HeldExactly
    <3>2. QED BY <1>1, <1>3, <1>4, <1>5, <3>1
  <2>2. Seqs(queue') \subseteq Emissions
    BY <1>1, <1>2, InSeqs
  <2>3. QED BY <1>1, <1>5, <2>1, <2>2 DEF HeldExactly
<1>7. OneEntryPerKey'
  BY <1>1, <1>2 DEF OneEntryPerKey, BatchBeforeQueue
<1>8. BatchBeforeQueue'
  BY <1>1 DEF BatchBeforeQueue
<1>9. RepublishedInOrder'
  BY <1>1, <1>2 DEF RepublishedInOrder
<1>10. QED BY <1>6, <1>7, <1>8, <1>9

LEMMA RetainerDisconnect ==
  ASSUME TypeOK, RetainerInv, Disconnect
  PROVE  RetainerInv'
<1> USE EntryFields DEF RetainerInv
<1>1. /\ queue' = {} /\ batch' = batch /\ accepted' = accepted
      /\ fate' = [s \in Emissions |->
                    IF s \in Seqs(queue) THEN "cleared" ELSE fate[s]]
  BY DEF Disconnect, Counted
<1>2. HeldExactly'
  <2>1. ASSUME NEW s \in Emissions
        PROVE  /\ fate'[s] = "held" <=> s \in Seqs(batch)
               /\ fate'[s] = "none" <=> s > accepted
    BY <1>1 DEF HeldExactly
  <2>2. Seqs(batch) \subseteq Emissions /\ Seqs(queue') = {}
    BY <1>1, InSeqs
  <2>3. QED BY <1>1, <2>1, <2>2 DEF HeldExactly
<1>3. QED
  BY <1>1, <1>2 DEF OneEntryPerKey, BatchBeforeQueue, RepublishedInOrder

LEMMA RetainerStep ==
  TypeOK /\ RetainerInv /\ DrainInv /\ [Next]_vars => RetainerInv'
<1> SUFFICES ASSUME TypeOK, RetainerInv, DrainInv, [Next]_vars
             PROVE  RetainerInv'
  OBVIOUS
<1>1. ASSUME NEW key \in Keys, Emit(key) PROVE RetainerInv'
  BY <1>1, RetainerEmitPublished, RetainerEmitRetained DEF Emit
<1>2. CASE ConnectOk
  BY <1>2, RetainerDrain DEF ConnectOk
<1>3. CASE StatusReconnect
  BY <1>3, RetainerDrain DEF StatusReconnect
<1>4. CASE FlushConfirmed \/ FlushFailed \/ Disconnect
  BY <1>4, RetainerConfirmed, RetainerFailed, RetainerDisconnect
<1>5. CASE UNCHANGED <<queue, batch, accepted, fate, retried>>
  BY <1>5 DEF RetainerInv, HeldExactly, OneEntryPerKey, BatchBeforeQueue,
              RepublishedInOrder
<1>6. QED
  BY <1>1, <1>2, <1>3, <1>4, <1>5, QueueUntouched DEF Next

(* Every event is accounted for, once per key and in order, in every        *)
(* instance.                                                                *)
THEOREM RetainerCorrect == Spec => [](RetainerInv /\ DrainInv)
<1>1. Init => RetainerInv /\ DrainInv
  <2>1. Init => HeldExactly
    BY InSeqs, PublisherAssumption DEF Init, HeldExactly, Emissions
  <2>2. QED
    BY <2>1 DEF Init, RetainerInv, DrainInv, OneEntryPerKey, BatchBeforeQueue,
                RepublishedInOrder
<1>2. QED BY <1>1, RetainerStep, DrainStep, TypeCorrect, PTL DEF Spec

\* An accepted event is held exactly while it is in the queue or in the batch of
\* a drain(), never in both, so that retentionStats() accounts for every event.
THEOREM HeldIsAccounted == Spec => []HeldExactly
<1>1. RetainerInv => HeldExactly
  BY DEF RetainerInv
<1>2. QED BY <1>1, RetainerCorrect, PTL

\* drain() and requeue() republish in the order of emission, with new events
\* arriving in between.
THEOREM RepublishedInOrderAlways == Spec => []RepublishedInOrder
<1>1. RetainerInv => RepublishedInOrder
  BY DEF RetainerInv
<1>2. QED BY <1>1, RetainerCorrect, PTL

-----------------------------------------------------------------------------
(* What reaches the server.  FlushInv: as long as a flush may be confirmed, *)
(* every event of its batch is on the wire or was taken, so a confirmation  *)
(* means that all were.  CopyInv: an event without a failed flush has one   *)
(* copy at most, because it is sent when it leaves emit() or the queue.     *)
DeliveryInv == FlushInv /\ CopyInv /\ RepublishedReachedServer

LEMMA DeliveryEmit ==
  ASSUME TypeOK, RetainerInv, DeliveryInv, NEW key \in Keys, Emit(key)
  PROVE  DeliveryInv'
<1> USE EntryFields DEF DeliveryInv
<1>1. accepted \in Nat /\ accepted' = accepted + 1 /\ accepted + 1 \in Emissions
  BY PublisherAssumption
     DEF Emit, EmitPublished, EmitRetained, TypeOK, Emissions
<1>2. /\ wire \subseteq wire' /\ wire' \subseteq wire \cup {accepted + 1}
      /\ UNCHANGED <<batch, flush, delivered, retried>>
  BY DEF Emit, EmitPublished, EmitRetained, netVars
<1>3. FlushInv'
  BY <1>2 DEF FlushInv
<1>4. RepublishedReachedServer'
  <2>1. ASSUME NEW s \in Emissions, fate'[s] = "republished"
        PROVE  fate[s] = "republished"
    <3>1. CASE EmitPublished(key)
      BY <2>1, <3>1 DEF EmitPublished, Counted
    <3>2. CASE EmitRetained(key)
      BY <2>1, <3>2 DEF EmitRetained, Counted
    <3>3. QED BY <3>1, <3>2 DEF Emit
  <2>2. QED BY <1>2, <2>1 DEF RepublishedReachedServer
<1>5. \A s \in Seqs(queue') : s \in Seqs(queue) \/ s = accepted + 1
  <2>1. CASE queue' = queue
    BY <2>1
  <2>2. CASE queue' # queue
    <3>1. EmitRetained(key)
      BY <2>2 DEF Emit, EmitPublished
    <3>2. queue' \subseteq queue \cup {[key |-> key, seq |-> accepted + 1]}
      BY <2>2, <3>1 DEF EmitRetained, Enqueue, DropOverflow, DropExpired
    <3>3. QED BY <3>2, InSeqs
  <2>3. QED BY <2>1, <2>2
<1>6. wire' = wire \/ queue' = queue
  BY DEF Emit, EmitPublished, EmitRetained, netVars
<1>7. accepted + 1 \notin Seqs(queue)
  BY <1>1, InSeqs
<1>8. CopyInv'
  <2> SUFFICES ASSUME NEW s \in Emissions \ retried
               PROVE  /\ delivered[s] <= 1
                      /\ s \in wire' => delivered[s] = 0
                      /\ s \in Seqs(queue') \/ s > accepted + 1
                           => delivered[s] = 0 /\ s \notin wire'
    BY <1>1, <1>2 DEF CopyInv
  <2>1. /\ delivered[s] <= 1
        /\ s \in wire => delivered[s] = 0
        /\ s \in Seqs(queue) \/ s > accepted => delivered[s] = 0 /\ s \notin wire
    BY DEF CopyInv
  <2>2. s \in Nat
    BY DEF Emissions
  <2>3. CASE s = accepted + 1
    BY <1>1, <1>2, <1>6, <1>7, <2>1, <2>3
  <2>4. CASE s # accepted + 1
    BY <1>1, <1>2, <1>5, <2>1, <2>2, <2>4
  <2>5. QED BY <2>3, <2>4
<1>9. QED BY <1>3, <1>4, <1>8

(* Publishing the queue as a batch, from a reconnect or from the drain loop. *)
LEMMA DeliveryBatch ==
  ASSUME TypeOK, DeliveryInv,
         \/ UNCHANGED <<queue, batch, flush, wire>>
         \/ /\ batch' = queue /\ queue' = {} /\ wire' = wire \cup Seqs(queue)
         \/ /\ batch' = {} /\ flush' = "idle" /\ UNCHANGED <<queue, wire>>,
         UNCHANGED <<accepted, delivered, retried>>
  PROVE  FlushInv' /\ CopyInv'
<1>1. Seqs({}) = {}
  BY InSeqs
<1>2. FlushInv'
  BY <1>1 DEF FlushInv, DeliveryInv
<1>3. CopyInv'
  <2>1. ASSUME NEW s \in Emissions \ retried
        PROVE  /\ s \in wire' => delivered[s] = 0
               /\ s \in Seqs(queue') => delivered[s] = 0 /\ s \notin wire'
               /\ s > accepted => delivered[s] = 0 /\ s \notin wire'
    <3>1. s \in Seqs(queue) => s <= accepted /\ s \in Nat /\ accepted \in Nat
      BY EntryFields, InSeqs DEF TypeOK
    <3>2. QED BY <1>1, <3>1 DEF CopyInv, DeliveryInv
  <2>2. QED BY <2>1 DEF CopyInv, DeliveryInv
<1>4. QED BY <1>2, <1>3

LEMMA DeliveryFailed ==
  ASSUME TypeOK, DeliveryInv, FlushFailed
  PROVE  DeliveryInv'
<1>1. /\ flush' = "idle" /\ UNCHANGED <<accepted, wire, delivered>>
      /\ retried' = retried \cup Seqs(batch)
      /\ queue' \subseteq queue \cup batch
      /\ \A s \in Emissions : fate'[s] = "republished" => fate[s] = "republished"
  BY DEF FlushFailed, RequeueFront, Requeueable, netVars, Counted
<1>2. Seqs(queue') \subseteq Seqs(queue) \cup Seqs(batch)
  BY <1>1, InSeqs
<1>3. QED
  BY <1>1, <1>2 DEF DeliveryInv, FlushInv, CopyInv, RepublishedReachedServer

LEMMA DeliveryDisconnect ==
  ASSUME TypeOK, DeliveryInv, Disconnect
  PROVE  DeliveryInv'
<1>1. /\ queue' = {} /\ wire' \subseteq wire
      /\ UNCHANGED <<batch, accepted, delivered, retried>>
      /\ flush' = "waiting" => wire' = wire /\ flush = "waiting"
      /\ \A s \in Emissions : fate'[s] = "republished" => fate[s] = "republished"
  BY DEF Disconnect, Counted
<1>2. Seqs(queue') = {}
  BY <1>1, InSeqs
<1>3. QED
  BY <1>1, <1>2 DEF DeliveryInv, FlushInv, CopyInv, RepublishedReachedServer

LEMMA DeliveryServer ==
  ASSUME TypeOK, DeliveryInv, NEW t \in Emissions, ServerTakes(t)
  PROVE  DeliveryInv'
<1>1. /\ t \in wire /\ wire' = wire \ {t}
      /\ delivered' = [delivered EXCEPT ![t] = @ + 1]
      /\ UNCHANGED <<queue, batch, flush, accepted, fate, retried>>
  BY DEF ServerTakes, queueVars
<1>2. \A s \in Emissions : /\ delivered[s] \in Nat
                           /\ delivered'[s] = IF s = t THEN delivered[s] + 1
                                              ELSE delivered[s]
  BY <1>1 DEF TypeOK
<1>3. FlushInv' /\ RepublishedReachedServer'
  <2>1. Seqs(batch) \subseteq Emissions
    BY EntryFields, InSeqs
  <2>2. QED
    BY <1>1, <1>2, <2>1 DEF DeliveryInv, FlushInv, RepublishedReachedServer
<1>4. CopyInv'
  BY <1>1, <1>2 DEF DeliveryInv, CopyInv
<1>5. QED BY <1>3, <1>4 DEF DeliveryInv

LEMMA DeliveryStep ==
  TypeOK /\ RetainerInv /\ DeliveryInv /\ [Next]_vars => DeliveryInv'
<1> SUFFICES ASSUME TypeOK, RetainerInv, DeliveryInv, [Next]_vars
             PROVE  DeliveryInv'
  OBVIOUS
<1>1. ASSUME NEW key \in Keys, Emit(key) PROVE DeliveryInv'
  BY <1>1, DeliveryEmit
<1>2. CASE ConnectOk \/ StatusReconnect
  <2>1. /\ \/ UNCHANGED <<queue, batch, flush, wire>>
           \/ batch' = queue /\ queue' = {} /\ wire' = wire \cup Seqs(queue)
        /\ UNCHANGED <<accepted, fate, delivered, retried>>
    BY <1>2 DEF ConnectOk, StatusReconnect, DrainRetention
  <2>2. RepublishedReachedServer'
    BY <2>1 DEF DeliveryInv, RepublishedReachedServer
  <2>3. QED BY <2>1, <2>2, DeliveryBatch DEF DeliveryInv
<1>3. CASE FlushConfirmed
  <2>1. /\ \/ batch' = queue /\ queue' = {} /\ wire' = wire \cup Seqs(queue)
           \/ batch' = {} /\ flush' = "idle" /\ UNCHANGED <<queue, wire>>
        /\ UNCHANGED <<accepted, delivered, retried>>
    BY <1>3 DEF FlushConfirmed, FlushAnswered
  <2>2. ASSUME NEW s \in Emissions, fate'[s] = "republished"
        PROVE  delivered[s] > 0
    <3>1. CASE s \in Seqs(batch)
      BY <1>3, <3>1 DEF FlushConfirmed, FlushAnswered, DeliveryInv, FlushInv
    <3>2. CASE s \notin Seqs(batch)
      BY <1>3, <2>2, <3>2
         DEF FlushConfirmed, FlushAnswered, Counted, DeliveryInv, RepublishedReachedServer
    <3>3. QED BY <3>1, <3>2
  <2>3. RepublishedReachedServer'
    BY <2>1, <2>2 DEF RepublishedReachedServer
  <2>4. QED BY <2>1, <2>3, DeliveryBatch DEF DeliveryInv
<1>4. CASE FlushFailed \/ Disconnect
  BY <1>4, DeliveryFailed, DeliveryDisconnect
<1>5. ASSUME NEW t \in Emissions, ServerTakes(t) PROVE DeliveryInv'
  BY <1>5, DeliveryServer
<1>6. CASE LinkDown \/ LinkUp \/ LinkClosed
  <2>1. /\ wire' \subseteq wire
        /\ flush' = "waiting" => wire' = wire /\ flush = "waiting"
        /\ UNCHANGED <<queue, batch, accepted, fate, delivered, retried>>
    BY <1>6 DEF LinkDown, LinkUp, LinkClosed, BreakFlush
  <2>2. QED
    BY <2>1 DEF DeliveryInv, FlushInv, CopyInv, RepublishedReachedServer
<1>7. CASE \/ TimerFire \/ ConnectFail \/ StatusDisconnect \/ WatchClosed
           \/ DisconnectDone \/ UNCHANGED vars
  <2>1. UNCHANGED <<queue, batch, flush, accepted, fate, wire, delivered, retried>>
    BY <1>7 DEF TimerFire, ConnectFail, StatusDisconnect, WatchClosed,
                DisconnectDone, queueVars, netVars, vars
  <2>2. QED
    BY <2>1 DEF DeliveryInv, FlushInv, CopyInv, RepublishedReachedServer
<1>8. QED
  BY <1>1, <1>2, <1>3, <1>4, <1>5, <1>6, <1>7 DEF Next

(* What is counted as republished reached the server, and the server sees   *)
(* an event again only after a failed flush, in every instance.             *)
THEOREM DeliveryCorrect ==
  Spec => [](RepublishedReachedServer /\ CopiesOnlyAfterFailedFlush)
<1>1. Init => DeliveryInv
  BY DEF Init, DeliveryInv, FlushInv, CopyInv, RepublishedReachedServer
<1>2. TypeOK /\ DeliveryInv
        => RepublishedReachedServer /\ CopiesOnlyAfterFailedFlush
  <2> SUFFICES ASSUME TypeOK, DeliveryInv
               PROVE  RepublishedReachedServer /\ CopiesOnlyAfterFailedFlush
    OBVIOUS
  <2>1. \A s \in Emissions : delivered[s] \in Nat
    BY DEF TypeOK
  <2>2. QED
    BY <2>1 DEF DeliveryInv, CopyInv, CopiesOnlyAfterFailedFlush
<1>3. QED
  BY <1>1, <1>2, DeliveryStep, RetainerCorrect, TypeCorrect, PTL DEF Spec

-----------------------------------------------------------------------------
(* The publisher implements the abstract life of an event.                 *)
LEMMA FateStep ==
  TypeOK /\ TypeOK' /\ RetainerInv /\ [Next]_vars => [Fate!Next]_fate
<1> SUFFICES ASSUME TypeOK, TypeOK', RetainerInv, [Next]_vars
             PROVE  fate' = fate \/ Fate!Next
  BY DEF Fate!Next
<1>1. fate' \in [Emissions -> Fate!Fates]
  BY DEF TypeOK
<1>2. ASSUME NEW s \in Emissions
      PROVE  /\ fate[s] = "none" <=> s > accepted
             /\ s \in Seqs(queue) \cup Seqs(batch) => fate[s] = "held"
             /\ s \in Nat /\ accepted \in Nat
  BY DEF RetainerInv, HeldExactly, Emissions, TypeOK
<1>3. (\A s \in Emissions : Fate!Lawful(s)) => Fate!Next
  BY <1>1 DEF Fate!Next
<1> USE DEF Fate!Lawful, Fate!Accept, Fate!AcceptedAs, Fate!LeavesAs
<1>4. ASSUME NEW key \in Keys, EmitPublished(key) PROVE Fate!Next
  <2>1. ASSUME NEW s \in Emissions PROVE Fate!Lawful(s)
    BY <1>2, <1>4 DEF EmitPublished, Counted
  <2>2. QED BY <1>3, <2>1
<1>5. ASSUME NEW key \in Keys, EmitRetained(key) PROVE Fate!Next
  <2>1. ASSUME NEW s \in Emissions PROVE Fate!Lawful(s)
    <3>1. CASE fate' = Counted({accepted + 1}, "duplicate")
      BY <1>2, <3>1 DEF Counted
    <3>2. CASE fate' # Counted({accepted + 1}, "duplicate")
      <4> DEFINE item == [key |-> key, seq |-> accepted + 1]
      <4>1. PICK cut \in Seqs(queue) \cup {0} :
              LET kept == DropExpired(queue, cut) \cup {item}
              IN fate' = [t \in Emissions |->
                   IF t = accepted + 1 THEN "held"
                   ELSE IF t \in Seqs(queue) \ Seqs(kept) THEN "expired"
                   ELSE IF t \in Seqs(kept) \ Seqs(queue') THEN "overflow"
                   ELSE fate[t]]
        BY <1>5, <3>2 DEF EmitRetained
      <4> DEFINE kept == DropExpired(queue, cut) \cup {item}
      <4>2. s # accepted + 1 => (s \in Seqs(kept) => s \in Seqs(queue))
        <5>1. \A i \in kept : i = item \/ i \in queue
          BY DEF DropExpired
        <5>2. QED BY <5>1, InSeqs
      <4>3. fate'[s] = IF s = accepted + 1 THEN "held"
                       ELSE IF s \in Seqs(queue) \ Seqs(kept) THEN "expired"
                       ELSE IF s \in Seqs(kept) \ Seqs(queue') THEN "overflow"
                       ELSE fate[s]
        BY <4>1
      <4>4. CASE s = accepted + 1
        BY <1>2, <4>3, <4>4
      <4>5. CASE s # accepted + 1
        BY <1>2, <4>2, <4>3, <4>5
      <4>6. QED BY <4>4, <4>5
    <3>3. QED BY <3>1, <3>2
  <2>2. QED BY <1>3, <2>1
<1>6. CASE FlushConfirmed \/ FlushFailed \/ Disconnect
  <2>1. ASSUME NEW s \in Emissions PROVE Fate!Lawful(s)
    <3>1. Seqs(batch \ Requeueable(queue, batch)) \subseteq Seqs(batch)
      BY InSeqs
    <3>2. QED
      BY <1>2, <1>6, <3>1 DEF FlushConfirmed, FlushAnswered, FlushFailed, Disconnect, Counted
  <2>2. QED BY <1>3, <2>1
<1>7. CASE ConnectOk \/ StatusReconnect
  BY <1>7 DEF ConnectOk, StatusReconnect
<1>8. QED
  BY <1>4, <1>5, <1>6, <1>7, QueueUntouched DEF Next, Emit

\* Each event of the publisher is held, and then settled once, as EventFate says.
THEOREM ImplementsFate == Spec => FateSpec
<1>1. Init => Fate!Init
  BY DEF Init, Fate!Init
<1>2. QED
  BY <1>1, FateStep, TypeCorrect, RetainerCorrect, PTL
     DEF Spec, FateSpec, Fate!Spec

-----------------------------------------------------------------------------
(* PublisherInv of the runs, for every set of keys, cap, window and number  *)
(* of events: the retry of a lost connection is not forgotten, what is      *)
(* accepted and unsettled is held once, what goes out again goes in order,  *)
(* counts only if it arrived, and arrives twice only after a failed flush.  *)
THEOREM PublisherCorrect == Spec => []PublisherInv
<1>1. ASSUME TypeOK, RetryArmed, RetainerInv,
             RepublishedReachedServer, CopiesOnlyAfterFailedFlush
      PROVE  PublisherInv
  <2>1. HeldExactly /\ OneEntryPerKey /\ RepublishedInOrder
    BY <1>1 DEF RetainerInv
  <2>2. QED
    BY <1>1, <2>1 DEF PublisherInv
<1>2. QED
  BY <1>1, TypeCorrect, RetryNeverLost, RetainerCorrect, DeliveryCorrect, PTL
-----------------------------------------------------------------------------
(* The Instagram publisher.  What is held is told from what is settled      *)
(* because every entry has a number of its own, the newest going to the     *)
(* queue; and a batch is not overwritten because `draining` keeps a second  *)
(* drain out as long as one is under way.                                   *)
OwnNumbers ==
  \A i, j \in igQueue \cup igBatch : i.seq = j.seq => i = j

Apart == igQueue \cap igBatch = {}

BatchIsDraining == igBatch # {} => igDraining = TRUE

(* An event has a fate exactly when it has been handed over. *)
FatesSoFar == \A n \in Webhooks : igFate[n] = "none" <=> n > igCount

IgKeptInv ==
  IgPublisherTypeOK /\ HeldIsKept /\ OwnNumbers /\ Apart /\ BatchIsDraining /\ FatesSoFar

LEMMA IgFates ==
  /\ {"none", "held", "published", "republished", "duplicate", "overflow",
      "expired", "superseded", "cleared"} = Fates!Fates
  /\ \A n : n \in Webhooks => n \in Nat
  BY WebhookAssumption DEF Fates!Fates, Fates!Settled, Webhooks

(* The fate of a set of events is what it was or what they get. *)
LEMMA FatesAreOf ==
  ASSUME IgPublisherTypeOK, NEW S, NEW f \in Fates!Fates
  PROVE  /\ FatesAre(S, f) \in [Webhooks -> Fates!Fates]
         /\ \A n \in Webhooks : FatesAre(S, f)[n] = IF n \in S THEN f ELSE igFate[n]
  BY DEF FatesAre, IgPublisherTypeOK

(* The numbers of the entries are those of events handed over. *)
LEMMA IgEntries ==
  ASSUME IgPublisherTypeOK
  PROVE  /\ igCount \in Nat
         /\ \A i \in igQueue \cup igBatch : i.seq \in Webhooks /\ i.seq \in Nat /\ i.seq <= igCount
         /\ Seqs(igQueue) \subseteq 1 .. igCount /\ Seqs(igBatch) \subseteq 1 .. igCount
<1>1. igCount \in 0 .. MaxWebhooks /\ igCount \in Nat
  BY WebhookAssumption DEF IgPublisherTypeOK
<1>2. \A i \in igQueue \cup igBatch : i.seq \in 1 .. igCount
  BY DEF IgPublisherTypeOK, Entry
<1>3. QED
  BY <1>1, <1>2, WebhookAssumption DEF Webhooks, Seqs

(* A drain moves the queue into the batch, which is empty then, or nothing. *)
LEMMA IgDrainKeeps ==
  ASSUME IgKeptInv, IgDrain, UNCHANGED <<igCount, igFate>>
  PROVE  /\ HeldIsKept' /\ OwnNumbers' /\ Apart' /\ BatchIsDraining' /\ FatesSoFar'
         /\ igQueue' \cup igBatch' \subseteq Entry(igCount')
         /\ igDraining' \in BOOLEAN
<1> USE DEF IgKeptInv
<1>1. FatesSoFar'
  BY DEF FatesSoFar
<1>2. CASE igDraining \/ igQueue = {}
  BY <1>1, <1>2 DEF IgDrain, HeldIsKept, OwnNumbers, Apart, BatchIsDraining, IgPublisherTypeOK
<1>3. CASE ~(igDraining \/ igQueue = {})
  <2>1. igBatch' = igQueue /\ igQueue' = {} /\ igDraining' = TRUE /\ igBatch = {}
    BY <1>3 DEF IgDrain, BatchIsDraining
  <2>2. HeldIsKept'
    BY <2>1 DEF HeldIsKept, Seqs
  <2>3. QED
    BY <1>1, <2>1, <2>2 DEF OwnNumbers, Apart, BatchIsDraining, IgPublisherTypeOK
<1>4. QED BY <1>2, <1>3
LEMMA IgPublishedKeeps ==
  ASSUME IgKeptInv, NEW key \in Keys, IgWebhook(key), IgPublished(key)
  PROVE  IgKeptInv'
<1> USE DEF IgKeptInv
<1>1. igCount' = igCount + 1 /\ igQueue' = igQueue /\ igBatch' = igBatch
  BY DEF IgWebhook, IgPublished
<1>2. "published" \in Fates!Fates /\ igFate' = FatesAre({igCount + 1}, "published")
  BY IgFates DEF IgPublished
<1>3. /\ igFate' \in [Webhooks -> Fates!Fates]
      /\ \A n \in Webhooks : igFate'[n] = IF n = igCount + 1 THEN "published" ELSE igFate[n]
  BY <1>2, FatesAreOf
<1>4. igCount + 1 \notin Seqs(igQueue) \cup Seqs(igBatch)
  BY IgEntries
<1>5. HeldIsKept'
  <2>1. \A n \in Webhooks : igFate'[n] = "held" <=> igFate[n] = "held"
    BY <1>3, <1>4 DEF HeldIsKept
  <2>2. QED BY <2>1, <1>1 DEF HeldIsKept
<1>6. FatesSoFar'
  BY <1>1, <1>3, IgEntries, IgFates DEF FatesSoFar
<1>7. IgPublisherTypeOK'
  <2>1. igQueue' \cup igBatch' \subseteq Entry(igCount')
    BY <1>1, IgEntries, EntryGrows DEF IgPublisherTypeOK
  <2>2. igCount' \in 0 .. MaxWebhooks
    BY <1>1, WebhookAssumption DEF IgWebhook, IgPublisherTypeOK
  <2>3. QED
    BY <2>1, <2>2, <1>3 DEF IgWebhook, IgPublished, igNet, IgPublisherTypeOK
<1>8. OwnNumbers' /\ Apart' /\ BatchIsDraining'
  BY <1>1 DEF OwnNumbers, Apart, BatchIsDraining, IgWebhook
<1>9. QED BY <1>5, <1>6, <1>7, <1>8

LEMMA IgDuplicateKeeps ==
  ASSUME IgKeptInv, NEW key \in Keys, IgWebhook(key), IgDuplicate(key)
  PROVE  IgKeptInv'
<1> USE DEF IgKeptInv
<1>1. igCount' = igCount + 1 /\ igQueue' = igQueue /\ igBatch' = igBatch
  BY DEF IgWebhook, IgDuplicate
<1>2. "duplicate" \in Fates!Fates /\ igFate' = FatesAre({igCount + 1}, "duplicate")
  BY IgFates DEF IgDuplicate
<1>3. /\ igFate' \in [Webhooks -> Fates!Fates]
      /\ \A n \in Webhooks : igFate'[n] = IF n = igCount + 1 THEN "duplicate" ELSE igFate[n]
  BY <1>2, FatesAreOf
<1>4. igCount + 1 \notin Seqs(igQueue) \cup Seqs(igBatch)
  BY IgEntries
<1>5. HeldIsKept'
  <2>1. \A n \in Webhooks : igFate'[n] = "held" <=> igFate[n] = "held"
    BY <1>3, <1>4 DEF HeldIsKept
  <2>2. QED BY <2>1, <1>1 DEF HeldIsKept
<1>6. FatesSoFar'
  BY <1>1, <1>3, IgEntries, IgFates DEF FatesSoFar
<1>7. IgPublisherTypeOK'
  <2>1. igQueue' \cup igBatch' \subseteq Entry(igCount')
    BY <1>1, IgEntries, EntryGrows DEF IgPublisherTypeOK
  <2>2. igCount' \in 0 .. MaxWebhooks
    BY <1>1, WebhookAssumption DEF IgWebhook, IgPublisherTypeOK
  <2>3. igTimer' \in BOOLEAN
    BY DEF IgDuplicate, IgSchedule
  <2>4. QED
    BY <2>1, <2>2, <2>3, <1>3 DEF IgWebhook, igNet, IgPublisherTypeOK
<1>8. OwnNumbers' /\ Apart' /\ BatchIsDraining'
  BY <1>1 DEF OwnNumbers, Apart, BatchIsDraining, IgWebhook
<1>9. QED BY <1>5, <1>6, <1>7, <1>8

LEMMA IgRetainedKeeps ==
  ASSUME IgKeptInv, NEW key \in Keys, IgWebhook(key), IgRetained(key)
  PROVE  IgKeptInv'
<1> DEFINE item == [key |-> key, seq |-> igCount + 1]
<1> USE DEF IgKeptInv
<1>0. igCount \in Nat /\ igCount' = igCount + 1 /\ igBatch' = igBatch /\ igDraining' = igDraining
  BY IgEntries DEF IgWebhook
<1>1. PICK cut \in Seqs(igQueue) \cup {0} :
        /\ igQueue' = Enqueue(igQueue, item, cut)
        /\ igFate' = [n \in Webhooks |->
             IF n = item.seq THEN "held"
             ELSE IF n \notin Seqs(igQueue) \ Seqs(igQueue') THEN igFate[n]
             ELSE IF n <= cut THEN "expired" ELSE "overflow"]
  BY DEF IgRetained
<1>2. cut \in Int /\ igQueue \in SUBSET Entry(igCount)
  BY IgEntries DEF IgPublisherTypeOK
<1>3. igQueue' \subseteq igQueue \cup {item} /\ item \in igQueue'
  <2>1. /\ Enqueue(igQueue, item, cut) \subseteq DropExpired(igQueue, cut) \cup {item}
        /\ DropExpired(igQueue, cut) \subseteq igQueue
        /\ item \in Enqueue(igQueue, item, cut)
    BY <1>0, <1>2, EnqueueKeeps
  <2>2. QED BY <2>1, <1>1
<1>4. item.seq = igCount + 1 /\ item.seq \in Webhooks
  BY <1>0, WebhookAssumption DEF IgWebhook, Webhooks
<1>5. /\ igFate' \in [Webhooks -> Fates!Fates]
      /\ \A n \in Webhooks :
           igFate'[n] = IF n = igCount + 1 THEN "held"
                        ELSE IF n \notin Seqs(igQueue) \ Seqs(igQueue') THEN igFate[n]
                        ELSE IF n <= cut THEN "expired" ELSE "overflow"
  BY <1>1, <1>4, IgFates DEF IgPublisherTypeOK
<1>6. igCount + 1 \notin Seqs(igQueue) \cup Seqs(igBatch)
  BY IgEntries
<1>7. Seqs(igQueue) \cap Seqs(igBatch) = {}
  BY InSeqs DEF OwnNumbers, Apart
<1>8. HeldIsKept'
  <2>1. Seqs(igQueue') \subseteq Seqs(igQueue) \cup {igCount + 1} /\ igCount + 1 \in Seqs(igQueue')
    BY <1>3, <1>4 DEF Seqs
  <2>2. \A n \in Webhooks :
          igFate'[n] = "held" <=> n \in Seqs(igQueue') \cup Seqs(igBatch)
    BY <2>1, <1>5, <1>7 DEF HeldIsKept
  <2>3. Seqs(igQueue') \cup Seqs(igBatch) \subseteq Webhooks
    BY <2>1, <1>4, IgEntries DEF Webhooks, HeldIsKept
  <2>4. QED BY <2>2, <2>3, <1>0 DEF HeldIsKept
<1>9. FatesSoFar'
  <2>1. \A n \in Seqs(igQueue) : n <= igCount
    BY IgEntries
  <2>2. QED BY <2>1, <1>0, <1>5, IgFates DEF FatesSoFar
<1>10. IgPublisherTypeOK'
  <2>1. item \in Entry(igCount')
    BY <1>0 DEF Entry
  <2>2. igQueue' \cup igBatch' \subseteq Entry(igCount')
    BY <2>1, <1>0, <1>3, EntryGrows DEF IgPublisherTypeOK
  <2>3. igCount' \in 0 .. MaxWebhooks
    BY <1>0, WebhookAssumption DEF IgWebhook
  <2>4. igTimer' \in BOOLEAN
    BY DEF IgRetained, IgSchedule
  <2>5. QED
    BY <2>2, <2>3, <2>4, <1>5 DEF IgWebhook, igNet, IgPublisherTypeOK
<1>11. OwnNumbers' /\ Apart' /\ BatchIsDraining'
  <2>1. \A i \in igQueue \cup igBatch : i.seq # item.seq /\ i # item
    BY <1>4, <1>6, InSeqs
  <2>2. QED
    BY <2>1, <1>0, <1>3 DEF OwnNumbers, Apart, BatchIsDraining
<1>12. QED BY <1>8, <1>9, <1>10, <1>11

(* The flush returns: its batch is settled, and the queue may be the next. *)
LEMMA IgFlushedKeeps ==
  ASSUME IgKeptInv, IgFlushed
  PROVE  IgKeptInv'
<1> USE DEF IgKeptInv
<1>1. "republished" \in Fates!Fates /\ igFate' = FatesAre(Seqs(igBatch), "republished")
  BY IgFates DEF IgFlushed
<1>2. /\ igFate' \in [Webhooks -> Fates!Fates]
      /\ \A n \in Webhooks : igFate'[n] = IF n \in Seqs(igBatch) THEN "republished" ELSE igFate[n]
  BY <1>1, FatesAreOf
<1>3. Seqs(igQueue) \cap Seqs(igBatch) = {}
  BY InSeqs DEF OwnNumbers, Apart
<1>4. igCount' = igCount
  BY DEF IgFlushed
<1>5. \/ igBatch' = igQueue /\ igQueue' = {} /\ igDraining' = TRUE
      \/ igBatch' = {} /\ igQueue' = igQueue /\ igDraining' = FALSE
  BY DEF IgFlushed
<1>6. HeldIsKept'
  <2>1. Seqs(igQueue') \cup Seqs(igBatch') = Seqs(igQueue)
    BY <1>5 DEF Seqs
  <2>2. \A n \in Webhooks : igFate'[n] = "held" <=> n \in Seqs(igQueue)
    BY <1>2, <1>3 DEF HeldIsKept
  <2>3. Seqs(igQueue) \subseteq Webhooks
    BY DEF HeldIsKept
  <2>4. QED BY <2>1, <2>2, <2>3 DEF HeldIsKept
<1>7. FatesSoFar'
  BY <1>2, <1>4, IgEntries, IgFates DEF FatesSoFar
<1>8. IgPublisherTypeOK'
  <2>1. igQueue' \cup igBatch' \subseteq Entry(igCount') /\ igDraining' \in BOOLEAN
    BY <1>4, <1>5 DEF IgPublisherTypeOK
  <2>2. QED
    BY <2>1, <1>2, <1>4 DEF IgFlushed, igConn, igNet, IgPublisherTypeOK
<1>9. OwnNumbers' /\ Apart' /\ BatchIsDraining'
  BY <1>5 DEF OwnNumbers, Apart, BatchIsDraining
<1>10. QED BY <1>6, <1>7, <1>8, <1>9

(* The flush fails: what goes back and what is superseded are told apart.  *)
LEMMA IgFlushFailsKeeps ==
  ASSUME IgKeptInv, IgFlushFails
  PROVE  IgKeptInv'
<1> DEFINE back == Requeueable(igQueue, igBatch)
<1> USE DEF IgKeptInv
<1>1. "superseded" \in Fates!Fates /\ igFate' = FatesAre(Seqs(igBatch \ back), "superseded")
  BY IgFates DEF IgFlushFails
<1>2. /\ igFate' \in [Webhooks -> Fates!Fates]
      /\ \A n \in Webhooks :
           igFate'[n] = IF n \in Seqs(igBatch \ back) THEN "superseded" ELSE igFate[n]
  BY <1>1, FatesAreOf
<1>3. back \subseteq igBatch
  BY DEF Requeueable
<1>4. /\ igCount' = igCount /\ igQueue' = igQueue \cup back /\ igBatch' = {} /\ igDraining' = FALSE
  BY DEF IgFlushFails, RequeueFront
<1> HIDE DEF back
<1>5. /\ Seqs(igBatch \ back) \cap (Seqs(igQueue) \cup Seqs(back)) = {}
      /\ Seqs(igBatch) = Seqs(igBatch \ back) \cup Seqs(back)
      /\ Seqs(igQueue') = Seqs(igQueue) \cup Seqs(back)
      /\ Seqs(igBatch') = {}
  BY <1>3, <1>4, InSeqs DEF OwnNumbers, Apart
<1>6. HeldIsKept'
  <2>1. \A n \in Webhooks : igFate'[n] = "held" <=> n \in Seqs(igQueue') \cup Seqs(igBatch')
    BY <1>2, <1>5 DEF HeldIsKept
  <2>2. Seqs(igQueue') \cup Seqs(igBatch') \subseteq Webhooks
    BY <1>5 DEF HeldIsKept
  <2>3. QED BY <2>1, <2>2 DEF HeldIsKept
<1>7. FatesSoFar'
  <2>0. Seqs(igBatch \ back) \subseteq Seqs(igBatch)
    BY <1>5
  <2>1. \A n \in Seqs(igBatch \ back) : n <= igCount
    BY <2>0, IgEntries
  <2>2. ASSUME NEW n \in Webhooks PROVE igFate'[n] = "none" <=> n > igCount
    <3>1. n \in Nat /\ igCount \in Nat /\ (igFate[n] = "none" <=> n > igCount)
      BY IgFates, IgEntries DEF FatesSoFar
    <3>2. CASE n \in Seqs(igBatch \ back)
      BY <3>1, <3>2, <2>1, <1>2
    <3>3. CASE n \notin Seqs(igBatch \ back)
      BY <3>1, <3>3, <1>2
    <3>4. QED BY <3>2, <3>3
  <2>3. QED BY <2>2, <1>4 DEF FatesSoFar
<1>8. IgPublisherTypeOK'
  <2>1. igQueue' \cup igBatch' \subseteq Entry(igCount') /\ igDraining' \in BOOLEAN
    BY <1>3, <1>4 DEF IgPublisherTypeOK
  <2>2. igTimer' \in BOOLEAN /\ igConnected' \in BOOLEAN
    BY DEF IgFlushFails, IgSchedule
  <2>3. QED
    BY <2>1, <2>2, <1>2, <1>4 DEF IgFlushFails, igNet, IgPublisherTypeOK
<1>9. OwnNumbers' /\ Apart' /\ BatchIsDraining'
  BY <1>3, <1>4 DEF OwnNumbers, Apart, BatchIsDraining
<1>10. QED BY <1>6, <1>7, <1>8, <1>9

LEMMA IgShutDownKeeps ==
  ASSUME IgKeptInv, IgShutDown
  PROVE  IgKeptInv'
<1> USE DEF IgKeptInv
<1>1. "cleared" \in Fates!Fates /\ igFate' = FatesAre(Seqs(igQueue) \cup Seqs(igBatch), "cleared")
  BY IgFates DEF IgShutDown
<1>2. /\ igFate' \in [Webhooks -> Fates!Fates]
      /\ \A n \in Webhooks :
           igFate'[n] = IF n \in Seqs(igQueue) \cup Seqs(igBatch) THEN "cleared" ELSE igFate[n]
  BY <1>1, FatesAreOf
<1>3. igCount' = igCount /\ igQueue' = {} /\ igBatch' = {} /\ igDraining' = FALSE
  BY DEF IgShutDown
<1>4. HeldIsKept'
  <2>1. \A n \in Webhooks : igFate'[n] # "held"
    BY <1>2 DEF HeldIsKept
  <2>2. Seqs(igQueue') \cup Seqs(igBatch') = {}
    BY <1>3 DEF Seqs
  <2>3. QED BY <2>1, <2>2 DEF HeldIsKept
<1>5. FatesSoFar'
  BY <1>2, <1>3, IgEntries, IgFates DEF FatesSoFar
<1>6. IgPublisherTypeOK'
  BY <1>2, <1>3 DEF IgShutDown, igNet, IgPublisherTypeOK
<1>7. OwnNumbers' /\ Apart' /\ BatchIsDraining'
  BY <1>3 DEF OwnNumbers, Apart, BatchIsDraining
<1>8. QED BY <1>4, <1>5, <1>6, <1>7

(* The connection's own steps leave what is held alone, but for a drain.    *)
LEMMA IgConnectionKeeps ==
  ASSUME IgKeptInv,
         \/ IgTimerFires \/ IgConnectOk \/ IgConnectFails \/ IgLinkDown \/ IgLinkUp
         \/ IgStatus \/ IgClosed \/ UNCHANGED igPublisherVars
  PROVE  IgKeptInv'
<1> USE DEF IgKeptInv
<1>a. ASSUME UNCHANGED igKept
      PROVE  /\ HeldIsKept' /\ OwnNumbers' /\ Apart' /\ BatchIsDraining' /\ FatesSoFar'
             /\ igQueue' \cup igBatch' \subseteq Entry(igCount') /\ igDraining' \in BOOLEAN
             /\ igCount' = igCount /\ igFate' = igFate
  <2>1. UNCHANGED <<igQueue, igBatch, igDraining, igCount, igFate>>
    BY <1>a DEF igKept
  <2>2. QED
    BY <2>1 DEF HeldIsKept, OwnNumbers, Apart, BatchIsDraining, FatesSoFar, IgPublisherTypeOK
<1>1. CASE IgTimerFires
  <2>1. {igConnected', igConnecting', igShuttingDown', igTimer'} \subseteq BOOLEAN
    BY <1>1 DEF IgTimerFires, IgPublisherTypeOK
  <2>2. QED
    BY <1>1, <1>a, <2>1 DEF IgTimerFires, igNet, IgPublisherTypeOK
<1>2. CASE IgConnectOk
  <2>1. IgDrain /\ UNCHANGED <<igCount, igFate>>
    BY <1>2 DEF IgConnectOk
  <2>2. QED
    BY <1>2, <2>1, IgDrainKeeps DEF IgConnectOk, IgPublisherTypeOK
<1>3. CASE IgConnectFails
  <2>1. {igConnected', igConnecting', igShuttingDown', igTimer'} \subseteq BOOLEAN
    BY <1>3 DEF IgConnectFails, IgSchedule, IgPublisherTypeOK
  <2>2. QED
    BY <1>3, <1>a, <2>1 DEF IgConnectFails, igNet, IgPublisherTypeOK
<1>4. CASE IgLinkDown
  <2>1. igOutages' \in 0 .. MaxOutages /\ igClient' = "down"
    BY <1>4, WebhookAssumption DEF IgLinkDown, IgPublisherTypeOK
  <2>2. QED
    BY <1>4, <1>a, <2>1 DEF IgLinkDown, IgPublisherTypeOK
<1>5. CASE IgLinkUp
  BY <1>5, <1>a DEF IgLinkUp, IgPublisherTypeOK
<1>6. CASE IgStatus
  <2>1. UNCHANGED <<igCount, igFate>>
    BY <1>6 DEF IgStatus
  <2>2. /\ HeldIsKept' /\ OwnNumbers' /\ Apart' /\ BatchIsDraining' /\ FatesSoFar'
        /\ igQueue' \cup igBatch' \subseteq Entry(igCount') /\ igDraining' \in BOOLEAN
    <3>1. CASE IgDrain
      BY <3>1, <2>1, IgDrainKeeps
    <3>2. CASE UNCHANGED <<igQueue, igBatch, igDraining>>
      BY <3>2, <2>1, <1>a DEF igKept
    <3>3. QED BY <3>1, <3>2, <1>6 DEF IgStatus
  <2>3. igConnected' \in BOOLEAN
    BY <1>6 DEF IgStatus
  <2>4. QED
    BY <1>6, <2>1, <2>2, <2>3 DEF IgStatus, IgPublisherTypeOK
<1>7. CASE IgClosed
  <2>1. igOutages' \in 0 .. MaxOutages /\ igClient' = "none"
    BY <1>7, WebhookAssumption DEF IgClosed, IgPublisherTypeOK
  <2>2. {igConnected', igConnecting', igShuttingDown', igTimer'} \subseteq BOOLEAN
    BY <1>7 DEF IgClosed, IgSchedule, IgPublisherTypeOK
  <2>3. QED
    BY <1>7, <1>a, <2>1, <2>2 DEF IgClosed, IgPublisherTypeOK
<1>8. CASE UNCHANGED igPublisherVars
  BY <1>8, <1>a DEF igPublisherVars, igConn, igNet, IgPublisherTypeOK
<1>9. QED
  BY <1>1, <1>2, <1>3, <1>4, <1>5, <1>6, <1>7, <1>8

LEMMA IgKeptStart == IgPublisherInit => IgKeptInv
<1> SUFFICES ASSUME IgPublisherInit PROVE IgKeptInv
  OBVIOUS
<1>1. igFate \in [Webhooks -> Fates!Fates] /\ \A n \in Webhooks : igFate[n] = "none"
  BY IgFates DEF IgPublisherInit
<1>2. igQueue = {} /\ igBatch = {} /\ igCount = 0 /\ Seqs(igQueue) \cup Seqs(igBatch) = {}
  BY DEF IgPublisherInit, Seqs
<1>3. HeldIsKept
  BY <1>1, <1>2 DEF HeldIsKept
<1>4. FatesSoFar
  BY <1>1, <1>2 DEF FatesSoFar, Webhooks
<1>5. IgPublisherTypeOK
  <2>1. igCount \in 0 .. MaxWebhooks /\ igOutages \in 0 .. MaxOutages
    BY WebhookAssumption DEF IgPublisherInit
  <2>2. QED
    BY <1>1, <1>2, <2>1 DEF IgPublisherInit, IgPublisherTypeOK
<1>6. QED
  BY <1>2, <1>3, <1>4, <1>5 DEF IgKeptInv, OwnNumbers, Apart, BatchIsDraining

LEMMA IgKeptStep == IgKeptInv /\ [IgPublisherNext]_igPublisherVars => IgKeptInv'
<1> SUFFICES ASSUME IgKeptInv, [IgPublisherNext]_igPublisherVars PROVE IgKeptInv'
  OBVIOUS
<1>1. ASSUME NEW key \in Keys, IgWebhook(key) PROVE IgKeptInv'
  BY <1>1, IgPublishedKeeps, IgDuplicateKeeps, IgRetainedKeeps DEF IgWebhook
<1>2. QED
  BY <1>1, IgFlushedKeeps, IgFlushFailsKeeps, IgShutDownKeeps, IgConnectionKeeps DEF IgPublisherNext

(* Types, and no event accepted from Meta is forgotten: IgPublisherInv of   *)
(* the runs, for every set of keys, cap, window and number of webhooks.     *)
THEOREM InstagramPublisherCorrect == IgPublisherSpec => []IgPublisherInv
<1>1. IgKeptInv => IgPublisherInv
  BY DEF IgKeptInv, IgPublisherInv
<1>2. QED
  BY <1>1, IgKeptStart, IgKeptStep, PTL DEF IgPublisherSpec
(* The Instagram publisher implements the same abstract life of an event.   *)
LEMMA IgFateStep ==
  IgKeptInv /\ IgKeptInv' /\ [IgPublisherNext]_igPublisherVars => [Fates!Next]_igFate
<1> SUFFICES ASSUME IgKeptInv, IgKeptInv', [IgPublisherNext]_igPublisherVars
             PROVE  igFate' = igFate \/ Fates!Next
  OBVIOUS
<1>1. igFate' \in [Webhooks -> Fates!Fates]
  BY DEF IgKeptInv, IgPublisherTypeOK
<1>2. ASSUME NEW s \in Webhooks
      PROVE  /\ igFate[s] = "none" <=> s > igCount
             /\ s \in Seqs(igQueue) \cup Seqs(igBatch) => igFate[s] = "held"
             /\ s \in Nat /\ igCount \in Nat
  BY IgFates, IgEntries DEF IgKeptInv, FatesSoFar, HeldIsKept
<1>3. (\A s \in Webhooks : Fates!Lawful(s)) => Fates!Next
  BY <1>1 DEF Fates!Next
<1> USE DEF Fates!Lawful, Fates!Accept, Fates!AcceptedAs, Fates!LeavesAs
<1>4. ASSUME NEW f \in {"published", "duplicate"}, igFate' = FatesAre({igCount + 1}, f)
      PROVE  Fates!Next
  <2>1. ASSUME NEW s \in Webhooks PROVE Fates!Lawful(s)
    <3>1. igFate'[s] = IF s = igCount + 1 THEN f ELSE igFate[s]
      BY <1>4 DEF FatesAre
    <3>2. CASE s = igCount + 1
      BY <1>2, <3>1, <3>2, <1>4
    <3>3. QED BY <3>1, <3>2
  <2>2. QED BY <1>3, <2>1
<1>5. ASSUME NEW key \in Keys, IgRetained(key) PROVE Fates!Next
  <2>1. PICK cut : igFate' = [n \in Webhooks |->
             IF n = igCount + 1 THEN "held"
             ELSE IF n \notin Seqs(igQueue) \ Seqs(igQueue') THEN igFate[n]
             ELSE IF n <= cut THEN "expired" ELSE "overflow"]
    BY <1>5 DEF IgRetained
  <2>2. ASSUME NEW s \in Webhooks PROVE Fates!Lawful(s)
    <3>1. igFate'[s] = IF s = igCount + 1 THEN "held"
             ELSE IF s \notin Seqs(igQueue) \ Seqs(igQueue') THEN igFate[s]
             ELSE IF s <= cut THEN "expired" ELSE "overflow"
      BY <2>1
    <3>2. CASE s = igCount + 1
      BY <1>2, <3>1, <3>2
    <3>3. CASE s # igCount + 1
      BY <1>2, <3>1, <3>3
    <3>4. QED BY <3>2, <3>3
  <2>3. QED BY <1>3, <2>2
<1>6. ASSUME NEW S \in SUBSET (Seqs(igQueue) \cup Seqs(igBatch)),
             NEW f \in {"republished", "superseded", "cleared"}, igFate' = FatesAre(S, f)
      PROVE  Fates!Next
  <2>1. ASSUME NEW s \in Webhooks PROVE Fates!Lawful(s)
    <3>1. igFate'[s] = IF s \in S THEN f ELSE igFate[s]
      BY <1>6 DEF FatesAre
    <3>2. QED BY <1>2, <3>1
  <2>2. QED BY <1>3, <2>1
<1>7. CASE IgFlushed
  BY <1>7, <1>6 DEF IgFlushed
<1>8. CASE IgFlushFails
  <2>1. Seqs(igBatch \ Requeueable(igQueue, igBatch)) \subseteq Seqs(igBatch)
    BY InSeqs
  <2>2. QED BY <1>8, <1>6, <2>1 DEF IgFlushFails
<1>9. CASE IgShutDown
  BY <1>9, <1>6 DEF IgShutDown
<1>10. ASSUME NEW key \in Keys, IgWebhook(key) PROVE Fates!Next
  BY <1>10, <1>4, <1>5 DEF IgWebhook, IgPublished, IgDuplicate
<1>11. CASE \/ IgTimerFires \/ IgConnectOk \/ IgConnectFails \/ IgLinkDown \/ IgLinkUp
            \/ IgStatus \/ IgClosed \/ UNCHANGED igPublisherVars
  BY <1>11 DEF IgTimerFires, IgConnectOk, IgConnectFails, IgLinkDown, IgLinkUp,
               IgStatus, IgClosed, igPublisherVars, igKept
<1>12. QED
  BY <1>7, <1>8, <1>9, <1>10, <1>11 DEF IgPublisherNext

\* The same of the Instagram publisher, whose webhook has answered Meta already.
THEOREM InstagramImplementsFate == IgPublisherSpec => InstagramFates
<1>1. IgPublisherInit => Fates!Init
  BY DEF IgPublisherInit, Fates!Init
<1>2. QED
  BY <1>1, IgFateStep, IgKeptStart, IgKeptStep, PTL
     DEF IgPublisherSpec, InstagramFates, Fates!Spec
=============================================================================
