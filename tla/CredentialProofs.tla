--------------------------- MODULE CredentialProofs ---------------------------
(***************************************************************************)
(* Proofs about those who keep rows for others: the write-back of a login  *)
(* (CredentialWriteBack), the program's record of a history burst          *)
(* (WhatsAppHistory), the write-back as the connectors wire it             *)
(* (CredentialSession), and the rows of the accounts the Instagram         *)
(* connector acts for (InstagramCredentials).                              *)
(***************************************************************************)
EXTENDS CredentialSession, WhatsAppHistory, InstagramCredentials, FiniteSetTheorems, TLAPS

(* The safety properties of CredentialWriteBack, for every number of        *)
(* persists and failures.                                                   *)
(* The two halves of TypeOK: a leaf about both is beyond each prover. *)
Numbers ==
  /\ latest \in 0 .. MaxPersists
  /\ session \in 0 .. latest /\ row \in 0 .. latest /\ puts \subseteq 0 .. latest
  /\ asked \in 0 .. latest /\ promised \in 0 .. latest
  /\ failures \in 0 .. MaxFailures

Flags ==
  /\ timer \in BOOLEAN /\ due \in BOOLEAN /\ pending \in BOOLEAN
  /\ exporting \in BOOLEAN /\ failed \in BOOLEAN /\ cancelled \in BOOLEAN

LEMMA Halves == TypeOK <=> Numbers /\ Flags
BY Zenon DEF TypeOK, Numbers, Flags

LEMMA NumbersStep ==
  ASSUME Numbers, [Next]_vars PROVE Numbers'
<1> USE WriteBackAssumption DEF Numbers
<1>1. CASE Persisted
  BY <1>1 DEF Persisted, Schedule
<1>2. CASE TimerFires
  BY <1>2 DEF TimerFires, Run, InFlight, history
<1>3. CASE Export
  BY <1>3 DEF Export, history
<1>4. CASE ExportFails
  BY <1>4 DEF ExportFails, Settle
<1>5. CASE Put
  BY <1>5 DEF Put, Settle
<1>6. CASE PutFails
  BY <1>6 DEF PutFails, Settle
<1>7. CASE FlushCalled
  BY <1>7 DEF FlushCalled, Flush, FlushRuns, Run, InFlight, history
<1>8. CASE CancelCalled
  BY <1>8 DEF CancelCalled, Cancel
<1>9. CASE UNCHANGED vars
  BY <1>9 DEF vars
<1>10. QED
  BY <1>1, <1>2, <1>3, <1>4, <1>5, <1>6, <1>7, <1>8, <1>9 DEF Next

LEMMA FlagsStep ==
  ASSUME Flags, [Next]_vars PROVE Flags'
<1> USE DEF Flags
<1>1. CASE Persisted
  BY <1>1, Zenon DEF Persisted, Schedule
<1>2. CASE TimerFires
  BY <1>2, Zenon DEF TimerFires, Run, InFlight, history
<1>3. CASE Export
  BY <1>3, Zenon DEF Export, history
<1>4. CASE ExportFails
  BY <1>4, Zenon DEF ExportFails, Settle
<1>5. CASE Put
  BY <1>5, Zenon DEF Put, Settle
<1>6. CASE PutFails
  BY <1>6, Zenon DEF PutFails, Settle
<1>7. CASE FlushCalled
  BY <1>7, Zenon DEF FlushCalled, Flush, FlushRuns, Run, InFlight, history
<1>8. CASE CancelCalled
  BY <1>8, Zenon DEF CancelCalled, Cancel
<1>9. CASE UNCHANGED vars
  BY <1>9, Zenon DEF vars
<1>10. QED
  BY <1>1, <1>2, <1>3, <1>4, <1>5, <1>6, <1>7, <1>8, <1>9 DEF Next

(* Every reachable state has the types of TypeOK. *)
THEOREM TypeCorrect == Spec => []TypeOK
<1>1. Init => Numbers
  BY WriteBackAssumption DEF Init, Numbers
<1>2. Init => Flags
  BY DEF Init, Flags
<1>3. TypeOK /\ [Next]_vars => TypeOK'
  <2>1. TypeOK' <=> Numbers' /\ Flags'
    BY Zenon DEF TypeOK, Numbers, Flags
  <2>2. QED
    BY <2>1, Halves, NumbersStep, FlagsStep
<1>4. QED
  BY <1>1, <1>2, <1>3, Halves, PTL DEF Spec

(* The inductive invariant: the guard, the order of the versions, and what *)
(* the requests and the waiting flushes may still count on.                 *)
Inv == TypeOK /\ GuardInv /\ VersionInv /\ PutsInOrder /\ NothingForgotten
         /\ RequestInv /\ PromiseInv

(* Each action keeps it. *)
LEMMA GuardStep ==
  ASSUME TypeOK, GuardInv, [Next]_vars
  PROVE  GuardInv'
<1> USE DEF TypeOK, GuardInv, InFlight
<1>1. CASE Persisted
  BY <1>1 DEF Persisted, Schedule
<1>2. CASE TimerFires
  BY <1>2 DEF TimerFires, Run, history
<1>3. CASE Export
  BY <1>3 DEF Export, history
<1>4. CASE ExportFails
  BY <1>4 DEF ExportFails, Settle
<1>5. CASE Put
  BY <1>5 DEF Put, Settle
<1>6. CASE PutFails
  BY <1>6 DEF PutFails, Settle
<1>7. CASE FlushCalled
  BY <1>7 DEF FlushCalled, Flush, FlushRuns, Run, history
<1>8. CASE CancelCalled
  BY <1>8 DEF CancelCalled, Cancel
<1>9. CASE UNCHANGED vars
  BY <1>9 DEF vars
<1>10. QED
  BY <1>1, <1>2, <1>3, <1>4, <1>5, <1>6, <1>7, <1>8, <1>9 DEF Next

LEMMA VersionStep ==
  ASSUME TypeOK, GuardInv, VersionInv, PutsInOrder, [Next]_vars
  PROVE  VersionInv' /\ PutsInOrder'
<1> USE DEF TypeOK, GuardInv, VersionInv, PutsInOrder, InFlight
<1>1. CASE Persisted
  BY <1>1 DEF Persisted, Schedule
<1>2. CASE TimerFires
  BY <1>2 DEF TimerFires, Run, history
<1>3. CASE Export
  BY <1>3 DEF Export, history
<1>4. CASE ExportFails
  BY <1>4 DEF ExportFails, Settle
<1>5. CASE Put
  BY <1>5 DEF Put, Settle
<1>6. CASE PutFails
  BY <1>6 DEF PutFails, Settle
<1>7. CASE FlushCalled
  BY <1>7 DEF FlushCalled, Flush, FlushRuns, Run, history
<1>8. CASE CancelCalled
  BY <1>8 DEF CancelCalled, Cancel
<1>9. CASE UNCHANGED vars
  BY <1>9 DEF vars
<1>10. QED
  BY <1>1, <1>2, <1>3, <1>4, <1>5, <1>6, <1>7, <1>8, <1>9 DEF Next

LEMMA RequestHolds ==
  ASSUME Inv, [Next]_vars
  PROVE  NothingForgotten' /\ RequestInv' /\ PromiseInv'
<1> USE DEF Inv, TypeOK, GuardInv, VersionInv, PutsInOrder, InFlight,
            NothingForgotten, Coming, RequestInv, PromiseInv
<1>1. CASE Persisted
  BY <1>1 DEF Persisted, Schedule
<1>2. CASE TimerFires
  BY <1>2 DEF TimerFires, Run, history
<1>3. CASE Export
  BY <1>3 DEF Export, history
<1>4. CASE ExportFails
  BY <1>4 DEF ExportFails, Settle
<1>5. CASE Put
  BY <1>5 DEF Put, Settle
<1>6. CASE PutFails
  BY <1>6 DEF PutFails, Settle
<1>7. CASE FlushCalled
  <2>1. UNCHANGED <<row, asked, failed, cancelled, puts>>
    BY <1>7 DEF FlushCalled, history
  <2>2. CASE FlushRuns
    <3>1. /\ promised' = asked
          /\ exporting' \/ (pending' /\ puts # {})
          /\ pending => pending'
          /\ puts # {} => pending'
      BY <1>7, <2>2 DEF FlushCalled, Flush, Run
    <3>2. QED
      BY <2>1, <3>1
  <2>3. CASE ~FlushRuns
    BY <1>7, <2>1, <2>3 DEF FlushCalled, Flush, FlushRuns
  <2>4. QED
    BY <2>2, <2>3
<1>8. CASE CancelCalled
  BY <1>8 DEF CancelCalled, Cancel
<1>9. CASE UNCHANGED vars
  BY <1>9 DEF vars
<1>10. QED
  BY <1>1, <1>2, <1>3, <1>4, <1>5, <1>6, <1>7, <1>8, <1>9 DEF Next

\* The guards of schedule() and run(), the order of the versions they put, and
\* what is still owed to the row and to a flush() hold together in every state.
THEOREM InvCorrect == Spec => []Inv
<1>1. Init => GuardInv
  BY Zenon DEF Init, GuardInv, InFlight
<1>2. Init => VersionInv /\ PutsInOrder /\ NothingForgotten /\ RequestInv
               /\ PromiseInv
  BY DEF Init, VersionInv, PutsInOrder, NothingForgotten, RequestInv,
         PromiseInv
<1>3. Inv /\ TypeOK' /\ [Next]_vars => Inv'
  BY GuardStep, VersionStep, RequestHolds DEF Inv
<1>4. QED
  BY <1>1, <1>2, <1>3, TypeCorrect, PTL DEF Spec, Inv

(* As long as the row lacks the last version asked for, a run that will    *)
(* export it is due or in flight, unless a run failed or was cancelled.    *)
THEOREM LastPersistNeverForgotten == Spec => []NothingForgotten
BY InvCorrect, PTL DEF Inv

(* A put in flight is never older than the row. *)
THEOREM PutsOrdered == Spec => []PutsInOrder
BY InvCorrect, PTL DEF Inv

(* A flush() that returns has landed what was asked for when it was called. *)
THEOREM FlushLands == Spec => FlushCovers
<1>1. Inv /\ [Next]_vars
        => [promised # 0 /\ promised' = 0
              => row' >= promised \/ failed' \/ cancelled']_vars
  <2> SUFFICES ASSUME Inv, Next, promised # 0, promised' = 0
               PROVE  row' >= promised \/ failed' \/ cancelled'
    OBVIOUS
  <2> USE DEF Inv, TypeOK, GuardInv, PromiseInv, InFlight
  <2>1. CASE Put
    BY <2>1 DEF Put, Settle
  <2>2. CASE ExportFails \/ PutFails
    BY <2>2 DEF ExportFails, PutFails, Settle
  <2>3. CASE CancelCalled
    BY <2>3 DEF CancelCalled, Cancel
  <2>4. CASE FlushCalled
    BY <2>4 DEF FlushCalled, Flush, FlushRuns, history
  <2>5. CASE Persisted \/ TimerFires \/ Export
    BY <2>5 DEF Persisted, TimerFires, Export
  <2> QED
    BY <2>1, <2>2, <2>3, <2>4, <2>5 DEF Next
<1>2. QED
  BY <1>1, InvCorrect, PTL DEF Spec, FlushCovers

(* The row only moves forward, to versions the session had: the write-back *)
(* implements the abstract mirror.                                         *)
THEOREM ImplementsMirror == Spec => MirrorSpec
<1>1. Init => Mirror!Init
  BY DEF Init, Mirror!Init
<1>2. Inv /\ [Next]_vars => [Mirror!Next]_<<session, row>>
  <2> SUFFICES ASSUME Inv, [Next]_vars
               PROVE  [Mirror!Next]_<<session, row>>
    OBVIOUS
  <2> USE DEF Inv, TypeOK, VersionInv, PutsInOrder
  <2>1. CASE Persisted
    <3>1. session' \in Nat /\ session' > session /\ row' = row
      BY <2>1, WriteBackAssumption DEF Persisted
    <3>2. QED
      BY <2>1, <3>1 DEF Persisted, Mirror!Next, Mirror!Persist
  <2>2. CASE Put \/ PutFails
    <3>1. row' \in row .. session /\ session' = session
      BY <2>2 DEF Put, PutFails
    <3>2. QED
      BY <3>1 DEF Mirror!Next, Mirror!Store
  <2>3. ASSUME TimerFires \/ Export \/ ExportFails \/ FlushCalled \/ CancelCalled
               \/ UNCHANGED vars
        PROVE  UNCHANGED <<session, row>>
    BY <2>3 DEF TimerFires, Export, ExportFails, FlushCalled, CancelCalled, vars
  <2> QED
    BY <2>1, <2>2, <2>3 DEF Next
<1>3. QED
  BY <1>1, <1>2, InvCorrect, PTL DEF Spec, MirrorSpec, Mirror!Spec

-----------------------------------------------------------------------------
(* WriteBackInv of the runs, for every number of persists: types, and the  *)
(* newest persist is stored, failed, cancelled or due.                     *)
THEOREM WriteBackCorrect == Spec => []WriteBackInv
<1>1. TypeOK /\ NothingForgotten => WriteBackInv
  BY DEF WriteBackInv
<1>2. QED
  BY <1>1, TypeCorrect, LastPersistNeverForgotten, PTL
-----------------------------------------------------------------------------
(* The history imports.  The rows a handler inserted and has not recorded   *)
(* are counted once, because a row is inserted once and `new` is told from  *)
(* what was there; a burst asks within its budget because `inFlight` lets   *)
(* one in at a time.                                                        *)
NewIsHistory == \A h \in Syncs : \A m \in sync[h].new : origin[m] = "history"

OneBurst ==
  /\ inFlight = FALSE => wanted = 0 /\ \A b \in Bursts : burst[b].at = "idle"
  /\ \A b, d \in Bursts : burst[b].at # "idle" /\ burst[d].at # "idle" => b = d

BurstBudget ==
  /\ wanted <= MaxMessages
  /\ \A b \in Bursts :
       /\ burst[b].at = "loading" => wanted = 0
       /\ burst[b].at = "next" => wanted = burst[b].spent /\ burst[b].spent <= MaxMessages
       /\ burst[b].at = "asked" => /\ burst[b].spent < MaxMessages
                                   /\ wanted = burst[b].spent + Portion(burst[b].spent)

ImportInv == HistoryTypeOK /\ ImportedIsCounted /\ NewIsHistory /\ OneBurst /\ BurstBudget

(* The pairs of a handler and a row of the chat it has not recorded. *)
Pairs(c) == {p \in Syncs \X Texts : p[2] \in InChat(sync[p[1]].new, c)}

FromHistory(c) == {m \in InChat(Texts, c) : origin[m] = "history"}

LEMMA PairsOf ==
  ASSUME NEW c
  PROVE  /\ InHand(c) = Cardinality(Pairs(c))
         /\ \A p : p \in Pairs(c) <=>
              \E h \in Syncs, m \in Texts : p = <<h, m>> /\ m \in sync[h].new /\ m[1] = c
  BY DEF InHand, Pairs, InChat

LEMMA FiniteHands ==
  ASSUME NEW c
  PROVE  /\ IsFiniteSet(Pairs(c)) /\ InHand(c) \in Nat
         /\ IsFiniteSet(FromHistory(c)) /\ Cardinality(FromHistory(c)) \in Nat
<1>1. IsFiniteSet(Syncs \X Texts)
  BY FS_Product, HistoryAssumption
<1>2. Pairs(c) \in SUBSET (Syncs \X Texts)
  BY PairsOf
<1>3. IsFiniteSet(Pairs(c))
  BY <1>1, <1>2, FS_Subset
<1>4. FromHistory(c) \in SUBSET Texts
  BY DEF FromHistory, InChat
<1>5. IsFiniteSet(FromHistory(c))
  BY <1>4, FS_Subset, HistoryAssumption
<1>6. QED
  BY <1>3, <1>5, PairsOf, FS_CardinalityType
LEMMA PortionFits ==
  ASSUME NEW spent \in Nat, spent < MaxMessages
  PROVE  Portion(spent) \in Nat /\ spent + Portion(spent) <= MaxMessages
  BY HistoryAssumption DEF Portion

LEMMA AskedAreKeyed == Anchors \subseteq Keyed /\ OldestKeys \subseteq Keyed
  BY DEF Anchors, OldestKeys

(* The parts of the types, by who changes them. *)
RowTypes ==
  /\ origin \in [Texts -> {"none", "live", "history"}]
  /\ imported \in [Chats -> Nat] /\ uncounted \in [Chats -> Nat]

BurstTypes ==
  burst \in [Bursts -> [at : {"idle", "loading", "next", "asked"}, left : SUBSET Keyed, spent : Nat]]

CallTypes ==
  backfill \in [at : {"idle", "next", "asked"}, left : SUBSET Keyed, batch : 0 .. MaxBatches]

SyncTypes == sync \in [Syncs -> [todo : SUBSET Texts, seen : SUBSET Texts, new : SUBSET Texts]]

FlagTypes == listening \in BOOLEAN /\ cooled \in BOOLEAN /\ inFlight \in BOOLEAN

CountTypes == wanted \in Nat /\ syncs \in 0 .. MaxSyncs /\ asks \in 0 .. MaxAsks

LEMMA HistoryParts ==
  /\ HistoryTypeOK <=>
       RowTypes /\ BurstTypes /\ CallTypes /\ SyncTypes /\ FlagTypes /\ CountTypes
  /\ HistoryTypeOK' <=>
       RowTypes' /\ BurstTypes' /\ CallTypes' /\ SyncTypes' /\ FlagTypes' /\ CountTypes'
  BY DEF HistoryTypeOK, RowTypes, BurstTypes, CallTypes, SyncTypes, FlagTypes, CountTypes

(* What the steps of the askers leave alone. *)
LEMMA RowsKept ==
  ASSUME RowTypes, SyncTypes, ImportedIsCounted, NewIsHistory,
         UNCHANGED <<origin, imported, sync, uncounted>>
  PROVE  RowTypes' /\ SyncTypes' /\ ImportedIsCounted' /\ NewIsHistory' /\ Keyed' = Keyed
<1>1. Keyed' = Keyed
  BY DEF Keyed
<1>2. \A c : InHand(c)' = InHand(c)
  BY DEF InHand
<1>3. ImportedIsCounted'
  BY <1>2 DEF ImportedIsCounted
<1>4. QED
  BY <1>1, <1>3 DEF RowTypes, SyncTypes, NewIsHistory

(* A step that changes one burst. *)
LEMMA BurstSet ==
  ASSUME BurstTypes, Keyed' = Keyed, NEW b \in Bursts,
         NEW at \in {"idle", "loading", "next", "asked"}, NEW left \in SUBSET Keyed,
         NEW spent \in Nat, Asking(b, at, left, spent)
  PROVE  /\ BurstTypes'
         /\ burst'[b].at = at /\ burst'[b].left = left /\ burst'[b].spent = spent
         /\ \A d \in Bursts : d # b => burst'[d] = burst[d]
  BY DEF BurstTypes, Asking

LEMMA BurstStep ==
  ASSUME ImportInv, NEW b \in Bursts,
         BurstStarts(b) \/ BurstLoads(b) \/ BurstAsks(b) \/ BurstRecords(b) \/ BurstEnds(b)
  PROVE  ImportInv'
<1>0. RowTypes /\ BurstTypes /\ CallTypes /\ SyncTypes /\ FlagTypes /\ CountTypes
  BY HistoryParts DEF ImportInv
<1>1. UNCHANGED <<origin, imported, sync, uncounted, backfill, syncs>>
  BY DEF BurstStarts, BurstLoads, BurstAsks, BurstRecords, BurstEnds, historyRows
<1>2. RowTypes' /\ SyncTypes' /\ ImportedIsCounted' /\ NewIsHistory' /\ Keyed' = Keyed
  BY <1>0, <1>1, RowsKept DEF ImportInv
<1>3. CallTypes'
  BY <1>0, <1>1, <1>2 DEF CallTypes
<1>4. /\ burst[b].at \in {"idle", "loading", "next", "asked"}
      /\ burst[b].left \in SUBSET Keyed /\ burst[b].spent \in Nat
      /\ wanted \in Nat /\ MaxMessages \in Nat /\ MaxMessages > 0
      /\ Portion(burst[b].spent) \in Int
  BY <1>0, HistoryAssumption DEF BurstTypes, CountTypes, Portion
<1>5. OneBurst /\ BurstBudget
  BY DEF ImportInv
<1> SUFFICES BurstTypes' /\ FlagTypes' /\ CountTypes' /\ OneBurst' /\ BurstBudget'
  BY <1>2, <1>3, HistoryParts DEF ImportInv
<1>6. CASE BurstStarts(b)
  <2>1. /\ BurstTypes' /\ burst'[b].at = "loading"
        /\ \A d \in Bursts : d # b => burst'[d] = burst[d]
    BY <1>0, <1>2, <1>6, BurstSet DEF BurstStarts
  <2>2. /\ inFlight' = TRUE /\ cooled' = FALSE /\ listening' = listening
        /\ wanted' = wanted /\ asks' = asks + 1 /\ syncs' = syncs /\ inFlight = FALSE
        /\ asks < MaxAsks
    BY <1>6, <1>0 DEF BurstStarts, FlagTypes
  <2>3. wanted = 0 /\ \A d \in Bursts : burst[d].at = "idle"
    BY <1>5, <2>2 DEF OneBurst
  <2>4. FlagTypes'
    BY <1>0, <2>2 DEF FlagTypes
  <2>5. CountTypes'
    BY <1>0, <2>2, HistoryAssumption DEF CountTypes
  <2>6. \A d \in Bursts : burst'[d].at # "idle" => d = b
    BY <2>1, <2>3
  <2>7. OneBurst'
    BY <2>2, <2>6 DEF OneBurst
  <2>8. BurstBudget'
    BY <2>1, <2>2, <2>3, <2>6, <1>4 DEF BurstBudget
  <2>9. QED BY <2>1, <2>4, <2>5, <2>7, <2>8
<1>7. ASSUME burst[b].at # "idle", UNCHANGED <<inFlight, cooled, asks>>,
             \A d \in Bursts : d # b => burst'[d] = burst[d]
      PROVE  /\ OneBurst' /\ inFlight' = TRUE
             /\ \A d \in Bursts : d # b => burst'[d].at = "idle"
  <2>1. inFlight = TRUE /\ \A d \in Bursts : d # b => burst[d].at = "idle"
    BY <1>0, <1>5, <1>7 DEF OneBurst, FlagTypes
  <2>2. inFlight' = TRUE /\ \A d \in Bursts : d # b => burst'[d].at = "idle"
    BY <1>7, <2>1
  <2>3. QED BY <2>2 DEF OneBurst
<1>8. CASE BurstLoads(b)
  <2>1. /\ BurstTypes' /\ burst'[b].at = "next" /\ burst'[b].spent = 0
        /\ \A d \in Bursts : d # b => burst'[d] = burst[d]
    BY <1>0, <1>2, <1>8, BurstSet, AskedAreKeyed DEF BurstLoads
  <2>2. /\ UNCHANGED <<inFlight, cooled, asks, listening, wanted, syncs>>
        /\ burst[b].at = "loading" /\ wanted = 0
    BY <1>8, <1>5 DEF BurstLoads, BurstBudget
  <2>3. OneBurst' /\ \A d \in Bursts : d # b => burst'[d].at = "idle"
    BY <1>7, <2>1, <2>2
  <2>4. BurstBudget'
    BY <2>1, <2>2, <2>3, <1>4 DEF BurstBudget
  <2>5. FlagTypes' /\ CountTypes'
    BY <1>0, <2>2 DEF FlagTypes, CountTypes
  <2>6. QED BY <2>1, <2>3, <2>4, <2>5
<1>9. CASE BurstAsks(b)
  <2>1. /\ burst[b].at = "next" /\ burst[b].spent < MaxMessages
        /\ wanted' = wanted + Portion(burst[b].spent) /\ listening' = TRUE
        /\ UNCHANGED <<inFlight, cooled, asks, syncs>>
        /\ Asking(b, "asked", burst[b].left, burst[b].spent)
    BY <1>9 DEF BurstAsks
  <2>2. /\ BurstTypes' /\ burst'[b].at = "asked" /\ burst'[b].spent = burst[b].spent
        /\ \A d \in Bursts : d # b => burst'[d] = burst[d]
    <3>1. /\ BurstTypes /\ Keyed' = Keyed
          /\ burst[b].left \in SUBSET Keyed /\ burst[b].spent \in Nat
      BY <1>0, <1>2, <1>4, <2>1
    <3>2. Asking(b, "asked", burst[b].left, burst[b].spent)
      BY <2>1
    <3>3. QED BY <3>1, <3>2 DEF BurstTypes, Asking
  <2>3. OneBurst' /\ \A d \in Bursts : d # b => burst'[d].at = "idle"
    BY <1>7, <2>1, <2>2
  <2>4. wanted = burst[b].spent
    BY <1>5, <2>1 DEF BurstBudget
  <2>5. Portion(burst[b].spent) \in Nat /\ burst[b].spent + Portion(burst[b].spent) <= MaxMessages
    BY <1>4, <2>1, PortionFits
  <2>6. Portion(burst[b].spent)' = Portion(burst[b].spent)
    BY <2>2 DEF Portion
  <2>7. BurstBudget'
    BY <2>1, <2>2, <2>3, <2>4, <2>5, <2>6 DEF BurstBudget
  <2>8. FlagTypes'
    BY <1>0, <2>1 DEF FlagTypes
  <2>9. CountTypes'
    BY <1>0, <1>4, <2>1, <2>5 DEF CountTypes
  <2>10. QED BY <2>2, <2>3, <2>7, <2>8, <2>9
<1>10. CASE BurstRecords(b)
  <2>1. /\ burst[b].at = "asked"
        /\ UNCHANGED <<inFlight, cooled, asks, listening, wanted, syncs>>
        /\ Asking(b, "next", burst[b].left \ {FirstOf(burst[b].left)},
                  burst[b].spent + Portion(burst[b].spent))
    BY <1>10 DEF BurstRecords
  <2>2. burst[b].spent < MaxMessages /\ wanted = burst[b].spent + Portion(burst[b].spent)
    BY <1>5, <2>1 DEF BurstBudget
  <2>3. Portion(burst[b].spent) \in Nat /\ burst[b].spent + Portion(burst[b].spent) <= MaxMessages
    BY <1>4, <2>2, PortionFits
  <2>4. burst[b].left \ {FirstOf(burst[b].left)} \in SUBSET Keyed
    BY <1>4
  <2>5. burst[b].spent + Portion(burst[b].spent) \in Nat
    BY <1>4, <2>3
  <2>6. /\ BurstTypes' /\ burst'[b].at = "next" /\ burst'[b].spent = wanted
        /\ \A d \in Bursts : d # b => burst'[d] = burst[d]
    BY <1>0, <1>2, <2>1, <2>2, <2>4, <2>5, BurstSet
  <2>7. OneBurst' /\ \A d \in Bursts : d # b => burst'[d].at = "idle"
    BY <1>7, <2>1, <2>6
  <2>8. BurstBudget'
    BY <2>1, <2>2, <2>3, <2>6, <2>7 DEF BurstBudget
  <2>9. FlagTypes' /\ CountTypes'
    BY <1>0, <2>1 DEF FlagTypes, CountTypes
  <2>10. QED BY <2>6, <2>7, <2>8, <2>9
<1>11. CASE BurstEnds(b)
  <2>1. /\ burst[b].at # "idle" /\ inFlight' = FALSE /\ wanted' = 0
        /\ UNCHANGED <<cooled, asks, listening, syncs>>
        /\ burst' = [burst EXCEPT ![b] = BurstIdle]
    BY <1>11 DEF BurstEnds
  <2>2. BurstIdle = [at |-> "idle", left |-> {}, spent |-> 0]
    BY DEF BurstIdle
  <2>3. BurstTypes'
    BY <1>0, <1>2, <2>1, <2>2 DEF BurstTypes
  <2>4. \A d \in Bursts : burst'[d].at = "idle"
    <3>1. \A d \in Bursts : d # b => burst[d].at = "idle"
      BY <1>5, <2>1 DEF OneBurst
    <3>2. burst'[b].at = "idle" /\ \A d \in Bursts : d # b => burst'[d] = burst[d]
      BY <1>0, <2>1, <2>2 DEF BurstTypes
    <3>3. QED BY <3>1, <3>2
  <2>5. OneBurst'
    BY <2>1, <2>4 DEF OneBurst
  <2>6. BurstBudget'
    BY <2>1, <2>4, <1>4 DEF BurstBudget
  <2>7. FlagTypes'
    BY <1>0, <2>1 DEF FlagTypes
  <2>8. CountTypes'
    BY <1>0, <2>1 DEF CountTypes
  <2>9. QED BY <2>3, <2>5, <2>6, <2>7, <2>8
<1>12. QED BY <1>6, <1>8, <1>9, <1>10, <1>11
(* backfillHistory() and the clock change no row and no burst. *)
LEMMA CallStep ==
  ASSUME ImportInv,
         \/ BackfillStarts \/ BackfillAsks \/ BackfillRecords \/ BackfillAgain \/ BackfillEnds
         \/ CooldownPasses \/ WindowCloses \/ UNCHANGED historyVars
  PROVE  ImportInv'
<1>0. RowTypes /\ BurstTypes /\ CallTypes /\ SyncTypes /\ FlagTypes /\ CountTypes
  BY HistoryParts DEF ImportInv
<1>1. UNCHANGED <<origin, imported, sync, uncounted, syncs, burst, inFlight, wanted>>
  BY DEF BackfillStarts, BackfillAsks, BackfillRecords, BackfillAgain, BackfillEnds,
         CooldownPasses, WindowCloses, historyRows, askers, historyVars
<1>2. RowTypes' /\ SyncTypes' /\ ImportedIsCounted' /\ NewIsHistory' /\ Keyed' = Keyed
  BY <1>0, <1>1, RowsKept DEF ImportInv
<1>3. BurstTypes'
  BY <1>0, <1>1, <1>2 DEF BurstTypes
<1>4. OneBurst'
  BY <1>1 DEF OneBurst, ImportInv
<1>5. BurstBudget'
  BY <1>1 DEF BurstBudget, ImportInv, Portion
<1>6. FlagTypes'
  BY <1>0 DEF FlagTypes, BackfillStarts, BackfillAsks, BackfillRecords, BackfillAgain,
         BackfillEnds, CooldownPasses, WindowCloses, historyVars, askers
<1>7. CountTypes'
  <2>1. asks' = asks \/ (asks < MaxAsks /\ asks' = asks + 1)
    BY DEF BackfillStarts, BackfillAsks, BackfillRecords, BackfillAgain, BackfillEnds,
           CooldownPasses, WindowCloses, historyVars
  <2>2. QED BY <1>0, <1>1, <2>1, HistoryAssumption DEF CountTypes
<1>8. CallTypes'
  <2>1. MaxBatches \in Nat /\ MaxBatches > 0
    BY HistoryAssumption
  <2> USE <1>0, <1>2, <2>1, AskedAreKeyed DEF CallTypes
  <2>2. CASE BackfillStarts
    BY <2>2 DEF BackfillStarts
  <2>3. CASE BackfillAsks
    BY <2>3 DEF BackfillAsks
  <2>4. CASE BackfillRecords
    BY <2>4 DEF BackfillRecords
  <2>5. CASE BackfillAgain
    BY <2>5 DEF BackfillAgain
  <2>6. CASE BackfillEnds
    BY <2>6 DEF BackfillEnds, CallIdle
  <2>7. CASE CooldownPasses \/ WindowCloses \/ UNCHANGED historyVars
    BY <2>7 DEF CooldownPasses, WindowCloses, historyVars, askers
  <2>8. QED BY <2>2, <2>3, <2>4, <2>5, <2>6, <2>7
<1>9. QED
  BY <1>2, <1>3, <1>4, <1>5, <1>6, <1>7, <1>8, HistoryParts DEF ImportInv

(* What the handlers of messages leave alone: rows only get more. *)
LEMMA AskersKept ==
  ASSUME BurstTypes, CallTypes, FlagTypes, OneBurst, BurstBudget, Keyed \subseteq Keyed',
         UNCHANGED askers
  PROVE  BurstTypes' /\ CallTypes' /\ FlagTypes' /\ OneBurst' /\ BurstBudget' /\ wanted' = wanted
<1>1. UNCHANGED <<listening, cooled, inFlight, burst, backfill, wanted>>
  BY DEF askers
<1>2. BurstTypes'
  BY <1>1 DEF BurstTypes
<1>3. CallTypes'
  BY <1>1 DEF CallTypes
<1>4. FlagTypes' /\ OneBurst'
  BY <1>1 DEF FlagTypes, OneBurst
<1>5. BurstBudget'
  BY <1>1 DEF BurstBudget, Portion
<1>6. QED BY <1>1, <1>2, <1>3, <1>4, <1>5

(* A message is stored: its row is new, or nothing changes. *)
LEMMA StoredRow ==
  ASSUME RowTypes, NEW m \in Texts, NEW source \in {"live", "history"}, Stored(m, source)
  PROVE  /\ origin' \in [Texts -> {"none", "live", "history"}]
         /\ Keyed \subseteq Keyed'
         /\ \A n \in Texts : origin'[n] = IF n = m /\ origin[m] = "none" THEN source ELSE origin[n]
<1>1. \A n \in Texts : origin'[n] = IF n = m /\ origin[m] = "none" THEN source ELSE origin[n]
  BY DEF Stored, RowTypes
<1>2. Keyed \subseteq Keyed'
  BY <1>1 DEF Keyed
<1>3. QED BY <1>1, <1>2 DEF Stored, RowTypes

(* The counts of a chat, given those of the rows in hand and stored. *)
LEMMA Counted ==
  ASSUME ImportedIsCounted, RowTypes, NEW c \in Chats
  PROVE  /\ imported[c] \in Nat /\ uncounted[c] \in Nat
         /\ InHand(c) = Cardinality(Pairs(c)) /\ InHand(c) \in Nat
         /\ imported[c] + InHand(c) + uncounted[c] = Cardinality(FromHistory(c))
  BY FiniteHands, PairsOf DEF ImportedIsCounted, RowTypes, FromHistory

LEMMA LiveStep ==
  ASSUME ImportInv, NEW m \in Texts, LiveIngested(m)
  PROVE  ImportInv'
<1>0. RowTypes /\ BurstTypes /\ CallTypes /\ SyncTypes /\ FlagTypes /\ CountTypes
  BY HistoryParts DEF ImportInv
<1>1. UNCHANGED <<imported, sync, uncounted, syncs, asks, askers>>
  BY DEF LiveIngested
<1>2. /\ origin' \in [Texts -> {"none", "live", "history"}] /\ Keyed \subseteq Keyed'
      /\ \A n \in Texts : origin'[n] = IF n = m THEN "live" ELSE origin[n]
      /\ origin[m] = "none"
  BY <1>0, StoredRow DEF LiveIngested
<1>3. BurstTypes' /\ CallTypes' /\ FlagTypes' /\ OneBurst' /\ BurstBudget' /\ wanted' = wanted
  BY <1>0, <1>1, <1>2, AskersKept DEF ImportInv
<1>4. RowTypes' /\ SyncTypes' /\ CountTypes'
  BY <1>0, <1>1, <1>2, <1>3 DEF RowTypes, SyncTypes, CountTypes
<1>5. ImportedIsCounted'
  <2>1. ASSUME NEW c \in Chats
        PROVE  FromHistory(c)' = FromHistory(c) /\ InHand(c)' = InHand(c)
    BY <1>1, <1>2 DEF FromHistory, InHand, InChat
  <2>2. QED BY <1>1, <2>1 DEF ImportedIsCounted, ImportInv, FromHistory
<1>6. NewIsHistory'
  BY <1>0, <1>1, <1>2 DEF NewIsHistory, ImportInv, SyncTypes
<1>7. QED
  BY <1>3, <1>4, <1>5, <1>6, HistoryParts DEF ImportInv

(* A batch comes in, or a message of it cannot be stored. *)
LEMMA BatchStep ==
  ASSUME ImportInv, NEW h \in Syncs,
         \/ \E texts \in kSubset(2, Texts) : HistorySet(h, texts)
         \/ \E m \in Texts : HistorySkipped(h, m)
  PROVE  ImportInv'
<1>0. RowTypes /\ BurstTypes /\ CallTypes /\ SyncTypes /\ FlagTypes /\ CountTypes
  BY HistoryParts DEF ImportInv
<1>1. UNCHANGED <<origin, imported, uncounted, asks, askers>>
  BY DEF HistorySet, HistorySkipped, historyRows
<1>2. PICK texts \in SUBSET Texts : sync' = [sync EXCEPT ![h].todo = texts]
  <2>1. CASE \E texts \in kSubset(2, Texts) : HistorySet(h, texts)
    BY <2>1 DEF kSubset, HistorySet
  <2>2. CASE \E m \in Texts : HistorySkipped(h, m)
    <3>1. PICK m \in Texts : sync' = [sync EXCEPT ![h].todo = @ \ {m}]
      BY <2>2 DEF HistorySkipped
    <3>2. sync[h].todo \ {m} \in SUBSET Texts
      BY <1>0 DEF SyncTypes
    <3>3. QED BY <3>1, <3>2
  <2>3. QED BY <2>1, <2>2
<1>3. syncs' \in 0 .. MaxSyncs
  BY <1>0, HistoryAssumption DEF HistorySet, HistorySkipped, CountTypes
<1>4. SyncTypes' /\ \A g \in Syncs : sync'[g].new = sync[g].new
  BY <1>0, <1>2 DEF SyncTypes
<1>5. Keyed' = Keyed
  BY <1>1 DEF Keyed
<1>6. BurstTypes' /\ CallTypes' /\ FlagTypes' /\ OneBurst' /\ BurstBudget' /\ wanted' = wanted
  BY <1>0, <1>1, <1>5, AskersKept DEF ImportInv
<1>7. RowTypes' /\ CountTypes'
  BY <1>0, <1>1, <1>3, <1>6 DEF RowTypes, CountTypes
<1>8. ImportedIsCounted'
  <2>1. \A c : InHand(c)' = InHand(c)
    BY <1>4 DEF InHand, InChat
  <2>2. QED BY <1>1, <2>1 DEF ImportedIsCounted, ImportInv
<1>9. NewIsHistory'
  BY <1>1, <1>4 DEF NewIsHistory, ImportInv
<1>10. QED
  BY <1>4, <1>6, <1>7, <1>8, <1>9, HistoryParts DEF ImportInv
(* A handler inserts the row of a message and has it in hand, or finds it.  *)
LEMMA IngestedStep ==
  ASSUME ImportInv, NEW h \in Syncs, NEW m \in Texts, HistoryIngested(h, m)
  PROVE  ImportInv'
<1>0. RowTypes /\ BurstTypes /\ CallTypes /\ SyncTypes /\ FlagTypes /\ CountTypes
  BY HistoryParts DEF ImportInv
<1>1. UNCHANGED <<imported, uncounted, syncs, asks, askers>>
  BY DEF HistoryIngested
<1>2. /\ origin' \in [Texts -> {"none", "live", "history"}] /\ Keyed \subseteq Keyed'
      /\ \A n \in Texts :
           origin'[n] = IF n = m /\ origin[m] = "none" THEN "history" ELSE origin[n]
  BY <1>0, StoredRow DEF HistoryIngested
<1>3. BurstTypes' /\ CallTypes' /\ FlagTypes' /\ OneBurst' /\ BurstBudget' /\ wanted' = wanted
  BY <1>0, <1>1, <1>2, AskersKept DEF ImportInv
<1>4. /\ sync[h].new \in SUBSET Texts /\ sync[h].seen \in SUBSET Texts
      /\ sync[h].todo \in SUBSET Texts /\ Inserted(m) \in SUBSET Texts
  BY <1>0 DEF SyncTypes, Inserted
<1>5. /\ SyncTypes' /\ sync'[h].new = sync[h].new \cup Inserted(m)
      /\ \A g \in Syncs : g # h => sync'[g] = sync[g]
  BY <1>0, <1>4 DEF HistoryIngested, SyncTypes
<1>6. RowTypes' /\ CountTypes'
  BY <1>0, <1>1, <1>2, <1>3 DEF RowTypes, CountTypes
<1>7. NewIsHistory'
  <2>1. ASSUME NEW g \in Syncs, NEW n \in sync'[g].new PROVE origin'[n] = "history"
    <3>1. n \in Texts
      BY <1>5 DEF SyncTypes
    <3>2. n \in sync[g].new \/ (n = m /\ origin[m] = "none")
      BY <1>5 DEF Inserted
    <3>3. QED BY <1>2, <3>1, <3>2 DEF NewIsHistory, ImportInv
  <2>2. QED BY <2>1 DEF NewIsHistory
<1>8. ImportedIsCounted'
  <2> SUFFICES ASSUME NEW c \in Chats
               PROVE  imported[c] + Cardinality(Pairs(c)') + uncounted[c]
                        = Cardinality(FromHistory(c)')
    <3>1. \A c : InHand(c)' = Cardinality(Pairs(c)')
      BY DEF InHand, Pairs
    <3>2. Chats' = Chats
      BY DEF Chats
    <3>3. QED BY <1>1, <3>1, <3>2 DEF ImportedIsCounted, FromHistory
  <2>1. /\ imported[c] \in Nat /\ uncounted[c] \in Nat /\ Cardinality(Pairs(c)) \in Nat
        /\ imported[c] + Cardinality(Pairs(c)) + uncounted[c] = Cardinality(FromHistory(c))
    BY <1>0, Counted DEF ImportInv
  <2>2. CASE origin[m] = "none" /\ m[1] = c
    <3>1. Pairs(c)' = Pairs(c) \cup {<<h, m>>}
      BY <2>2, <1>5 DEF Pairs, InChat, Inserted
    <3>2. <<h, m>> \notin Pairs(c)
      BY <2>2 DEF Pairs, InChat, ImportInv, NewIsHistory
    <3>3. FromHistory(c)' = FromHistory(c) \cup {m} /\ m \notin FromHistory(c)
      BY <2>2, <1>2 DEF FromHistory, InChat
    <3>4. Cardinality(Pairs(c)') = Cardinality(Pairs(c)) + 1
      BY <3>1, <3>2, FiniteHands, FS_AddElement
    <3>5. Cardinality(FromHistory(c)') = Cardinality(FromHistory(c)) + 1
      BY <3>3, FiniteHands, FS_AddElement
    <3>6. QED BY <2>1, <3>4, <3>5
  <2>3. CASE ~(origin[m] = "none" /\ m[1] = c)
    <3>1. FromHistory(c)' = FromHistory(c)
      BY <2>3, <1>2 DEF FromHistory, InChat
    <3>2. Pairs(c)' = Pairs(c)
      BY <2>3, <1>5 DEF Pairs, InChat, Inserted
    <3>3. QED BY <2>1, <3>1, <3>2
  <2>4. QED BY <2>2, <2>3
<1>9. QED
  BY <1>3, <1>5, <1>6, <1>7, <1>8, HistoryParts DEF ImportInv

(* A handler lets go of a chat: what it had in hand of it is the number of  *)
(* its new rows.                                                            *)
LEMMA ForgetStep ==
  ASSUME SyncTypes, NEW h \in Syncs, NEW c \in Chats, Forget(h, c)
  PROVE  /\ SyncTypes' /\ \A g \in Syncs : sync'[g].new \subseteq sync[g].new
         /\ \A d \in Chats : Cardinality(Pairs(d)') =
              IF d = c THEN Cardinality(Pairs(d)) - Cardinality(InChat(sync[h].new, c))
              ELSE Cardinality(Pairs(d))
         /\ Cardinality(InChat(sync[h].new, c)) \in Nat
<1> DEFINE mine == {h} \X InChat(sync[h].new, c)
<1>0. /\ sync[h].new \in SUBSET Texts /\ sync[h].seen \in SUBSET Texts
  BY DEF SyncTypes
<1>1. /\ SyncTypes' /\ sync'[h].new = sync[h].new \ InChat(sync[h].new, c)
      /\ \A g \in Syncs : g # h => sync'[g] = sync[g]
  <2> DEFINE rest == [todo |-> sync[h].todo, seen |-> sync[h].seen \ InChat(sync[h].seen, c),
                      new |-> sync[h].new \ InChat(sync[h].new, c)]
  <2>1. sync' = [sync EXCEPT ![h] = rest]
    BY DEF Forget
  <2>2. sync[h] \in [todo : SUBSET Texts, seen : SUBSET Texts, new : SUBSET Texts]
    BY DEF SyncTypes
  <2>3. /\ rest \in [todo : SUBSET Texts, seen : SUBSET Texts, new : SUBSET Texts]
        /\ rest.new = sync[h].new \ InChat(sync[h].new, c)
    BY <2>2 DEF InChat
  <2> HIDE DEF rest
  <2>4. sync'[h] = rest /\ \A g \in Syncs : g # h => sync'[g] = sync[g]
    BY <2>1 DEF SyncTypes
  <2>5. SyncTypes'
    BY <2>1, <2>3 DEF SyncTypes
  <2>6. QED BY <2>3, <2>4, <2>5
<1>2. IsFiniteSet(InChat(sync[h].new, c)) /\ Cardinality(InChat(sync[h].new, c)) \in Nat
  <2>1. InChat(sync[h].new, c) \in SUBSET Texts
    BY <1>0 DEF InChat
  <2>2. QED BY <2>1, HistoryAssumption, FS_Subset, FS_CardinalityType
<1>3. IsFiniteSet(mine) /\ Cardinality(mine) = Cardinality(InChat(sync[h].new, c))
  <2>1. IsFiniteSet({h}) /\ Cardinality({h}) = 1
    BY FS_Singleton
  <2>2. Cardinality(mine) = 1 * Cardinality(InChat(sync[h].new, c)) /\ IsFiniteSet(mine)
    BY <2>1, <1>2, FS_Product
  <2>3. QED BY <2>2, <1>2
<1>4. ASSUME NEW d \in Chats
      PROVE  Cardinality(Pairs(d)') =
               IF d = c THEN Cardinality(Pairs(d)) - Cardinality(InChat(sync[h].new, c))
               ELSE Cardinality(Pairs(d))
  <2>1. CASE d = c
    <3>1. Pairs(c)' = Pairs(c) \ mine
      BY <1>1 DEF Pairs, InChat
    <3>2. Pairs(c) \cap mine = mine
      BY <1>0 DEF Pairs, InChat
    <3>3. Cardinality(Pairs(c) \ mine) = Cardinality(Pairs(c)) - Cardinality(Pairs(c) \cap mine)
      BY FiniteHands, FS_Difference
    <3>4. QED BY <2>1, <3>1, <3>2, <3>3, <1>3
  <2>2. CASE d # c
    <3>1. Pairs(d)' = Pairs(d)
      BY <2>2, <1>1 DEF Pairs, InChat
    <3>2. QED BY <2>2, <3>1
  <2>3. QED BY <2>1, <2>2
<1>5. QED BY <1>1, <1>2, <1>4

LEMMA RecordStep ==
  ASSUME ImportInv, NEW h \in Syncs, NEW c \in Chats,
         ChatRecorded(h, c) \/ ChatNotRecorded(h, c)
  PROVE  ImportInv'
<1> DEFINE k == Cardinality(InChat(sync[h].new, c))
<1>0. RowTypes /\ BurstTypes /\ CallTypes /\ SyncTypes /\ FlagTypes /\ CountTypes
  BY HistoryParts DEF ImportInv
<1>1. UNCHANGED <<origin, syncs, asks, askers>> /\ Forget(h, c)
  BY DEF ChatRecorded, ChatNotRecorded, historyRows
<1>2. /\ SyncTypes' /\ \A g \in Syncs : sync'[g].new \subseteq sync[g].new
      /\ \A d \in Chats : Cardinality(Pairs(d)') =
           IF d = c THEN Cardinality(Pairs(d)) - k ELSE Cardinality(Pairs(d))
      /\ k \in Nat
  BY <1>0, <1>1, ForgetStep
<1>3. \/ imported' = [imported EXCEPT ![c] = @ + k] /\ uncounted' = uncounted
      \/ uncounted' = [uncounted EXCEPT ![c] = @ + k] /\ imported' = imported
  BY DEF ChatRecorded, ChatNotRecorded, historyRows
<1> HIDE DEF k
<1>4. RowTypes'
  BY <1>0, <1>1, <1>2, <1>3 DEF RowTypes, Chats
<1>5. Keyed' = Keyed
  BY <1>1 DEF Keyed
<1>6. BurstTypes' /\ CallTypes' /\ FlagTypes' /\ OneBurst' /\ BurstBudget' /\ wanted' = wanted
  BY <1>0, <1>1, <1>5, AskersKept DEF ImportInv
<1>7. CountTypes'
  BY <1>0, <1>1, <1>6 DEF CountTypes
<1>8. NewIsHistory'
  BY <1>1, <1>2 DEF NewIsHistory, ImportInv
<1>9. ImportedIsCounted'
  <2> SUFFICES ASSUME NEW d \in Chats
               PROVE  imported'[d] + Cardinality(Pairs(d)') + uncounted'[d]
                        = Cardinality(FromHistory(d))
    <3>1. \A d : InHand(d)' = Cardinality(Pairs(d)')
      BY DEF InHand, Pairs
    <3>2. Chats' = Chats
      BY DEF Chats
    <3>3. QED BY <1>1, <3>1, <3>2 DEF ImportedIsCounted, FromHistory
  <2>1. /\ imported[d] \in Nat /\ uncounted[d] \in Nat /\ Cardinality(Pairs(d)) \in Nat
        /\ imported[d] + Cardinality(Pairs(d)) + uncounted[d] = Cardinality(FromHistory(d))
    BY <1>0, Counted DEF ImportInv
  <2>2. imported'[d] + uncounted'[d]
          = imported[d] + uncounted[d] + (IF d = c THEN k ELSE 0)
    BY <1>0, <1>2, <1>3, <2>1 DEF RowTypes
  <2>3. imported'[d] \in Nat /\ uncounted'[d] \in Nat
    <3>1. Chats' = Chats
      BY DEF Chats
    <3>2. QED BY <1>4, <3>1 DEF RowTypes
  <2>4. Cardinality(Pairs(d)') = Cardinality(Pairs(d)) - (IF d = c THEN k ELSE 0)
    BY <1>2, <2>1
  <2> DEFINE had == Cardinality(Pairs(d))
             has == Cardinality(Pairs(d)')
             all == Cardinality(FromHistory(d))
             i0 == imported[d]
             u0 == uncounted[d]
             i1 == imported'[d]
             u1 == uncounted'[d]
  <2>5. ASSUME had \in Nat, i0 \in Nat, u0 \in Nat, i1 \in Nat, u1 \in Nat, k \in Nat,
               i0 + had + u0 = all, i1 + u1 = i0 + u0 + (IF d = c THEN k ELSE 0),
               has = had - (IF d = c THEN k ELSE 0)
        PROVE  i1 + has + u1 = all
    <3> HIDE DEF had, has, all, i0, u0, i1, u1
    <3>1. QED BY <2>5
  <2>6. QED BY <2>1, <2>2, <2>3, <2>4, <2>5, <1>2
<1>10. QED
  BY <1>2, <1>4, <1>6, <1>7, <1>8, <1>9, HistoryParts DEF ImportInv

(* The process dies: its memory is gone, and what it had in hand with it.   *)
LEMMA CrashStep ==
  ASSUME ImportInv, Crash
  PROVE  ImportInv'
<1>0. RowTypes /\ BurstTypes /\ CallTypes /\ SyncTypes /\ FlagTypes /\ CountTypes
  BY HistoryParts DEF ImportInv
<1>1. /\ UNCHANGED <<origin, imported, syncs, asks>>
      /\ listening' = FALSE /\ cooled' = TRUE /\ inFlight' = FALSE /\ wanted' = 0
      /\ burst' = [b \in Bursts |-> BurstIdle] /\ backfill' = CallIdle
      /\ sync' = [h \in Syncs |-> SyncIdle]
      /\ uncounted' = [c \in Chats |-> uncounted[c] + InHand(c)]
  BY DEF Crash, historyRows
<1>2. RowTypes'
  BY <1>0, <1>1, FiniteHands DEF RowTypes, Chats
<1>3. SyncTypes' /\ \A h \in Syncs : sync'[h].new = {}
  BY <1>1 DEF SyncTypes, SyncIdle
<1>4. BurstTypes' /\ \A b \in Bursts : burst'[b].at = "idle"
  BY <1>1 DEF BurstTypes, BurstIdle
<1>5. CallTypes'
  BY <1>1, HistoryAssumption DEF CallTypes, CallIdle
<1>6. FlagTypes' /\ CountTypes' /\ OneBurst'
  BY <1>0, <1>1, <1>4 DEF FlagTypes, CountTypes, OneBurst
<1>7. BurstBudget'
  BY <1>1, <1>4, HistoryAssumption DEF BurstBudget
<1>8. NewIsHistory'
  BY <1>3 DEF NewIsHistory
<1>9. ImportedIsCounted'
  <2>1. ASSUME NEW c \in Chats
        PROVE  imported'[c] + InHand(c)' + uncounted'[c] = Cardinality(FromHistory(c)')
    <3>1. /\ imported[c] \in Nat /\ uncounted[c] \in Nat /\ InHand(c) \in Nat
          /\ imported[c] + InHand(c) + uncounted[c] = Cardinality(FromHistory(c))
      BY <1>0, Counted DEF ImportInv
    <3>2. FromHistory(c)' = FromHistory(c)
      BY <1>1 DEF FromHistory
    <3>3. Pairs(c)' = {}
      BY <1>3 DEF Pairs, InChat
    <3>4. InHand(c)' = 0
      BY <3>3, FS_EmptySet DEF InHand, Pairs
    <3>5. uncounted'[c] = uncounted[c] + InHand(c)
      BY <1>1
    <3>6. QED BY <1>1, <3>1, <3>2, <3>4, <3>5
  <2>2. QED BY <2>1 DEF ImportedIsCounted, FromHistory, Chats
<1>10. QED
  BY <1>2, <1>3, <1>4, <1>5, <1>6, <1>7, <1>8, <1>9, HistoryParts DEF ImportInv

LEMMA ImportStart == HistoryInit => ImportInv
<1> SUFFICES ASSUME HistoryInit PROVE ImportInv
  OBVIOUS
<1>1. /\ origin = [m \in Texts |-> "none"] /\ imported = [c \in Chats |-> 0]
      /\ listening = FALSE /\ cooled = TRUE /\ inFlight = FALSE
      /\ burst = [b \in Bursts |-> BurstIdle] /\ backfill = CallIdle
      /\ sync = [h \in Syncs |-> SyncIdle]
      /\ wanted = 0 /\ uncounted = [c \in Chats |-> 0]
      /\ syncs = 0 /\ asks = 0
  BY DEF HistoryInit
<1>2. RowTypes /\ FlagTypes
  BY <1>1 DEF RowTypes, FlagTypes
<1>3. SyncTypes /\ \A h \in Syncs : sync[h].new = {}
  BY <1>1 DEF SyncTypes, SyncIdle
<1>4. BurstTypes /\ \A b \in Bursts : burst[b].at = "idle"
  BY <1>1 DEF BurstTypes, BurstIdle
<1>5. CallTypes /\ CountTypes
  BY <1>1, HistoryAssumption DEF CallTypes, CallIdle, CountTypes
<1>6. OneBurst /\ BurstBudget
  BY <1>1, <1>4, HistoryAssumption DEF OneBurst, BurstBudget
<1>7. NewIsHistory
  BY <1>3 DEF NewIsHistory
<1>8. ImportedIsCounted
  <2>1. ASSUME NEW c \in Chats
        PROVE  imported[c] + InHand(c) + uncounted[c] = Cardinality(FromHistory(c))
    <3>1. Pairs(c) = {} /\ FromHistory(c) = {}
      BY <1>1, <1>3 DEF Pairs, InChat, FromHistory
    <3>2. InHand(c) = 0 /\ Cardinality(FromHistory(c)) = 0
      BY <3>1, FS_EmptySet, PairsOf
    <3>3. imported[c] = 0 /\ uncounted[c] = 0
      BY <1>1
    <3>4. QED BY <3>2, <3>3
  <2>2. QED BY <2>1 DEF ImportedIsCounted, FromHistory
<1>9. QED
  BY <1>2, <1>3, <1>4, <1>5, <1>6, <1>7, <1>8, HistoryParts DEF ImportInv

LEMMA ImportStep == ImportInv /\ [HistoryNext]_historyVars => ImportInv'
<1> SUFFICES ASSUME ImportInv, [HistoryNext]_historyVars PROVE ImportInv'
  OBVIOUS
<1>1. ASSUME NEW b \in Bursts,
             BurstStarts(b) \/ BurstLoads(b) \/ BurstAsks(b) \/ BurstRecords(b) \/ BurstEnds(b)
      PROVE  ImportInv'
  BY <1>1, BurstStep
<1>2. ASSUME NEW h \in Syncs,
             \/ \E texts \in kSubset(2, Texts) : HistorySet(h, texts)
             \/ \E m \in Texts : HistoryIngested(h, m) \/ HistorySkipped(h, m)
             \/ \E c \in Chats : ChatRecorded(h, c) \/ ChatNotRecorded(h, c)
      PROVE  ImportInv'
  BY <1>2, BatchStep, IngestedStep, RecordStep
<1>3. QED
  BY <1>1, <1>2, CallStep, LiveStep, CrashStep DEF HistoryNext

(* HistoryInv of the runs, for every finite set of messages and handlers    *)
(* and every budget: what the imports count is what they bring in, and a    *)
(* burst asks within its budget, one burst at a time.                       *)
THEOREM HistoryCorrect == HistorySpec => []HistoryInv
<1>1. ImportInv => HistoryInv
  <2> SUFFICES ASSUME ImportInv PROVE HistoryInv
    OBVIOUS
  <2>1. Cardinality({b \in Bursts : burst[b].at # "idle"}) <= 1
    <3>1. CASE {b \in Bursts : burst[b].at # "idle"} = {}
      BY <3>1, FS_EmptySet
    <3>2. CASE {b \in Bursts : burst[b].at # "idle"} # {}
      <4>1. PICK b \in Bursts : burst[b].at # "idle"
        BY <3>2
      <4>2. {d \in Bursts : burst[d].at # "idle"} = {b}
        BY <4>1 DEF ImportInv, OneBurst
      <4>3. Cardinality({b}) = 1
        BY FS_Singleton
      <4>4. QED BY <4>2, <4>3
    <3>3. QED BY <3>1, <3>2
  <2>2. QED BY <2>1 DEF ImportInv, HistoryInv, BurstBound, BurstBudget
<1>2. QED
  BY <1>1, ImportStart, ImportStep, PTL DEF HistorySpec

-----------------------------------------------------------------------------
(* SessionInv for every number of persists, failures and restarts: types,   *)
(* a dead login of the pairing pool is never stored again, and the last     *)
(* persist of a living one is not forgotten.                                *)

(* The numbers of SessionTypeOK; the flags need no types here. *)
SessionNumbers == Numbers /\ dead \in 0 .. latest /\ deleted \in 0 .. dead

LEMMA SessionNumbersStep ==
  ASSUME SessionNumbers, [SessionNext]_sessionVars
  PROVE  SessionNumbers'
<1> USE WriteBackAssumption DEF SessionNumbers, Numbers
<1>1. CASE CredsSaved
  <2>1. /\ latest' = latest + 1 /\ session' = latest + 1 /\ latest < MaxPersists
        /\ UNCHANGED <<row, puts, promised, failures, dead, deleted>>
        /\ asked' = latest + 1 \/ asked' = asked
    BY <1>1 DEF CredsSaved, Schedule, life
  <2>2. QED
    BY <2>1
<1>2. CASE Connected
  <2>1. /\ UNCHANGED <<session, latest, row, puts, failures, dead, deleted>>
        /\ asked' \in {asked, session}
        /\ promised' \in {promised, asked}
    BY <1>2 DEF Connected, Schedule, Flush
  <2>2. QED
    BY <2>1
<1>3. CASE LoggedOut
  <2>1. /\ UNCHANGED <<session, latest, row, puts, asked, failures, deleted>>
        /\ dead' \in {dead, latest}
    BY <1>3 DEF LoggedOut
  <2>2. promised' \in {promised, asked, 0}
    BY <1>3 DEF LoggedOut, InvalidatedHook, PairingHook, Flush, Cancel
  <2>3. QED
    BY <2>1, <2>2
<1>4. CASE Wiped
  BY <1>4 DEF Wiped, handle, history
<1>5. CASE FlushReturned
  BY <1>5 DEF FlushReturned, vars
<1>6. CASE Delete
  BY <1>6 DEF Delete, handle, history
<1>7. CASE DeleteFails
  BY <1>7 DEF DeleteFails, handle
<1>8. CASE Restart
  BY <1>8 DEF Restart
<1>9. CASE WriteBackSteps
  <2>1. Next
    BY <1>9 DEF WriteBackSteps, Next
  <2>2. Numbers'
    BY <2>1, NumbersStep
  <2>3. UNCHANGED <<latest, dead, deleted>>
    BY <1>9 DEF WriteBackSteps, life, TimerFires, Export, ExportFails, Put,
                PutFails
  <2>4. QED
    BY <2>2, <2>3
<1>10. CASE UNCHANGED sessionVars
  BY <1>10 DEF sessionVars, vars, life
<1>11. QED
  BY <1>1, <1>2, <1>3, <1>4, <1>5, <1>6, <1>7, <1>8, <1>9, <1>10
     DEF SessionNext

-----------------------------------------------------------------------------
(* Nothing is scheduled or in flight. *)
Quiet == ~timer /\ ~pending /\ ~exporting /\ puts = {}

(* Why no dead version comes back: every put under way is of a version the *)
(* delete did not cover, and a session it did cover is mirrored no more.   *)
DeadInv ==
  /\ row = 0 \/ row > deleted
  /\ deleted <= dead
  /\ \A version \in puts : version > deleted
  /\ session = 0 \/ session > deleted \/ (invalidated /\ Quiet)
  /\ hook = "flushing" => invalidated /\ ~timer
  /\ hook = "deleting" => invalidated /\ Quiet
  /\ pending => InFlight
  /\ due <=> timer

LEMMA DeadStep ==
  ASSUME wiring = "pairing", SessionNumbers, DeadInv,
         [SessionNext]_sessionVars
  PROVE  DeadInv'
<1> USE DEF SessionNumbers, Numbers, DeadInv, Quiet, InFlight
<1>1. CASE CredsSaved
  <2>1. /\ session' = latest + 1
        /\ UNCHANGED <<row, puts, pending, exporting, dead, deleted, hook,
                       invalidated>>
    BY <1>1 DEF CredsSaved, life
  <2>2. invalidated => UNCHANGED <<timer, due>>
    BY <1>1 DEF CredsSaved, Mirrored
  <2>3. due' <=> timer'
    BY <1>1, <2>2 DEF CredsSaved, Schedule
  <2>4. QED
    BY <2>1, <2>2, <2>3
<1>2. CASE Connected
  <2>1. /\ hook = "none" /\ ~invalidated /\ timer' /\ due'
        /\ UNCHANGED <<row, session, puts, pending, exporting, dead, deleted,
                       hook, invalidated>>
    BY <1>2 DEF Connected, Schedule
  <2>2. QED
    BY <2>1
<1>3. CASE LoggedOut
  <2>1. /\ hook = "none" /\ invalidated' /\ hook' = "flushing" /\ ~timer'
        /\ UNCHANGED <<row, session, puts, deleted>>
        /\ deleted' <= dead'
    BY <1>3 DEF LoggedOut, InvalidatedHook, PairingHook, Flush
  <2>2. CASE FlushRuns
    <3>1. ~due' /\ Run
      BY <1>3, <2>2 DEF LoggedOut, InvalidatedHook, PairingHook, Flush
    <3>2. pending' => InFlight'
      BY <3>1, <2>1 DEF Run
    <3>3. session = 0 \/ session > deleted
      BY <1>3, <2>2 DEF FlushRuns
    <3>4. QED
      BY <2>1, <3>1, <3>2, <3>3
  <2>3. CASE ~FlushRuns
    <3>1. UNCHANGED <<due, pending, exporting>>
      BY <1>3, <2>3 DEF LoggedOut, InvalidatedHook, PairingHook, Flush
    <3>2. QED
      BY <2>1, <2>3, <3>1 DEF FlushRuns
  <2>4. QED
    BY <2>2, <2>3
<1>4. CASE Wiped
  BY <1>4 DEF Wiped, handle, history
<1>5. CASE FlushReturned
  BY <1>5 DEF FlushReturned, vars
<1>6. CASE Delete
  BY <1>6 DEF Delete, handle, history
<1>7. CASE DeleteFails
  BY <1>7 DEF DeleteFails, handle
<1>8. CASE Restart
  BY <1>8 DEF Restart
<1>9. CASE WriteBackSteps
  <2>1. UNCHANGED <<session, dead, deleted, hook, invalidated>>
    BY <1>9 DEF WriteBackSteps, life, TimerFires, Export, ExportFails, Put,
                PutFails
  <2>2. CASE TimerFires
    <3>1. timer /\ ~timer' /\ ~due' /\ Run /\ UNCHANGED <<row, puts>>
      BY <2>2 DEF TimerFires
    <3>2. pending' => InFlight'
      BY <3>1 DEF Run
    <3>3. QED
      BY <2>1, <3>1, <3>2
  <2>3. CASE Export
    BY <2>1, <2>3 DEF Export
  <2>4. CASE ExportFails
    BY <2>1, <2>4 DEF ExportFails, Settle
  <2>5. CASE Put
    BY <2>1, <2>5 DEF Put, Settle
  <2>6. CASE PutFails
    BY <2>1, <2>6 DEF PutFails, Settle
  <2>7. QED
    BY <1>9, <2>2, <2>3, <2>4, <2>5, <2>6 DEF WriteBackSteps
<1>10. CASE UNCHANGED sessionVars
  BY <1>10 DEF sessionVars, vars, life
<1>11. QED
  BY <1>1, <1>2, <1>3, <1>4, <1>5, <1>6, <1>7, <1>8, <1>9, <1>10
     DEF SessionNext

(* The flush before the delete, and `invalidated`, are what keeps a dead   *)
(* login of the pairing pool out of the store: NeverResurrected.           *)
THEOREM DeadStaysDeleted == SessionSpec => []NeverResurrected
<1> DEFINE Inv2 == SessionNumbers /\ (wiring = "pairing" => DeadInv)
<1>1. SessionInit => Inv2
  <2> SUFFICES ASSUME SessionInit PROVE Inv2
    OBVIOUS
  <2>1. SessionNumbers
    BY WriteBackAssumption DEF SessionInit, Init, SessionNumbers, Numbers
  <2>2. DeadInv
    BY DEF SessionInit, Init, DeadInv, InFlight, Quiet
  <2>3. QED
    BY <2>1, <2>2
<1>2. Inv2 /\ [SessionNext]_sessionVars => Inv2'
  <2> SUFFICES ASSUME Inv2, [SessionNext]_sessionVars PROVE Inv2'
    OBVIOUS
  <2>1. SessionNumbers'
    BY SessionNumbersStep
  <2>2. wiring' = wiring
    BY DEF SessionNext, sessionVars
  <2>3. wiring = "pairing" => DeadInv'
    BY DeadStep
  <2>4. QED
    BY <2>1, <2>2, <2>3
<1>3. Inv2 => NeverResurrected
  BY DEF DeadInv, NeverResurrected, NoDeadRow
<1>4. QED
  BY <1>1, <1>2, <1>3, PTL DEF SessionSpec

-----------------------------------------------------------------------------
(* The flags, whose types are apart from the numbers as those of TypeOK.   *)
SessionFlags ==
  /\ Flags /\ wiring \in Wirings
  /\ opened \in BOOLEAN /\ invalidated \in BOOLEAN /\ wiping \in BOOLEAN
  /\ hook \in {"none", "flushing", "deleting"}

LEMMA SessionFlagsStep ==
  ASSUME SessionFlags, [SessionNext]_sessionVars
  PROVE  SessionFlags'
<1> USE DEF SessionFlags, Flags
<1>0. CASE UNCHANGED sessionVars
  BY <1>0, Zenon DEF sessionVars, vars, life
<1> SUFFICES ASSUME SessionNext PROVE SessionFlags'
  BY <1>0
<1>w. wiring' = wiring
  BY DEF SessionNext
<1>1. CASE CredsSaved
  <2>1. CASE Mirrored
    BY <1>1, <1>w, <2>1, Zenon DEF CredsSaved, Schedule, life
  <2>2. CASE ~Mirrored
    BY <1>1, <1>w, <2>2, Zenon DEF CredsSaved, life
  <2>3. QED
    BY <2>1, <2>2
<1>2. CASE Connected
  <2>1. /\ UNCHANGED <<failed, invalidated, hook, wiping>> /\ opened' = TRUE
    BY <1>2 DEF Connected
  <2>2. /\ timer' \in BOOLEAN /\ due' \in BOOLEAN /\ pending' \in BOOLEAN
        /\ exporting' \in BOOLEAN /\ cancelled' \in BOOLEAN
    BY <1>2, Zenon DEF Connected, Schedule, Flush, FlushRuns, Run, InFlight
  <2>3. QED
    BY <1>w, <2>1, <2>2
<1>3. CASE LoggedOut
  <2>1. UNCHANGED <<failed, opened>> /\ wiping' = (wiring # "telegram")
    BY <1>3 DEF LoggedOut
  <2>2. InvalidatedHook
    BY <1>3 DEF LoggedOut
  <2>3. CASE PairingHook
    BY <1>w, <2>1, <2>3, Zenon DEF PairingHook, Flush, FlushRuns, Run, InFlight
  <2>4. CASE ~PairingHook
    <3>1. /\ hook' = "deleting" /\ UNCHANGED <<invalidated, exporting>>
      BY <1>3, <2>2, <2>4, Zenon DEF LoggedOut, InvalidatedHook
    <3>2. /\ timer' \in BOOLEAN /\ due' \in BOOLEAN /\ pending' \in BOOLEAN
          /\ cancelled' \in BOOLEAN
      BY <2>2, <2>4, Zenon DEF InvalidatedHook, Cancel
    <3>3. QED
      BY <1>w, <2>1, <3>1, <3>2, Zenon
  <2>5. QED
    BY <2>3, <2>4
<1>4. CASE Wiped
  BY <1>4, <1>w, Zenon DEF Wiped, handle, history
<1>5. CASE FlushReturned
  BY <1>5, <1>w, Zenon DEF FlushReturned, vars
<1>6. CASE Delete
  BY <1>6, <1>w, Zenon DEF Delete, handle, history
<1>7. CASE DeleteFails
  BY <1>7, <1>w, Zenon DEF DeleteFails, handle
<1>8. CASE Restart
  BY <1>8, <1>w, Zenon DEF Restart
<1>9. CASE WriteBackSteps
  <2>1. Next /\ UNCHANGED life
    BY <1>9 DEF WriteBackSteps, Next
  <2>2. Flags'
    BY <2>1, FlagsStep
  <2>3. QED
    BY <1>w, <2>1, <2>2, Zenon DEF life
<1>10. QED
  BY <1>1, <1>2, <1>3, <1>4, <1>5, <1>6, <1>7, <1>8, <1>9 DEF SessionNext

LEMMA RestartsStep ==
  ASSUME restarts \in 0 .. MaxRestarts, [SessionNext]_sessionVars
  PROVE  restarts' \in 0 .. MaxRestarts
<1>1. CASE Restart
  BY <1>1, SessionAssumption DEF Restart
<1>2. CASE ~Restart
  BY <1>2 DEF SessionNext, CredsSaved, Connected, LoggedOut, Wiped, FlushReturned, Delete,
              DeleteFails, WriteBackSteps, life, sessionVars
<1>3. QED
  BY <1>1, <1>2

(* Every variable of the wirings has its type. *)
THEOREM SessionTypeCorrect == SessionSpec => []SessionTypeOK
<1> DEFINE Types == SessionNumbers /\ SessionFlags /\ restarts \in 0 .. MaxRestarts
<1>1. SessionInit => Types
  <2> SUFFICES ASSUME SessionInit PROVE Types
    OBVIOUS
  <2>1. SessionNumbers
    BY WriteBackAssumption DEF SessionInit, Init, SessionNumbers, Numbers
  <2>2. SessionFlags
    BY DEF SessionInit, Init, SessionFlags, Flags
  <2>3. restarts \in 0 .. MaxRestarts
    BY SessionAssumption DEF SessionInit
  <2>4. QED
    BY <2>1, <2>2, <2>3
<1>2. Types /\ [SessionNext]_sessionVars => Types'
  BY SessionNumbersStep, SessionFlagsStep, RestartsStep
<1>3. Types => SessionTypeOK
  <2> SUFFICES ASSUME Types PROVE SessionTypeOK
    OBVIOUS
  <2>1. TypeOK
    BY Halves DEF SessionNumbers, SessionFlags
  <2>2. QED
    BY <2>1, Zenon DEF SessionTypeOK, SessionNumbers, SessionFlags
<1>4. QED
  BY <1>1, <1>2, <1>3, PTL DEF SessionSpec

-----------------------------------------------------------------------------
(* Why the last persist of a living login is not forgotten: while it lives *)
(* the session is at least what was asked for, no hook runs that would     *)
(* cancel or delete, and each put of an older version has a run behind it. *)
AliveInv ==
  /\ GuardInv
  /\ asked > dead => session >= asked /\ RequestInv /\ NothingForgotten
  /\ wiping => session <= dead /\ wiring = "pairing"
  /\ wiring = "pairing" =>
       /\ invalidated => asked <= dead
       /\ hook # "none" => invalidated
  /\ wiring = "telegram" /\ hook # "none" => session <= dead

LEMMA AliveStep ==
  ASSUME wiring \in {"pairing", "telegram"}, SessionNumbers, SessionNumbers', SessionFlags,
         AliveInv, [SessionNext]_sessionVars
  PROVE  AliveInv'
<1> USE DEF SessionNumbers, Numbers, AliveInv, GuardInv, InFlight
<1>0. CASE UNCHANGED sessionVars
  BY <1>0 DEF sessionVars, vars, life, RequestInv, NothingForgotten, Coming
<1> SUFFICES ASSUME SessionNext PROVE AliveInv'
  BY <1>0
<1>w. wiring' = wiring
  BY DEF SessionNext
<1>1. CASE CredsSaved
  <2>1. /\ session' = latest + 1 /\ latest' = latest + 1 /\ ~wiping
        /\ UNCHANGED <<row, pending, exporting, puts, failed, dead, hook, invalidated,
                       wiping>>
        /\ wiring = "telegram" => session > dead
    BY <1>1 DEF CredsSaved, life, Alive
  <2>2. CASE Mirrored
    <3>1. due' /\ timer' /\ asked' = latest + 1
      BY <1>1, <2>2 DEF CredsSaved, Schedule
    <3>2. wiring = "pairing" => ~invalidated
      BY <2>2 DEF Mirrored
    <3>3. GuardInv'
      BY <2>1, <3>1
    <3>4. QED
      BY <1>w, <2>1, <3>1, <3>2, <3>3 DEF RequestInv, NothingForgotten, Coming
  <2>3. CASE ~Mirrored
    <3>1. UNCHANGED <<timer, due, asked, cancelled>>
      BY <1>1, <2>3 DEF CredsSaved
    <3>2. QED
      BY <1>w, <2>1, <3>1 DEF RequestInv, NothingForgotten, Coming
  <2>4. QED
    BY <2>2, <2>3
<1>2. CASE Connected
  <2>1. /\ session > dead /\ hook = "none" /\ ~invalidated
        /\ UNCHANGED <<session, latest, row, puts, failed, invalidated, hook, wiping, dead>>
    BY <1>2 DEF Connected, Alive
  <2>2. CASE wiring = "pairing"
    <3>1. /\ timer' /\ due' /\ asked' = session
          /\ UNCHANGED <<pending, exporting>>
      BY <1>2, <2>2 DEF Connected, Schedule
    <3>2. QED
      BY <1>w, <2>1, <2>2, <3>1 DEF RequestInv, NothingForgotten, Coming
  <2>3. CASE wiring = "telegram"
    <3>1. Flush /\ UNCHANGED <<asked, cancelled>>
      BY <1>2, <2>3 DEF Connected
    <3>2. CASE FlushRuns
      <4>1. timer' = FALSE /\ due' = FALSE /\ Run
        BY <3>1, <3>2 DEF Flush
      <4>2. GuardInv'
        BY <2>1, <4>1 DEF Run
      <4>3. exporting' \/ pending'
        BY <4>1 DEF Run
      <4>4. puts # {} => pending'
        BY <4>1 DEF Run
      <4>5. QED
        BY <1>w, <2>1, <2>3, <3>1, <4>2, <4>3, <4>4
           DEF RequestInv, NothingForgotten, Coming
    <3>3. CASE ~FlushRuns
      <4>1. timer' = FALSE /\ UNCHANGED <<due, pending, exporting>> /\ due = FALSE
        BY <3>1, <3>3 DEF Flush, FlushRuns, SessionFlags, Flags
      <4>2. GuardInv'
        BY <2>1, <4>1
      <4>3. QED
        BY <1>w, <2>1, <2>3, <3>1, <4>1, <4>2 DEF RequestInv, NothingForgotten, Coming
    <3>4. QED
      BY <3>2, <3>3
  <2>4. QED
    BY <2>2, <2>3
<1>3. CASE LoggedOut
  <2>1. /\ UNCHANGED <<session, latest, row, puts, asked, failed>> /\ hook = "none"
        /\ dead' = IF session > dead THEN latest ELSE dead
        /\ wiping' = (wiring # "telegram")
    BY <1>3 DEF LoggedOut, Alive
  <2>2. asked <= dead' /\ session <= dead'
    BY <2>1
  <2>3. CASE wiring = "pairing"
    <3>1. /\ invalidated' /\ hook' = "flushing" /\ timer' = FALSE
          /\ IF FlushRuns THEN due' = FALSE /\ Run ELSE UNCHANGED <<due, pending, exporting>>
      BY <1>3, <2>3 DEF LoggedOut, InvalidatedHook, PairingHook, Flush
    <3>2. due' = FALSE
      BY <3>1 DEF FlushRuns, SessionFlags, Flags
    <3>3. GuardInv'
      BY <2>1, <3>1, <3>2 DEF Run
    <3>4. QED
      BY <1>w, <2>1, <2>2, <2>3, <3>1, <3>3
  <2>4. CASE wiring = "telegram"
    <3>1. timer' = FALSE /\ due' = FALSE /\ ~pending' /\ UNCHANGED exporting
      BY <1>3, <2>4 DEF LoggedOut, InvalidatedHook, Cancel
    <3>2. GuardInv'
      BY <2>1, <3>1
    <3>3. ~(asked' > dead') /\ session' <= dead'
      BY <2>1, <2>2
    <3>4. ~wiping' /\ wiring' = "telegram"
      BY <1>w, <2>1, <2>4
    <3>5. QED
      BY <3>2, <3>3, <3>4, Zenon
  <2>5. QED
    BY <2>3, <2>4
<1>4. CASE Wiped
  <2>1. /\ wiping /\ ~wiping' /\ session' = 0
        /\ UNCHANGED <<latest, row, timer, due, pending, exporting, puts, asked, failed,
                       cancelled, invalidated, hook, dead>>
    BY <1>4 DEF Wiped, handle, history
  <2>2. QED
    BY <1>w, <2>1
<1>5. CASE FlushReturned
  BY <1>5, <1>w DEF FlushReturned, vars, RequestInv, NothingForgotten, Coming
<1>6. CASE Delete
  <2>1. /\ hook = "deleting" /\ hook' = "none"
        /\ UNCHANGED <<session, latest, timer, due, pending, exporting, puts, asked, failed,
                       cancelled, invalidated, wiping, dead>>
    BY <1>6 DEF Delete, handle, history
  <2>2. asked <= dead
    BY <2>1
  <2>3. QED
    BY <1>w, <2>1, <2>2
<1>7. CASE DeleteFails
  BY <1>7, <1>w DEF DeleteFails, handle, RequestInv, NothingForgotten, Coming
<1>8. CASE Restart
  <2>1. /\ timer' = FALSE /\ due' = FALSE /\ ~pending' /\ ~exporting' /\ puts' = {}
        /\ asked' = 0
        /\ ~invalidated' /\ hook' = "none" /\ ~wiping' /\ UNCHANGED dead
    BY <1>8 DEF Restart
  <2>2. GuardInv'
    BY <2>1
  <2>3. ~(asked' > dead')
    BY <2>1
  <2>4. QED
    BY <2>1, <2>2, <2>3, Zenon
<1>9. CASE WriteBackSteps
  <2>1. UNCHANGED <<session, latest, asked, cancelled, dead, hook, invalidated, wiping>>
    BY <1>9 DEF WriteBackSteps, life, TimerFires, Export, ExportFails, Put, PutFails, history
  <2>2. CASE TimerFires
    BY <1>w, <2>1, <2>2 DEF TimerFires, Run, history, RequestInv, NothingForgotten, Coming
  <2>3. CASE Export
    BY <1>w, <2>1, <2>3 DEF Export, history, RequestInv, NothingForgotten, Coming
  <2>4. CASE ExportFails
    BY <1>w, <2>1, <2>4 DEF ExportFails, Settle, RequestInv, NothingForgotten, Coming
  <2>5. CASE Put
    BY <1>w, <2>1, <2>5 DEF Put, Settle, RequestInv, NothingForgotten, Coming
  <2>6. CASE PutFails
    BY <1>w, <2>1, <2>6 DEF PutFails, Settle, RequestInv, NothingForgotten, Coming
  <2>7. QED
    BY <1>9, <2>2, <2>3, <2>4, <2>5, <2>6 DEF WriteBackSteps
<1>10. QED
  BY <1>1, <1>2, <1>3, <1>4, <1>5, <1>6, <1>7, <1>8, <1>9 DEF SessionNext

(* What the living login of the pool or of telegram last asked to have     *)
(* stored is stored, or a run that will store it is due.                   *)
THEOREM AliveStays == SessionSpec => []AliveNotForgotten
<1> DEFINE Inv3 == /\ SessionNumbers /\ SessionFlags
                   /\ wiring \in {"pairing", "telegram"} => AliveInv
<1>1. SessionInit => Inv3
  <2> SUFFICES ASSUME SessionInit PROVE Inv3
    OBVIOUS
  <2>1. SessionNumbers
    BY WriteBackAssumption DEF SessionInit, Init, SessionNumbers, Numbers
  <2>2. SessionFlags
    BY DEF SessionInit, Init, SessionFlags, Flags
  <2>3. /\ timer = FALSE /\ due = FALSE /\ ~pending /\ ~exporting /\ puts = {}
        /\ asked = 0 /\ dead = 0 /\ ~wiping /\ ~invalidated /\ hook = "none"
    BY DEF SessionInit, Init
  <2>4. AliveInv
    <3>1. GuardInv
      BY <2>3, Zenon DEF GuardInv
    <3>2. ~(asked > dead)
      BY <2>3
    <3>3. QED
      BY <2>3, <3>1, <3>2, Zenon DEF AliveInv
  <2>5. QED
    BY <2>1, <2>2, <2>4
<1>2. Inv3 /\ [SessionNext]_sessionVars => Inv3'
  <2> SUFFICES ASSUME Inv3, [SessionNext]_sessionVars PROVE Inv3'
    OBVIOUS
  <2>1. SessionNumbers' /\ SessionFlags'
    BY SessionNumbersStep, SessionFlagsStep
  <2>2. wiring' = wiring
    BY DEF SessionNext, sessionVars
  <2>3. wiring \in {"pairing", "telegram"} => AliveInv'
    BY <2>1, AliveStep
  <2>4. QED
    BY <2>1, <2>2, <2>3
<1>3. Inv3 => AliveNotForgotten
  BY SessionAssumption DEF AliveInv, AliveNotForgotten, Alive, SessionFlags
<1>4. QED
  BY <1>1, <1>2, <1>3, PTL DEF SessionSpec

(* SessionInv of the runs. *)
THEOREM SessionCorrect == SessionSpec => []SessionInv
<1>1. SessionTypeOK /\ NeverResurrected /\ AliveNotForgotten => SessionInv
  BY DEF SessionInv
<1>2. QED
  BY <1>1, SessionTypeCorrect, DeadStaysDeleted, AliveStays, PTL

-----------------------------------------------------------------------------
(***************************************************************************)
(* Proofs about InstagramCredentials, for all sets of callers, names,      *)
(* accounts, requests and callbacks: a caller acts on accounts paired for  *)
(* it only, and the account under its own key is not replaced by a refresh *)
(* or by a callback that saw it.                                           *)
(***************************************************************************)

LEMMA OwnIsNoName == \A n : Named(n) # Own
  BY DEF Named, Own

LEMMA KeyKinds ==
  /\ \A s \in Subs : <<s, Own>> \in Keys
  /\ \A s \in Subs, n \in Names : <<s, Named(n)>> \in Keys
  BY DEF Keys

(* A row is no row, or has an account and an age.                          *)
LEMMA RowKinds ==
  /\ NoRow \in Row
  /\ \A w \in Row : w # NoRow => w.id \in Ids /\ w.age \in {"young", "due"}
  /\ \A i \in Ids, a \in {"young", "due"} :
       [id |-> i, age |-> a] \in Row /\ [id |-> i, age |-> a] # NoRow
  /\ \A w \in Row, a \in {"young", "due"} :
       w # NoRow => /\ [w EXCEPT !.age = a] \in Row
                    /\ [w EXCEPT !.age = a] # NoRow
                    /\ [w EXCEPT !.age = a].id = w.id
                    /\ [w EXCEPT !.age = a].age = a
  /\ NoRow.id = None /\ NoRow.age = "due"
  BY InstagramAssumption DEF Row, NoRow

-----------------------------------------------------------------------------
(* What a request knows: it is a caller's from the moment it arrives with  *)
(* a name, and the row it has read is of one of the caller's keys.         *)
HasRow(r) ==
  /\ req[r].key \in Keys /\ req[r].key[1] = req[r].sub
  /\ req[r].row \in Row /\ req[r].row # NoRow
  /\ <<req[r].key, req[r].row.id>> \in paired

AskInv ==
  \A r \in Requests :
    /\ req[r].at \in {"idle", "refused"} => req[r].sub = None
    /\ req[r].at = "scoped" => req[r].sub \in Subs /\ req[r].name \in Names
    /\ req[r].at = "own" => req[r].sub \in Subs
    /\ req[r].at \in {"refresh", "put"} => HasRow(r)
    /\ req[r].at \in {"call", "container", "served"} /\ req[r].sub # None => HasRow(r)
    /\ req[r].at = "put" => req[r].row.age = "due"

(* What a callback knows: under the caller's own key it saw nothing, or    *)
(* the account it is about to put there.                                   *)
PairInv ==
  \A p \in Callbacks :
    /\ pair[p].at \in {"read", "put"} => pair[p].id \in Ids /\ pair[p].sub \in Subs
    /\ pair[p].at = "put" =>
         /\ pair[p].key \in Keys
         /\ pair[p].key[2] = Own => pair[p].saw.id \in {None, pair[p].id}

(* A token that is due was there before any callback under way began: who  *)
(* is to be put under its key is whose it is.  A request that has read it  *)
(* still finds that account there.                                         *)
DueInv ==
  \A s \in Subs :
    LET k == <<s, Own>> IN
    /\ rows[k] # NoRow /\ rows[k].age = "due" =>
         \A p \in Callbacks :
           pair[p].at = "put" /\ pair[p].key = k => pair[p].id = rows[k].id
    /\ \A r \in Requests :
         req[r].at \in {"refresh", "put"} /\ req[r].key = k /\ req[r].row.age = "due" =>
           /\ rows[k].id = req[r].row.id
           /\ \A p \in Callbacks :
                pair[p].at = "put" /\ pair[p].key = k => pair[p].id = req[r].row.id

IgInv == InstagramTypeOK /\ RowsArePaired /\ AskInv /\ PairInv /\ DueInv

(* The values the actions give a request or a callback have their types.   *)
LEMMA RequestKinds ==
  /\ Idle \in RequestType /\ Refused \in RequestType
  /\ \A s \in Subs, n \in Names :
       [Idle EXCEPT !.at = "scoped", !.sub = s, !.name = n] \in RequestType
  /\ \A q \in RequestType, k \in Keys, w \in Row :
       [q EXCEPT !.at = "refresh", !.name = None, !.key = k, !.row = w] \in RequestType
  /\ \A q \in RequestType : [q EXCEPT !.at = "own"] \in RequestType
  /\ \A q \in RequestType, w \in Row :
       [q EXCEPT !.at = "call", !.row = w] \in RequestType
<1>1. Idle \in RequestType /\ Refused \in RequestType
  BY RowKinds DEF Idle, Refused, RequestType
<1>2. ASSUME NEW s \in Subs, NEW n \in Names
      PROVE  [Idle EXCEPT !.at = "scoped", !.sub = s, !.name = n] \in RequestType
  BY RowKinds DEF Idle, RequestType
<1>3. ASSUME NEW q \in RequestType, NEW k \in Keys, NEW w \in Row
      PROVE  /\ [q EXCEPT !.at = "refresh", !.name = None, !.key = k, !.row = w] \in RequestType
             /\ [q EXCEPT !.at = "own"] \in RequestType
             /\ [q EXCEPT !.at = "call", !.row = w] \in RequestType
  BY DEF RequestType
<1>4. ASSUME NEW q \in RequestType, NEW w \in Row
      PROVE  /\ [q EXCEPT !.at = "own"] \in RequestType
             /\ [q EXCEPT !.at = "call", !.row = w] \in RequestType
  BY DEF RequestType
<1>5. Row # {}
  BY RowKinds
<1>6. QED
  BY <1>1, <1>2, <1>3, <1>4, <1>5

LEMMA CallbackKinds ==
  /\ Unused \in CallbackType
  /\ \A s \in Subs, l \in Names \cup {None}, i \in Ids :
       [Unused EXCEPT !.at = "read", !.sub = s, !.label = l, !.id = i] \in CallbackType
  /\ \A q \in CallbackType, w \in Row, k \in Keys :
       [q EXCEPT !.at = "put", !.saw = w, !.key = k] \in CallbackType
<1>1. Unused \in CallbackType
  BY RowKinds DEF Unused, CallbackType
<1>2. ASSUME NEW s \in Subs, NEW l \in Names \cup {None}, NEW i \in Ids
      PROVE  [Unused EXCEPT !.at = "read", !.sub = s, !.label = l, !.id = i] \in CallbackType
  BY RowKinds DEF Unused, CallbackType
<1>3. ASSUME NEW q \in CallbackType, NEW w \in Row, NEW k \in Keys
      PROVE  [q EXCEPT !.at = "put", !.saw = w, !.key = k] \in CallbackType
  BY DEF CallbackType
<1>4. QED
  BY <1>1, <1>2, <1>3

LEMMA InitInv == IgInit => IgInv
<1> SUFFICES ASSUME IgInit PROVE IgInv
  OBVIOUS
<1> USE DEF IgInit
<1>1. InstagramTypeOK
  BY RowKinds, RequestKinds, CallbackKinds DEF InstagramTypeOK
<1>2. RowsArePaired
  BY DEF RowsArePaired
<1>3. AskInv
  BY DEF AskInv, Idle
<1>4. PairInv
  BY DEF PairInv, Unused
<1>5. DueInv
  BY KeyKinds DEF DueInv, Idle
<1>6. QED
  BY <1>1, <1>2, <1>3, <1>4, <1>5 DEF IgInv

LEMMA TypeStep == IgInv /\ [IgNext]_igVars => InstagramTypeOK'
<1> SUFFICES ASSUME IgInv, [IgNext]_igVars PROVE InstagramTypeOK'
  OBVIOUS
<1> USE DEF IgInv, InstagramTypeOK
<1>1. ASSUME NEW r \in Requests, Anonymous(r) PROVE InstagramTypeOK'
  <2>1. PICK at \in {"call", "refused"} : req' = [req EXCEPT ![r].at = at]
    BY <1>1 DEF Anonymous
  <2>2. [req[r] EXCEPT !.at = at] \in RequestType
    BY DEF RequestType
  <2>3. QED
    BY <1>1, <2>1, <2>2 DEF Anonymous
<1>2. ASSUME NEW r \in Requests, Arrives(r) PROVE InstagramTypeOK'
  <2>1. PICK s \in Subs, n \in Asked :
          req' = [req EXCEPT ![r] = [Idle EXCEPT !.at = "scoped", !.sub = s, !.name = n]]
    BY <1>2 DEF Arrives
  <2>2. n \in Names
    BY InstagramAssumption
  <2>3. QED
    BY <1>2, <2>1, <2>2, RequestKinds DEF Arrives
<1>3. ASSUME NEW r \in Requests, GetScoped(r) PROVE InstagramTypeOK'
  <2>1. <<req[r].sub, Named(req[r].name)>> \in Keys
    BY <1>3, KeyKinds DEF GetScoped, AskInv
  <2>2. req[r] \in RequestType /\ rows[<<req[r].sub, Named(req[r].name)>>] \in Row
    BY <2>1
  <2>3. QED
    BY <1>3, <2>1, <2>2, RequestKinds DEF GetScoped, Found
<1>4. ASSUME NEW r \in Requests, GetOwn(r) PROVE InstagramTypeOK'
  <2>1. <<req[r].sub, Own>> \in Keys
    BY <1>4, KeyKinds DEF GetOwn, AskInv
  <2>2. req[r] \in RequestType /\ rows[<<req[r].sub, Own>>] \in Row
    BY <2>1
  <2>3. QED
    BY <1>4, <2>1, <2>2, RequestKinds DEF GetOwn, Found, NoCredential
<1>5. ASSUME NEW r \in Requests,
             \/ GetFails(r) \/ CallFails(r) \/ Answered(r)
             \/ KeepToken(r) \/ Renewed(r) \/ RefreshPutFails(r)
             \/ Called(r) \/ Published(r)
      PROVE  InstagramTypeOK'
  <2>1. CASE GetFails(r) \/ CallFails(r) \/ Answered(r)
    BY <2>1, RequestKinds DEF GetFails, CallFails, Answered
  <2>2. CASE KeepToken(r) \/ Renewed(r) \/ RefreshPutFails(r) \/ Called(r) \/ Published(r)
    BY <2>2 DEF KeepToken, Renewed, RefreshPutFails, Called, Published, RequestType
  <2>3. QED
    BY <1>5, <2>1, <2>2
<1>6. ASSUME NEW r \in Requests, RefreshPut(r) PROVE InstagramTypeOK'
  <2>1. /\ [req[r].row EXCEPT !.age = "young"] \in Row
        /\ req[r] \in RequestType /\ req[r].key \in Keys
    BY <1>6, RowKinds DEF RefreshPut, AskInv, HasRow
  <2>2. [req[r] EXCEPT !.at = "call", !.row = [req[r].row EXCEPT !.age = "young"]]
          \in RequestType
    BY <2>1, RequestKinds
  <2>3. QED
    BY <1>6, <2>1, <2>2 DEF RefreshPut, HomeOf
<1>7. ASSUME NEW p \in Callbacks, Consented(p) PROVE InstagramTypeOK'
  <2>1. PICK link \in Links, i \in Ids :
          pair' = [pair EXCEPT ![p] = [Unused EXCEPT !.at = "read", !.sub = link[1],
                                                     !.label = link[2], !.id = i]]
    BY <1>7 DEF Consented
  <2>2. link[1] \in Subs /\ link[2] \in Names \cup {None}
    BY InstagramAssumption DEF Links
  <2>3. QED
    BY <1>7, <2>1, <2>2, CallbackKinds DEF Consented
<1>8. ASSUME NEW p \in Callbacks, ReadOwn(p) PROVE InstagramTypeOK'
  <2>1. <<pair[p].sub, Own>> \in Keys /\ pair[p] \in CallbackType
    BY <1>8, KeyKinds DEF ReadOwn, PairInv
  <2>2. SessionKeyFor(pair[p].sub, pair[p].label, rows[<<pair[p].sub, Own>>], pair[p].id)
          \in Keys
    <3>1. pair[p].sub \in Subs /\ pair[p].id \in Ids /\ pair[p].label \in Names \cup {None}
      BY <1>8, <2>1 DEF ReadOwn, PairInv, CallbackType
    <3>2. QED
      BY <3>1, KeyKinds, InstagramAssumption DEF SessionKeyFor
  <2>3. QED
    BY <1>8, <2>1, <2>2, CallbackKinds DEF ReadOwn
<1>9. ASSUME NEW p \in Callbacks, PairPut(p) PROVE InstagramTypeOK'
  <2>1. /\ pair[p].key \in Keys /\ pair[p].id \in Ids
        /\ [id |-> pair[p].id, age |-> "young"] \in Row
    BY <1>9, RowKinds DEF PairPut, PairInv
  <2>2. rows' \in [Keys -> Row] /\ req' = req
    BY <1>9, <2>1 DEF PairPut
  <2>3. pair' \in [Callbacks -> CallbackType]
    BY <1>9, CallbackKinds DEF PairPut
  <2>4. paired' \subseteq Keys \X Ids
    BY <1>9, <2>1 DEF PairPut
  <2>5. QED
    BY <2>2, <2>3, <2>4
<1>10. ASSUME NEW p \in Callbacks, PairFails(p) PROVE InstagramTypeOK'
  BY <1>10, CallbackKinds DEF PairFails
<1>11. ASSUME NEW k \in Keys, GrowsOld(k) PROVE InstagramTypeOK'
  BY <1>11, RowKinds DEF GrowsOld
<1>12. CASE UNCHANGED igVars
  BY <1>12 DEF igVars
<1>13. QED
  BY <1>1, <1>2, <1>3, <1>4, <1>5, <1>6, <1>7, <1>8, <1>9, <1>10, <1>11, <1>12
     DEF IgNext, RequestStep, PairStep

-----------------------------------------------------------------------------
(* A request's step says nothing of the other requests, and a callback's   *)
(* or the time's nothing of any.                                           *)
LEMMA RequestStepInv == IgInv /\ [IgNext]_igVars => AskInv'
<1> SUFFICES ASSUME IgInv, [IgNext]_igVars PROVE AskInv'
  OBVIOUS
<1> USE DEF IgInv
<1>1. ASSUME req' = req, paired \subseteq paired' PROVE AskInv'
  BY <1>1 DEF AskInv, HasRow
<1>2. ASSUME NEW r \in Requests, UNCHANGED paired,
             \A q \in Requests \ {r} : req'[q] = req[q],
             /\ req'[r].at \in {"idle", "refused"} => req'[r].sub = None
             /\ req'[r].at = "scoped" => req'[r].sub \in Subs /\ req'[r].name \in Names
             /\ req'[r].at = "own" => req'[r].sub \in Subs
             /\ req'[r].at \in {"refresh", "put"} => HasRow(r)'
             /\ req'[r].at \in {"call", "container", "served"} /\ req'[r].sub # None => HasRow(r)'
             /\ req'[r].at = "put" => req'[r].row.age = "due"
      PROVE  AskInv'
  BY <1>2 DEF AskInv, HasRow
<1>3. ASSUME NEW r \in Requests, Anonymous(r) PROVE AskInv'
  <2>1. PICK at \in {"call", "refused"} : req' = [req EXCEPT ![r].at = at]
    BY <1>3 DEF Anonymous
  <2>2. req[r].at = "idle" /\ req[r].sub = None
    BY <1>3 DEF Anonymous, AskInv
  <2>3. req'[r].at = at /\ req'[r].sub = None
    BY <2>1, <2>2 DEF InstagramTypeOK, RequestType
  <2>4. QED
    BY <1>2, <1>3, <2>1, <2>3 DEF Anonymous, InstagramTypeOK
<1>4. ASSUME NEW r \in Requests, Arrives(r) PROVE AskInv'
  <2>1. PICK s \in Subs, n \in Asked :
          req' = [req EXCEPT ![r] = [Idle EXCEPT !.at = "scoped", !.sub = s, !.name = n]]
    BY <1>4 DEF Arrives
  <2>2. /\ req'[r].at = "scoped" /\ req'[r].sub = s /\ req'[r].name = n /\ n \in Names
    BY <2>1, InstagramAssumption DEF Idle, InstagramTypeOK
  <2>3. QED
    BY <1>2, <1>4, <2>1, <2>2 DEF Arrives, InstagramTypeOK
<1>5. ASSUME NEW r \in Requests, NEW k \in Keys, rows[k] # NoRow,
             k[1] = req[r].sub, UNCHANGED <<rows, pair, paired>>, req' = Found(r, k)
      PROVE  AskInv'
  <2>1. /\ req'[r].at = "refresh" /\ req'[r].sub = req[r].sub
        /\ req'[r].key = k /\ req'[r].row = rows[k]
    BY <1>5 DEF Found, InstagramTypeOK, RequestType
  <2>2. HasRow(r)'
    BY <1>5, <2>1, RowKinds DEF HasRow, InstagramTypeOK, RowsArePaired
  <2>3. QED
    BY <1>2, <1>5, <2>1, <2>2 DEF Found, InstagramTypeOK
<1>6. ASSUME NEW r \in Requests, GetScoped(r) PROVE AskInv'
  <2> DEFINE k == <<req[r].sub, Named(req[r].name)>>
  <2>1. k \in Keys /\ k[1] = req[r].sub /\ req[r].sub \in Subs
    BY <1>6, KeyKinds DEF GetScoped, AskInv
  <2>2. CASE rows[k] # NoRow
    BY <1>5, <1>6, <2>1, <2>2 DEF GetScoped
  <2>3. CASE rows[k] = NoRow
    <3>1. req' = [req EXCEPT ![r].at = "own"] /\ UNCHANGED paired
      BY <1>6, <2>3 DEF GetScoped
    <3>2. req'[r].at = "own" /\ req'[r].sub = req[r].sub
      BY <3>1 DEF InstagramTypeOK, RequestType
    <3>3. QED
      BY <1>2, <2>1, <3>1, <3>2 DEF InstagramTypeOK
  <2>4. QED
    BY <2>2, <2>3
<1>7. ASSUME NEW r \in Requests, UNCHANGED paired,
             req' = [req EXCEPT ![r] = Refused] \/ req' = [req EXCEPT ![r] = Idle]
      PROVE  AskInv'
  <2>1. req'[r].at \in {"idle", "refused"} /\ req'[r].sub = None
    BY <1>7 DEF InstagramTypeOK, Refused, Idle
  <2>2. QED
    BY <1>2, <1>7, <2>1 DEF InstagramTypeOK
<1>8. ASSUME NEW r \in Requests, GetOwn(r) PROVE AskInv'
  <2> DEFINE k == <<req[r].sub, Own>>
  <2>1. k \in Keys /\ k[1] = req[r].sub
    BY <1>8, KeyKinds DEF GetOwn, AskInv
  <2>2. CASE rows[k] # NoRow
    BY <1>5, <1>8, <2>1, <2>2 DEF GetOwn
  <2>3. CASE rows[k] = NoRow
    BY <1>7, <1>8, <2>3 DEF GetOwn, NoCredential
  <2>4. QED
    BY <2>2, <2>3
<1>9. ASSUME NEW r \in Requests, GetFails(r) \/ CallFails(r) \/ Answered(r)
      PROVE  AskInv'
  BY <1>7, <1>9 DEF GetFails, CallFails, Answered
<1>10. ASSUME NEW r \in Requests, NEW at \in {"call", "put", "served", "container"},
              UNCHANGED paired, req' = [req EXCEPT ![r].at = at],
              req[r].at \in {"refresh", "put", "call", "container"},
              at = "put" => req[r].at = "refresh" /\ req[r].row.age = "due"
       PROVE  AskInv'
  <2>1. /\ req'[r].at = at /\ req'[r].sub = req[r].sub
        /\ req'[r].key = req[r].key /\ req'[r].row = req[r].row
    BY <1>10 DEF InstagramTypeOK, RequestType
  <2>2. req[r].sub # None \/ at = "put" => HasRow(r)
    BY <1>10 DEF AskInv
  <2>3. HasRow(r) => HasRow(r)'
    BY <1>10, <2>1 DEF HasRow
  <2>4. QED
    BY <1>2, <1>10, <2>1, <2>2, <2>3 DEF InstagramTypeOK
<1>11. ASSUME NEW r \in Requests,
              KeepToken(r) \/ Renewed(r) \/ RefreshPutFails(r) \/ Called(r) \/ Published(r)
       PROVE  AskInv'
  BY <1>10, <1>11 DEF KeepToken, Renewed, RefreshPutFails, Called, Published
<1>12. ASSUME NEW r \in Requests, RefreshPut(r) PROVE AskInv'
  <2> DEFINE new == [req[r].row EXCEPT !.age = "young"]
  <2>1. HasRow(r) /\ req' = [req EXCEPT ![r].at = "call", ![r].row = new] /\ paired' = paired
    BY <1>12 DEF RefreshPut, AskInv
  <2>2. new \in Row /\ new # NoRow /\ new.id = req[r].row.id
    BY <2>1, RowKinds DEF HasRow
  <2>3. /\ req'[r].at = "call" /\ req'[r].sub = req[r].sub
        /\ req'[r].key = req[r].key /\ req'[r].row = new
    BY <2>1 DEF InstagramTypeOK, RequestType
  <2>4. /\ req[r].key \in Keys /\ req[r].key[1] = req[r].sub
        /\ <<req[r].key, new.id>> \in paired'
    BY <2>1, <2>2 DEF HasRow
  <2>5. HasRow(r)'
    <3> HIDE DEF new
    <3>1. QED
      BY <2>2, <2>3, <2>4 DEF HasRow
  <2>6. QED
    BY <1>2, <2>1, <2>3, <2>5 DEF InstagramTypeOK
<1>13. ASSUME NEW p \in Callbacks, PairStep(p) PROVE AskInv'
  BY <1>1, <1>13 DEF PairStep, Consented, ReadOwn, PairPut, PairFails
<1>14. ASSUME NEW k \in Keys, GrowsOld(k) PROVE AskInv'
  BY <1>1, <1>14 DEF GrowsOld
<1>15. CASE UNCHANGED igVars
  BY <1>1, <1>15 DEF igVars
<1>16. QED
  BY <1>3, <1>4, <1>6, <1>8, <1>9, <1>11, <1>12, <1>13, <1>14, <1>15
     DEF IgNext, RequestStep

(* A row is put by a refresh, which has read it, or by a pairing.          *)
LEMMA RowsStep == IgInv /\ [IgNext]_igVars => RowsArePaired'
<1> SUFFICES ASSUME IgInv, [IgNext]_igVars PROVE RowsArePaired'
  OBVIOUS
<1> USE DEF IgInv, InstagramTypeOK
<1>1. CASE UNCHANGED rows /\ paired \subseteq paired'
  BY <1>1 DEF RowsArePaired
<1>2. ASSUME NEW r \in Requests, RefreshPut(r) PROVE RowsArePaired'
  <2> DEFINE new == [req[r].row EXCEPT !.age = "young"]
  <2>1. HasRow(r) /\ rows' = [rows EXCEPT ![req[r].key] = new] /\ paired' = paired
    BY <1>2 DEF RefreshPut, AskInv, HomeOf
  <2>2. new.id = req[r].row.id /\ <<req[r].key, new.id>> \in paired
    BY <2>1, RowKinds DEF HasRow
  <2>3. QED
    BY <2>1, <2>2 DEF RowsArePaired
<1>3. ASSUME NEW p \in Callbacks, PairPut(p) PROVE RowsArePaired'
  BY <1>3 DEF PairPut, RowsArePaired
<1>4. ASSUME NEW k \in Keys, GrowsOld(k) PROVE RowsArePaired'
  <2>1. rows[k] \in Row /\ rows[k] # NoRow
    BY <1>4, RowKinds DEF GrowsOld
  <2>2. [rows[k] EXCEPT !.age = "due"].id = rows[k].id
    BY <2>1, RowKinds
  <2>3. rows' = [rows EXCEPT ![k] = [rows[k] EXCEPT !.age = "due"]] /\ paired' = paired
    BY <1>4 DEF GrowsOld
  <2>4. QED
    BY <2>1, <2>2, <2>3 DEF RowsArePaired
<1>5. QED
  BY <1>1, <1>2, <1>3, <1>4
     DEF IgNext, igVars, RequestStep, PairStep, Anonymous, Arrives, GetScoped, GetOwn,
         GetFails, KeepToken, Renewed, RefreshPutFails, Called, Published, CallFails,
         Answered, Consented, ReadOwn, PairFails

LEMMA PairStepInv == IgInv /\ [IgNext]_igVars => PairInv'
<1> SUFFICES ASSUME IgInv, [IgNext]_igVars PROVE PairInv'
  OBVIOUS
<1> USE DEF IgInv, InstagramTypeOK
<1>1. CASE UNCHANGED pair
  BY <1>1 DEF PairInv
<1>2. ASSUME NEW p \in Callbacks, Consented(p) PROVE PairInv'
  <2>1. PICK link \in Links, i \in Ids :
          pair' = [pair EXCEPT ![p] = [Unused EXCEPT !.at = "read", !.sub = link[1],
                                                     !.label = link[2], !.id = i]]
    BY <1>2 DEF Consented
  <2>2. link[1] \in Subs
    BY DEF Links
  <2>3. pair'[p].at = "read" /\ pair'[p].id = i /\ pair'[p].sub = link[1]
    BY <2>1 DEF Unused
  <2>4. QED
    BY <2>1, <2>2, <2>3 DEF PairInv
<1>3. ASSUME NEW p \in Callbacks, ReadOwn(p) PROVE PairInv'
  <2> DEFINE own == rows[<<pair[p].sub, Own>>]
             key == SessionKeyFor(pair[p].sub, pair[p].label, own, pair[p].id)
  <2>1. /\ pair[p].sub \in Subs /\ pair[p].id \in Ids
        /\ pair[p].label \in Names \cup {None}
    BY <1>3 DEF ReadOwn, PairInv, CallbackType
  <2>2. key \in Keys /\ (key[2] = Own => own.id \in {None, pair[p].id})
    BY <2>1, KeyKinds, OwnIsNoName, InstagramAssumption DEF SessionKeyFor
  <2>3. pair' = [pair EXCEPT ![p].at = "put", ![p].saw = own, ![p].key = key]
    BY <1>3 DEF ReadOwn
  <2>4. /\ pair'[p].at = "put" /\ pair'[p].saw = own /\ pair'[p].key = key
        /\ pair'[p].id = pair[p].id /\ pair'[p].sub = pair[p].sub
    BY <2>3 DEF CallbackType
  <2>5. QED
    BY <2>1, <2>2, <2>3, <2>4 DEF PairInv
<1>4. ASSUME NEW p \in Callbacks, PairPut(p) \/ PairFails(p) PROVE PairInv'
  BY <1>4 DEF PairPut, PairFails, PairInv, Unused
<1>5. QED
  BY <1>1, <1>2, <1>3, <1>4
     DEF IgNext, igVars, RequestStep, PairStep, Anonymous, Arrives, GetScoped, GetOwn,
         GetFails, KeepToken, Renewed, RefreshPut, RefreshPutFails, Called, Published,
         CallFails, Answered, GrowsOld

-----------------------------------------------------------------------------
(* DueInv at one key of a caller's own, and what does not disturb it.      *)
DueAt(k) ==
  /\ rows[k] # NoRow /\ rows[k].age = "due" =>
       \A p \in Callbacks :
         pair[p].at = "put" /\ pair[p].key = k => pair[p].id = rows[k].id
  /\ \A r \in Requests :
       req[r].at \in {"refresh", "put"} /\ req[r].key = k /\ req[r].row.age = "due" =>
         /\ rows[k].id = req[r].row.id
         /\ \A p \in Callbacks :
              pair[p].at = "put" /\ pair[p].key = k => pair[p].id = req[r].row.id

LEMMA DueKeys == DueInv <=> \A s \in Subs : DueAt(<<s, Own>>)
  BY DEF DueInv, DueAt

LEMMA DueStep == IgInv /\ [IgNext]_igVars => DueInv'
<1> SUFFICES ASSUME IgInv, [IgNext]_igVars PROVE DueInv'
  OBVIOUS
<1> SUFFICES ASSUME NEW s \in Subs PROVE DueAt(<<s, Own>>)'
  BY DEF DueInv, DueAt
<1> DEFINE k == <<s, Own>>
<1> USE DEF IgInv, InstagramTypeOK
<1>1. k \in Keys /\ k[2] = Own /\ rows[k] \in Row /\ DueAt(k)
  BY KeyKinds, DueKeys
<1> HIDE DEF k
(* A step of a request that leaves the rows alone: what it has read of k   *)
(* is in the row, if it has just read it.                                  *)
<1>2. ASSUME NEW r \in Requests, UNCHANGED <<rows, pair>>,
             \A q \in Requests \ {r} : req'[q] = req[q],
             \/ req'[r].at \notin {"refresh", "put"}
             \/ /\ req[r].at \in {"refresh", "put"}
                /\ req'[r].key = req[r].key /\ req'[r].row = req[r].row
             \/ req'[r].row = rows[req'[r].key] /\ rows[req'[r].key] # NoRow
      PROVE  DueAt(k)'
  BY <1>1, <1>2 DEF DueAt
<1>3. ASSUME NEW r \in Requests, UNCHANGED <<rows, pair>>,
             NEW at \in {"call", "refused", "own", "served", "container"},
             req' = [req EXCEPT ![r].at = at]
      PROVE  DueAt(k)'
  BY <1>2, <1>3 DEF RequestType
<1>4. ASSUME NEW r \in Requests, UNCHANGED <<rows, pair>>,
             NEW q \in RequestType, q.at \notin {"refresh", "put"},
             req' = [req EXCEPT ![r] = q]
      PROVE  DueAt(k)'
  BY <1>2, <1>4
<1>5. ASSUME NEW r \in Requests, UNCHANGED <<rows, pair>>, NEW j \in Keys,
             rows[j] # NoRow, req' = Found(r, j)
      PROVE  DueAt(k)'
  <2>1. req'[r].key = j /\ req'[r].row = rows[j]
    BY <1>5 DEF Found, RequestType
  <2>2. QED
    BY <1>2, <1>5, <2>1 DEF Found
<1>6. ASSUME NEW r \in Requests, Anonymous(r) PROVE DueAt(k)'
  BY <1>3, <1>6 DEF Anonymous
<1>7. ASSUME NEW r \in Requests, Arrives(r) PROVE DueAt(k)'
  <2>1. PICK c \in Subs, n \in Asked :
          req' = [req EXCEPT ![r] = [Idle EXCEPT !.at = "scoped", !.sub = c, !.name = n]]
    BY <1>7 DEF Arrives
  <2> DEFINE q == [Idle EXCEPT !.at = "scoped", !.sub = c, !.name = n]
  <2>2. q \in RequestType /\ q.at = "scoped"
    BY RequestKinds, InstagramAssumption DEF Idle
  <2> HIDE DEF q
  <2>3. QED
    BY <1>4, <1>7, <2>1, <2>2 DEF Arrives, q
<1>8. ASSUME NEW r \in Requests, GetScoped(r) PROVE DueAt(k)'
  <2> DEFINE j == <<req[r].sub, Named(req[r].name)>>
  <2>1. j \in Keys
    BY <1>8, KeyKinds DEF GetScoped, AskInv
  <2>2. CASE rows[j] # NoRow
    BY <1>5, <1>8, <2>1, <2>2 DEF GetScoped
  <2>3. CASE rows[j] = NoRow
    BY <1>3, <1>8, <2>3 DEF GetScoped
  <2>4. QED
    BY <2>2, <2>3
<1>9. Refused \in RequestType /\ Refused.at = "refused" /\ Idle \in RequestType /\ Idle.at = "idle"
  BY RequestKinds DEF Refused, Idle
<1>10. ASSUME NEW r \in Requests, GetOwn(r) PROVE DueAt(k)'
  <2> DEFINE j == <<req[r].sub, Own>>
  <2>1. j \in Keys
    BY <1>10, KeyKinds DEF GetOwn, AskInv
  <2>2. CASE rows[j] # NoRow
    BY <1>5, <1>10, <2>1, <2>2 DEF GetOwn
  <2>3. CASE rows[j] = NoRow
    BY <1>4, <1>9, <1>10, <2>3 DEF GetOwn, NoCredential
  <2>4. QED
    BY <2>2, <2>3
<1>11. ASSUME NEW r \in Requests, GetFails(r) \/ CallFails(r) \/ Answered(r)
       PROVE  DueAt(k)'
  BY <1>4, <1>9, <1>11 DEF GetFails, CallFails, Answered
<1>12. ASSUME NEW r \in Requests,
              KeepToken(r) \/ RefreshPutFails(r) \/ Called(r) \/ Published(r)
       PROVE  DueAt(k)'
  BY <1>3, <1>12 DEF KeepToken, RefreshPutFails, Called, Published
<1>13. ASSUME NEW r \in Requests, Renewed(r) PROVE DueAt(k)'
  <2>1. /\ req'[r].key = req[r].key /\ req'[r].row = req[r].row
    BY <1>13 DEF Renewed, RequestType
  <2>2. QED
    BY <1>2, <1>13, <2>1 DEF Renewed
(* The refreshed token is young, and of the account that was there.        *)
<1>14. ASSUME NEW r \in Requests, RefreshPut(r) PROVE DueAt(k)'
  <2> DEFINE new == [req[r].row EXCEPT !.age = "young"]
  <2>1. /\ HasRow(r) /\ req[r].row.age = "due" /\ req[r].at = "put"
        /\ req' = [req EXCEPT ![r].at = "call", ![r].row = new]
        /\ rows' = [rows EXCEPT ![req[r].key] = new] /\ pair' = pair
    BY <1>14 DEF RefreshPut, AskInv, HomeOf
  <2>2. new.id = req[r].row.id /\ new.age = "young" /\ req[r].key \in Keys
    BY <2>1, RowKinds DEF HasRow
  <2>3. /\ \A q \in Requests \ {r} : req'[q] = req[q]
        /\ req'[r].at = "call"
    BY <2>1 DEF RequestType
  <2> HIDE DEF new
  <2>4. CASE req[r].key = k
    <3>1. rows[k].id = new.id /\ rows'[k] = new
      BY <1>1, <2>1, <2>2, <2>4 DEF DueAt
    <3>2. QED
      BY <1>1, <2>1, <2>2, <2>3, <3>1 DEF DueAt
  <2>5. CASE req[r].key # k
    <3>1. rows'[k] = rows[k]
      BY <1>1, <2>1, <2>5
    <3>2. QED
      BY <1>1, <2>1, <2>3, <3>1 DEF DueAt
  <2>6. QED
    BY <2>4, <2>5
(* A callback that starts to put under k saw no other account there.       *)
<1>15. ASSUME NEW p \in Callbacks, UNCHANGED <<rows, req>>,
              \A c \in Callbacks \ {p} : pair'[c] = pair[c],
              pair'[p].at # "put"
       PROVE  DueAt(k)'
  BY <1>1, <1>15 DEF DueAt
<1>16. ASSUME NEW p \in Callbacks, Consented(p) \/ PairFails(p) PROVE DueAt(k)'
  <2>1. \A c \in Callbacks \ {p} : pair'[c] = pair[c]
    BY <1>16 DEF Consented, PairFails
  <2>2. pair'[p].at # "put"
    <3>1. CASE Consented(p)
      <4>1. PICK link \in Links, i \in Ids :
              pair' = [pair EXCEPT ![p] = [Unused EXCEPT !.at = "read", !.sub = link[1],
                                                         !.label = link[2], !.id = i]]
        BY <3>1 DEF Consented
      <4>2. QED
        BY <4>1 DEF Unused
    <3>2. CASE PairFails(p)
      BY <3>2 DEF PairFails, Unused
    <3>3. QED
      BY <1>16, <3>1, <3>2
  <2>3. QED
    BY <1>15, <1>16, <2>1, <2>2 DEF Consented, PairFails
<1>17. ASSUME NEW p \in Callbacks, ReadOwn(p) PROVE DueAt(k)'
  <2> DEFINE own == rows[<<pair[p].sub, Own>>]
             key == SessionKeyFor(pair[p].sub, pair[p].label, own, pair[p].id)
  <2>1. /\ pair[p].sub \in Subs /\ pair[p].id \in Ids
        /\ pair[p].label \in Names \cup {None}
    BY <1>17 DEF ReadOwn, PairInv, CallbackType
  <2>2. key[2] = Own => key = <<pair[p].sub, Own>> /\ own.id \in {None, pair[p].id}
    BY <2>1, OwnIsNoName DEF SessionKeyFor
  <2>3. pair' = [pair EXCEPT ![p].at = "put", ![p].saw = own, ![p].key = key]
    BY <1>17 DEF ReadOwn
  <2>4. /\ pair'[p].key = key /\ pair'[p].id = pair[p].id
        /\ \A c \in Callbacks \ {p} : pair'[c] = pair[c]
    BY <2>3 DEF CallbackType
  <2>5. key = k => rows[k].id \in {None, pair[p].id}
    BY <1>1, <2>2 DEF k
  <2> HIDE DEF own, key
  <2>6. rows' = rows /\ req' = req
    BY <1>17 DEF ReadOwn
  <2>7. rows[k] # NoRow => rows[k].id # None
    BY <1>1, RowKinds, InstagramAssumption
  <2>8. ASSUME NEW r \in Requests, req[r].at \in {"refresh", "put"},
               req[r].key = k, req[r].row.age = "due"
        PROVE  rows[k].id = req[r].row.id /\ rows[k].id # None
    <3>1. rows[k].id = req[r].row.id
      BY <1>1, <2>8 DEF DueAt
    <3>2. req[r].row \in Row /\ req[r].row # NoRow
      BY <2>8 DEF AskInv, HasRow
    <3>3. QED
      BY <3>1, <3>2, RowKinds, InstagramAssumption
  <2>9. QED
    BY <1>1, <2>4, <2>5, <2>6, <2>7, <2>8 DEF DueAt
<1>18. ASSUME NEW p \in Callbacks, PairPut(p) PROVE DueAt(k)'
  <2> DEFINE new == [id |-> pair[p].id, age |-> "young"]
  <2>1. /\ pair[p].at = "put" /\ pair[p].key \in Keys /\ req' = req
        /\ rows' = [rows EXCEPT ![pair[p].key] = new]
        /\ \A c \in Callbacks \ {p} : pair'[c] = pair[c]
        /\ pair'[p].at # "put"
    BY <1>18 DEF PairPut, PairInv, Unused
  <2>2. new.id = pair[p].id /\ new.age = "young"
    OBVIOUS
  <2> HIDE DEF new
  <2>3. CASE pair[p].key = k
    <3>1. rows'[k] = new
      BY <1>1, <2>1, <2>3
    <3>2. QED
      BY <1>1, <2>1, <2>2, <2>3, <3>1 DEF DueAt
  <2>4. CASE pair[p].key # k
    <3>1. rows'[k] = rows[k]
      BY <1>1, <2>1, <2>4
    <3>2. QED
      BY <1>1, <2>1, <3>1 DEF DueAt
  <2>5. QED
    BY <2>3, <2>4
(* A token grows due when no callback is about to put.                     *)
<1>19. ASSUME NEW j \in Keys, GrowsOld(j) PROVE DueAt(k)'
  <2> DEFINE new == [rows[j] EXCEPT !.age = "due"]
  <2>1. /\ rows' = [rows EXCEPT ![j] = new] /\ req' = req /\ pair' = pair
        /\ \A p \in Callbacks : pair[p].at # "put"
    BY <1>19 DEF GrowsOld
  <2>2. new.id = rows[j].id
    BY <1>19, RowKinds DEF GrowsOld
  <2> HIDE DEF new
  <2>3. rows'[k].id = rows[k].id
    BY <1>1, <2>1, <2>2
  <2>4. QED
    BY <1>1, <2>1, <2>3 DEF DueAt
<1>20. ASSUME UNCHANGED igVars PROVE DueAt(k)'
  BY <1>1, <1>20 DEF igVars, DueAt
<1>21. ASSUME NEW r \in Requests, RequestStep(r) PROVE DueAt(k)'
  BY <1>6, <1>7, <1>8, <1>10, <1>11, <1>12, <1>13, <1>14, <1>21 DEF RequestStep
<1>22. ASSUME NEW p \in Callbacks, PairStep(p) PROVE DueAt(k)'
  BY <1>16, <1>17, <1>18, <1>22 DEF PairStep
<1>23. DueAt(k)'
  BY <1>19, <1>20, <1>21, <1>22 DEF IgNext
<1>24. QED
  BY <1>23 DEF k, DueAt

LEMMA Invariance == IgSpec => []IgInv
<1>1. IgInv /\ [IgNext]_igVars => IgInv'
  BY TypeStep, RowsStep, RequestStepInv, PairStepInv, DueStep DEF IgInv
<1>2. QED
  BY <1>1, InitInv, PTL DEF IgSpec

-----------------------------------------------------------------------------
(* No row holds a token of an account that was not paired under its key,   *)
(* and no caller acts on an account that was not paired for it, whatever   *)
(* requests, refreshes and callbacks interleave: IgCredentialsInv.         *)
THEOREM CredentialsCorrect == IgSpec => []IgCredentialsInv
<1>1. ASSUME IgInv PROVE IgCredentialsInv
  <2>1. ActsOnOwnAccount
    BY <1>1 DEF IgInv, ActsOnOwnAccount, ActsOn, AskInv, HasRow
  <2>2. QED
    BY <1>1, <2>1 DEF IgInv, IgCredentialsInv, OnlyPaired
<1>2. QED
  BY <1>1, Invariance, PTL

(* The account under a caller's own key is replaced by another only by a   *)
(* callback that looked there before the account it replaces was paired.   *)
THEOREM OwnAccountStays == IgSpec => OwnAccountKept
<1> DEFINE Unmoved(s) ==
      LET k == <<s, Own>> IN
      rows[k] # NoRow /\ rows'[k].id # rows[k].id =>
        \E p \in Callbacks : /\ pair[p].at = "put" /\ pair[p].key = k
                             /\ pair[p].saw.id # rows[k].id
<1>1. ASSUME IgInv, [IgNext]_igVars, NEW s \in Subs PROVE Unmoved(s)
  <2> DEFINE k == <<s, Own>>
  <2> USE <1>1 DEF IgInv, InstagramTypeOK
  <2>1. k \in Keys /\ k[2] = Own /\ rows[k] \in Row /\ DueAt(k)
    BY KeyKinds, DueKeys
  <2> HIDE DEF k
  <2> SUFFICES ASSUME rows[k] # NoRow, rows'[k].id # rows[k].id
               PROVE  \E p \in Callbacks : /\ pair[p].at = "put" /\ pair[p].key = k
                                           /\ pair[p].saw.id # rows[k].id
    BY DEF k
  <2>2. ASSUME NEW r \in Requests, RefreshPut(r) PROVE FALSE
    <3> DEFINE new == [req[r].row EXCEPT !.age = "young"]
    <3>1. HasRow(r) /\ req[r].row.age = "due" /\ rows' = [rows EXCEPT ![req[r].key] = new]
      BY <2>2 DEF RefreshPut, AskInv, HomeOf
    <3>2. new.id = req[r].row.id
      BY <3>1, RowKinds DEF HasRow
    <3> HIDE DEF new
    <3>3. req[r].key = k /\ rows'[k] = new
      BY <2>1, <3>1
    <3>4. QED
      BY <2>1, <2>2, <3>1, <3>2, <3>3 DEF DueAt, RefreshPut
  <2>3. ASSUME NEW p \in Callbacks, PairPut(p)
        PROVE  /\ pair[p].at = "put" /\ pair[p].key = k
               /\ pair[p].saw.id # rows[k].id
    <3>1. pair[p].at = "put" /\ rows' = [rows EXCEPT ![pair[p].key] =
                                          [id |-> pair[p].id, age |-> "young"]]
      BY <2>3 DEF PairPut
    <3>2. pair[p].key = k /\ rows'[k].id = pair[p].id
      BY <2>1, <3>1
    <3>3. pair[p].saw.id \in {None, pair[p].id}
      BY <2>1, <3>1, <3>2 DEF PairInv
    <3>4. rows[k].id # None
      BY <2>1, RowKinds, InstagramAssumption
    <3>5. QED
      BY <3>1, <3>2, <3>3, <3>4
  <2>4. ASSUME NEW j \in Keys, GrowsOld(j) PROVE FALSE
    <3> DEFINE new == [rows[j] EXCEPT !.age = "due"]
    <3>1. rows' = [rows EXCEPT ![j] = new] /\ new.id = rows[j].id
      BY <2>4, RowKinds DEF GrowsOld
    <3> HIDE DEF new
    <3>2. QED
      BY <2>1, <3>1
  <2>5. CASE UNCHANGED rows
    BY <2>5
  <2>6. QED
    BY <2>2, <2>3, <2>4, <2>5
       DEF IgNext, igVars, RequestStep, PairStep, Anonymous, Arrives, GetScoped, GetOwn,
           GetFails, KeepToken, Renewed, RefreshPutFails, Called, Published, CallFails,
           Answered, Consented, ReadOwn, PairFails
<1>2. IgInv /\ [IgNext]_igVars => [\A s \in Subs : Unmoved(s)]_igVars
  BY <1>1
<1>3. QED
  BY <1>2, Invariance, PTL DEF IgSpec, OwnAccountKept
===============================================================================
