---------------------------- MODULE TelegramProofs ----------------------------
(***************************************************************************)
(* SyncInv of TelegramSync for every number of messages, page size, page   *)
(* cap and set of voice notes, TelegramApiInv of TelegramApi for every set *)
(* of callers, and TelegramPoolInv and RowMovesOn of TelegramPool for      *)
(* every set of subs and lookups, number of places, starts and failures.   *)
(***************************************************************************)
EXTENDS TelegramSync, TelegramApi, TelegramPool, FiniteSetTheorems, SequenceTheorems, TLAPS

(***************************************************************************)
(* TelegramSync: the types.                                                *)
(***************************************************************************)
Places == {"idle", "page", "insert", "check", "store", "finish"}
Speech == {"none", "pending", "processing", "done", "failed"}

LinkTypes ==
  /\ sent \in 0 .. MaxSent /\ nats \in {"up", "connecting", "waiting", "off"}
  /\ wire \subseteq 1 .. sent
  /\ faults \in 0 .. MaxFaults /\ crashes \in 0 .. MaxCrashes

FlagTypes == up \in BOOLEAN /\ capped \in BOOLEAN

StoreTypes ==
  /\ rows \subseteq 1 .. sent /\ skipped \subseteq 1 .. sent /\ watermark \in 0 .. sent
  /\ tasks \subseteq (Voice \cap rows) \X {"check", "store"}

(* A voice note that is not stored has no transcription. *)
SpeechTypes ==
  /\ audio \in [Voice -> Speech] /\ tries \in [Voice -> Nat]
  /\ worker \in {0} \cup (Voice \cap rows) /\ dropped \subseteq Voice
  /\ \A v \in Voice : audio[v] # "none" => v \in rows

ScanTypes ==
  scan \in [at : Places, min : Nat, offset : Nat, next : Nat, high : Nat, pages : Nat,
            aborted : BOOLEAN]

(* What the import knows of the page, and of the watermark it goes down to. *)
ScanInv ==
  /\ scan.at # "idle" => scan.min = watermark /\ scan.high \in scan.min .. sent
  /\ scan.at = "page" => scan.offset \in 1 .. sent \/ scan.offset = MaxSent + 1
  /\ scan.at \in {"insert", "check", "store"} =>
       /\ scan.next \in 0 .. sent /\ scan.offset \in 1 .. sent
       /\ scan.offset <= scan.next + 1
  /\ scan.at \in {"check", "store"} =>
       scan.next \in Voice \cap rows /\ scan.offset <= scan.next

Types == LinkTypes /\ FlagTypes /\ StoreTypes /\ SpeechTypes /\ ScanTypes /\ ScanInv

LEMMA LinkStep ==
  ASSUME LinkTypes, [SyncNext]_syncVars
  PROVE  LinkTypes' /\ sent' >= sent
<1> USE SyncAssumption DEF LinkTypes
<1>1. CASE Arrives
  <2>1. sent' = sent + 1 /\ sent < MaxSent /\ wire' \in {wire, wire \cup {sent + 1}}
        /\ nats' \in {nats, "waiting"} /\ crashes' = crashes
        /\ \/ faults' = faults
           \/ faults < MaxFaults /\ faults' = faults + 1
    BY <1>1 DEF Arrives, Fault, bounds
  <2>2. QED
    BY <2>1
<1>2. CASE ConnectOk \/ ConnectFails \/ TimerFires \/ NatsCloses
  <2>1. /\ UNCHANGED <<sent, wire, crashes>> /\ nats' \in {"up", "connecting", "waiting"}
        /\ \/ faults' = faults
           \/ faults < MaxFaults /\ faults' = faults + 1
    BY <1>2 DEF ConnectOk, ConnectFails, TimerFires, NatsCloses, Fault, bounds
  <2>2. QED
    BY <2>1
<1>3. ASSUME NEW id \in Ids, HandleEvent(id) PROVE LinkTypes' /\ sent' >= sent
  BY <1>3 DEF HandleEvent, connector, Fault, bounds
<1>4. CASE \E v \in Voice : TaskChecks(v) \/ TaskStores(v)
  <2>1. UNCHANGED <<sent, nats, wire, faults, crashes>>
    BY <1>4 DEF TaskChecks, TaskStores, connector, bounds
  <2>2. QED
    BY <2>1
<1>5. CASE ImportSteps \/ GetMessagesFails
  <2>1. UNCHANGED <<connector, wire, crashes>>
        /\ \/ faults' = faults
           \/ faults < MaxFaults /\ faults' = faults + 1
    BY <1>5 DEF ImportSteps, ImportBegins, GetMessages, PageCap, ImportMessage, ImportChecks,
                ImportStores, PageEnds, ImportEnds, GetMessagesFails, Fault, bounds
  <2>2. QED
    BY <2>1 DEF connector
<1>6. CASE Pick \/ Transcribed \/ Start
  <2>1. UNCHANGED <<connector, wire, crashes>>
        /\ \/ faults' = faults
           \/ faults < MaxFaults /\ faults' = faults + 1
    BY <1>6 DEF Pick, Transcribed, Start, Fault, bounds
  <2>2. QED
    BY <2>1 DEF connector
<1>7. CASE Crash
  BY <1>7 DEF Crash, connector
<1>8. CASE UNCHANGED syncVars
  BY <1>8 DEF syncVars, connector, bounds
<1>9. QED
  BY <1>1, <1>2, <1>3, <1>4, <1>5, <1>6, <1>7, <1>8 DEF SyncNext

LEMMA FlagStep ==
  ASSUME FlagTypes, [SyncNext]_syncVars
  PROVE  FlagTypes'
BY Zenon DEF FlagTypes, SyncNext, ConnectOk, ConnectFails, TimerFires, NatsCloses, Arrives,
       HandleEvent, TaskChecks, TaskStores, ImportSteps, ImportBegins, GetMessages, PageCap,
       ImportMessage, ImportChecks, ImportStores, PageEnds, ImportEnds, GetMessagesFails,
       Pick, Transcribed, Crash, Start, import, syncVars

(* A page is asked for, inserted, and its end or the import's is found.    *)
LEMMA GetMessagesFacts ==
  ASSUME Types, GetMessages
  PROVE  \/ scan.offset \in {1, MaxSent + 1} /\ (scan.offset = MaxSent + 1 => sent = 0)
            /\ scan' = [scan EXCEPT !.at = "finish"]
         \/ \E top \in 1 .. sent, n \in 1 .. BatchSize :
              /\ n <= top /\ scan' = Page(top, n)
              /\ (top = sent /\ scan.offset = MaxSent + 1) \/ top = scan.offset - 1
<1> DEFINE top == IF sent < scan.offset THEN sent ELSE scan.offset - 1
<1>1. \/ top = 0 /\ scan' = [scan EXCEPT !.at = "finish"]
      \/ \E n \in 1 .. BatchSize : n <= top /\ scan' = Page(top, n)
  BY DEF GetMessages
<1>2. scan.offset \in 1 .. sent \/ scan.offset = MaxSent + 1
  BY DEF GetMessages, At, Types, ScanInv
<1>3. sent \in Nat /\ sent <= MaxSent /\ MaxSent \in Nat /\ BatchSize \in Nat
  BY SyncAssumption DEF Types, LinkTypes
<1>4. \/ scan.offset \in 1 .. sent /\ top = scan.offset - 1
      \/ scan.offset = MaxSent + 1 /\ top = sent
  BY <1>2, <1>3
<1> HIDE DEF top
<1>5. top \in 0 .. sent
  BY <1>3, <1>4
<1>6. CASE top = 0 /\ scan' = [scan EXCEPT !.at = "finish"]
  BY <1>3, <1>4, <1>6
<1>7. CASE \E n \in 1 .. BatchSize : n <= top /\ scan' = Page(top, n)
  <2>1. PICK n \in 1 .. BatchSize : n <= top /\ scan' = Page(top, n)
    BY <1>7
  <2>2. top \in 1 .. sent
    BY <1>3, <1>5, <2>1
  <2>3. QED
    BY <1>4, <2>1, <2>2
<1>8. QED
  BY <1>1, <1>6, <1>7

LEMMA ScanTypesStep ==
  ASSUME Types, [SyncNext]_syncVars
  PROVE  ScanTypes'
<1> USE SyncAssumption DEF ScanTypes, Places
<1>0. CASE UNCHANGED scan
  BY <1>0 DEF Types
<1>n. /\ scan \in [at : Places, min : Nat, offset : Nat, next : Nat, high : Nat, pages : Nat,
                   aborted : BOOLEAN]
      /\ watermark \in Nat /\ sent \in Nat
  BY DEF Types, LinkTypes, StoreTypes
<1>1. CASE ImportBegins
  <2>1. scan' = [at |-> "page", min |-> watermark, offset |-> MaxSent + 1, next |-> 0,
                 high |-> watermark, pages |-> 0, aborted |-> FALSE]
    BY <1>1 DEF ImportBegins, Idle
  <2>2. MaxSent + 1 \in Nat
    OBVIOUS
  <2>3. QED
    BY <1>n, <2>1, <2>2
<1>2. CASE GetMessages
  <2>1. CASE scan' = [scan EXCEPT !.at = "finish"]
    BY <1>n, <2>1
  <2>2. CASE \E top \in 1 .. sent, n \in 1 .. BatchSize : n <= top /\ scan' = Page(top, n)
    <3>1. PICK top \in 1 .. sent, n \in 1 .. BatchSize : n <= top /\ scan' = Page(top, n)
      BY <2>2
    <3> DEFINE last == top - n + 1
    <3>2. top \in Nat /\ last \in Nat /\ scan.pages + 1 \in Nat
      BY <1>n, <3>1
    <3>3. scan' = [scan EXCEPT !.at = "insert", !.next = top, !.offset = last, !.pages = @ + 1]
      BY <3>1 DEF Page
    <3> HIDE DEF last
    <3>4. QED
      BY <1>n, <3>2, <3>3
  <2>3. QED
    BY <1>2, <2>1, <2>2, GetMessagesFacts
<1>3. CASE GetMessagesFails \/ PageCap
  BY <1>3, <1>n DEF GetMessagesFails, PageCap, Aborted
<1>4. CASE ImportMessage
  <2>1. scan.next \in Nat \ {0} /\ scan.next - 1 \in Nat
    BY <1>4, <1>n DEF ImportMessage, At, Types, ScanInv
  <2>2. \/ scan' = [scan EXCEPT !.at = "finish"]
        \/ scan' = [scan EXCEPT !.next = @ - 1]
        \/ \E media \in BOOLEAN :
             scan' = [scan EXCEPT !.high = IF @ < scan.next THEN scan.next ELSE @,
                                  !.at = IF media THEN "check" ELSE @,
                                  !.next = IF media THEN @ ELSE @ - 1]
    BY <1>4 DEF ImportMessage
  <2>3. QED
    BY <1>n, <2>1, <2>2
<1>5. CASE ImportChecks \/ ImportStores
  <2>1. scan.next \in Nat \ {0} /\ scan.next - 1 \in Nat
    BY <1>5, <1>n DEF ImportChecks, ImportStores, At, Types, ScanInv
  <2>2. \/ scan' = [scan EXCEPT !.at = "store"]
        \/ scan' = [scan EXCEPT !.at = "insert", !.next = @ - 1]
    BY <1>5 DEF ImportChecks, ImportStores
  <2>3. QED
    BY <1>n, <2>1, <2>2
<1>6. CASE PageEnds
  BY <1>6, <1>n DEF PageEnds
<1>7. CASE ImportEnds \/ Crash
  <2>1. scan' = Idle
    BY <1>7 DEF ImportEnds, Crash
  <2>2. QED
    BY <2>1 DEF Idle
<1>8. CASE \/ ConnectOk \/ ConnectFails \/ TimerFires \/ NatsCloses
           \/ Arrives \/ (\E id \in Ids : HandleEvent(id))
           \/ (\E v \in Voice : TaskChecks(v) \/ TaskStores(v))
           \/ Pick \/ Transcribed \/ Start \/ UNCHANGED syncVars
  BY <1>0, <1>8 DEF ConnectOk, ConnectFails, TimerFires, NatsCloses, Arrives, HandleEvent,
       TaskChecks, TaskStores, Pick, Transcribed, Start, import, syncVars
<1>9. QED
  BY <1>1, <1>2, <1>3, <1>4, <1>5, <1>6, <1>7, <1>8 DEF SyncNext, ImportSteps

(* Rows are never taken away, and what is stored exists. *)
LEMMA StoreStep ==
  ASSUME Types, [SyncNext]_syncVars
  PROVE  StoreTypes' /\ rows \subseteq rows' /\ skipped \subseteq skipped'
<1> USE DEF StoreTypes
<1>g. sent \in Nat /\ sent' \in Nat /\ sent' >= sent
  BY LinkStep DEF Types, LinkTypes
<1>0. CASE UNCHANGED <<rows, skipped, watermark>> /\ tasks' \subseteq tasks
  BY <1>0, <1>g DEF Types
<1>1. ASSUME NEW id \in Ids, HandleEvent(id)
      PROVE  StoreTypes' /\ rows \subseteq rows' /\ skipped \subseteq skipped'
  <2>1. UNCHANGED <<skipped, watermark, sent>> /\ id \in 1 .. sent
    BY <1>1 DEF HandleEvent, import, connector, Types, LinkTypes
  <2>2. \/ /\ rows' = rows \cup {id}
           /\ \/ id \in Voice /\ tasks' = tasks \cup {<<id, "check">>}
              \/ tasks' = tasks
        \/ UNCHANGED <<rows, tasks>>
    BY <1>1 DEF HandleEvent, InsertMessage
  <2>3. tasks' \subseteq (Voice \cap rows') \X {"check", "store"}
    BY <2>2 DEF Types
  <2>4. QED
    BY <2>1, <2>2, <2>3 DEF Types
<1>2. ASSUME NEW v \in Voice, TaskChecks(v)
      PROVE  StoreTypes' /\ rows \subseteq rows' /\ skipped \subseteq skipped'
  <2>1. /\ UNCHANGED <<rows, skipped, watermark, sent>> /\ <<v, "check">> \in tasks
        /\ tasks' \subseteq tasks \cup {<<v, "store">>}
    BY <1>2 DEF TaskChecks, import, connector
  <2>2. QED
    BY <2>1 DEF Types
<1>3. ASSUME NEW v \in Voice, TaskStores(v)
      PROVE  StoreTypes' /\ rows \subseteq rows' /\ skipped \subseteq skipped'
  BY <1>0, <1>3 DEF TaskStores, import
<1>4. CASE ImportMessage
  <2>1. UNCHANGED <<watermark, sent, tasks>> /\ scan.next \in 1 .. sent
    BY <1>4 DEF ImportMessage, At, connector, Types, ScanInv, LinkTypes, ScanTypes
  <2>2. /\ rows' \in {rows, rows \cup {scan.next}}
        /\ skipped' \in {skipped, skipped \cup {scan.next}}
    BY <1>4 DEF ImportMessage, InsertMessage
  <2>3. QED
    BY <2>1, <2>2 DEF Types
<1>5. CASE ImportEnds
  <2>1. UNCHANGED <<rows, skipped, tasks, sent>> /\ watermark' \in {watermark, scan.high}
    BY <1>5 DEF ImportEnds, connector
  <2>2. scan.high \in 0 .. sent
    BY <1>5 DEF ImportEnds, At, Types, ScanInv, StoreTypes, LinkTypes
  <2>3. QED
    BY <2>1, <2>2 DEF Types
<1>6. CASE Crash
  BY <1>0, <1>6 DEF Crash
<1>7. CASE \/ ConnectOk \/ ConnectFails \/ TimerFires \/ NatsCloses \/ Arrives
           \/ ImportBegins \/ GetMessages \/ GetMessagesFails \/ PageCap \/ ImportChecks
           \/ ImportStores \/ PageEnds \/ Pick \/ Transcribed \/ Start \/ UNCHANGED syncVars
  BY <1>0, <1>7 DEF ConnectOk, ConnectFails, TimerFires, NatsCloses, Arrives, ImportBegins,
       GetMessages, GetMessagesFails, PageCap, ImportChecks, ImportStores, PageEnds, Pick,
       Transcribed, Start, import, syncVars
<1>8. QED
  BY <1>1, <1>2, <1>3, <1>4, <1>5, <1>6, <1>7 DEF SyncNext, ImportSteps

LEMMA InsertKeepsSpeech ==
  ASSUME SpeechTypes, NEW id, InsertMessage(id), UNCHANGED <<tries, worker, dropped>>
  PROVE  SpeechTypes'
BY DEF SpeechTypes, InsertMessage, Speech

LEMMA SpeechStep ==
  ASSUME Types, [SyncNext]_syncVars
  PROVE  SpeechTypes'
<1> USE DEF SpeechTypes, Speech
<1>g. rows \subseteq rows'
  BY StoreStep
<1>0. CASE UNCHANGED speech
  BY <1>0, <1>g DEF speech, Types
<1>1. ASSUME NEW id \in Ids, HandleEvent(id) PROVE SpeechTypes'
  BY <1>0, <1>1, InsertKeepsSpeech DEF HandleEvent, speech, Types
<1>2. CASE ImportMessage
  BY <1>0, <1>2, InsertKeepsSpeech DEF ImportMessage, speech, Types
<1>3. CASE Pick
  <2>1. PICK v \in Pending : worker' = v /\ audio' = [audio EXCEPT ![v] = "processing"]
    BY <1>3 DEF Pick
  <2>2. v \in Voice /\ v \in rows
    BY DEF Pending, Types
  <2>3. UNCHANGED <<rows, tries, dropped>>
    BY <1>3 DEF Pick
  <2>4. QED
    BY <2>1, <2>2, <2>3 DEF Types
<1>4. CASE Transcribed
  <2>1. worker \in Voice /\ worker \in rows /\ worker' = 0 /\ rows' = rows
    BY <1>4 DEF Transcribed, Types
  <2>2. /\ \E s \in {"done", "failed", "pending"} :
             audio' = [audio EXCEPT ![worker] = s] \/ audio' = audio
        /\ tries' = [tries EXCEPT ![worker] = @ + 1] \/ tries' = tries
        /\ dropped' = dropped \cup {worker} \/ dropped' = dropped
    BY <1>4 DEF Transcribed
  <2>3. audio' \in [Voice -> Speech] /\ tries' \in [Voice -> Nat] /\ dropped' \subseteq Voice
    <3>1. audio' \in [Voice -> Speech]
      BY <2>2 DEF Types
    <3>2. tries' \in [Voice -> Nat]
      <4>1. tries \in [Voice -> Nat] /\ tries[worker] + 1 \in Nat
        BY <2>1 DEF Types
      <4>2. QED
        BY <2>2, <4>1
    <3>3. dropped' \subseteq Voice
      BY <2>1, <2>2 DEF Types
    <3>4. QED
      BY <3>1, <3>2, <3>3
  <2>4. \A v \in Voice : audio'[v] # "none" => v \in rows'
    BY <2>1, <2>2 DEF Types
  <2>5. QED
    BY <2>1, <2>3, <2>4
<1>5. CASE Crash
  BY <1>5 DEF Crash, Types
<1>6. CASE Start
  BY <1>6 DEF Start, RecoverStuck, Types
<1>7. CASE \/ ConnectOk \/ ConnectFails \/ TimerFires \/ NatsCloses \/ Arrives
           \/ (\E v \in Voice : TaskChecks(v) \/ TaskStores(v))
           \/ ImportBegins \/ GetMessages \/ GetMessagesFails \/ PageCap \/ ImportChecks
           \/ ImportStores \/ PageEnds \/ ImportEnds \/ UNCHANGED syncVars
  BY <1>0, <1>7 DEF ConnectOk, ConnectFails, TimerFires, NatsCloses, Arrives, TaskChecks,
       TaskStores, ImportBegins, GetMessages, GetMessagesFails, PageCap, ImportChecks,
       ImportStores, PageEnds, ImportEnds, syncVars
<1>8. QED
  BY <1>1, <1>2, <1>3, <1>4, <1>5, <1>6, <1>7 DEF SyncNext, ImportSteps

(* What an import has gone down to is stored, up to the newest message it  *)
(* stored, and what is behind the watermark has been for longer.           *)
Has(id) == id \in rows \cup skipped

CoverInv ==
  /\ WatermarkCovers
  /\ scan.at = "page" => \A id \in scan.offset .. scan.high : Has(id)
  /\ scan.at \in {"insert", "check", "store"} =>
       \A id \in scan.next + 1 .. scan.high : Has(id)
  /\ scan.at = "finish" /\ ~scan.aborted => \A id \in scan.min + 1 .. scan.high : Has(id)

(* The steps of an import, by what they make of the scan. *)
LEMMA ScanStays ==
  ASSUME Types, CoverInv, [SyncNext]_syncVars, UNCHANGED <<scan, watermark>>
  PROVE  ScanInv' /\ CoverInv'
<1>1. rows \subseteq rows' /\ skipped \subseteq skipped'
  BY StoreStep
<1>2. sent \in Nat /\ sent' \in Nat /\ sent' >= sent
  BY LinkStep DEF Types, LinkTypes
<1>3. ScanInv'
  BY <1>1, <1>2 DEF Types, ScanInv, ScanTypes
<1>4. CoverInv'
  BY <1>1 DEF CoverInv, WatermarkCovers, Has
<1>5. QED
  BY <1>3, <1>4

LEMMA ImportMessageStep ==
  ASSUME Types, CoverInv, ImportMessage, [SyncNext]_syncVars
  PROVE  ScanInv' /\ CoverInv'
<1> DEFINE id == scan.next
<1>1. /\ scan.at = "insert" /\ id \in 1 .. sent /\ scan.offset \in 1 .. id
      /\ scan.min = watermark /\ scan.high \in scan.min .. sent
      /\ sent' = sent /\ watermark' = watermark /\ sent \in Nat /\ watermark \in Nat
  BY DEF ImportMessage, At, Types, ScanInv, ScanTypes, LinkTypes, StoreTypes, connector
<1>2. /\ scan \in [at : Places, min : Nat, offset : Nat, next : Nat, high : Nat, pages : Nat,
                   aborted : BOOLEAN]
      /\ rows \subseteq rows' /\ skipped \subseteq skipped'
  BY StoreStep DEF Types, ScanTypes
<1>3. WatermarkCovers'
  BY <1>1, <1>2 DEF CoverInv, WatermarkCovers
<1>4. \A k \in id + 1 .. scan.high : Has(k)'
  BY <1>1, <1>2 DEF CoverInv, Has
<1>5. CASE id <= scan.min /\ scan' = [scan EXCEPT !.at = "finish"]
  <2>1. /\ scan'.at = "finish" /\ scan'.min = scan.min /\ scan'.high = scan.high
    BY <1>2, <1>5
  <2>2. \A k \in scan.min + 1 .. scan.high : k \in id + 1 .. scan.high
    BY <1>1, <1>5
  <2>3. QED
    BY <1>1, <1>3, <1>4, <2>1, <2>2 DEF ScanInv, CoverInv
<1>6. CASE /\ id > scan.min /\ InsertMessage(id)
           /\ \E media \in BOOLEAN :
                /\ media => id \in Voice
                /\ scan' = [scan EXCEPT !.high = IF @ < id THEN id ELSE @,
                                        !.at = IF media THEN "check" ELSE @,
                                        !.next = IF media THEN @ ELSE @ - 1]
  <2>1. PICK media \in BOOLEAN :
          /\ media => id \in Voice
          /\ scan' = [scan EXCEPT !.high = IF @ < id THEN id ELSE @,
                                  !.at = IF media THEN "check" ELSE @,
                                  !.next = IF media THEN @ ELSE @ - 1]
    BY <1>6
  <2>2. id \in rows'
    BY <1>6 DEF InsertMessage
  <2>3. /\ scan'.min = scan.min /\ scan'.offset = scan.offset
        /\ scan'.high = IF scan.high < id THEN id ELSE scan.high
        /\ \/ scan'.at = "check" /\ scan'.next = id /\ id \in Voice
           \/ scan'.at = "insert" /\ scan'.next = id - 1
    BY <1>1, <1>2, <2>1
  <2>4. \A k \in id .. scan'.high : Has(k)'
    BY <1>1, <1>2, <1>4, <2>2, <2>3 DEF Has
  <2>5. ScanInv'
    BY <1>1, <2>2, <2>3 DEF ScanInv
  <2>6. \A k \in scan'.next + 1 .. scan'.high : k \in id .. scan'.high
    BY <1>1, <2>3
  <2>7. CoverInv'
    BY <1>3, <2>3, <2>4, <2>6 DEF CoverInv
  <2>8. QED
    BY <2>5, <2>7
<1>7. CASE /\ id > scan.min /\ scan' = [scan EXCEPT !.next = @ - 1]
           /\ skipped' = IF id \in rows THEN skipped ELSE skipped \cup {id}
  <2>1. id \in rows' \cup skipped'
    BY <1>2, <1>7
  <2>2. /\ scan'.min = scan.min /\ scan'.offset = scan.offset /\ scan'.high = scan.high
        /\ scan'.at = "insert" /\ scan'.next = id - 1
    BY <1>1, <1>2, <1>7
  <2>3. \A k \in id .. scan'.high : Has(k)'
    BY <1>1, <1>2, <1>4, <2>1, <2>2 DEF Has
  <2>4. ScanInv'
    BY <1>1, <2>2 DEF ScanInv
  <2>5. \A k \in scan'.next + 1 .. scan'.high : k \in id .. scan'.high
    BY <1>1, <2>2
  <2>6. CoverInv'
    BY <1>3, <2>2, <2>3, <2>5 DEF CoverInv
  <2>7. QED
    BY <2>4, <2>6
<1>8. QED
  BY <1>5, <1>6, <1>7 DEF ImportMessage

LEMMA ImportStep ==
  ASSUME Types, CoverInv, ImportSteps \/ GetMessagesFails \/ Crash, [SyncNext]_syncVars
  PROVE  ScanInv' /\ CoverInv'
<1> USE SyncAssumption
<1>1. /\ scan \in [at : Places, min : Nat, offset : Nat, next : Nat, high : Nat, pages : Nat,
                   aborted : BOOLEAN]
      /\ rows \subseteq rows' /\ skipped \subseteq skipped' /\ sent' = sent
      /\ sent \in Nat /\ sent <= MaxSent /\ MaxSent \in Nat
      /\ watermark \in Nat /\ watermark <= sent
  <2>1. sent' = sent
    BY DEF ImportSteps, ImportBegins, GetMessages, PageCap, ImportMessage, ImportChecks,
           ImportStores, PageEnds, ImportEnds, GetMessagesFails, Crash, connector
  <2>2. QED
    BY <2>1, StoreStep DEF Types, ScanTypes, LinkTypes, StoreTypes
<1>w. watermark' = watermark => WatermarkCovers'
  BY <1>1 DEF CoverInv, WatermarkCovers
<1>h. \A id : Has(id) => Has(id)'
  BY <1>1 DEF Has
<1>2. CASE ImportBegins
  <2>1. /\ scan'.at = "page" /\ scan'.min = watermark /\ scan'.high = watermark
        /\ scan'.offset = MaxSent + 1 /\ watermark' = watermark
    BY <1>2 DEF ImportBegins, Idle
  <2>2. ScanInv'
    BY <1>1, <2>1 DEF ScanInv
  <2>3. scan'.offset .. scan'.high = {}
    BY <1>1, <2>1
  <2>4. QED
    BY <1>w, <2>1, <2>2, <2>3 DEF CoverInv
<1>3. CASE GetMessages
  <2>1. /\ scan.at = "page" /\ scan.min = watermark /\ scan.high \in scan.min .. sent
        /\ watermark' = watermark /\ \A id \in scan.offset .. scan.high : Has(id)
        /\ scan.offset \in Nat
    BY <1>1, <1>3 DEF GetMessages, At, Types, ScanInv, CoverInv
  <2>2. CASE /\ scan.offset \in {1, MaxSent + 1} /\ (scan.offset = MaxSent + 1 => sent = 0)
             /\ scan' = [scan EXCEPT !.at = "finish"]
    <3>1. scan'.at = "finish" /\ scan'.min = scan.min /\ scan'.high = scan.high
      BY <1>1, <2>2
    <3>2. \A id \in scan.min + 1 .. scan.high : id \in scan.offset .. scan.high
      BY <1>1, <2>1, <2>2
    <3>3. ScanInv'
      BY <1>1, <2>1, <3>1 DEF ScanInv
    <3>4. QED
      BY <1>w, <1>h, <2>1, <3>1, <3>2, <3>3 DEF CoverInv
  <2>3. CASE \E top \in 1 .. sent, n \in 1 .. BatchSize :
               /\ n <= top /\ scan' = Page(top, n)
               /\ (top = sent /\ scan.offset = MaxSent + 1) \/ top = scan.offset - 1
    <3>1. PICK top \in 1 .. sent, n \in 1 .. BatchSize :
               /\ n <= top /\ scan' = Page(top, n)
               /\ (top = sent /\ scan.offset = MaxSent + 1) \/ top = scan.offset - 1
      BY <2>3
    <3>2. /\ scan'.at = "insert" /\ scan'.next = top /\ scan'.offset = top - n + 1
          /\ scan'.min = scan.min /\ scan'.high = scan.high
      BY <1>1, <3>1 DEF Page
    <3>3. top - n + 1 \in 1 .. sent /\ top - n + 1 <= top + 1
      BY <1>1, <3>1
    <3>4. ScanInv'
      BY <1>1, <2>1, <3>1, <3>2, <3>3 DEF ScanInv
    <3>5. \A id \in top + 1 .. scan.high : id \in scan.offset .. scan.high
      BY <1>1, <2>1, <3>1
    <3>6. QED
      BY <1>w, <1>h, <2>1, <3>2, <3>4, <3>5 DEF CoverInv
  <2>4. QED
    BY <1>3, <2>2, <2>3, GetMessagesFacts
<1>4. CASE GetMessagesFails \/ PageCap
  <2>1. /\ scan.at = "page" /\ watermark' = watermark /\ scan'.at = "finish" /\ scan'.aborted
        /\ scan'.min = scan.min /\ scan'.high = scan.high
    BY <1>1, <1>4 DEF GetMessagesFails, PageCap, At, Aborted
  <2>2. ScanInv'
    BY <1>1, <2>1 DEF ScanInv, Types
  <2>3. QED
    BY <1>w, <2>1, <2>2 DEF CoverInv
<1>5. CASE ImportMessage
  BY <1>5, ImportMessageStep
<1>6. CASE ImportChecks \/ ImportStores
  <2>1. /\ scan.at \in {"check", "store"} /\ scan.next \in Voice /\ scan.next \in rows
        /\ scan.offset \in 1 .. sent /\ scan.offset <= scan.next /\ scan.next \in 0 .. sent
        /\ scan.min = watermark /\ scan.high \in scan.min .. sent /\ watermark' = watermark
        /\ \A id \in scan.next + 1 .. scan.high : Has(id)
    BY <1>1, <1>6 DEF ImportChecks, ImportStores, At, Types, ScanInv, CoverInv
  <2>2. /\ scan'.min = scan.min /\ scan'.offset = scan.offset /\ scan'.high = scan.high
        /\ \/ scan'.at = "store" /\ scan'.next = scan.next
           \/ scan'.at = "insert" /\ scan'.next = scan.next - 1
    <3>1. \/ scan' = [scan EXCEPT !.at = "store"]
          \/ scan' = [scan EXCEPT !.at = "insert", !.next = @ - 1]
      BY <1>6 DEF ImportChecks, ImportStores
    <3>2. QED
      BY <1>1, <3>1
  <2>3. ScanInv'
    BY <1>1, <2>1, <2>2 DEF ScanInv
  <2>4. \A id \in scan'.next + 1 .. scan'.high :
          id = scan.next \/ id \in scan.next + 1 .. scan.high
    BY <1>1, <2>1, <2>2
  <2>5. Has(scan.next)
    BY <2>1 DEF Has
  <2>6. \A id \in scan'.next + 1 .. scan'.high : Has(id)'
    BY <1>h, <2>1, <2>4, <2>5
  <2>7. QED
    BY <1>w, <2>1, <2>2, <2>3, <2>6 DEF CoverInv
<1>7. CASE PageEnds
  <2>1. /\ scan.at = "insert" /\ scan.next < scan.offset /\ scan.offset \in 1 .. sent
        /\ scan.offset <= scan.next + 1 /\ scan.next \in 0 .. sent
        /\ scan.min = watermark /\ scan.high \in scan.min .. sent /\ watermark' = watermark
        /\ \A id \in scan.next + 1 .. scan.high : Has(id)
    BY <1>1, <1>7 DEF PageEnds, At, Types, ScanInv, CoverInv
  <2>2. /\ scan'.at = "page" /\ scan'.min = scan.min /\ scan'.offset = scan.offset
        /\ scan'.high = scan.high
    BY <1>1, <1>7 DEF PageEnds
  <2>3. scan.offset = scan.next + 1
    BY <1>1, <2>1
  <2>4. ScanInv'
    BY <1>1, <2>1, <2>2 DEF ScanInv
  <2>5. QED
    BY <1>h, <1>w, <2>1, <2>2, <2>3, <2>4 DEF CoverInv
<1>8. CASE ImportEnds
  <2>1. /\ scan.at = "finish" /\ scan.min = watermark /\ scan.high \in scan.min .. sent
        /\ ~scan.aborted => \A id \in scan.min + 1 .. scan.high : Has(id)
    BY <1>1, <1>8 DEF ImportEnds, At, Types, ScanInv, CoverInv
  <2>2. /\ scan'.at = "idle" /\ UNCHANGED <<rows, skipped>>
        /\ watermark' = watermark \/ (watermark' = scan.high /\ ~scan.aborted)
    BY <1>8 DEF ImportEnds, Idle, Moves
  <2>3. WatermarkCovers'
    <3>1. CASE watermark' = watermark
      BY <1>w, <3>1
    <3>2. CASE watermark' = scan.high /\ ~scan.aborted
      <4>1. \A id \in 1 .. scan.high : id \in 1 .. watermark \/ id \in scan.min + 1 .. scan.high
        BY <1>1, <2>1
      <4>2. \A id \in 1 .. watermark : Has(id)
        BY DEF CoverInv, WatermarkCovers, Has
      <4>3. \A id \in 1 .. scan.high : Has(id)
        BY <2>1, <3>2, <4>1, <4>2
      <4>4. QED
        BY <2>2, <3>2, <4>3 DEF WatermarkCovers, Has
    <3>3. QED
      BY <2>2, <3>1, <3>2
  <2>4. QED
    BY <2>2, <2>3 DEF ScanInv, CoverInv
<1>9. CASE Crash
  <2>1. scan'.at = "idle" /\ watermark' = watermark
    BY <1>9 DEF Crash, Idle
  <2>2. QED
    BY <1>w, <2>1 DEF ScanInv, CoverInv
<1>10. QED
  BY <1>2, <1>3, <1>4, <1>5, <1>6, <1>7, <1>8, <1>9 DEF ImportSteps

LEMMA CoverStep ==
  ASSUME Types, CoverInv, [SyncNext]_syncVars
  PROVE  ScanInv' /\ CoverInv'
<1>1. CASE ImportSteps \/ GetMessagesFails \/ Crash
  BY <1>1, ImportStep
<1>2. CASE \/ ConnectOk \/ ConnectFails \/ TimerFires \/ NatsCloses
           \/ Arrives \/ (\E id \in Ids : HandleEvent(id))
           \/ (\E v \in Voice : TaskChecks(v) \/ TaskStores(v))
           \/ Pick \/ Transcribed \/ Start \/ UNCHANGED syncVars
  <2>1. UNCHANGED <<scan, watermark>>
    BY <1>2 DEF ConnectOk, ConnectFails, TimerFires, NatsCloses, Arrives, HandleEvent,
         TaskChecks, TaskStores, Pick, Transcribed, Start, import, syncVars
  <2>2. QED
    BY <2>1, ScanStays
<1>3. QED
  BY <1>1, <1>2 DEF SyncNext
(* At most one of them has the media of a voice note in hand: the task of  *)
(* the live event, before its check or after it, or the import; and who    *)
(* has it has not stored it.                                               *)
InLine(v) == scan.at \in {"check", "store"} /\ scan.next = v

Attaching(v) ==
  /\ files[v] \in 0 .. 1
  /\ v \notin rows => files[v] = 0
  /\ <<v, "check">> \in tasks => <<v, "store">> \notin tasks /\ ~InLine(v) /\ files[v] = 0
  /\ <<v, "store">> \in tasks => ~InLine(v) /\ files[v] = 0
  /\ InLine(v) => files[v] = 0

AttachInv == files \in [Voice -> Nat] /\ \A v \in Voice : Attaching(v)

LEMMA AttachStep ==
  ASSUME Types, AttachInv, [SyncNext]_syncVars
  PROVE  AttachInv'
<1>g. /\ rows \subseteq rows' /\ tasks \subseteq (Voice \cap rows) \X {"check", "store"}
      /\ scan.at \in {"check", "store"} => scan.next \in Voice \cap rows
      /\ files \in [Voice -> Nat] /\ \A v \in Voice : Attaching(v)
      /\ scan \in [at : Places, min : Nat, offset : Nat, next : Nat, high : Nat, pages : Nat,
                   aborted : BOOLEAN]
  BY StoreStep DEF Types, StoreTypes, ScanInv, ScanTypes, AttachInv
<1>0. ASSUME UNCHANGED files, tasks' \subseteq tasks,
             \/ UNCHANGED scan
             \/ scan'.at \notin {"check", "store"}
             \/ scan.at \in {"check", "store"} /\ scan'.next = scan.next
      PROVE  AttachInv'
  <2>1. \A v \in Voice : InLine(v)' => InLine(v)
    BY <1>0 DEF InLine
  <2>2. QED
    BY <1>0, <1>g, <2>1 DEF AttachInv, Attaching
<1>1. ASSUME NEW id \in Ids, HandleEvent(id) PROVE AttachInv'
  <2>1. /\ UNCHANGED <<files, scan>>
        /\ \/ tasks' = tasks
           \/ id \in Voice /\ id \notin rows /\ tasks' = tasks \cup {<<id, "check">>}
    BY <1>1 DEF HandleEvent, IsNew, import
  <2>2. CASE id \in Voice /\ id \notin rows /\ tasks' = tasks \cup {<<id, "check">>}
    <3>1. files[id] = 0 /\ ~InLine(id) /\ \A w : <<id, w>> \notin tasks
      BY <1>g, <2>2 DEF Attaching, InLine
    <3>2. \A v \in Voice : InLine(v)' = InLine(v)
      BY <2>1 DEF InLine
    <3>3. ASSUME NEW v \in Voice PROVE Attaching(v)'
      <4>1. Attaching(v)
        BY <1>g
      <4>2. CASE v = id
        BY <1>g, <2>1, <2>2, <3>1, <3>2, <4>2 DEF Attaching
      <4>3. CASE v # id
        <5>1. \A w : <<v, w>> \in tasks' => <<v, w>> \in tasks
          BY <2>2, <4>3
        <5>2. QED
          BY <1>g, <2>1, <3>2, <4>1, <5>1 DEF Attaching
      <4>4. QED
        BY <4>2, <4>3
    <3>4. QED
      BY <1>g, <2>1, <3>3 DEF AttachInv
  <2>3. QED
    BY <1>0, <2>1, <2>2
<1>2. ASSUME NEW v \in Voice, TaskChecks(v) PROVE AttachInv'
  <2>1. /\ UNCHANGED <<files, scan, rows>> /\ <<v, "check">> \in tasks
        /\ tasks' \subseteq (tasks \ {<<v, "check">>}) \cup {<<v, "store">>}
    BY <1>2 DEF TaskChecks, import
  <2>2. \A u \in Voice : InLine(u)' = InLine(u)
    BY <2>1 DEF InLine
  <2>3. ASSUME NEW u \in Voice PROVE Attaching(u)'
    <3>1. Attaching(u) /\ Attaching(v)
      BY <1>g
    <3>2. CASE u = v
      BY <2>1, <2>2, <3>1, <3>2 DEF Attaching
    <3>3. CASE u # v
      <4>1. \A w : <<u, w>> \in tasks' => <<u, w>> \in tasks
        BY <2>1, <3>3
      <4>2. QED
        BY <2>1, <2>2, <3>1, <4>1 DEF Attaching
    <3>4. QED
      BY <3>2, <3>3
  <2>4. QED
    BY <1>g, <2>1, <2>3 DEF AttachInv
<1>3. ASSUME NEW v \in Voice, TaskStores(v) PROVE AttachInv'
  <2>1. /\ UNCHANGED <<scan, rows>> /\ <<v, "store">> \in tasks
        /\ tasks' = tasks \ {<<v, "store">>}
        /\ files' \in {files, [files EXCEPT ![v] = @ + 1]}
    BY <1>3 DEF TaskStores, import
  <2>2. \A u \in Voice : InLine(u)' = InLine(u)
    BY <2>1 DEF InLine
  <2>3. Attaching(v) /\ v \in rows /\ files[v] = 0
    BY <1>g, <2>1 DEF Attaching
  <2>4. files' \in [Voice -> Nat] /\ files'[v] \in 0 .. 1
        /\ \A u \in Voice : u # v => files'[u] = files[u]
    BY <1>g, <2>1, <2>3
  <2>5. ASSUME NEW u \in Voice PROVE Attaching(u)'
    <3>1. Attaching(u)
      BY <1>g
    <3>2. CASE u = v
      <4>1. <<v, "check">> \notin tasks' /\ <<v, "store">> \notin tasks' /\ ~InLine(v)
        BY <2>1, <2>3 DEF Attaching
      <4>2. QED
        BY <2>1, <2>2, <2>3, <2>4, <3>2, <4>1 DEF Attaching
    <3>3. CASE u # v
      BY <2>1, <2>2, <2>4, <3>1, <3>3 DEF Attaching
    <3>4. QED
      BY <3>2, <3>3
  <2>6. QED
    BY <2>4, <2>5 DEF AttachInv
<1>4. CASE ImportMessage
  <2>1. UNCHANGED <<files, tasks>> /\ scan.at = "insert"
    BY <1>4 DEF ImportMessage, At
  <2>2. \/ scan'.at \notin {"check", "store"}
        \/ scan'.next = scan.next /\ scan.next \in Voice /\ scan.next \notin rows
    <3>1. \/ scan' = [scan EXCEPT !.at = "finish"]
          \/ scan' = [scan EXCEPT !.next = @ - 1]
          \/ \E media \in BOOLEAN :
               /\ media => scan.next \in Voice /\ scan.next \notin rows
               /\ scan' = [scan EXCEPT !.high = IF @ < scan.next THEN scan.next ELSE @,
                                       !.at = IF media THEN "check" ELSE @,
                                       !.next = IF media THEN @ ELSE @ - 1]
      BY <1>4 DEF ImportMessage, IsNew
    <3>2. QED
      BY <1>g, <2>1, <3>1
  <2>3. CASE scan'.next = scan.next /\ scan.next \in Voice /\ scan.next \notin rows
    <3>1. files[scan.next] = 0 /\ \A w : <<scan.next, w>> \notin tasks
      BY <1>g, <2>3 DEF Attaching
    <3>2. \A u \in Voice : InLine(u)' => u = scan.next
      BY <2>3 DEF InLine
    <3>3. ASSUME NEW u \in Voice PROVE Attaching(u)'
      BY <1>g, <2>1, <3>1, <3>2 DEF Attaching
    <3>4. QED
      BY <1>g, <2>1, <3>3 DEF AttachInv
  <2>4. QED
    BY <1>0, <2>1, <2>2, <2>3
<1>5. CASE ImportChecks
  <2>1. /\ UNCHANGED <<files, tasks>> /\ scan.at = "check"
        /\ \/ scan' = [scan EXCEPT !.at = "store"]
           \/ scan' = [scan EXCEPT !.at = "insert", !.next = @ - 1]
    BY <1>5 DEF ImportChecks, At
  <2>2. scan'.at \notin {"check", "store"} \/ scan'.next = scan.next
    BY <1>g, <2>1
  <2>3. QED
    BY <1>0, <2>1, <2>2
<1>6. CASE ImportStores
  <2>1. /\ UNCHANGED <<tasks, rows>> /\ scan.at = "store"
        /\ scan' = [scan EXCEPT !.at = "insert", !.next = @ - 1]
        /\ files' \in {files, [files EXCEPT ![scan.next] = @ + 1]}
    BY <1>6 DEF ImportStores, At
  <2>2. scan.next \in Voice /\ scan.next \in rows /\ InLine(scan.next) /\ scan'.at = "insert"
    BY <1>g, <2>1 DEF InLine
  <2>3. /\ files[scan.next] = 0
        /\ <<scan.next, "check">> \notin tasks /\ <<scan.next, "store">> \notin tasks
    BY <1>g, <2>2 DEF Attaching
  <2>4. files' \in [Voice -> Nat] /\ files'[scan.next] \in 0 .. 1
        /\ \A u \in Voice : u # scan.next => files'[u] = files[u]
    BY <1>g, <2>1, <2>2, <2>3
  <2>5. \A u \in Voice : ~InLine(u)'
    BY <2>2 DEF InLine
  <2>6. ASSUME NEW u \in Voice PROVE Attaching(u)'
    BY <1>g, <2>1, <2>2, <2>3, <2>4, <2>5 DEF Attaching
  <2>7. QED
    BY <2>4, <2>6 DEF AttachInv
<1>7. CASE \/ ImportBegins \/ GetMessages \/ GetMessagesFails \/ PageCap \/ PageEnds
           \/ ImportEnds \/ Crash
  <2>1. /\ UNCHANGED files /\ tasks' \subseteq tasks
        /\ \/ scan' = Idle
           \/ scan' = [Idle EXCEPT !.at = "page", !.min = watermark, !.high = watermark]
           \/ \E s \in {"page", "finish"} : scan' = [scan EXCEPT !.at = s]
           \/ scan' = Aborted
           \/ GetMessages /\ ~(scan' = [scan EXCEPT !.at = "finish"])
    BY <1>7 DEF ImportBegins, GetMessages, GetMessagesFails, PageCap, PageEnds, ImportEnds, Crash
  <2>2. CASE GetMessages
    <3>1. \/ scan' = [scan EXCEPT !.at = "finish"]
          \/ \E top, n : scan' = Page(top, n)
      BY <2>2 DEF GetMessages
    <3>2. scan'.at \notin {"check", "store"}
      BY <1>g, <3>1 DEF Page
    <3>3. QED
      BY <1>0, <2>1, <3>2
  <2>3. CASE ~GetMessages
    <3>1. \/ scan' = Idle
          \/ scan' = [Idle EXCEPT !.at = "page", !.min = watermark, !.high = watermark]
          \/ \E s \in {"page", "finish"} : scan' = [scan EXCEPT !.at = s]
          \/ scan' = Aborted
      BY <2>1, <2>3
    <3>2. scan'.at \in {"idle", "page", "finish"}
      <4>1. CASE scan' = Idle
        BY <4>1 DEF Idle
      <4>2. CASE scan' = [Idle EXCEPT !.at = "page", !.min = watermark, !.high = watermark]
        BY <4>2 DEF Idle
      <4>3. CASE (\E s \in {"page", "finish"} : scan' = [scan EXCEPT !.at = s]) \/ scan' = Aborted
        BY <1>g, <4>3 DEF Aborted
      <4>4. QED
        BY <3>1, <4>1, <4>2, <4>3
    <3>3. QED
      BY <1>0, <2>1, <3>2
  <2>4. QED
    BY <2>2, <2>3
<1>8. CASE \/ ConnectOk \/ ConnectFails \/ TimerFires \/ NatsCloses
           \/ Arrives \/ Pick \/ Transcribed \/ Start \/ UNCHANGED syncVars
  <2>1. UNCHANGED <<files, tasks, scan>>
    BY <1>8 DEF ConnectOk, ConnectFails, TimerFires, NatsCloses, Arrives, Pick, Transcribed,
         Start, import, syncVars
  <2>2. QED
    BY <1>0, <2>1
<1>9. QED
  BY <1>1, <1>2, <1>3, <1>4, <1>5, <1>6, <1>7, <1>8 DEF SyncNext, ImportSteps

SyncIInv == Types /\ CoverInv /\ AttachInv

LEMMA SyncInitOK == SyncInit => SyncIInv
<1> SUFFICES ASSUME SyncInit PROVE SyncIInv
  OBVIOUS
<1> USE SyncAssumption DEF SyncInit
<1>1. /\ scan.at = "idle" /\ scan.min = 0 /\ scan.offset = MaxSent + 1 /\ scan.next = 0
      /\ scan.high = 0 /\ scan.pages = 0 /\ scan.aborted = FALSE /\ watermark = 0 /\ scan = Idle
  BY DEF Idle
<1>2. LinkTypes /\ FlagTypes
  <2>1. LinkTypes
    BY DEF LinkTypes
  <2>2. FlagTypes
    <3>1. up = TRUE /\ capped = FALSE
      OBVIOUS
    <3>2. QED
      BY <3>1, Zenon DEF FlagTypes
  <2>3. QED
    BY <2>1, <2>2
<1>3. StoreTypes /\ SpeechTypes
  BY DEF StoreTypes, SpeechTypes, Speech
<1>4. ScanTypes
  BY DEF ScanTypes, Idle, Places
<1>5. ScanInv
  BY <1>1 DEF ScanInv
<1>6. CoverInv
  BY <1>1 DEF CoverInv, WatermarkCovers
<1>7. AttachInv
  BY <1>1 DEF AttachInv, Attaching, InLine
<1>8. QED
  BY <1>2, <1>3, <1>4, <1>5, <1>6, <1>7 DEF SyncIInv, Types

(* The types; nothing is behind the watermark but what is stored or was    *)
(* passed over; the media of a voice note has one row, however the live    *)
(* events, the import and the crashes interleave: for every chat, page     *)
(* size, page cap and number of faults.                                    *)
THEOREM SyncCorrect == SyncSpec => []SyncInv
<1>1. SyncInit => SyncIInv
  BY SyncInitOK
<1>2. SyncIInv /\ [SyncNext]_syncVars => SyncIInv'
  BY LinkStep, FlagStep, ScanTypesStep, StoreStep, SpeechStep, CoverStep, AttachStep
     DEF SyncIInv, Types
<1>3. SyncIInv => SyncInv
  <2> SUFFICES ASSUME SyncIInv PROVE SyncInv
    OBVIOUS
  <2>1. SyncTypeOK
    BY DEF SyncIInv, Types, LinkTypes, FlagTypes, StoreTypes, SpeechTypes, Speech, SyncTypeOK
  <2>2. WatermarkCovers
    BY DEF SyncIInv, CoverInv
  <2>3. AttachedOnce
    <3>1. \A v \in Voice : files[v] \in 0 .. 1
      BY DEF SyncIInv, AttachInv, Attaching
    <3>2. QED
      BY <3>1 DEF AttachedOnce
  <2>4. QED
    BY <2>1, <2>2, <2>3 DEF SyncInv
<1>4. QED
  BY <1>1, <1>2, <1>3, PTL DEF SyncSpec
(***************************************************************************)
(* TelegramApi: what the tables of routes and methods say.                 *)
(***************************************************************************)
Fetches == <<"fetch", "write">>
Twice   == <<"read", "read">>
Group   == <<"write", "write">>

(* Only the group is written twice; what may be missing, or comes of a     *)
(* listing, writes nothing.                                                *)
Described(name, calls) ==
  /\ calls \in {Reads, Writes, Fetches, Twice, Group}
  /\ calls = Group => name = "createManagedGroup"
  /\ name \in {"downloadMedia", "downloadPeerPhoto"} => calls = Twice
  /\ name = "getUnreadChats" => calls = Reads

Names == UNION {DOMAIN t : t \in Methods}

LEMMA MethodsDescribed ==
  \A t \in Methods : \A name \in DOMAIN t : Described(name, t[name])
<1>1. \A name \in DOMAIN ListMethods : Described(name, ListMethods[name])
  BY DEF ListMethods, Described, Reads, Writes, Fetches, Twice, Group
<1>2. \A name \in DOMAIN InfoMethods : Described(name, InfoMethods[name])
  BY DEF InfoMethods, Described, Reads, Writes, Fetches, Twice, Group
<1>3. \A name \in DOMAIN TopicMethods : Described(name, TopicMethods[name])
  BY DEF TopicMethods, Described, Reads, Writes, Fetches, Twice, Group
<1>4. \A name \in DOMAIN ChatMethods : Described(name, ChatMethods[name])
  BY DEF ChatMethods, Described, Reads, Writes, Fetches, Twice, Group
<1>5. \A name \in DOMAIN GroupMethods : Described(name, GroupMethods[name])
  BY DEF GroupMethods, Described, Reads, Writes, Fetches, Twice, Group
<1>6. \A name \in DOMAIN FindMethods : Described(name, FindMethods[name])
  BY DEF FindMethods, Described, Reads, Writes, Fetches, Twice, Group
<1>7. \A name \in DOMAIN ReactMethods : Described(name, ReactMethods[name])
  BY DEF ReactMethods, Described, Reads, Writes, Fetches, Twice, Group
<1>8. \A name \in DOMAIN MediaMethods : Described(name, MediaMethods[name])
  BY DEF MediaMethods, Described, Reads, Writes, Fetches, Twice, Group
<1>9. \A name \in DOMAIN FileMethods : Described(name, FileMethods[name])
  BY DEF FileMethods, Described, Reads, Writes, Fetches, Twice, Group
<1>10. \A name \in DOMAIN SendMethods : Described(name, SendMethods[name])
  BY DEF SendMethods, Described, Reads, Writes, Fetches, Twice, Group
<1>11. \A name \in DOMAIN UnreadMethod : Described(name, UnreadMethod[name])
  BY DEF UnreadMethod, Described, Reads, Writes, Fetches, Twice, Group
<1> QED
  BY <1>1, <1>2, <1>3, <1>4, <1>5, <1>6, <1>7, <1>8, <1>9, <1>10, <1>11, Zenon DEF Methods

LEMMA CallsDescribed == \A name \in Names : Described(name, CallsOf(name))
<1> SUFFICES ASSUME NEW name \in Names PROVE Described(name, CallsOf(name))
  OBVIOUS
<1> DEFINE t == CHOOSE t \in Methods : name \in DOMAIN t
<1>1. \E u \in Methods : name \in DOMAIN u
  BY Zenon DEF Names
<1>2. t \in Methods /\ name \in DOMAIN t
  BY <1>1, Zenon
<1>3. CallsOf(name) = t[name]
  BY Zenon DEF CallsOf
<1> HIDE DEF t
<1>4. QED
  BY <1>2, <1>3, MethodsDescribed, Zenon

(* Every route's method has calls. *)
LEMMA RoutesNamed == \A r \in Routes : r.does \in Names
<1>1. \A r \in AccountRoutes : r.does \in DOMAIN InfoMethods \cup DOMAIN ListMethods \cup DOMAIN UnreadMethod
  BY DEF AccountRoutes, InfoMethods, ListMethods, UnreadMethod, Route
<1>2. \A r \in ChatRoutes : r.does \in DOMAIN InfoMethods \cup DOMAIN GroupMethods
  BY DEF ChatRoutes, InfoMethods, GroupMethods, Route
<1>3. \A r \in TopicRoutes \cup TopicSwitches : r.does \in DOMAIN InfoMethods \cup DOMAIN TopicMethods
  BY DEF TopicRoutes, TopicSwitches, InfoMethods, TopicMethods, Route
<1>4. \A r \in SettingRoutes : r.does \in DOMAIN TopicMethods \cup DOMAIN ChatMethods
  BY DEF SettingRoutes, TopicMethods, ChatMethods, Route
<1>5. \A r \in FindRoutes : r.does \in DOMAIN ListMethods \cup DOMAIN FindMethods \cup DOMAIN ReactMethods
  BY DEF FindRoutes, ListMethods, FindMethods, ReactMethods, Route
<1>6. \A r \in ActRoutes : r.does \in DOMAIN ReactMethods \cup DOMAIN SendMethods \cup DOMAIN FindMethods
  BY DEF ActRoutes, ReactMethods, SendMethods, FindMethods, Route
<1>7. \A r \in MediaRoutes : r.does \in DOMAIN FileMethods
  BY DEF MediaRoutes, FileMethods, Route
<1>8. \A r \in ReadRoutes : r.does \in DOMAIN FileMethods \cup DOMAIN MediaMethods
  BY DEF ReadRoutes, FileMethods, MediaMethods, Route
<1>9. \A r \in SendRoutes : r.does \in DOMAIN SendMethods \cup DOMAIN FindMethods
  BY DEF SendRoutes, SendMethods, FindMethods, Route
<1>10. \A r \in PublicRoutes : r.does \in DOMAIN ListMethods \cup DOMAIN SendMethods
  BY DEF PublicRoutes, ListMethods, SendMethods, Route
<1>11. \A t \in Methods : DOMAIN t \subseteq Names
  BY Zenon DEF Names
<1>12. /\ DOMAIN InfoMethods \subseteq Names /\ DOMAIN ListMethods \subseteq Names
       /\ DOMAIN UnreadMethod \subseteq Names /\ DOMAIN GroupMethods \subseteq Names
       /\ DOMAIN TopicMethods \subseteq Names /\ DOMAIN ChatMethods \subseteq Names
       /\ DOMAIN FindMethods \subseteq Names /\ DOMAIN ReactMethods \subseteq Names
       /\ DOMAIN SendMethods \subseteq Names /\ DOMAIN FileMethods \subseteq Names
       /\ DOMAIN MediaMethods \subseteq Names
  BY <1>11, Zenon DEF Methods
<1> SUFFICES ASSUME NEW r \in Routes PROVE r.does \in Names
  OBVIOUS
<1>13. \/ r \in AccountRoutes \/ r \in ChatRoutes \/ r \in TopicRoutes \cup TopicSwitches
       \/ r \in SettingRoutes \/ r \in FindRoutes \/ r \in ActRoutes \/ r \in MediaRoutes
       \/ r \in ReadRoutes \/ r \in SendRoutes \/ r \in PublicRoutes
  BY Zenon DEF Routes
<1>14. QED
  BY <1>1, <1>2, <1>3, <1>4, <1>5, <1>6, <1>7, <1>8, <1>9, <1>10, <1>12, <1>13, Zenon

(* What a method writes, by its calls. *)
LEMMA CallFacts ==
  ASSUME NEW name \in Names
  PROVE  /\ Len(CallsOf(name)) \in 1 .. 2
         /\ Len(CallsOf(name)) = 2 /\ CallsOf(name)[1] = "write" => name = "createManagedGroup"
         /\ name \in DOMAIN MediaMethods \cup {"downloadPeerPhoto", "getUnreadChats"} =>
              ToWrite(name) = {}
<1>1. Described(name, CallsOf(name))
  BY CallsDescribed
<1>2. DOMAIN MediaMethods = {"downloadMedia", "downloadPeerPhoto"}
  BY DEF MediaMethods
<1>3. CallsOf(name) \in {Reads, Writes, Fetches, Twice, Group}
  BY <1>1 DEF Described
<1>4. Len(CallsOf(name)) \in 1 .. 2
  BY <1>3 DEF Reads, Writes, Fetches, Twice, Group
<1>5. Len(CallsOf(name)) = 2 /\ CallsOf(name)[1] = "write" => CallsOf(name) = Group
  BY <1>3 DEF Reads, Writes, Fetches, Twice, Group
<1>6. CallsOf(name) \in {Reads, Twice} => ToWrite(name) = {}
  BY DEF ToWrite, Reads, Twice
<1>7. QED
  BY <1>1, <1>2, <1>4, <1>5, <1>6 DEF Described
(***************************************************************************)
(* TelegramApi: a request, whoever's it is.                                *)
(***************************************************************************)
Codes == {0, 200, 400, 401, 404, 500, 503}

Requests ==
  [at : {"calls", "lists", "answered"}, does : Names, step : Nat, done : SUBSET Nat,
   lost : BOOLEAN, code : Codes, told : BOOLEAN, shown : Int]

(* Until it is answered, what is written are the calls before the one at hand. *)
Working(q) ==
  q.at = "calls" =>
    /\ q.step \in 1 .. Len(CallsOf(q.does)) /\ q.lost = FALSE /\ q.told = TRUE
    /\ q.done = {i \in 1 .. q.step - 1 : CallsOf(q.does)[i] = "write"}
    /\ q.does # "getUnreadChats" /\ q.shown = Nothing

Waiting(q) ==
  q.at = "lists" => /\ q.done = {} /\ q.lost = FALSE /\ q.told = TRUE
                    /\ q.does = "getUnreadChats" /\ q.shown = Nothing

Truthful(q) ==
  q.at = "answered" =>
    /\ q.code = 200 => q.done = ToWrite(q.does) \/ ~q.told
    /\ q.code \in {400, 401, 404, 503} => q.done = {}
    /\ q.code = 500 => q.done = {} \/ q.lost \/ (q.does = "createManagedGroup" /\ q.done = {1})

Good(q) == q = Free \/ (q \in Requests /\ Working(q) /\ Waiting(q) /\ Truthful(q))

LEMMA OneOfThree ==
  ASSUME NEW q \in Requests
  PROVE  /\ q.at = "calls" /\ Working(q) => Good(q)
         /\ q.at = "lists" /\ Waiting(q) => Good(q)
         /\ q.at = "answered" /\ Truthful(q) => Good(q)
BY DEF Good, Working, Waiting, Truthful

(* A refused request, and one that begins. *)
LEMMA AskedFacts ==
  ASSUME NEW name \in Names
  PROVE  /\ Asked(name) \in Requests /\ Asked(name).done = {} /\ Asked(name).does = name
         /\ Asked(name).at = "calls" /\ Asked(name).shown = Nothing
         /\ Asked(name).told = TRUE /\ Asked(name).lost = FALSE /\ Asked(name).step = 1
BY DEF Asked, Requests, Codes, Nothing

LEMMA AnswerFacts ==
  ASSUME NEW q \in Requests, NEW code \in Codes
  PROVE  /\ Answer(q, code) \in Requests /\ Answer(q, code).at = "answered"
         /\ Answer(q, code).code = code /\ Answer(q, code).done = q.done
         /\ Answer(q, code).does = q.does /\ Answer(q, code).told = q.told
         /\ Answer(q, code).lost = q.lost /\ Answer(q, code).shown = q.shown
BY DEF Answer, Requests

LEMMA BeginsGood ==
  ASSUME NEW name \in Names, name # "getUnreadChats"
  PROVE  Good(Asked(name))
<1>1. Len(CallsOf(name)) \in 1 .. 2
  BY CallFacts
<1> DEFINE q == Asked(name)
<1>2. /\ q \in Requests /\ q.done = {} /\ q.does = name /\ q.at = "calls"
      /\ q.shown = Nothing /\ q.told = TRUE /\ q.lost = FALSE /\ q.step = 1
  BY AskedFacts
<1> HIDE DEF q
<1>3. q.done = {i \in 1 .. q.step - 1 : CallsOf(q.does)[i] = "write"}
  BY <1>2
<1>4. q.step \in 1 .. Len(CallsOf(q.does))
  <2>1. 1 \in 1 .. Len(CallsOf(name))
    BY <1>1
  <2>2. QED
    BY <1>2, <2>1, Zenon
<1>5. Working(q)
  BY <1>2, <1>3, <1>4, Zenon DEF Working
<1>6. Good(q)
  BY <1>2, <1>5, OneOfThree
<1>7. QED
  BY <1>6 DEF q

LEMMA ListsGood ==
  ASSUME NEW name \in Names, name = "getUnreadChats"
  PROVE  /\ Good([Asked(name) EXCEPT !.at = "lists"])
         /\ [Asked(name) EXCEPT !.at = "lists"].at = "lists"
         /\ [Asked(name) EXCEPT !.at = "lists"].shown = Nothing
<1> DEFINE q == Asked(name)
           a == [q EXCEPT !.at = "lists"]
<1>1. /\ q \in Requests /\ q.done = {} /\ q.does = name
      /\ q.shown = Nothing /\ q.told = TRUE /\ q.lost = FALSE
  BY AskedFacts
<1> HIDE DEF q
<1>2. /\ a \in Requests /\ a.at = "lists" /\ a.done = {} /\ a.does = name
      /\ a.shown = Nothing /\ a.told = TRUE /\ a.lost = FALSE
  BY <1>1 DEF Requests
<1> HIDE DEF a
<1>3. Good(a) /\ a.at = "lists" /\ a.shown = Nothing
  BY <1>2, OneOfThree DEF Waiting
<1>4. QED
  BY <1>3 DEF a, q

(* An answer with nothing written: a refusal, or what a listing gives. *)
LEMMA EmptyAnswerGood ==
  ASSUME NEW q \in Requests, NEW code \in Codes, q.done = {},
         code = 200 => q.does = "getUnreadChats"
  PROVE  Good(Answer(q, code))
<1>1. q.does \in Names
  BY DEF Requests
<1>2. code = 200 => ToWrite(q.does) = {}
  BY <1>1, CallFacts
<1> DEFINE a == Answer(q, code)
<1>3. a \in Requests /\ a.at = "answered" /\ a.code = code /\ a.done = {} /\ a.does = q.does
  BY AnswerFacts
<1> HIDE DEF a
<1>4. Truthful(a)
  BY <1>2, <1>3 DEF Truthful
<1>5. Good(a)
  BY <1>3, <1>4, OneOfThree
<1>6. QED
  BY <1>5 DEF a

(* The unread list is shown in an answer. *)
LEMMA ShownGood ==
  ASSUME NEW q \in Requests, q.done = {}, q.does = "getUnreadChats", NEW v \in Int
  PROVE  /\ Good([Answer(q, 200) EXCEPT !.shown = v])
         /\ [Answer(q, 200) EXCEPT !.shown = v].shown = v
         /\ [Answer(q, 200) EXCEPT !.shown = v].at = "answered"
<1> DEFINE a == Answer(q, 200)
           b == [a EXCEPT !.shown = v]
<1>1. a \in Requests /\ a.at = "answered" /\ a.done = {} /\ a.does = q.does /\ a.code = 200
  BY AnswerFacts DEF Codes
<1> HIDE DEF a
<1>2. b \in Requests /\ b.at = "answered" /\ b.done = {} /\ b.does = q.does /\ b.code = 200
      /\ b.shown = v
  BY <1>1 DEF Requests
<1>3. q.does \in Names
  BY DEF Requests
<1>4. ToWrite(q.does) = {}
  BY <1>3, CallFacts
<1> HIDE DEF b
<1>5. Good(b) /\ b.shown = v /\ b.at = "answered"
  BY <1>2, <1>4 DEF Good, Working, Waiting, Truthful
<1>6. QED
  BY <1>5 DEF a, b

(* Calls that came through: what is written are those up to the one at hand. *)
LEMMA ThroughFacts ==
  ASSUME NEW q \in Requests, Working(q), q.at = "calls"
  PROVE  /\ Through(q) \in Requests
         /\ Through(q).done = {i \in 1 .. q.step : CallsOf(q.does)[i] = "write"}
         /\ Through(q).does = q.does /\ Through(q).step = q.step /\ Through(q).at = q.at
         /\ Through(q).told = q.told /\ Through(q).lost = q.lost /\ Through(q).shown = q.shown
<1>1. q.step \in Nat \ {0} /\ q.done \in SUBSET Nat
      /\ q.done = {i \in 1 .. q.step - 1 : CallsOf(q.does)[i] = "write"}
  BY DEF Working, Requests
<1>2. CASE Called(q) = "write"
  <2>1. Through(q) = [q EXCEPT !.done = q.done \cup {q.step}]
    BY <1>2 DEF Through
  <2>2. q.done \cup {q.step} = {i \in 1 .. q.step : CallsOf(q.does)[i] = "write"}
    BY <1>1, <1>2 DEF Called
  <2>3. q.done \cup {q.step} \in SUBSET Nat
    BY <1>1
  <2>4. QED
    BY <2>1, <2>2, <2>3 DEF Requests
<1>3. CASE Called(q) # "write"
  <2>1. Through(q) = q
    BY <1>3 DEF Through
  <2>2. q.done = {i \in 1 .. q.step : CallsOf(q.does)[i] = "write"}
    BY <1>1, <1>3 DEF Called
  <2>3. QED
    BY <2>1, <2>2
<1>4. QED
  BY <1>2, <1>3

LEMMA CallOkGood ==
  ASSUME NEW q \in Requests, Working(q), q.at = "calls"
  PROVE  LET t == Through(q)
             a == IF t.step = Len(CallsOf(t.does)) THEN Answer(t, 200)
                  ELSE [t EXCEPT !.step = @ + 1]
         IN Good(a) /\ a.at # "lists" /\ a.shown = Nothing
<1> DEFINE t == Through(q)
           a == IF t.step = Len(CallsOf(t.does)) THEN Answer(t, 200)
                ELSE [t EXCEPT !.step = @ + 1]
<1>1. /\ t \in Requests /\ t.done = {i \in 1 .. q.step : CallsOf(q.does)[i] = "write"}
      /\ t.does = q.does /\ t.step = q.step /\ t.at = "calls"
      /\ t.told = TRUE /\ t.lost = FALSE /\ t.shown = Nothing
  BY ThroughFacts DEF Working
<1>2. /\ q.step \in 1 .. Len(CallsOf(q.does)) /\ q.does # "getUnreadChats" /\ q.does \in Names
      /\ Len(CallsOf(q.does)) \in 1 .. 2
  BY CallFacts DEF Working, Requests
<1> HIDE DEF t
<1>3. CASE t.step = Len(CallsOf(t.does))
  <2>1. a = Answer(t, 200) /\ 200 \in Codes
    BY <1>3 DEF Codes
  <2>2. t.done = ToWrite(q.does)
    BY <1>1, <1>3 DEF ToWrite
  <2> HIDE DEF a
  <2>3. /\ a \in Requests /\ a.at = "answered" /\ a.code = 200 /\ a.done = ToWrite(a.does)
        /\ a.shown = Nothing
    <3>1. /\ Answer(t, 200) \in Requests /\ Answer(t, 200).at = "answered"
          /\ Answer(t, 200).code = 200 /\ Answer(t, 200).done = t.done
          /\ Answer(t, 200).does = t.does /\ Answer(t, 200).shown = t.shown
      BY <1>1, <2>1, AnswerFacts
    <3>2. QED
      BY <1>1, <2>1, <2>2, <3>1
  <2>4. Truthful(a)
    BY <2>3 DEF Truthful
  <2>5. Good(a)
    BY <2>3, <2>4, OneOfThree
  <2>6. QED
    BY <2>3, <2>5 DEF t, a
<1>4. CASE t.step # Len(CallsOf(t.does))
  <2>1. a = [t EXCEPT !.step = t.step + 1]
    BY <1>4
  <2>2. t.step + 1 \in Nat /\ t.step + 1 \in 1 .. Len(CallsOf(q.does)) /\ t.step + 1 - 1 = q.step
    BY <1>1, <1>2, <1>4
  <2>3. /\ a \in Requests /\ a.at = "calls" /\ a.step = t.step + 1 /\ a.does = q.does
        /\ a.done = t.done /\ a.told = TRUE /\ a.lost = FALSE /\ a.shown = Nothing
    BY <1>1, <2>1, <2>2 DEF Requests
  <2> HIDE DEF a
  <2>4. QED
    BY <1>1, <1>2, <2>2, <2>3 DEF Good, Working, Waiting, Truthful, t, a
<1>5. QED
  BY <1>3, <1>4 DEF t
(* A call that failed, or whose answer was lost.                           *)
LEMMA FailedGood ==
  ASSUME NEW q \in Requests, q.at = "calls", q.does \in Names,
         q.step \in 1 .. Len(CallsOf(q.does)),
         \/ q.done = {i \in 1 .. q.step - 1 : CallsOf(q.does)[i] = "write"}
         \/ q.lost = TRUE /\ CallsOf(q.does)[q.step] = "write"
  PROVE  Good(Failed(q)) /\ Failed(q).at = "answered" /\ Failed(q).shown = q.shown
<1> DEFINE code == FailureCode(q.does)
           a == Answer(q, code)
           f == [a EXCEPT !.told = ~Swallows(q.does)]
<1>1. /\ code \in {200, 404, 500} /\ code \in Codes
      /\ code = 200 => Swallows(q.does) = TRUE
      /\ code = 404 => q.does = "downloadPeerPhoto"
  BY DEF FailureCode, Swallows, Codes
<1> HIDE DEF code
<1>2. /\ a \in Requests /\ a.at = "answered" /\ a.code = code /\ a.done = q.done
      /\ a.does = q.does /\ a.lost = q.lost /\ a.shown = q.shown
  BY <1>1, AnswerFacts
<1> HIDE DEF a
<1>3. Swallows(q.does) \in BOOLEAN
  BY DEF Swallows
<1>4. /\ f \in Requests /\ f.at = "answered" /\ f.code = code /\ f.done = q.done
      /\ f.does = q.does /\ f.lost = q.lost /\ f.shown = q.shown /\ f.told = ~Swallows(q.does)
  BY <1>2, <1>3 DEF Requests
<1> HIDE DEF f
<1>5. code = 404 => f.done = {}
  <2> SUFFICES ASSUME code = 404 PROVE f.done = {}
    OBVIOUS
  <2>1. ToWrite(q.does) = {}
    BY <1>1, CallFacts
  <2>2. \A i \in 1 .. Len(CallsOf(q.does)) : CallsOf(q.does)[i] # "write"
    BY <2>1 DEF ToWrite
  <2>3. q.done = {i \in 1 .. q.step - 1 : CallsOf(q.does)[i] = "write"}
    BY <2>2
  <2>4. \A i \in 1 .. q.step - 1 : i \in 1 .. Len(CallsOf(q.does))
    BY CallFacts
  <2>5. QED
    BY <1>4, <2>2, <2>3, <2>4
<1>6. code = 500 => f.done = {} \/ f.lost \/ (f.does = "createManagedGroup" /\ f.done = {1})
  <2>1. CASE q.done = {i \in 1 .. q.step - 1 : CallsOf(q.does)[i] = "write"}
    <3>1. Len(CallsOf(q.does)) \in 1 .. 2
          /\ (Len(CallsOf(q.does)) = 2 /\ CallsOf(q.does)[1] = "write"
                => q.does = "createManagedGroup")
      BY CallFacts
    <3>2. CASE q.step = 1
      BY <1>4, <2>1, <3>2
    <3>3. CASE q.step = 2
      <4>1. q.step - 1 = 1 /\ Len(CallsOf(q.does)) = 2
        BY <3>1, <3>3
      <4>2. q.done = {i \in 1 .. 1 : CallsOf(q.does)[i] = "write"}
        BY <2>1, <4>1
      <4>3. CASE CallsOf(q.does)[1] = "write"
        BY <1>4, <3>1, <4>1, <4>2, <4>3
      <4>4. CASE CallsOf(q.does)[1] # "write"
        BY <1>4, <4>2, <4>4
      <4>5. QED
        BY <4>3, <4>4
    <3>4. QED
      BY <3>1, <3>2, <3>3
  <2>2. CASE q.lost = TRUE
    BY <1>4, <2>2
  <2>3. QED
    BY <2>1, <2>2
<1>7. code = 200 => ~f.told
  BY <1>1, <1>4, Zenon
<1>8. Truthful(f)
  <2>1. f.code = 200 => f.done = ToWrite(f.does) \/ ~f.told
    BY <1>4, <1>7, Zenon
  <2>2. f.code \in {400, 401, 404, 503} => f.done = {}
    BY <1>1, <1>4, <1>5
  <2>3. f.code = 500 => f.done = {} \/ f.lost \/ (f.does = "createManagedGroup" /\ f.done = {1})
    BY <1>4, <1>6, Zenon
  <2>4. QED
    BY <2>1, <2>2, <2>3, Zenon DEF Truthful
<1>9. Good(f)
  BY <1>4, <1>8, OneOfThree
<1>10. QED
  BY <1>4, <1>9 DEF f, a, code, Failed

LEMMA LostGood ==
  ASSUME NEW q \in Requests, Working(q), q.at = "calls", Called(q) = "write"
  PROVE  LET f == Failed([Through(q) EXCEPT !.lost = TRUE])
         IN Good(f) /\ f.at = "answered" /\ f.shown = Nothing
<1> DEFINE t == Through(q)
           l == [t EXCEPT !.lost = TRUE]
<1>1. /\ t \in Requests /\ t.does = q.does /\ t.step = q.step /\ t.at = "calls"
      /\ t.shown = Nothing
  BY ThroughFacts DEF Working
<1> HIDE DEF t
<1>2. /\ l \in Requests /\ l.does = q.does /\ l.step = q.step /\ l.at = "calls"
      /\ l.shown = Nothing /\ l.lost = TRUE
  BY <1>1 DEF Requests
<1>3. q.does \in Names /\ q.step \in 1 .. Len(CallsOf(q.does))
      /\ CallsOf(q.does)[q.step] = "write"
  BY DEF Working, Requests, Called
<1> HIDE DEF l
<1>4. Good(Failed(l)) /\ Failed(l).at = "answered" /\ Failed(l).shown = l.shown
  BY <1>2, <1>3, FailedGood
<1>5. QED
  BY <1>2, <1>4 DEF l, t

LEMMA MissingGood ==
  ASSUME NEW q \in Requests, Working(q), q.at = "calls", MayBeMissing(q.does)
  PROVE  Good(Answer(q, 404)) /\ Answer(q, 404).at = "answered" /\ Answer(q, 404).shown = Nothing
<1>1. q.does \in Names /\ ToWrite(q.does) = {} /\ Len(CallsOf(q.does)) \in 1 .. 2
  BY CallFacts DEF MayBeMissing, Requests
<1>2. \A i \in 1 .. q.step - 1 : i \in 1 .. Len(CallsOf(q.does))
  BY <1>1 DEF Working
<1>3. q.done = {}
  BY <1>1, <1>2 DEF Working, ToWrite
<1>4. 404 \in Codes /\ q.shown = Nothing
  BY DEF Codes, Working
<1>5. QED
  BY <1>3, <1>4, EmptyAnswerGood, AnswerFacts
(***************************************************************************)
(* TelegramApi: every request, the listing and the cache.                  *)
(***************************************************************************)
CacheTypes ==
  /\ client \in {"starting", "up", "closing", "destroyed"} /\ unread \in 0 .. MaxUnread
  /\ cache \in [value : Int, fresh : BOOLEAN] /\ cache.value \in Nothing .. unread
  /\ listing \in [by : Callers \cup {Nothing}, from : Int] /\ listing.from \in Nothing .. unread

(* What is shown is no newer than what is cached; until then, nothing is. *)
Shows(q, v) == /\ q.at = "answered" => q.shown <= v
               /\ q.at \in {"calls", "lists"} => q.shown = Nothing

ListingInv ==
  /\ UnderWay => /\ listing.by \in Callers /\ request[listing.by].at = "lists"
                 /\ cache.value <= listing.from
  /\ \A c \in Callers : request[c].at = "lists" => UnderWay

ApiIInv ==
  /\ CacheTypes /\ ListingInv
  /\ request \in [Callers -> Requests \cup {Free}]
  /\ \A c \in Callers : Good(request[c]) /\ Shows(request[c], cache.value)

LEMMA FreeFacts == Free.at = "free" /\ Good(Free) /\ \A v : Shows(Free, v)
BY DEF Free, Good, Shows

LEMMA GoodIsRequest ==
  ASSUME NEW q, Good(q), q.at # "free"
  PROVE  q \in Requests /\ Working(q) /\ Waiting(q) /\ Truthful(q)
BY DEF Good, Free

(* One request moves that nobody lists for, and nothing else. *)
LEMMA OneMoves ==
  ASSUME ApiIInv, NEW c \in Callers, NEW q, request[c].at # "lists", Becomes(c, q),
         UNCHANGED <<client, cache, listing, unread>>,
         Good(q), q.at # "lists", Shows(q, cache.value)
  PROVE  ApiIInv'
<1>1. /\ request \in [Callers -> Requests \cup {Free}] /\ q \in Requests \cup {Free}
      /\ request' = [request EXCEPT ![c] = q]
  BY DEF ApiIInv, Good, Becomes
<1>2. /\ request' \in [Callers -> Requests \cup {Free}] /\ request'[c] = q
      /\ \A d \in Callers : d # c => request'[d] = request[d]
  BY <1>1
<1>3. CacheTypes'
  BY DEF ApiIInv, CacheTypes
<1>4. ListingInv'
  BY <1>2 DEF ApiIInv, ListingInv, UnderWay
<1>5. \A d \in Callers : Good(request'[d]) /\ Shows(request'[d], cache'.value)
  <2> SUFFICES ASSUME NEW d \in Callers PROVE Good(request'[d]) /\ Shows(request'[d], cache'.value)
    OBVIOUS
  <2>1. Good(request[d]) /\ Shows(request[d], cache.value) /\ cache' = cache
    BY DEF ApiIInv
  <2>2. CASE d = c
    BY <1>2, <2>1, <2>2
  <2>3. CASE d # c
    BY <1>2, <2>1, <2>3
  <2>4. QED
    BY <2>2, <2>3
<1>6. QED
  BY <1>2, <1>3, <1>4, <1>5 DEF ApiIInv

(* The request at hand, in a step of its calls. *)
LEMMA AtCalls ==
  ASSUME ApiIInv, NEW c \in Callers, request[c].at = "calls"
  PROVE  /\ request[c] \in Requests /\ Working(request[c]) /\ request[c].shown = Nothing
         /\ request[c].at # "lists"
BY GoodIsRequest DEF ApiIInv, Working

(* What shows nothing shows no more than is cached. *)
LEMMA ShowsNothing ==
  ASSUME CacheTypes, NEW q, q.shown = Nothing
  PROVE  Shows(q, cache.value)
BY DEF Shows, CacheTypes, Nothing

LEMMA RefusedStep ==
  ASSUME ApiIInv, NEW c \in Callers, NEW r \in Routes, Refused(c, r)
  PROVE  ApiIInv'
<1>1. PICK signed \in BOOLEAN, valid \in BOOLEAN :
        /\ Verdict(r, signed, valid) # 0
        /\ Becomes(c, Answer(Asked(r.does), Verdict(r, signed, valid)))
  BY DEF Refused
<1> DEFINE code == Verdict(r, signed, valid)
<1>2. code \in {400, 401, 500, 503}
  BY <1>1 DEF Verdict
<1> HIDE DEF code
<1>3. code \in Codes /\ code # 200
  BY <1>2 DEF Codes
<1>4. /\ Asked(r.does) \in Requests /\ Asked(r.does).done = {} /\ Asked(r.does).shown = Nothing
  BY AskedFacts, RoutesNamed
<1> DEFINE a == Answer(Asked(r.does), code)
<1>5. Good(a) /\ a.at = "answered" /\ a.shown = Nothing
  BY <1>3, <1>4, EmptyAnswerGood, AnswerFacts
<1>6. Becomes(c, a)
  BY <1>1 DEF code
<1> HIDE DEF a
<1>7. request[c].at # "lists" /\ UNCHANGED <<client, cache, listing, unread>>
  BY FreeFacts DEF Refused, AsksFor
<1>8. Shows(a, cache.value)
  BY <1>5, ShowsNothing DEF ApiIInv
<1>9. QED
  BY <1>5, <1>6, <1>7, <1>8, OneMoves

LEMMA BeginsStep ==
  ASSUME ApiIInv, NEW c \in Callers, NEW r \in Routes, Begins(c, r)
  PROVE  ApiIInv'
<1> DEFINE a == Asked(r.does)
<1>1. r.does \in Names /\ r.does # "getUnreadChats"
  BY RoutesNamed DEF Begins
<1>2. Good(a) /\ a.at = "calls" /\ a.shown = Nothing
  BY <1>1, AskedFacts, BeginsGood
<1>3. Becomes(c, a) /\ request[c].at # "lists" /\ UNCHANGED <<client, cache, listing, unread>>
  BY FreeFacts DEF Begins, AsksFor
<1> HIDE DEF a
<1>4. Shows(a, cache.value)
  BY <1>2, ShowsNothing DEF ApiIInv
<1>5. QED
  BY <1>2, <1>3, <1>4, OneMoves

LEMMA FromCacheStep ==
  ASSUME ApiIInv, NEW c \in Callers, NEW r \in Routes, FromCache(c, r)
  PROVE  ApiIInv'
<1> DEFINE q == Asked(r.does)
           a == [Answer(q, 200) EXCEPT !.shown = cache.value]
<1>1. r.does \in Names /\ r.does = "getUnreadChats"
  BY RoutesNamed DEF FromCache
<1>2. q \in Requests /\ q.done = {} /\ q.does = "getUnreadChats"
  BY <1>1, AskedFacts
<1>3. cache.value \in Int
  BY DEF ApiIInv, CacheTypes
<1>4. Becomes(c, a) /\ request[c].at # "lists" /\ UNCHANGED <<client, cache, listing, unread>>
  BY FreeFacts DEF FromCache, AsksFor
<1> HIDE DEF q
<1>5. Good(a) /\ a.at = "answered" /\ a.shown = cache.value
  BY <1>2, <1>3, ShownGood
<1> HIDE DEF a
<1>6. Shows(a, cache.value)
  BY <1>3, <1>5 DEF Shows
<1>7. QED
  BY <1>4, <1>5, <1>6, OneMoves

LEMMA ListsStep ==
  ASSUME ApiIInv, NEW c \in Callers, NEW r \in Routes, Lists(c, r)
  PROVE  ApiIInv'
<1> DEFINE a == [Asked(r.does) EXCEPT !.at = "lists"]
<1>1. r.does \in Names /\ r.does = "getUnreadChats"
  BY RoutesNamed DEF Lists
<1>2. Good(a) /\ a.at = "lists" /\ a.shown = Nothing
  BY <1>1, ListsGood
<1>3. /\ request' = [request EXCEPT ![c] = a] /\ UNCHANGED <<client, cache, unread>>
      /\ listing' = IF UnderWay THEN listing ELSE [by |-> c, from |-> unread]
  BY DEF Lists, Becomes
<1> HIDE DEF a
<1>4. a \in Requests
  BY <1>2 DEF Good, Free
<1>5. /\ request' \in [Callers -> Requests \cup {Free}] /\ request'[c] = a
      /\ \A d \in Callers : d # c => request'[d] = request[d]
  BY <1>3, <1>4 DEF ApiIInv
<1>6. /\ unread \in Nat /\ cache.value \in Int /\ cache.value <= unread
      /\ listing.from \in Int /\ unread <= MaxUnread
  BY ApiAssumption DEF ApiIInv, CacheTypes, Nothing
<1>7. CacheTypes'
  <2>1. CASE UnderWay
    BY <1>3, <2>1 DEF ApiIInv, CacheTypes
  <2>2. CASE ~UnderWay
    <3>1. listing' = [by |-> c, from |-> unread]
      BY <1>3, <2>2
    <3>2. listing' \in [by : Callers \cup {Nothing}, from : Int]
          /\ listing'.from \in Nothing .. unread
      BY <1>6, <3>1 DEF Nothing
    <3>3. QED
      BY <1>3, <3>2 DEF ApiIInv, CacheTypes
  <2>3. QED
    BY <2>1, <2>2
<1>8. ListingInv'
  <2>1. CASE UnderWay
    <3>1. listing' = listing
      BY <1>3, <2>1
    <3>2. request'[listing.by].at = "lists"
      BY <1>2, <1>5, <2>1 DEF ApiIInv, ListingInv
    <3>3. QED
      BY <1>3, <2>1, <3>1, <3>2 DEF ApiIInv, ListingInv, UnderWay
  <2>2. CASE ~UnderWay
    <3>1. listing'.by = c /\ listing'.from = unread /\ unread # Nothing
      BY <1>3, <1>6, <2>2 DEF Nothing
    <3>2. QED
      BY <1>2, <1>3, <1>5, <1>6, <3>1 DEF ListingInv, UnderWay
  <2>3. QED
    BY <2>1, <2>2
<1>9. Shows(a, cache.value)
  BY <1>2, ShowsNothing DEF ApiIInv
<1>10. ASSUME NEW d \in Callers PROVE Good(request'[d]) /\ Shows(request'[d], cache'.value)
  <2>1. Good(request[d]) /\ Shows(request[d], cache.value) /\ cache' = cache
    BY <1>3 DEF ApiIInv
  <2>2. CASE d = c
    BY <1>2, <1>5, <1>9, <2>1, <2>2
  <2>3. CASE d # c
    BY <1>5, <2>1, <2>3
  <2>4. QED
    BY <2>2, <2>3
<1>11. QED
  BY <1>5, <1>7, <1>8, <1>10 DEF ApiIInv

LEMMA CallsStep ==
  ASSUME ApiIInv, NEW c \in Callers,
         CallOk(c) \/ CallFails(c) \/ AnswerLost(c) \/ Missing(c) \/ Done(c)
  PROVE  ApiIInv'
<1>0. UNCHANGED <<client, cache, listing, unread>> /\ CacheTypes
  BY DEF CallOk, CallFails, AnswerLost, Missing, Done, ApiIInv
<1>1. ASSUME NEW a, Good(a), a.at # "lists", a.shown = Nothing, Becomes(c, a),
             request[c].at # "lists"
      PROVE  ApiIInv'
  <2>1. Shows(a, cache.value)
    BY <1>0, <1>1, ShowsNothing
  <2>2. QED
    BY <1>0, <1>1, <2>1, OneMoves
<1>2. CASE CallOk(c)
  <2> DEFINE t == Through(request[c])
             a == IF t.step = Len(CallsOf(t.does)) THEN Answer(t, 200)
                  ELSE [t EXCEPT !.step = @ + 1]
  <2>1. request[c].at = "calls" /\ Becomes(c, a)
    BY <1>2 DEF CallOk
  <2>2. request[c] \in Requests /\ Working(request[c]) /\ request[c].at # "lists"
    BY <2>1, AtCalls
  <2>3. Good(a) /\ a.at # "lists" /\ a.shown = Nothing
    BY <2>1, <2>2, CallOkGood
  <2> HIDE DEF a
  <2>4. QED
    BY <1>1, <2>1, <2>2, <2>3
<1>3. CASE CallFails(c)
  <2> DEFINE q == request[c]
             a == Failed(q)
  <2>1. q.at = "calls" /\ Becomes(c, a)
    BY <1>3 DEF CallFails
  <2>2. q \in Requests /\ Working(q) /\ q.shown = Nothing /\ q.at # "lists"
    BY <2>1, AtCalls
  <2>3. q.does \in Names /\ q.step \in 1 .. Len(CallsOf(q.does))
        /\ q.done = {i \in 1 .. q.step - 1 : CallsOf(q.does)[i] = "write"}
    BY <2>1, <2>2 DEF Working, Requests
  <2>4. Good(a) /\ a.at = "answered" /\ a.shown = Nothing
    BY <2>1, <2>2, <2>3, FailedGood
  <2> HIDE DEF a
  <2>5. QED
    BY <1>1, <2>1, <2>2, <2>4
<1>4. CASE AnswerLost(c)
  <2> DEFINE q == request[c]
             a == Failed([Through(q) EXCEPT !.lost = TRUE])
  <2>1. q.at = "calls" /\ Becomes(c, a) /\ Called(q) = "write"
    BY <1>4 DEF AnswerLost
  <2>2. q \in Requests /\ Working(q) /\ q.at # "lists"
    BY <2>1, AtCalls
  <2>3. Good(a) /\ a.at = "answered" /\ a.shown = Nothing
    BY <2>1, <2>2, LostGood
  <2> HIDE DEF a
  <2>4. QED
    BY <1>1, <2>1, <2>2, <2>3
<1>5. CASE Missing(c)
  <2> DEFINE q == request[c]
             a == Answer(q, 404)
  <2>1. q.at = "calls" /\ Becomes(c, a) /\ MayBeMissing(q.does)
    BY <1>5 DEF Missing
  <2>2. q \in Requests /\ Working(q) /\ q.at # "lists"
    BY <2>1, AtCalls
  <2>3. Good(a) /\ a.at = "answered" /\ a.shown = Nothing
    BY <2>1, <2>2, MissingGood
  <2> HIDE DEF a
  <2>4. QED
    BY <1>1, <2>1, <2>2, <2>3
<1>6. CASE Done(c)
  <2>1. request[c].at # "lists" /\ Becomes(c, Free)
    BY <1>6 DEF Done
  <2>2. QED
    BY <1>0, <2>1, FreeFacts, OneMoves
<1>7. QED
  BY <1>2, <1>3, <1>4, <1>5, <1>6

(* A listing ends: whoever waited for it is answered, with v or with what  *)
(* was cached, and nobody waits.                                           *)
LEMMA ListingEnds ==
  ASSUME ApiIInv, listing' = NoListing, UNCHANGED <<client, unread>>,
         cache' \in [value : Int, fresh : BOOLEAN], cache'.value \in cache.value .. unread,
         request' = [c \in DOMAIN request |-> request'[c]], DOMAIN request' = Callers,
         \A c \in Callers :
           IF request[c].at # "lists" THEN request'[c] = request[c]
           ELSE /\ Good(request'[c]) /\ request'[c].at = "answered"
                /\ request'[c].shown <= cache'.value
  PROVE  ApiIInv'
<1>1. \A c \in Callers : request'[c].at # "lists"
  OBVIOUS
<1>2. /\ unread \in Nat /\ cache.value \in Int /\ cache.value >= Nothing
      /\ cache'.value \in Int /\ cache.value <= cache'.value
  BY ApiAssumption DEF ApiIInv, CacheTypes, Nothing
<1>3. listing'.by = Nothing /\ listing'.from = Nothing /\ ~UnderWay'
      /\ listing' \in [by : Callers \cup {Nothing}, from : Int]
  BY DEF NoListing, UnderWay, Nothing
<1>4. CacheTypes'
  BY <1>2, <1>3 DEF ApiIInv, CacheTypes, Nothing
<1>5. ListingInv'
  BY <1>1, <1>3 DEF ListingInv
<1>6. ASSUME NEW c \in Callers PROVE Good(request'[c]) /\ Shows(request'[c], cache'.value)
  <2>1. CASE request[c].at # "lists"
    <3>1. request'[c] = request[c] /\ Good(request[c]) /\ Shows(request[c], cache.value)
      BY <2>1 DEF ApiIInv
    <3>2. request[c].at = "answered" => request[c].shown \in Int
      BY <3>1, GoodIsRequest DEF Requests
    <3>3. Shows(request[c], cache'.value)
      BY <1>2, <3>1, <3>2 DEF Shows
    <3>4. QED
      BY <3>1, <3>3
  <2>2. CASE request[c].at = "lists"
    BY <2>2 DEF Shows
  <2>3. QED
    BY <2>1, <2>2
<1>7. \A c \in Callers : request'[c] \in Requests \cup {Free}
  BY <1>6 DEF Good
<1>8. request' \in [Callers -> Requests \cup {Free}]
  BY <1>7 DEF ApiIInv
<1>9. QED
  BY <1>4, <1>5, <1>6, <1>8 DEF ApiIInv

LEMMA AtLists ==
  ASSUME ApiIInv, NEW c \in Callers, request[c].at = "lists"
  PROVE  /\ request[c] \in Requests /\ request[c].done = {}
         /\ request[c].does = "getUnreadChats" /\ request[c].shown = Nothing
BY GoodIsRequest DEF ApiIInv, Waiting

LEMMA ListEndsStep ==
  ASSUME ApiIInv, ListOk \/ ListFails
  PROVE  ApiIInv'
<1>1. /\ unread \in Nat /\ cache.value \in Nothing .. unread /\ cache.value \in Int
      /\ listing.from \in Int /\ DOMAIN request = Callers
  BY ApiAssumption DEF ApiIInv, CacheTypes, Nothing
<1>2. CASE ListOk
  <2>1. PICK v \in listing.from .. unread :
          /\ cache' = [value |-> v, fresh |-> TRUE]
          /\ request' = [c \in Callers |->
                           IF request[c].at = "lists"
                           THEN [Answer(request[c], 200) EXCEPT !.shown = v] ELSE request[c]]
    BY <1>2 DEF ListOk
  <2>2. listing' = NoListing /\ UNCHANGED <<client, unread>> /\ cache.value <= listing.from
    BY <1>2 DEF ListOk, ApiIInv, ListingInv
  <2>3. /\ cache' \in [value : Int, fresh : BOOLEAN] /\ cache'.value = v /\ v \in Int
        /\ v \in cache.value .. unread
    BY <1>1, <2>1, <2>2
  <2>4. ASSUME NEW c \in Callers, request[c].at = "lists"
        PROVE  /\ Good(request'[c]) /\ request'[c].at = "answered"
               /\ request'[c].shown = v
    <3>1. request'[c] = [Answer(request[c], 200) EXCEPT !.shown = v]
      BY <2>1, <2>4
    <3>2. request[c] \in Requests /\ request[c].done = {} /\ request[c].does = "getUnreadChats"
      BY <2>4, AtLists
    <3>3. QED
      BY <2>3, <3>1, <3>2, ShownGood
  <2>5. \A c \in Callers : request[c].at # "lists" => request'[c] = request[c]
    BY <2>1
  <2>6. DOMAIN request' = Callers /\ request' = [c \in DOMAIN request |-> request'[c]]
    BY <1>1, <2>1
  <2>7. v <= v
    BY <2>3
  <2>8. QED
    BY <2>2, <2>3, <2>4, <2>5, <2>6, <2>7, ListingEnds
<1>3. CASE ListFails
  <2>1. /\ listing' = NoListing /\ UNCHANGED <<client, cache, unread>>
        /\ request' = [c \in Callers |->
             IF request[c].at # "lists" THEN request[c]
             ELSE IF c = listing.by THEN Stale(request[c]) ELSE Answer(request[c], 500)]
    BY <1>3 DEF ListFails
  <2>2. ASSUME NEW c \in Callers, request[c].at = "lists"
        PROVE  /\ Good(request'[c]) /\ request'[c].at = "answered"
               /\ request'[c].shown <= cache.value
    <3>1. request'[c] \in {[Answer(request[c], 200) EXCEPT !.shown = cache.value],
                           Answer(request[c], 500)}
      BY <2>1, <2>2 DEF Stale
    <3>2. /\ request[c] \in Requests /\ request[c].done = {}
          /\ request[c].does = "getUnreadChats" /\ request[c].shown = Nothing
      BY <2>2, AtLists
    <3>3. CASE request'[c] = [Answer(request[c], 200) EXCEPT !.shown = cache.value]
      <4>1. Good(request'[c]) /\ request'[c].at = "answered" /\ request'[c].shown = cache.value
        BY <1>1, <3>2, <3>3, ShownGood
      <4>2. QED
        BY <1>1, <4>1
    <3>4. CASE request'[c] = Answer(request[c], 500)
      <4>1. 500 \in Codes
        BY DEF Codes
      <4>2. Good(request'[c]) /\ request'[c].at = "answered" /\ request'[c].shown = Nothing
        BY <3>2, <3>4, <4>1, EmptyAnswerGood, AnswerFacts
      <4>3. QED
        BY <1>1, <4>2 DEF Nothing
    <3>5. QED
      BY <3>1, <3>3, <3>4
  <2>3. \A c \in Callers : request[c].at # "lists" => request'[c] = request[c]
    BY <2>1
  <2>4. DOMAIN request' = Callers /\ request' = [c \in DOMAIN request |-> request'[c]]
    BY <1>1, <2>1
  <2>5. cache' \in [value : Int, fresh : BOOLEAN] /\ cache'.value \in cache.value .. unread
    BY <1>1, <2>1 DEF ApiIInv, CacheTypes
  <2>6. QED
    BY <2>1, <2>2, <2>3, <2>4, <2>5, ListingEnds
<1>4. QED
  BY <1>2, <1>3

(* The client, the clock, and what is unread. *)
LEMMA WorldStep ==
  ASSUME ApiIInv,
         SignsIn \/ Closes \/ Destroyed \/ CacheExpires \/ UnreadChanges \/ UNCHANGED apiVars
  PROVE  ApiIInv'
<1>1. /\ UNCHANGED <<request, listing>>
      /\ client' \in {client, "up", "closing", "destroyed"}
      /\ unread' = unread \/ (unread < MaxUnread /\ unread' = unread + 1)
      /\ cache' = cache \/ cache' = [cache EXCEPT !.fresh = FALSE]
  BY DEF SignsIn, Closes, Destroyed, CacheExpires, UnreadChanges, apiVars
<1>2. unread \in Nat /\ unread' \in Nat /\ unread' >= unread /\ unread' <= MaxUnread
  BY <1>1, ApiAssumption DEF ApiIInv, CacheTypes
<1>3. cache' \in [value : Int, fresh : BOOLEAN] /\ cache'.value = cache.value
  BY <1>1 DEF ApiIInv, CacheTypes
<1>4. CacheTypes'
  <2>1. client' \in {"starting", "up", "closing", "destroyed"} /\ unread' \in 0 .. MaxUnread
    BY <1>1, <1>2, ApiAssumption DEF ApiIInv, CacheTypes
  <2>2. cache'.value \in Nothing .. unread' /\ listing'.from \in Nothing .. unread'
    BY <1>1, <1>2, <1>3 DEF ApiIInv, CacheTypes, Nothing
  <2>3. QED
    BY <1>1, <1>3, <2>1, <2>2 DEF ApiIInv, CacheTypes
<1>5. ListingInv'
  BY <1>1, <1>3 DEF ApiIInv, ListingInv, UnderWay
<1>6. \A c \in Callers : Good(request'[c]) /\ Shows(request'[c], cache'.value)
  BY <1>1, <1>3 DEF ApiIInv
<1>7. request' \in [Callers -> Requests \cup {Free}]
  BY <1>1 DEF ApiIInv
<1>8. QED
  BY <1>4, <1>5, <1>6, <1>7 DEF ApiIInv

(* An answer says what was done, and a list of unread chats is never older *)
(* than one shown before: for every set of callers and of what each may    *)
(* ask for.                                                                *)
THEOREM ApiCorrect == ApiSpec => []TelegramApiInv
<1>1. ApiInit => ApiIInv
  <2> SUFFICES ASSUME ApiInit PROVE ApiIInv
    OBVIOUS
  <2>1. CacheTypes /\ ~UnderWay
    BY ApiAssumption DEF ApiInit, CacheTypes, UnderWay, NoListing, Nothing
  <2>2. \A c \in Callers : request[c] = Free
    BY DEF ApiInit
  <2>3. request \in [Callers -> Requests \cup {Free}]
    BY DEF ApiInit
  <2>4. QED
    BY <2>1, <2>2, <2>3, FreeFacts DEF ApiIInv, ListingInv
<1>2. ApiIInv /\ [ApiNext]_apiVars => ApiIInv'
  BY RefusedStep, BeginsStep, FromCacheStep, ListsStep, CallsStep, ListEndsStep, WorldStep
     DEF ApiNext
<1>3. ApiIInv => TelegramApiInv
  <2> SUFFICES ASSUME ApiIInv PROVE TelegramApiInv
    OBVIOUS
  <2>1. \A c \in Callers : request[c] \in Requests \/ request[c] = Free
    BY DEF ApiIInv
  <2>2. ApiTypeOK
    <3>1. \A c \in Callers : request[c].at \in {"free", "calls", "lists", "answered"}
      BY <2>1, FreeFacts DEF Requests
    <3>2. QED
      BY <3>1 DEF ApiIInv, CacheTypes, ListingInv, ApiTypeOK
  <2>3. CodeIsTrue
    <3> SUFFICES ASSUME NEW c \in Callers, Answered(c)
                 PROVE  Truthful(request[c]) /\ request[c].at = "answered"
      BY DEF CodeIsTrue, Truthful
    <3>1. QED
      BY GoodIsRequest DEF ApiIInv, Answered
  <2>4. NeverBack
    BY DEF ApiIInv, ListingInv, Shows, NeverBack, Answered
  <2>5. QED
    BY <2>2, <2>3, <2>4 DEF TelegramApiInv
<1>4. QED
  BY <1>1, <1>2, <1>3, PTL DEF ApiSpec

(***************************************************************************)
(* TelegramPool.  What the pool says of a sub is pieced together from a    *)
(* listing, a cache, two marks and a row, each written by flows and        *)
(* lookups that outlive the call they were made for.  It agrees because,   *)
(* as long as nothing came in between, one flow of the sub is under way at *)
(* most that can still change any of them, or only lookups that have read  *)
(* the one row.                                                            *)
(***************************************************************************)
\* A start that has given up its sub's place waits alone, in the minute no other may begin.
StartsWait ==
  /\ \A x \in Entries : live[x].step = "dropping" =>
       /\ SubOf(x) \in cooling /\ sessions[SubOf(x)] = None
       /\ \A y \in Entries : SubOf(y) = SubOf(x) /\ y # x => ~Waits(y)
  /\ \A x \in Entries : live[x].step = "evicting" /\ SubOf(x) \notin cooling =>
       sessions[SubOf(x)] = None

\* No lookup of the sub has read its row ...
Unloaded(s) == \A a \in Lookups : loads[a].sub = s => loads[a].step \notin Loaded

\* ... or what each has read is in the row, or was, and is of a dead session.
LoadsAlone(s) ==
  \A a \in Lookups : loads[a].sub = s =>
    /\ loads[a].step = "deleting" => loads[a].login \in dead
    /\ loads[a].step \in {"alive", "putting"} => loads[a].login = row[s]
    /\ loads[a].step \in {"loading", "deleting"} =>
         loads[a].login = row[s] \/ (row[s] = None /\ loads[a].login \in dead)

\* What the flow of an entry may count on, until something of its sub met it ...
FlowAlone(x) ==
  LET s == SubOf(x) IN
  /\ live[x].step = "putting" =>
       identities[s] = x /\ \A y \in Entries : SubOf(y) = s /\ ~Ended(y) => x <= y
  /\ live[x].step = "deleting" => identities[s] = None
  /\ live[x].step \in {"auth", "putting"} => s \notin expired
  /\ ~Ended(x) => Unloaded(s) /\ (row[s] \in {None, Old} \/ row[s] < x)

\* ... and what is known of the sub itself.
SubAlone(s) ==
  /\ LoadsAlone(s) /\ row[s] \in {None, Old} \cup Entries
  /\ identities[s] \notin {None, row[s]} =>
       failures > 0 \/ \E x \in Entries : SubOf(x) = s /\ live[x].step = "putting"
  /\ s \in expired /\ row[s] # None =>
       failures > 0 \/ \E x \in Entries : SubOf(x) = s /\ live[x].step = "deleting"

Apart(s) == SubAlone(s) /\ \A x \in Entries : SubOf(x) = s => FlowAlone(x)

\* Only an entry whose client is off has asked for more codes than its budget.
Budget == \A x \in Entries : live[x].client = "on" \/ Waits(x) => live[x].qrs <= MaxQr

\* An entry is listed under its own sub, past its start.
Placed ==
  /\ sessions \in [Subs -> 0..MaxStarts]
  /\ \A s \in Subs : sessions[s] # None =>
       sessions[s] \in Entries /\ SubOf(sessions[s]) = s /\ ~Waits(sessions[s])

\* The entries and their listing; what is kept of the subs; how these agree.
Standing ==
  /\ live \in Seq(EntryType) /\ Len(live) <= MaxStarts
  /\ Placed /\ WaiterIsLive /\ Budget /\ StartsWait /\ NoOrphan

Filed ==
  /\ expired \subseteq Subs /\ exhausted \subseteq Subs /\ cooling \subseteq Subs
  /\ idle \subseteq Entries /\ identities \in [Subs -> {None} \cup Logins]
  /\ loads \in [Lookups -> LoadType]
  /\ row \in [Subs -> {None} \cup Logins] /\ dead \subseteq Logins /\ met \subseteq Subs
  /\ failures \in 0..MaxFailures

Parted == \A s \in Subs \ met : Apart(s)

TgPoolIInv == Standing /\ Filed /\ Parted

-----------------------------------------------------------------------------
\* An entry stays as it is, but for its state and its sweep.
Alike(y) ==
  /\ live'[y].sub = live[y].sub /\ live'[y].step = live[y].step /\ live'[y].qrs = live[y].qrs
  /\ live'[y].client = live[y].client /\ live'[y].waiter = live[y].waiter

\* A step changes entry x, but not its sub, and leaves the others alike ...
Only(x) ==
  /\ live' \in [Entries -> EntryType]
  /\ \A y \in Entries : y # x => Alike(y)
  /\ live'[x].sub = live[x].sub

\* ... and takes it to a step and a client.
Turns(x, step, socket) ==
  /\ Only(x) /\ live'[x].step = step /\ live'[x].client = socket
  /\ live'[x].waiter => live'[x].client = "on"
  /\ socket = "on" \/ step \in {"evicting", "dropping"} => live'[x].qrs <= MaxQr

\* A start closes at most one entry, and leaves the rest of the others.
Follows(y, gone) ==
  /\ live'[y].sub = live[y].sub /\ live'[y].step = live[y].step /\ live'[y].qrs = live[y].qrs
  /\ \/ live'[y].client = live[y].client /\ live'[y].waiter = live[y].waiter /\ y # gone
     \/ live'[y].client = "off" /\ live'[y].waiter = FALSE

\* It adds an entry of sub s.
Adds(s, gone, step, socket) ==
  /\ Len(live) + 1 <= MaxStarts /\ live' \in [1 .. (Len(live) + 1) -> EntryType]
  /\ \A y \in Entries : Follows(y, gone)
  /\ live'[Len(live) + 1].sub = s /\ live'[Len(live) + 1].step = step
  /\ live'[Len(live) + 1].client = socket /\ live'[Len(live) + 1].waiter = FALSE
  /\ live'[Len(live) + 1].qrs = 0

LEMMA EntriesTyped ==
  ASSUME Standing
  PROVE  /\ Len(live) \in Nat /\ Len(live) <= MaxStarts /\ Entries = 1 .. Len(live)
         /\ live \in [Entries -> EntryType] /\ Entries \subseteq 1 .. MaxStarts
<1>1. live \in Seq(EntryType) /\ Len(live) <= MaxStarts
  BY DEF Standing
<1>2. Len(live) \in Nat /\ live \in [1 .. Len(live) -> EntryType]
  BY <1>1
<1> QED
  BY <1>1, <1>2, TelegramAssumption DEF Entries

LEMMA EntriesListed ==
  ASSUME NEW n \in Nat, n <= MaxStarts, live' \in [1 .. n -> EntryType]
  PROVE  live' \in Seq(EntryType) /\ Len(live') <= MaxStarts /\ Len(live') = n /\ Entries' = 1 .. n
<1>1. live' \in Seq(EntryType)
  BY SeqDef
<1>2. DOMAIN live' = 1 .. n
  OBVIOUS
<1>3. Len(live') = n
  BY <1>1, <1>2, LenProperties
<1> QED
  BY <1>1, <1>2, <1>3 DEF Entries

LEMMA FlowTurns ==
  ASSUME Standing, NEW x \in Entries
  PROVE  /\ Restarted(x) => Turns(x, "auth", "on")
         /\ AskPassword(x) => Turns(x, "auth", "on")
         /\ Authorized(x) => Turns(x, "putting", live[x].client)
         /\ RowPut(x) => Turns(x, "done", live[x].client)
         /\ FlowDies(x) => Turns(x, "deleting", "on")
<1>1. live \in [Entries -> EntryType] /\ live[x] \in EntryType
  BY EntriesTyped
<1>2. /\ live[x].waiter => live[x].client = "on"
      /\ live[x].client = "on" \/ live[x].step \in {"evicting", "dropping"} => live[x].qrs <= MaxQr
  BY DEF Standing, WaiterIsLive, Budget, Waits
<1>3. ASSUME Restarted(x) PROVE Turns(x, "auth", "on")
  <2>1. live' = [live EXCEPT ![x].step = "auth", ![x].client = "on", ![x].sweep = {}]
    BY <1>3 DEF Restarted, Begin
  <2>2. Only(x)
    BY <1>1, <2>1 DEF EntryType, Only, Alike
  <2>3. live'[x].waiter = live[x].waiter /\ live'[x].qrs = live[x].qrs
        /\ live'[x].step = "auth" /\ live'[x].client = "on"
    BY <1>1, <2>1 DEF EntryType
  <2> QED
    BY <1>2, <2>2, <2>3, <1>3 DEF Turns, Restarted
<1>4. ASSUME AskPassword(x) PROVE Turns(x, "auth", "on")
  <2>1. live' = [live EXCEPT ![x].state = "password", ![x].waiter = TRUE]
    BY <1>4 DEF AskPassword
  <2>2. Only(x)
    BY <1>1, <2>1 DEF EntryType, Only, Alike
  <2>3. live'[x].qrs = live[x].qrs /\ live'[x].step = live[x].step /\ live'[x].client = live[x].client
    BY <1>1, <2>1 DEF EntryType
  <2> QED
    BY <1>2, <2>2, <2>3, <1>4 DEF Turns, AskPassword
<1>5. ASSUME Authorized(x) PROVE Turns(x, "putting", live[x].client)
  <2>1. PICK st \in {live[x].state, "paired"} :
          live' = [live EXCEPT ![x].step = "putting", ![x].state = st]
    BY <1>5 DEF Authorized
  <2>2. Only(x)
    BY <1>1, <2>1 DEF EntryType, Only, Alike
  <2>3. live'[x].waiter = live[x].waiter /\ live'[x].qrs = live[x].qrs
        /\ live'[x].step = "putting" /\ live'[x].client = live[x].client
    BY <1>1, <2>1 DEF EntryType
  <2> QED
    BY <1>2, <2>2, <2>3 DEF Turns
<1>6. ASSUME RowPut(x) PROVE Turns(x, "done", live[x].client)
  <2>1. live' = [live EXCEPT ![x].step = "done"]
    BY <1>6 DEF RowPut
  <2>2. Only(x)
    BY <1>1, <2>1 DEF EntryType, Only, Alike
  <2>3. live'[x].waiter = live[x].waiter /\ live'[x].qrs = live[x].qrs
        /\ live'[x].step = "done" /\ live'[x].client = live[x].client
    BY <1>1, <2>1 DEF EntryType
  <2> QED
    BY <1>2, <2>2, <2>3 DEF Turns
<1>7. ASSUME FlowDies(x) PROVE Turns(x, "deleting", "on")
  <2>1. live' = [live EXCEPT ![x].step = "deleting", ![x].state = "expired"]
    BY <1>7 DEF FlowDies
  <2>2. Only(x)
    BY <1>1, <2>1 DEF EntryType, Only, Alike
  <2>3. live'[x].waiter = live[x].waiter /\ live'[x].qrs = live[x].qrs
        /\ live'[x].step = "deleting" /\ live'[x].client = live[x].client
    BY <1>1, <2>1 DEF EntryType
  <2> QED
    BY <1>2, <2>2, <2>3, <1>7 DEF Turns, FlowDies
<1> QED
  BY <1>3, <1>4, <1>5, <1>6, <1>7

LEMMA DropTurns ==
  ASSUME Standing, NEW x \in Entries
  PROVE  /\ live' = Dropped(x) => Turns(x, live[x].step, "off")
         /\ live' = [Dropped(x) EXCEPT ![x].step = "done"] => Turns(x, "done", "off")
<1>1. live \in [Entries -> EntryType] /\ live[x] \in EntryType
  BY EntriesTyped
<1>2. /\ live[x].waiter => live[x].client = "on"
      /\ live[x].client = "on" \/ live[x].step \in {"evicting", "dropping"} => live[x].qrs <= MaxQr
  BY DEF Standing, WaiterIsLive, Budget, Waits
<1>3. ASSUME live' = Dropped(x) PROVE Turns(x, live[x].step, "off")
  <2>1. live' = [live EXCEPT ![x].client = "off", ![x].waiter = FALSE]
    BY <1>3 DEF Dropped
  <2>2. Only(x)
    BY <1>1, <2>1 DEF EntryType, Only, Alike
  <2>3. live'[x].waiter = FALSE /\ live'[x].qrs = live[x].qrs
        /\ live'[x].step = live[x].step /\ live'[x].client = "off"
    BY <1>1, <2>1 DEF EntryType
  <2> QED
    BY <1>2, <2>2, <2>3 DEF Turns
<1>4. ASSUME live' = [Dropped(x) EXCEPT ![x].step = "done"] PROVE Turns(x, "done", "off")
  <2>1. live' = [live EXCEPT ![x].client = "off", ![x].waiter = FALSE, ![x].step = "done"]
    BY <1>4 DEF Dropped
  <2>2. Only(x)
    BY <1>1, <2>1 DEF EntryType, Only, Alike
  <2>3. live'[x].waiter = FALSE /\ live'[x].qrs = live[x].qrs
        /\ live'[x].step = "done" /\ live'[x].client = "off"
    BY <1>1, <2>1 DEF EntryType
  <2> QED
    BY <1>2, <2>2, <2>3 DEF Turns
<1> QED
  BY <1>3, <1>4

LEMMA SweepTurns ==
  ASSUME Standing, idle \subseteq Entries, NEW x \in Entries, Sweeps(x)
  PROVE  \E y \in Entries : /\ Turns(y, live[y].step, "off")
                            /\ sessions' = Unlisted(y) /\ idle' = idle \ {y}
<1>1. live \in [Entries -> EntryType] /\ live[x] \in EntryType
  BY EntriesTyped
<1>2. PICK y \in idle : /\ live' = [Dropped(y) EXCEPT ![x].sweep = @ \ {y}]
                        /\ sessions' = Unlisted(y) /\ idle' = idle \ {y}
  BY DEF Sweeps
<1> DEFINE old == Dropped(y)
<1>3. y \in Entries /\ live[y] \in EntryType
  BY <1>1
<1>4. old = [live EXCEPT ![y].client = "off", ![y].waiter = FALSE]
  BY DEF Dropped
<1>5. live' = [old EXCEPT ![x].sweep = @ \ {y}]
  BY <1>2
<1> HIDE DEF old
<1>6. old \in [Entries -> EntryType] /\ \A z \in Entries : z # y => old[z] = live[z]
  BY <1>1, <1>3, <1>4 DEF EntryType
<1>7. /\ old[y].sub = live[y].sub /\ old[y].step = live[y].step /\ old[y].qrs = live[y].qrs
      /\ old[y].client = "off" /\ old[y].waiter = FALSE
  BY <1>1, <1>3, <1>4 DEF EntryType
<1>8. old[x] \in EntryType /\ old[x].sweep \ {y} \in SUBSET (1 .. MaxStarts)
  BY <1>6 DEF EntryType
<1>9. live' \in [Entries -> EntryType]
  BY <1>5, <1>6, <1>8 DEF EntryType
<1>10. ASSUME NEW z \in Entries
       PROVE  /\ live'[z].sub = old[z].sub /\ live'[z].step = old[z].step
              /\ live'[z].qrs = old[z].qrs /\ live'[z].client = old[z].client
              /\ live'[z].waiter = old[z].waiter
  BY <1>5, <1>6, <1>8 DEF EntryType
<1>11. \A z \in Entries : z # y => Alike(z)
  BY <1>6, <1>10 DEF Alike
<1>12. live[y].client = "on" \/ live[y].step \in {"evicting", "dropping"} => live[y].qrs <= MaxQr
  BY <1>3 DEF Standing, Budget, Waits
<1>13. Turns(y, live[y].step, "off")
  BY <1>3, <1>7, <1>9, <1>10, <1>11, <1>12 DEF Turns, Only
<1> QED
  BY <1>2, <1>3, <1>13

LEMMA QrTurns ==
  ASSUME Standing, NEW x \in Entries, Qr(x)
  PROVE  \/ Turns(x, "auth", "on") /\ UNCHANGED <<sessions, idle>>
         \/ Turns(x, "auth", "off") /\ sessions' = Unlisted(x) /\ idle' = idle \ {x}
<1>1. live \in [Entries -> EntryType] /\ live[x] \in EntryType
  BY EntriesTyped
<1>2. live[x].client = "on" /\ live[x].step = "auth" /\ live[x].waiter = FALSE
  BY <1>1 DEF Qr, EntryType
<1>3. live[x].qrs \in Nat /\ live[x].qrs <= MaxQr /\ MaxQr \in Nat
  BY <1>1, <1>2, TelegramAssumption DEF Standing, Budget, EntryType
<1>4. live[x].qrs + 1 \in 0 .. (MaxQr + 1)
  BY <1>3
<1>5. CASE ~QrSpent(x)
  <2>1. live' = [live EXCEPT ![x].qrs = @ + 1, ![x].state = "qr"] /\ UNCHANGED <<sessions, idle>>
    BY <1>5 DEF Qr
  <2>2. live[x].qrs + 1 <= MaxQr
    BY <1>3, <1>5 DEF QrSpent
  <2>3. Only(x)
    BY <1>1, <1>4, <2>1 DEF EntryType, Only, Alike
  <2>4. live'[x].qrs = live[x].qrs + 1 /\ live'[x].waiter = live[x].waiter
        /\ live'[x].step = live[x].step /\ live'[x].client = live[x].client
    BY <1>1, <2>1 DEF EntryType
  <2> QED
    BY <1>2, <2>1, <2>2, <2>3, <2>4 DEF Turns
<1>6. CASE QrSpent(x)
  <2>1. /\ live' = [live EXCEPT ![x].client = "off", ![x].waiter = FALSE, ![x].qrs = @ + 1]
        /\ sessions' = Unlisted(x) /\ idle' = idle \ {x}
    BY <1>6 DEF Qr, Dropped
  <2>2. Only(x)
    BY <1>1, <1>4, <2>1 DEF EntryType, Only, Alike
  <2>3. live'[x].waiter = FALSE /\ live'[x].step = live[x].step /\ live'[x].client = "off"
    BY <1>1, <2>1 DEF EntryType
  <2> QED
    BY <1>2, <2>1, <2>2, <2>3 DEF Turns
<1> QED
  BY <1>5, <1>6

LEMMA EvictedTurns ==
  ASSUME Standing, NEW x \in Entries, Evicted(x)
  PROVE  \/ Turns(x, "done", live[x].client) /\ UNCHANGED <<sessions, expired, exhausted, cooling, met>>
         \/ /\ Turns(x, "auth", "on") /\ sessions' = [sessions EXCEPT ![SubOf(x)] = x]
            /\ expired' = expired \ {SubOf(x)} /\ exhausted' = exhausted \ {SubOf(x)}
            /\ cooling' = cooling \cup {SubOf(x)}
            /\ MeetsIf(SubOf(x), sessions[SubOf(x)] # None)
<1>1. live \in [Entries -> EntryType] /\ live[x] \in EntryType
  BY EntriesTyped
<1>2. /\ live[x].waiter => live[x].client = "on"
      /\ live[x].client = "on" \/ live[x].step \in {"evicting", "dropping"} => live[x].qrs <= MaxQr
  BY DEF Standing, WaiterIsLive, Budget, Waits
<1>3. CASE Size >= MaxSessions
  <2>1. /\ live' = [live EXCEPT ![x].step = "done", ![x].sweep = {}]
        /\ UNCHANGED <<sessions, expired, exhausted, cooling, met>>
    BY <1>3 DEF Evicted, marks
  <2>2. Only(x)
    BY <1>1, <2>1 DEF EntryType, Only, Alike
  <2>3. live'[x].waiter = live[x].waiter /\ live'[x].qrs = live[x].qrs
        /\ live'[x].step = "done" /\ live'[x].client = live[x].client
    BY <1>1, <2>1 DEF EntryType
  <2> QED
    BY <1>2, <2>1, <2>2, <2>3 DEF Turns
<1>4. CASE ~(Size >= MaxSessions)
  <2>1. /\ live' = [live EXCEPT ![x].step = "auth", ![x].client = "on", ![x].sweep = {}]
        /\ sessions' = [sessions EXCEPT ![SubOf(x)] = x]
        /\ expired' = expired \ {SubOf(x)} /\ exhausted' = exhausted \ {SubOf(x)}
        /\ cooling' = cooling \cup {SubOf(x)}
        /\ MeetsIf(SubOf(x), sessions[SubOf(x)] # None)
    BY <1>4 DEF Evicted, Begin, SubOf
  <2>2. Only(x)
    BY <1>1, <2>1 DEF EntryType, Only, Alike
  <2>3. live'[x].waiter = live[x].waiter /\ live'[x].qrs = live[x].qrs
        /\ live'[x].step = "auth" /\ live'[x].client = "on"
    BY <1>1, <2>1 DEF EntryType
  <2>4. live[x].qrs <= MaxQr
    BY <1>2 DEF Evicted
  <2> QED
    BY <1>2, <2>1, <2>2, <2>3, <2>4 DEF Turns
<1> QED
  BY <1>3, <1>4

-----------------------------------------------------------------------------
\* A start that makes an entry.
LEMMA EntryAdded ==
  ASSUME Standing, Len(live) < MaxStarts, NEW old, NEW e \in EntryType,
         old \in [Entries -> EntryType], live' = Append(old, e)
  PROVE  /\ Len(live) + 1 \in Nat /\ Len(live) + 1 <= MaxStarts
         /\ live' \in [1 .. (Len(live) + 1) -> EntryType]
         /\ live'[Len(live) + 1] = e /\ \A y \in Entries : live'[y] = old[y]
<1>1. Len(live) \in Nat /\ Entries = 1 .. Len(live) /\ MaxStarts \in Nat
  BY EntriesTyped, TelegramAssumption
<1>2. old \in Seq(EntryType) /\ DOMAIN old = 1 .. Len(live)
  BY <1>1, SeqDef
<1>3. Len(old) = Len(live)
  BY <1>1, <1>2, LenProperties
<1>4. /\ Append(old, e) \in Seq(EntryType) /\ Len(Append(old, e)) = Len(live) + 1
      /\ Append(old, e)[Len(live) + 1] = e
      /\ \A y \in 1 .. Len(live) : Append(old, e)[y] = old[y]
  BY <1>2, <1>3, AppendProperties
<1>5. live' \in [1 .. (Len(live) + 1) -> EntryType]
  BY <1>4, LenProperties
<1>6. Len(live) + 1 \in Nat /\ Len(live) + 1 <= MaxStarts
  BY <1>1
<1> QED
  BY <1>1, <1>4, <1>5, <1>6

LEMMA NewEntryTyped ==
  ASSUME NEW s \in Subs, NEW step \in {"evicting", "dropping", "auth"}
  PROVE  /\ NewEntry(s, step) \in EntryType
         /\ NewEntry(s, step).sub = s /\ NewEntry(s, step).step = step
         /\ NewEntry(s, step).client = "off" /\ NewEntry(s, step).waiter = FALSE
         /\ NewEntry(s, step).qrs = 0
BY TelegramAssumption DEF NewEntry, EntryType

LEMMA StartOverAdds ==
  ASSUME Standing, NEW s \in Subs, StartOver(s)
  PROVE  Adds(s, sessions[s], "dropping", "off")
<1> DEFINE z == sessions[s]
           old == Dropped(z)
<1>1. live \in [Entries -> EntryType] /\ Len(live) < MaxStarts /\ Len(live) + 1 <= MaxStarts
  BY EntriesTyped, TelegramAssumption DEF StartOver, Makes
<1>2. z \in Entries /\ live[z] \in EntryType
  BY <1>1 DEF StartOver, Standing, Placed
<1>3. live' = Append(old, NewEntry(s, "dropping"))
  BY DEF StartOver
<1>4. old = [live EXCEPT ![z].client = "off", ![z].waiter = FALSE]
  BY DEF Dropped
<1> HIDE DEF old
<1>5. old \in [Entries -> EntryType] /\ \A y \in Entries : y # z => old[y] = live[y]
  BY <1>1, <1>2, <1>4 DEF EntryType
<1>6. /\ old[z].sub = live[z].sub /\ old[z].step = live[z].step /\ old[z].qrs = live[z].qrs
      /\ old[z].client = "off" /\ old[z].waiter = FALSE
  BY <1>1, <1>2, <1>4 DEF EntryType
<1> HIDE DEF z
<1>e. /\ NewEntry(s, "dropping") \in EntryType
      /\ NewEntry(s, "dropping").sub = s /\ NewEntry(s, "dropping").step = "dropping"
      /\ NewEntry(s, "dropping").client = "off" /\ NewEntry(s, "dropping").waiter = FALSE
      /\ NewEntry(s, "dropping").qrs = 0
  BY NewEntryTyped
<1>f. /\ Len(live) + 1 \in Nat /\ live' \in [1 .. (Len(live) + 1) -> EntryType]
      /\ live'[Len(live) + 1] = NewEntry(s, "dropping")
      /\ \A y \in Entries : live'[y] = old[y]
  BY <1>1, <1>3, <1>5, <1>e, EntryAdded
<1>7. \A y \in Entries : live'[y] = old[y]
  BY <1>f
<1>8. /\ Len(live) + 1 \in Nat /\ live' \in [1 .. (Len(live) + 1) -> EntryType]
      /\ live'[Len(live) + 1] = NewEntry(s, "dropping")
  BY <1>f
<1>9. \A y \in Entries : y # z => live'[y] = live[y]
  BY <1>5, <1>7
<1>10. live'[z].sub = live[z].sub /\ live'[z].step = live[z].step /\ live'[z].qrs = live[z].qrs
       /\ live'[z].client = "off" /\ live'[z].waiter = FALSE
  BY <1>2, <1>6, <1>7
<1>11. ASSUME NEW y \in Entries PROVE Follows(y, sessions[s])
  <2>1. CASE y = z
    BY <1>10, <2>1 DEF Follows
  <2>2. CASE y # z
    BY <1>9, <2>2 DEF Follows, z
  <2> QED
    BY <2>1, <2>2
<1>12. /\ live'[Len(live) + 1].sub = s /\ live'[Len(live) + 1].step = "dropping"
       /\ live'[Len(live) + 1].client = "off" /\ live'[Len(live) + 1].waiter = FALSE
       /\ live'[Len(live) + 1].qrs = 0
  BY <1>8, <1>e
<1> QED
  BY <1>1, <1>8, <1>11, <1>12 DEF Adds

LEMMA StartEvictsAdds ==
  ASSUME Standing, idle \subseteq Entries, NEW s \in Subs, StartEvicts(s)
  PROVE  \E y \in Entries : Adds(s, y, "evicting", "off") /\ Current(y) /\ sessions' = Unlisted(y)
<1> DEFINE sweep == {x \in idle : Current(x)}
           new == NewEntry(s, "evicting")
<1>1. PICK y \in idle : /\ Current(y) /\ sessions' = Unlisted(y)
                        /\ live' = Append(Dropped(y), [new EXCEPT !.sweep = sweep \ {y}])
  BY DEF StartEvicts
<1> DEFINE old == Dropped(y)
           e == [new EXCEPT !.sweep = sweep \ {y}]
<1>2. /\ live \in [Entries -> EntryType] /\ Len(live) < MaxStarts /\ Len(live) + 1 <= MaxStarts
      /\ Entries \subseteq 1 .. MaxStarts /\ y \in Entries
  BY EntriesTyped, TelegramAssumption DEF StartEvicts, Makes
<1>3. sweep \ {y} \in SUBSET (1 .. MaxStarts)
  BY <1>2
<1> HIDE DEF sweep
<1>4. /\ new \in EntryType /\ new.sub = s /\ new.step = "evicting" /\ new.client = "off"
      /\ new.waiter = FALSE /\ new.qrs = 0
  BY NewEntryTyped
<1> HIDE DEF new
<1>5. /\ e \in EntryType /\ e.sub = new.sub /\ e.step = new.step /\ e.client = new.client
      /\ e.waiter = new.waiter /\ e.qrs = new.qrs
  BY <1>3, <1>4 DEF EntryType
<1>6. live' = Append(old, e)
  BY <1>1
<1> HIDE DEF e
<1>7. live[y] \in EntryType /\ old = [live EXCEPT ![y].client = "off", ![y].waiter = FALSE]
  BY <1>2 DEF Dropped
<1> HIDE DEF old
<1>8. old \in [Entries -> EntryType] /\ \A z \in Entries : z # y => old[z] = live[z]
  BY <1>2, <1>7 DEF EntryType
<1>9. /\ old[y].sub = live[y].sub /\ old[y].step = live[y].step /\ old[y].qrs = live[y].qrs
      /\ old[y].client = "off" /\ old[y].waiter = FALSE
  BY <1>2, <1>7 DEF EntryType
<1>10. /\ live' \in [1 .. (Len(live) + 1) -> EntryType] /\ live'[Len(live) + 1] = e
       /\ \A z \in Entries : live'[z] = old[z]
  BY <1>2, <1>5, <1>6, <1>8, EntryAdded
<1>11. ASSUME NEW z \in Entries PROVE Follows(z, y)
  <2>1. CASE z = y
    BY <1>9, <1>10, <2>1 DEF Follows
  <2>2. CASE z # y
    BY <1>8, <1>10, <2>2 DEF Follows
  <2> QED
    BY <2>1, <2>2
<1>12. /\ live'[Len(live) + 1].sub = s /\ live'[Len(live) + 1].step = "evicting"
       /\ live'[Len(live) + 1].client = "off" /\ live'[Len(live) + 1].waiter = FALSE
       /\ live'[Len(live) + 1].qrs = 0
  BY <1>4, <1>5, <1>10
<1>13. Adds(s, y, "evicting", "off")
  BY <1>2, <1>10, <1>11, <1>12 DEF Adds
<1> QED
  BY <1>1, <1>2, <1>13

LEMMA StartFreshAdds ==
  ASSUME Standing, NEW s \in Subs, StartFresh(s)
  PROVE  /\ Adds(s, sessions[s], "auth", "on") /\ sessions' = [sessions EXCEPT ![s] = Len(live) + 1]
         /\ expired' = expired \ {s} /\ exhausted' = exhausted \ {s}
<1> DEFINE n == Len(live) + 1
           new == NewEntry(s, "auth")
           entries == Append(live, new)
           e == [new EXCEPT !.step = "auth", !.client = "on", !.sweep = {}]
<1>1. /\ live \in [Entries -> EntryType] /\ Len(live) \in Nat /\ Len(live) < MaxStarts
      /\ n <= MaxStarts /\ Entries = 1 .. Len(live)
  BY EntriesTyped, TelegramAssumption DEF StartFresh, Makes
<1>2. /\ new \in EntryType /\ new.sub = s /\ new.step = "auth" /\ new.client = "off"
      /\ new.waiter = FALSE /\ new.qrs = 0
  BY NewEntryTyped
<1>3. sessions[s] = None /\ Begin(n, entries)
  BY DEF StartFresh
<1> HIDE DEF new
<1>4. /\ entries \in Seq(EntryType) /\ Len(entries) = n /\ entries[n] = new
      /\ \A y \in 1 .. Len(live) : entries[y] = live[y]
  BY <1>2, AppendProperties DEF Standing
<1>5. entries \in [1 .. n -> EntryType]
  BY <1>4, LenProperties
<1> HIDE DEF entries
<1>6. /\ live' = [entries EXCEPT ![n].step = "auth", ![n].client = "on", ![n].sweep = {}]
      /\ sessions' = [sessions EXCEPT ![entries[n].sub] = n]
      /\ expired' = expired \ {entries[n].sub} /\ exhausted' = exhausted \ {entries[n].sub}
  BY <1>3 DEF Begin
<1>7. n \in 1 .. n
  BY <1>1
<1> HIDE DEF n
<1>8. live' = [entries EXCEPT ![n] = e]
  BY <1>4, <1>5, <1>6, <1>7
<1>9. /\ e \in EntryType /\ e.sub = new.sub /\ e.step = "auth" /\ e.client = "on"
      /\ e.waiter = new.waiter /\ e.qrs = new.qrs
  BY <1>2 DEF EntryType
<1> HIDE DEF e
<1>10. live' \in [1 .. n -> EntryType] /\ live'[n] = e
  BY <1>5, <1>7, <1>8, <1>9
<1>11. ASSUME NEW y \in Entries PROVE Follows(y, sessions[s])
  <2>1. y \in 1 .. n /\ y # n /\ y # sessions[s]
    BY <1>1, <1>3 DEF None, n
  <2>2. live'[y] = live[y]
    BY <1>1, <1>4, <1>5, <1>8, <2>1
  <2> QED
    BY <2>1, <2>2 DEF Follows
<1>12. /\ live'[n].sub = s /\ live'[n].step = "auth" /\ live'[n].client = "on"
       /\ live'[n].waiter = FALSE /\ live'[n].qrs = 0
  BY <1>2, <1>9, <1>10
<1>13. entries[n].sub = s
  BY <1>2, <1>4
<1> QED
  BY <1>1, <1>6, <1>10, <1>11, <1>12, <1>13 DEF Adds, n

-----------------------------------------------------------------------------
\* The listing after entry x has turned: as it was, or without x, or with it, which then waited.
Listing(x, socket) ==
  /\ sessions' \in [Subs -> 0..MaxStarts]
  /\ \A t \in Subs :
       \/ sessions'[t] = sessions[t]
       \/ sessions'[t] = None /\ sessions[t] = x /\ socket = "off"
       \/ sessions'[t] = x /\ t = SubOf(x) /\ Waits(x) /\ socket = "on" /\ t \in cooling'
            /\ (sessions[t] = None \/ t \in met')
  /\ socket = "on" /\ live[x].client # "on" => sessions'[SubOf(x)] = x

LEMMA TurnKeeps ==
  ASSUME Standing, NEW x \in Entries, NEW step, NEW socket, Turns(x, step, socket),
         step \notin {"evicting", "dropping"} \/ (step = live[x].step /\ socket = "off"),
         Listing(x, socket), cooling \subseteq cooling', met \subseteq met'
  PROVE  Standing' /\ Entries' = Entries
<1>1. /\ Len(live) \in Nat /\ Len(live) <= MaxStarts /\ Entries = 1 .. Len(live)
      /\ live \in [Entries -> EntryType] /\ Entries \subseteq 1 .. MaxStarts
  BY EntriesTyped
<1>2. live' \in [1 .. Len(live) -> EntryType]
  BY <1>1 DEF Turns, Only
<1>3. live' \in Seq(EntryType) /\ Len(live') <= MaxStarts /\ Entries' = Entries
  BY <1>1, <1>2, EntriesListed
<1>4. /\ live'[x].step = step /\ live'[x].client = socket /\ live'[x].sub = live[x].sub
      /\ live'[x].waiter => live'[x].client = "on"
      /\ socket = "on" \/ step \in {"evicting", "dropping"} => live'[x].qrs <= MaxQr
  BY DEF Turns, Only
<1>5. \A y \in Entries : y # x =>
        /\ live'[y].sub = live[y].sub /\ live'[y].step = live[y].step
        /\ live'[y].qrs = live[y].qrs /\ live'[y].client = live[y].client
        /\ live'[y].waiter = live[y].waiter
  BY DEF Turns, Only, Alike
<1>14. \A y \in Entries : live'[y].step \in {"evicting", "dropping"} =>
         live'[y].step = live[y].step /\ (y = x => socket = "off")
  BY <1>4, <1>5
<1>6. \A y \in Entries : live'[y].sub = live[y].sub /\ live[y].sub \in Subs
  BY <1>1, <1>4, <1>5 DEF EntryType
<1>7. /\ sessions' \in [Subs -> 0..MaxStarts]
      /\ \A t \in Subs :
           \/ sessions'[t] = sessions[t]
           \/ sessions'[t] = None /\ sessions[t] = x /\ socket = "off"
           \/ sessions'[t] = x /\ t = SubOf(x) /\ Waits(x) /\ socket = "on" /\ t \in cooling'
                /\ (sessions[t] = None \/ t \in met')
      /\ socket = "on" /\ live[x].client # "on" => sessions'[SubOf(x)] = x
  BY DEF Listing
<1>8. x # None
  BY <1>1 DEF None
<1>9. Placed'
  <2>1. SUFFICES ASSUME NEW t \in Subs, sessions'[t] # None
                 PROVE  /\ sessions'[t] \in Entries /\ live'[sessions'[t]].sub = t
                        /\ live'[sessions'[t]].step \notin {"evicting", "dropping"}
    BY <1>3, <1>7, Zenon DEF Placed, SubOf, Waits
  <2>2. CASE sessions'[t] = x /\ t = SubOf(x) /\ socket = "on"
    BY <1>4, <1>14, <2>2 DEF SubOf
  <2>3. CASE sessions'[t] = sessions[t]
    <3>1. /\ sessions[t] \in Entries /\ live[sessions[t]].sub = t
          /\ live[sessions[t]].step \notin {"evicting", "dropping"}
      BY <2>1, <2>3 DEF Standing, Placed, SubOf, Waits
    <3> QED
      BY <1>6, <1>14, <2>3, <3>1
  <2> QED
    BY <1>7, <2>1, <2>2, <2>3
<1>10. WaiterIsLive'
  <2>1. SUFFICES ASSUME NEW y \in Entries, live'[y].waiter PROVE live'[y].client = "on"
    BY <1>3 DEF WaiterIsLive
  <2> QED
    BY <1>4, <1>5, <2>1 DEF Standing, WaiterIsLive
<1>11. Budget'
  <2>1. SUFFICES ASSUME NEW y \in Entries,
                        live'[y].client = "on" \/ live'[y].step \in {"evicting", "dropping"}
                 PROVE  live'[y].qrs <= MaxQr
    BY <1>3, Zenon DEF Budget, Waits
  <2>2. CASE y = x
    BY <1>4, <2>1, <2>2
  <2>3. CASE y # x
    BY <1>5, <2>1, <2>3 DEF Standing, Budget, Waits
  <2> QED
    BY <2>2, <2>3
<1>12. NoOrphan'
  <2>1. SUFFICES ASSUME NEW y \in Entries, live'[y].client = "on", live[y].sub \notin met'
                 PROVE  sessions'[live[y].sub] = y
    BY <1>3, <1>6 DEF NoOrphan, Current, SubOf
  <2>2. y # None /\ live[y].sub \in Subs
    BY <1>1, <1>6 DEF None
  <2>3. live[y].client = "on" => sessions[live[y].sub] = y
    BY <2>1 DEF Standing, NoOrphan, Current, SubOf
  <2>4. CASE y # x
    BY <1>5, <1>7, <2>1, <2>2, <2>3, <2>4
  <2>5. CASE y = x
    BY <1>4, <1>7, <2>1, <2>2, <2>3, <2>5 DEF SubOf
  <2> QED
    BY <2>4, <2>5
<1>13. StartsWait'
  <2>1. ASSUME NEW y \in Entries, live'[y].step = "dropping"
        PROVE  /\ live[y].sub \in cooling' /\ sessions'[live[y].sub] = None
               /\ \A z \in Entries : live[z].sub = live[y].sub /\ z # y =>
                    live'[z].step \notin {"evicting", "dropping"}
    <3>1. live[y].step = "dropping" /\ (y = x => socket = "off")
      BY <1>14, <2>1
    <3>2. /\ live[y].sub \in cooling /\ sessions[live[y].sub] = None
          /\ \A z \in Entries : live[z].sub = live[y].sub /\ z # y =>
               live[z].step \notin {"evicting", "dropping"}
      BY <3>1 DEF Standing, StartsWait, SubOf, Waits
    <3>3. live[y].sub # SubOf(x) \/ ~Waits(x) \/ socket = "off"
      BY <3>1, <3>2 DEF SubOf, Waits
    <3>4. socket = "off" => socket # "on"
      OBVIOUS
    <3>5. sessions'[live[y].sub] = None
      BY <1>6, <1>7, <1>8, <3>2, <3>3, <3>4
    <3>6. live[y].sub \in cooling'
      BY <3>2
    <3> QED
      BY <1>14, <3>2, <3>5, <3>6
  <2>2. ASSUME NEW y \in Entries, live'[y].step = "evicting", live[y].sub \notin cooling'
        PROVE  sessions'[live[y].sub] = None
    <3>1. live[y].step = "evicting"
      BY <1>14, <2>2
    <3>2. sessions[live[y].sub] = None
      BY <2>2, <3>1 DEF Standing, StartsWait, SubOf
    <3> QED
      BY <1>6, <1>7, <1>8, <2>2, <3>2
  <2> QED
    BY <1>3, <1>6, <2>1, <2>2 DEF StartsWait, SubOf, Waits
<1> QED
  BY <1>3, <1>9, <1>10, <1>11, <1>12, <1>13 DEF Standing

LEMMA StartKeeps ==
  ASSUME Standing, NEW s \in Subs, s \notin cooling, NEW gone, NEW step, NEW socket,
         Adds(s, gone, step, socket), sessions' \in [Subs -> 0..MaxStarts],
         \A t \in Subs \ {s} :
           sessions'[t] = sessions[t] \/ (sessions'[t] = None /\ sessions[t] = gone),
         cooling \subseteq cooling', met \subseteq met',
         \/ /\ step = "dropping" /\ socket = "off" /\ sessions[s] # None /\ sessions'[s] = None
            /\ s \in cooling' /\ gone = sessions[s]
         \/ step = "evicting" /\ socket = "off" /\ sessions[s] = None /\ sessions'[s] = None
         \/ /\ step = "auth" /\ socket = "on" /\ sessions[s] = None /\ s \in cooling'
            /\ sessions'[s] = Len(live) + 1
  PROVE  Standing' /\ Entries \subseteq Entries' /\ Entries' = 1 .. (Len(live) + 1)
<1> DEFINE n == Len(live) + 1
<1>1. /\ Len(live) \in Nat /\ Len(live) <= MaxStarts /\ Entries = 1 .. Len(live)
      /\ live \in [Entries -> EntryType] /\ Entries \subseteq 1 .. MaxStarts
  BY EntriesTyped
<1>2. n \in Nat /\ n <= MaxStarts /\ live' \in [1 .. n -> EntryType]
  BY <1>1 DEF Adds
<1>3. live' \in Seq(EntryType) /\ Len(live') <= MaxStarts /\ Entries' = 1 .. n
  BY <1>2, EntriesListed
<1>4. /\ n \notin Entries /\ n \in Entries' /\ Entries \subseteq Entries' /\ n # None
      /\ \A y \in Entries' : y = n \/ y \in Entries
  BY <1>1, <1>3 DEF None
<1>5. /\ live'[n].sub = s /\ live'[n].step = step /\ live'[n].client = socket
      /\ live'[n].waiter = FALSE /\ live'[n].qrs = 0
  BY DEF Adds
<1>6. \A y \in Entries :
        /\ live'[y].sub = live[y].sub /\ live'[y].step = live[y].step /\ live'[y].qrs = live[y].qrs
        /\ \/ /\ live'[y].client = live[y].client /\ live'[y].waiter = live[y].waiter
              /\ y # gone
           \/ live'[y].client = "off" /\ live'[y].waiter = FALSE
  BY DEF Adds, Follows
<1>7. \A y \in Entries : live[y].sub \in Subs /\ y # None
  BY <1>1 DEF EntryType, None
<1> HIDE DEF n
<1>8. \/ /\ step = "dropping" /\ socket = "off" /\ sessions[s] # None /\ sessions'[s] = None
         /\ s \in cooling' /\ gone = sessions[s]
      \/ step = "evicting" /\ socket = "off" /\ sessions[s] = None /\ sessions'[s] = None
      \/ step = "auth" /\ socket = "on" /\ sessions[s] = None /\ s \in cooling' /\ sessions'[s] = n
  BY DEF n
<1>9. Placed'
  <2>1. SUFFICES ASSUME NEW t \in Subs, sessions'[t] # None
                 PROVE  /\ sessions'[t] \in Entries' /\ live'[sessions'[t]].sub = t
                        /\ live'[sessions'[t]].step \notin {"evicting", "dropping"}
    BY Zenon DEF Placed, SubOf, Waits
  <2>2. CASE t = s
    BY <1>4, <1>5, <1>8, <2>1, <2>2
  <2>3. CASE t # s
    <3>1. sessions'[t] = sessions[t]
      BY <2>1, <2>3
    <3>2. /\ sessions[t] \in Entries /\ live[sessions[t]].sub = t
          /\ live[sessions[t]].step \notin {"evicting", "dropping"}
      BY <2>1, <3>1 DEF Standing, Placed, SubOf, Waits
    <3> QED
      BY <1>4, <1>6, <3>1, <3>2
  <2> QED
    BY <2>2, <2>3
<1>10. WaiterIsLive'
  <2>1. SUFFICES ASSUME NEW y \in Entries', live'[y].waiter PROVE live'[y].client = "on"
    BY DEF WaiterIsLive
  <2>2. y \in Entries
    BY <1>4, <1>5, <2>1
  <2> QED
    BY <1>6, <2>1, <2>2 DEF Standing, WaiterIsLive
<1>11. Budget'
  <2>1. SUFFICES ASSUME NEW y \in Entries',
                        live'[y].client = "on" \/ live'[y].step \in {"evicting", "dropping"}
                 PROVE  live'[y].qrs <= MaxQr
    BY Zenon DEF Budget, Waits
  <2>2. CASE y = n
    <3>1. 0 <= MaxQr
      BY TelegramAssumption
    <3> QED
      BY <1>5, <2>2, <3>1
  <2>3. CASE y \in Entries
    BY <1>6, <2>1, <2>3 DEF Standing, Budget, Waits
  <2> QED
    BY <1>4, <2>2, <2>3
<1>12. NoOrphan'
  <2>1. SUFFICES ASSUME NEW y \in Entries', live'[y].client = "on", live'[y].sub \notin met'
                 PROVE  sessions'[live'[y].sub] = y
    BY DEF NoOrphan, Current, SubOf
  <2>2. CASE y = n
    BY <1>5, <1>8, <2>1, <2>2
  <2>3. CASE y \in Entries
    <3>1. live[y].client = "on" /\ y # gone /\ live'[y].sub = live[y].sub
      BY <1>6, <2>1, <2>3
    <3>2. sessions[live[y].sub] = y
      BY <2>1, <2>3, <3>1 DEF Standing, NoOrphan, Current, SubOf
    <3>3. live[y].sub # s
      BY <1>7, <1>8, <2>3, <3>1, <3>2
    <3> QED
      BY <1>7, <2>3, <3>1, <3>2, <3>3
  <2> QED
    BY <1>4, <2>2, <2>3
<1>13. \A y \in Entries : live[y].sub = s => live[y].step # "dropping"
  BY DEF Standing, StartsWait, SubOf
<1>14. \A y \in Entries : live[y].sub = s /\ live[y].step = "evicting" => sessions[s] = None
  BY DEF Standing, StartsWait, SubOf
<1>15. StartsWait'
  <2>1. ASSUME NEW y \in Entries', live'[y].step = "dropping"
        PROVE  /\ live'[y].sub \in cooling' /\ sessions'[live'[y].sub] = None
               /\ \A z \in Entries' : live'[z].sub = live'[y].sub /\ z # y =>
                    live'[z].step \notin {"evicting", "dropping"}
    <3>1. CASE y = n
      <4>1. step = "dropping" /\ sessions[s] # None
        BY <1>5, <1>8, <2>1, <3>1
      <4>2. s \in cooling' /\ sessions'[s] = None
        BY <1>8, <4>1
      <4>3. ASSUME NEW z \in Entries', live'[z].sub = s, z # y
            PROVE  live'[z].step \notin {"evicting", "dropping"}
        <5>1. z \in Entries /\ live[z].sub = s /\ live'[z].step = live[z].step
          BY <1>4, <1>6, <3>1, <4>3
        <5> QED
          BY <1>13, <1>14, <4>1, <5>1
      <4> QED
        BY <1>5, <3>1, <4>2, <4>3
    <3>2. CASE y \in Entries
      <4>1. live[y].step = "dropping" /\ live'[y].sub = live[y].sub /\ live[y].sub # s
        BY <1>6, <1>13, <2>1, <3>2
      <4>2. /\ live[y].sub \in cooling /\ sessions[live[y].sub] = None
            /\ \A z \in Entries : live[z].sub = live[y].sub /\ z # y =>
                 live[z].step \notin {"evicting", "dropping"}
        BY <3>2, <4>1 DEF Standing, StartsWait, SubOf, Waits
      <4>3. sessions'[live[y].sub] = None
        BY <1>7, <3>2, <4>1, <4>2
      <4>4. ASSUME NEW z \in Entries', live'[z].sub = live[y].sub, z # y
            PROVE  live'[z].step \notin {"evicting", "dropping"}
        <5>1. z \in Entries
          BY <1>4, <1>5, <4>1, <4>4
        <5> QED
          BY <1>6, <4>2, <4>4, <5>1
      <4> QED
        BY <4>1, <4>2, <4>3, <4>4
    <3> QED
      BY <1>4, <3>1, <3>2
  <2>2. ASSUME NEW y \in Entries', live'[y].step = "evicting", live'[y].sub \notin cooling'
        PROVE  sessions'[live'[y].sub] = None
    <3>1. CASE y = n
      BY <1>5, <1>8, <2>2, <3>1
    <3>2. CASE y \in Entries
      <4>1. live[y].step = "evicting" /\ live'[y].sub = live[y].sub /\ live[y].sub \notin cooling
        BY <1>6, <2>2, <3>2
      <4>2. sessions[live[y].sub] = None
        BY <3>2, <4>1 DEF Standing, StartsWait, SubOf
      <4>3. CASE live[y].sub = s
        BY <1>8, <2>2, <4>1, <4>2, <4>3
      <4>4. CASE live[y].sub # s
        BY <1>7, <3>2, <4>1, <4>2, <4>4
      <4> QED
        BY <4>3, <4>4
    <3> QED
      BY <1>4, <3>1, <3>2
  <2> QED
    BY <2>1, <2>2 DEF StartsWait, SubOf, Waits
<1> QED
  BY <1>3, <1>4, <1>9, <1>10, <1>11, <1>12, <1>15 DEF Standing, n

\* A step leaves sub t as it is, if it only turns flows that have nothing under way, to the end
\* or to a fresh authorization, or adds one.
Rests(y, t) ==
  \/ y \in Entries /\ live[y].sub = t /\ live'[y].step = live[y].step
  \/ /\ y \in Entries /\ live[y].sub = t /\ live[y].step \notin {"putting", "deleting", "done"}
     /\ live'[y].step = "done" \/ (live'[y].step = "auth" /\ t \notin expired')
  \/ /\ y \notin Entries /\ Unloaded(t)
     /\ live'[y].step \in {"evicting", "dropping"} \/ (live'[y].step = "auth" /\ t \notin expired')

\* ... and the lookups of t as far as they were.
LoadsKeep(t) == (Unloaded(t) => Unloaded(t)') /\ (LoadsAlone(t) => LoadsAlone(t)')

LEMMA LoadsAsWere ==
  ASSUME UNCHANGED loads, dead \subseteq dead', NEW t, row'[t] = row[t]
  PROVE  LoadsKeep(t)
BY DEF LoadsKeep, Unloaded, LoadsAlone, None

LEMMA UnloadedAlone ==
  ASSUME NEW t, Unloaded(t), UNCHANGED loads
  PROVE  Unloaded(t)' /\ LoadsAlone(t)'
BY DEF Unloaded, LoadsAlone, Loaded

LEMMA ApartKept ==
  ASSUME Standing, NEW t \in Subs, Apart(t), NEW n \in Nat, Len(live) <= n, Entries' = 1 .. n,
         \A y \in Entries' : live'[y].sub = t => Rests(y, t),
         \A y \in Entries : live'[y].sub = live[y].sub,
         identities'[t] = identities[t], LoadsKeep(t), row'[t] = row[t],
         t \in expired' => t \in expired, failures > 0 => failures' > 0
  PROVE  Apart(t)'
<1>1. Len(live) \in Nat /\ Entries = 1 .. Len(live) /\ MaxStarts \in Nat /\ Len(live) <= MaxStarts
  BY EntriesTyped, TelegramAssumption
<1>2. Entries \subseteq Entries' /\ \A y \in Entries', z \in Entries : y \notin Entries => z < y
  BY <1>1
<1>3. SubAlone(t) /\ \A x \in Entries : live[x].sub = t => FlowAlone(x)
  BY DEF Apart, SubOf
<1>4. \A y \in Entries : live[y].sub = t /\ live[y].step \in {"putting", "deleting"} =>
        live'[y].step = live[y].step
  BY <1>2 DEF Rests
<1>5. SubAlone(t)'
  <2>1. LoadsAlone(t)'
    BY <1>3 DEF SubAlone, LoadsKeep
  <2>2. row'[t] \in {None, Old} \cup Entries'
    BY <1>2, <1>3 DEF SubAlone
  <2>3. ASSUME identities'[t] \notin {None, row'[t]}
        PROVE  failures' > 0 \/ \E x \in Entries' : live'[x].sub = t /\ live'[x].step = "putting"
    <3>1. failures > 0 \/ \E x \in Entries : live[x].sub = t /\ live[x].step = "putting"
      BY <1>3, <2>3 DEF SubAlone, SubOf
    <3> QED
      BY <1>2, <1>4, <3>1
  <2>4. ASSUME t \in expired', row'[t] # None
        PROVE  failures' > 0 \/ \E x \in Entries' : live'[x].sub = t /\ live'[x].step = "deleting"
    <3>1. failures > 0 \/ \E x \in Entries : live[x].sub = t /\ live[x].step = "deleting"
      BY <1>3, <2>4 DEF SubAlone, SubOf
    <3> QED
      BY <1>2, <1>4, <3>1
  <2> QED
    BY <2>1, <2>2, <2>3, <2>4 DEF SubAlone, SubOf, None, Old
<1>6. ASSUME NEW x \in Entries', live'[x].sub = t PROVE FlowAlone(x)'
  <2>1. Rests(x, t)
    BY <1>6
  <2>2. live'[x].step \in {"putting", "deleting"} =>
          x \in Entries /\ live[x].sub = t /\ live[x].step = live'[x].step
    BY <2>1 DEF Rests
  <2>3. ASSUME live'[x].step = "putting"
        PROVE  identities'[t] = x /\ \A y \in Entries' : live'[y].sub = t /\ live'[y].step # "done" => x <= y
    <3>1. /\ x \in Entries /\ identities[t] = x
          /\ \A y \in Entries : live[y].sub = t /\ live[y].step # "done" => x <= y
      BY <1>3, <2>2, <2>3 DEF FlowAlone, SubOf, Ended
    <3>2. ASSUME NEW y \in Entries', live'[y].sub = t, live'[y].step # "done" PROVE x <= y
      <4>1. CASE y \in Entries
        <5>1. live[y].sub = t /\ live[y].step # "done"
          BY <3>2, <4>1 DEF Rests
        <5> QED
          BY <3>1, <4>1, <5>1
      <4>2. CASE y \notin Entries
        BY <1>1, <1>2, <3>1, <4>2
      <4> QED
        BY <4>1, <4>2
    <3> QED
      BY <3>1, <3>2
  <2>4. live'[x].step = "deleting" => identities'[t] = None
    BY <1>3, <2>2 DEF FlowAlone, SubOf
  <2>5. ASSUME live'[x].step \in {"auth", "putting"} PROVE t \notin expired'
    <3>1. CASE x \in Entries /\ live[x].sub = t /\ live'[x].step = live[x].step
      BY <1>3, <2>5, <3>1 DEF FlowAlone, SubOf
    <3> QED
      BY <2>1, <2>5, <3>1 DEF Rests
  <2>6. ASSUME live'[x].step # "done"
        PROVE  Unloaded(t)' /\ (row'[t] \in {None, Old} \/ row'[t] < x)
    <3>1. CASE x \in Entries
      <4>1. live[x].sub = t /\ live[x].step # "done"
        BY <2>1, <2>6, <3>1 DEF Rests
      <4> QED
        BY <1>3, <3>1, <4>1 DEF FlowAlone, SubOf, Ended, LoadsKeep
    <3>2. CASE x \notin Entries
      <4>1. Unloaded(t)
        BY <2>1, <3>2 DEF Rests
      <4>2. row[t] \in {None, Old} \/ row[t] < x
        BY <1>2, <1>3, <3>2 DEF SubAlone
      <4> QED
        BY <4>1, <4>2 DEF LoadsKeep
    <3> QED
      BY <3>1, <3>2
  <2> QED
    BY <1>6, <2>3, <2>4, <2>5, <2>6 DEF FlowAlone, SubOf, Ended, None, Old
<1> QED
  BY <1>5, <1>6 DEF Apart, SubOf

\* The subs a step is not about stay apart.
LEMMA OthersApart ==
  ASSUME Standing, Parted, NEW s \in Subs, NEW n \in Nat, Len(live) <= n, Entries' = 1 .. n,
         \A y \in Entries' : live'[y].sub # s => y \in Entries /\ live'[y].step = live[y].step,
         \A y \in Entries : live'[y].sub = live[y].sub,
         \A t \in Subs \ {s} :
           identities'[t] = identities[t] /\ LoadsKeep(t) /\ row'[t] = row[t],
         expired' \subseteq expired \cup {s}, failures > 0 => failures' > 0, met \subseteq met',
         s \notin met' => Apart(s)'
  PROVE  Parted'
<1>1. SUFFICES ASSUME NEW t \in Subs, t \notin met' PROVE Apart(t)'
  BY DEF Parted
<1>2. CASE t = s
  BY <1>1, <1>2
<1>3. CASE t # s
  <2>1. Apart(t)
    BY <1>1 DEF Parted
  <2>2. ASSUME NEW y \in Entries', live'[y].sub = t PROVE Rests(y, t)
    <3>1. y \in Entries /\ live'[y].step = live[y].step
      BY <1>3, <2>2
    <3>2. live[y].sub = t
      BY <2>2, <3>1
    <3> QED
      BY <3>1, <3>2 DEF Rests
  <2>3. /\ identities'[t] = identities[t] /\ LoadsKeep(t) /\ row'[t] = row[t]
        /\ t \in expired' => t \in expired
    BY <1>3
  <2> QED
    BY <2>1, <2>2, <2>3, ApartKept
<1> QED
  BY <1>2, <1>3

\* A step that is about none leaves them all so.
LEMMA AllApart ==
  ASSUME Standing, Parted, Entries' = Entries,
         \A y \in Entries : live'[y].sub = live[y].sub /\ live'[y].step = live[y].step,
         UNCHANGED <<identities, row>>, \A t \in Subs : LoadsKeep(t),
         expired' \subseteq expired, failures > 0 => failures' > 0, met \subseteq met'
  PROVE  Parted'
<1>1. SUFFICES ASSUME NEW t \in Subs, t \notin met' PROVE Apart(t)'
  BY DEF Parted
<1>2. Apart(t)
  BY <1>1 DEF Parted
<1>3. \A y \in Entries' : live'[y].sub = t => Rests(y, t)
  BY DEF Rests
<1>4. Len(live) \in Nat /\ Entries = 1 .. Len(live)
  BY EntriesTyped
<1>5. Len(live) <= Len(live) /\ Entries' = 1 .. Len(live)
  BY <1>4
<1> QED
  BY <1>2, <1>3, <1>4, <1>5, ApartKept

\* A step that leaves the entries and the listing alone; a minute only passes if no start waits.
LEMMA StillKeeps ==
  ASSUME Standing, UNCHANGED <<live, sessions>>, met \subseteq met',
         \A s \in Subs : s \in cooling /\ s \notin cooling' =>
           \A x \in Entries : SubOf(x) = s => ~Waits(x)
  PROVE  Standing' /\ Entries' = Entries
<1>1. Entries' = Entries
  BY DEF Entries
<1>2. Placed' /\ WaiterIsLive' /\ Budget'
  BY <1>1 DEF Standing, Placed, WaiterIsLive, Budget, SubOf, Waits
<1>3. NoOrphan'
  BY <1>1 DEF Standing, NoOrphan, Current, SubOf
<1>4. \A x \in Entries : live[x].sub \in Subs
  BY EntriesTyped DEF EntryType
<1>5. \A x \in Entries : Waits(x) /\ SubOf(x) \in cooling => SubOf(x) \in cooling'
  BY <1>4 DEF SubOf
<1>6. StartsWait'
  <2>1. ASSUME NEW y \in Entries, live[y].step = "dropping"
        PROVE  /\ live[y].sub \in cooling' /\ sessions[live[y].sub] = None
               /\ \A z \in Entries : live[z].sub = live[y].sub /\ z # y =>
                    live[z].step \notin {"evicting", "dropping"}
    BY <1>5, <2>1 DEF Standing, StartsWait, SubOf, Waits
  <2>2. ASSUME NEW y \in Entries, live[y].step = "evicting", live[y].sub \notin cooling'
        PROVE  sessions[live[y].sub] = None
    BY <1>5, <2>2 DEF Standing, StartsWait, SubOf, Waits
  <2> QED
    BY <1>1, <2>1, <2>2 DEF StartsWait, SubOf, Waits
<1> QED
  BY <1>1, <1>2, <1>3, <1>6 DEF Standing

LEMMA MeetsGrows ==
  ASSUME NEW s \in Subs, NEW late, MeetsIf(s, late)
  PROVE  met \subseteq met' /\ met' \subseteq met \cup Subs /\ (s \notin met' => ~late)
BY DEF MeetsIf

LEMMA IdleGoes ==
  ASSUME TgPoolIInv, NEW s \in Subs,
         StartPaired(s) \/ Me(s) \/ Prune(s) \/ CoolDown(s)
  PROVE  Standing' /\ Entries' = Entries
<1>1. UNCHANGED <<live, sessions>>
  BY DEF StartPaired, Me, Prune, CoolDown
<1>2. met \subseteq met'
  BY DEF StartPaired, CanStart, Me, Prune, CoolDown, MeetsIf
<1>3. CASE cooling \subseteq cooling'
  BY <1>1, <1>2, <1>3, StillKeeps DEF TgPoolIInv
<1>4. CASE CoolDown(s)
  <2>1. cooling' = cooling \ {s} /\ Settled(s)
    BY <1>4 DEF CoolDown
  <2>2. \A x \in Entries : SubOf(x) = s => ~Waits(x)
    BY <2>1 DEF Settled, Waits
  <2> QED
    BY <1>1, <1>2, <2>1, <2>2, StillKeeps DEF TgPoolIInv
<1> QED
  BY <1>3, <1>4 DEF StartPaired, Me, Prune, marks

\* The lookups that are past the read of a row, and the one that begins.
Looks(s, a) ==
  \/ MeAsks(s, a)
  \/ loads[a].sub = s /\ (RowRead(a) \/ LoadAnswers(a) \/ IdentityKnown(a) \/ LoadPut(a))

LEMMA LookStands ==
  ASSUME TgPoolIInv, NEW s \in Subs, NEW a \in Lookups, Looks(s, a)
  PROVE  Standing' /\ Entries' = Entries
<1>1. UNCHANGED <<live, sessions, cooling>> /\ met \subseteq met'
  BY DEF Looks, MeAsks, RowRead, LoadAnswers, IdentityKnown, LoadPut, MeetsIf, marks
<1> QED
  BY <1>1, StillKeeps DEF TgPoolIInv

LEMMA ListingKept ==
  ASSUME Standing, NEW x \in Entries, NEW socket, sessions' = sessions,
         socket = "off" \/ live[x].client = socket
  PROVE  Listing(x, socket)
BY DEF Standing, Placed, Listing

LEMMA ListingGone ==
  ASSUME Standing, NEW x \in Entries, sessions' = Unlisted(x)
  PROVE  Listing(x, "off")
<1>1. sessions \in [Subs -> 0..MaxStarts] /\ None \in 0..MaxStarts
  BY TelegramAssumption DEF Standing, Placed, None
<1> QED
  BY <1>1 DEF Listing, Unlisted, Current

LEMMA ListingSet ==
  ASSUME Standing, NEW x \in Entries, sessions' = [sessions EXCEPT ![SubOf(x)] = x], Waits(x),
         SubOf(x) \in cooling', sessions[SubOf(x)] = None \/ SubOf(x) \in met'
  PROVE  Listing(x, "on")
<1>1. sessions \in [Subs -> 0..MaxStarts] /\ x \in 0..MaxStarts /\ SubOf(x) \in Subs
  BY EntriesTyped, TelegramAssumption DEF Standing, Placed, SubOf, EntryType
<1> QED
  BY <1>1 DEF Listing

LEMMA ListedPast ==
  ASSUME Standing, NEW x \in Entries, Current(x)
  PROVE  live[x].step \notin {"evicting", "dropping"} /\ SubOf(x) \in Subs
<1>1. SubOf(x) \in Subs /\ x # None
  BY EntriesTyped DEF SubOf, EntryType, None
<1> QED
  BY <1>1 DEF Standing, Placed, Current, Waits

LEMMA SubmitTurns ==
  ASSUME Standing, NEW s \in Subs, SubmitPassword(s)
  PROVE  sessions[s] \in Entries /\ Turns(sessions[s], live[sessions[s]].step, live[sessions[s]].client)
<1> DEFINE x == sessions[s]
<1>1. x \in Entries /\ SubOf(x) = s
  BY DEF SubmitPassword, Standing, Placed
<1>2. live \in [Entries -> EntryType] /\ live[x] \in EntryType
  BY <1>1, EntriesTyped
<1>3. live' = [live EXCEPT ![x].waiter = FALSE]
  BY DEF SubmitPassword
<1> HIDE DEF x
<1>4. Only(x)
  BY <1>1, <1>2, <1>3 DEF EntryType, Only, Alike
<1>5. live'[x].waiter = FALSE /\ live'[x].qrs = live[x].qrs
      /\ live'[x].step = live[x].step /\ live'[x].client = live[x].client
  BY <1>1, <1>2, <1>3 DEF EntryType
<1>6. live[x].client = "on" \/ live[x].step \in {"evicting", "dropping"} => live[x].qrs <= MaxQr
  BY <1>1 DEF Standing, Budget, Waits
<1>7. Turns(x, live[x].step, live[x].client)
  BY <1>4, <1>5, <1>6 DEF Turns
<1> QED
  BY <1>1, <1>7 DEF x

LEMMA FlowStands ==
  ASSUME TgPoolIInv, NEW x \in Entries,
         \/ Restarted(x) \/ Sweeps(x) \/ Evicted(x) \/ Qr(x) \/ AskPassword(x) \/ Authorized(x)
         \/ RowPut(x) \/ PutFails(x) \/ FlowFails(x) \/ FlowDies(x) \/ FlowDeleted(x) \/ Evict(x)
  PROVE  Standing' /\ Entries' = Entries /\ met \subseteq met'
<1>1. Standing /\ SubOf(x) \in Subs
  BY EntriesTyped DEF TgPoolIInv, SubOf, EntryType
<1>2. CASE Restarted(x)
  <2>1. /\ live[x].step = "dropping" /\ cooling' = cooling /\ met' = met
        /\ sessions' = [sessions EXCEPT ![SubOf(x)] = x]
    BY <1>2 DEF Restarted, Begin, SubOf
  <2>2. Waits(x) /\ SubOf(x) \in cooling /\ sessions[SubOf(x)] = None
    BY <1>1, <2>1 DEF Standing, StartsWait, Waits
  <2>3. Turns(x, "auth", "on") /\ Listing(x, "on")
    BY <1>1, <1>2, <2>1, <2>2, FlowTurns, ListingSet
  <2> QED
    BY <1>1, <2>1, <2>3, TurnKeeps
<1>3. CASE Evicted(x)
  <2>1. CASE Turns(x, "done", live[x].client) /\ UNCHANGED <<sessions, expired, exhausted, cooling, met>>
    <3>1. Listing(x, live[x].client)
      BY <1>1, <2>1, ListingKept
    <3> QED
      BY <1>1, <2>1, <3>1, TurnKeeps
  <2>2. CASE /\ Turns(x, "auth", "on") /\ sessions' = [sessions EXCEPT ![SubOf(x)] = x]
             /\ cooling' = cooling \cup {SubOf(x)}
             /\ MeetsIf(SubOf(x), sessions[SubOf(x)] # None)
    <3>1. met \subseteq met' /\ (sessions[SubOf(x)] = None \/ SubOf(x) \in met')
      BY <1>1, <2>2, MeetsGrows
    <3>2. Waits(x)
      BY <1>3 DEF Evicted, Waits
    <3>3. Listing(x, "on")
      BY <1>1, <2>2, <3>1, <3>2, ListingSet
    <3> QED
      BY <1>1, <2>2, <3>1, <3>3, TurnKeeps
  <2> QED
    BY <1>1, <1>3, <2>1, <2>2, EvictedTurns
<1>4. CASE Qr(x)
  <2>1. cooling' = cooling /\ met' = met /\ live[x].client = "on"
    BY <1>4 DEF Qr
  <2>2. CASE Turns(x, "auth", "on") /\ UNCHANGED <<sessions, idle>>
    <3>1. Listing(x, "on")
      BY <1>1, <2>1, <2>2, ListingKept
    <3> QED
      BY <1>1, <2>1, <2>2, <3>1, TurnKeeps
  <2>3. CASE Turns(x, "auth", "off") /\ sessions' = Unlisted(x)
    <3>1. Listing(x, "off")
      BY <1>1, <2>3, ListingGone
    <3> QED
      BY <1>1, <2>1, <2>3, <3>1, TurnKeeps
  <2> QED
    BY <1>1, <1>4, <2>2, <2>3, QrTurns
<1>5. CASE AskPassword(x)
  <2>1. cooling' = cooling /\ met' = met /\ sessions' = sessions /\ live[x].client = "on"
    BY <1>5 DEF AskPassword, marks
  <2>2. Turns(x, "auth", "on") /\ Listing(x, "on")
    BY <1>1, <1>5, <2>1, FlowTurns, ListingKept
  <2> QED
    BY <1>1, <2>1, <2>2, TurnKeeps
<1>6. CASE Authorized(x)
  <2>1. cooling' = cooling /\ sessions' = sessions /\ met \subseteq met'
    BY <1>6 DEF Authorized, marks, MeetsIf
  <2>2. Turns(x, "putting", live[x].client) /\ Listing(x, live[x].client)
    BY <1>1, <1>6, <2>1, FlowTurns, ListingKept
  <2> QED
    BY <1>1, <2>1, <2>2, TurnKeeps
<1>7. CASE RowPut(x)
  <2>1. cooling' = cooling /\ sessions' = sessions /\ met' = met
    BY <1>7 DEF RowPut, marks
  <2>2. Turns(x, "done", live[x].client) /\ Listing(x, live[x].client)
    BY <1>1, <1>7, <2>1, FlowTurns, ListingKept
  <2> QED
    BY <1>1, <2>1, <2>2, TurnKeeps
<1>8. CASE PutFails(x) \/ FlowFails(x) \/ FlowDeleted(x)
  <2>1. /\ cooling' = cooling /\ sessions' = Unlisted(x) /\ met' = met
        /\ live' = [Dropped(x) EXCEPT ![x].step = "done"]
    BY <1>8 DEF PutFails, FlowFails, FlowDeleted, marks
  <2>2. Turns(x, "done", "off") /\ Listing(x, "off")
    BY <1>1, <2>1, DropTurns, ListingGone
  <2> QED
    BY <1>1, <2>1, <2>2, TurnKeeps
<1>9. CASE FlowDies(x)
  <2>1. cooling' = cooling /\ sessions' = sessions /\ met \subseteq met' /\ live[x].client = "on"
    BY <1>9 DEF FlowDies, MeetsIf
  <2>2. Turns(x, "deleting", "on") /\ Listing(x, "on")
    BY <1>1, <1>9, <2>1, FlowTurns, ListingKept
  <2> QED
    BY <1>1, <2>1, <2>2, TurnKeeps
<1>10. CASE Evict(x)
  <2>1. /\ cooling' = cooling /\ sessions' = Unlisted(x) /\ met' = met /\ live' = Dropped(x)
        /\ live[x].step \notin {"evicting", "dropping"}
    BY <1>1, <1>10, ListedPast DEF Evict, Evictable, marks
  <2>2. Turns(x, live[x].step, "off") /\ Listing(x, "off")
    BY <1>1, <2>1, DropTurns, ListingGone
  <2> QED
    BY <1>1, <2>1, <2>2, TurnKeeps
<1>11. CASE Sweeps(x)
  <2>1. /\ cooling' = cooling /\ met' = met
        /\ \E y \in Entries : Turns(y, live[y].step, "off") /\ sessions' = Unlisted(y)
    BY <1>1, <1>11, SweepTurns DEF Sweeps, marks, TgPoolIInv, Filed
  <2>2. PICK y \in Entries : Turns(y, live[y].step, "off") /\ sessions' = Unlisted(y)
    BY <2>1
  <2>3. Listing(y, "off")
    BY <1>1, <2>2, ListingGone
  <2> QED
    BY <1>1, <2>1, <2>2, <2>3, TurnKeeps
<1> QED
  BY <1>2, <1>3, <1>4, <1>5, <1>6, <1>7, <1>8, <1>9, <1>10, <1>11

LEMMA CallStands ==
  ASSUME TgPoolIInv, NEW s \in Subs,
         SubmitPassword(s) \/ \E a \in Lookups : loads[a].sub = s /\ LoadDeleted(a)
  PROVE  Standing' /\ Entries' = Entries /\ met \subseteq met'
<1> DEFINE x == sessions[s]
<1>1. Standing /\ (x # None => x \in Entries /\ SubOf(x) = s /\ ~Waits(x))
  BY DEF TgPoolIInv, Standing, Placed
<1>2. CASE SubmitPassword(s)
  <2>1. cooling' = cooling /\ sessions' = sessions /\ met' = met /\ x # None
    BY <1>2 DEF SubmitPassword, marks
  <2>2. Turns(x, live[x].step, live[x].client) /\ Listing(x, live[x].client)
    BY <1>1, <1>2, <2>1, SubmitTurns, ListingKept
  <2>3. x \in Entries /\ live[x].step \notin {"evicting", "dropping"}
    BY <1>1, <2>1 DEF Waits
  <2> HIDE DEF x
  <2> QED
    BY <1>1, <2>1, <2>2, <2>3, TurnKeeps
<1>3. ASSUME NEW a \in Lookups, loads[a].sub = s, LoadDeleted(a), x = None
      PROVE  Standing' /\ Entries' = Entries /\ met \subseteq met'
  <2>1. cooling' = cooling /\ sessions' = sessions /\ met \subseteq met' /\ live' = live
    BY <1>3 DEF LoadDeleted, MeetsIf
  <2> QED
    BY <1>1, <2>1, StillKeeps
<1>4. ASSUME NEW a \in Lookups, loads[a].sub = s, LoadDeleted(a), x # None
      PROVE  Standing' /\ Entries' = Entries /\ met \subseteq met'
  <2>1. /\ cooling' = cooling /\ sessions' = [sessions EXCEPT ![s] = None]
        /\ met \subseteq met' /\ live' = Dropped(x)
    BY <1>4 DEF LoadDeleted, MeetsIf
  <2>2. x \in Entries /\ live[x].step \notin {"evicting", "dropping"} /\ sessions' = Unlisted(x)
    BY <1>1, <1>4, <2>1 DEF Waits, Unlisted, Current
  <2> HIDE DEF x
  <2>3. Turns(x, live[x].step, "off") /\ Listing(x, "off")
    BY <1>1, <2>1, <2>2, DropTurns, ListingGone
  <2> QED
    BY <1>1, <2>1, <2>2, <2>3, TurnKeeps
<1> HIDE DEF x
<1> QED
  BY <1>2, <1>3, <1>4

LEMMA StartStands ==
  ASSUME TgPoolIInv, NEW s \in Subs, StartOver(s) \/ StartEvicts(s) \/ StartFresh(s)
  PROVE  /\ Standing' /\ Entries \subseteq Entries' /\ Entries' = 1 .. (Len(live) + 1)
         /\ met \subseteq met' /\ (s \notin met' => Unloaded(s))
         /\ \E gone, step, socket :
              /\ Adds(s, gone, step, socket)
              /\ step \in {"evicting", "dropping"} \/ (step = "auth" /\ s \notin expired')
<1>1. Standing /\ sessions \in [Subs -> 0..MaxStarts] /\ idle \subseteq Entries
  BY DEF TgPoolIInv, Standing, Placed, Filed
<1>2. /\ s \notin cooling /\ met \subseteq met' /\ (s \notin met' => Loading(s, Loaded) = {})
      /\ Len(live) < MaxStarts
  BY MeetsGrows DEF StartOver, StartEvicts, StartFresh, Makes, CanStart
<1>7. s \notin met' => Unloaded(s)
  BY <1>2 DEF Loading, Unloaded
<1>3. None \in 0..MaxStarts /\ Len(live) + 1 \in 0..MaxStarts
  BY <1>1, <1>2, EntriesTyped, TelegramAssumption DEF None
<1>4. CASE StartOver(s)
  <2>1. /\ sessions[s] # None /\ sessions' = [sessions EXCEPT ![s] = None]
        /\ cooling' = cooling \cup {s}
    BY <1>4 DEF StartOver
  <2>2. /\ sessions' \in [Subs -> 0..MaxStarts] /\ sessions'[s] = None
        /\ \A t \in Subs \ {s} : sessions'[t] = sessions[t]
    BY <1>1, <1>3, <2>1
  <2>3. Adds(s, sessions[s], "dropping", "off")
    BY <1>1, <1>4, StartOverAdds
  <2>4. Standing' /\ Entries \subseteq Entries' /\ Entries' = 1 .. (Len(live) + 1)
    BY <1>1, <1>2, <2>1, <2>2, <2>3, StartKeeps
  <2> QED
    BY <1>2, <1>7, <2>3, <2>4
<1>5. CASE StartEvicts(s)
  <2>1. sessions[s] = None /\ cooling' = cooling
    BY <1>5 DEF StartEvicts, marks
  <2>2. PICK y \in Entries : /\ Adds(s, y, "evicting", "off") /\ Current(y)
                             /\ sessions' = Unlisted(y)
    BY <1>1, <1>5, StartEvictsAdds
  <2>3. sessions' = [sessions EXCEPT ![SubOf(y)] = None] /\ sessions[SubOf(y)] = y
    BY <2>2 DEF Unlisted, Current
  <2>4. /\ sessions' \in [Subs -> 0..MaxStarts] /\ sessions'[s] = None
        /\ \A t \in Subs \ {s} :
             sessions'[t] = sessions[t] \/ (sessions'[t] = None /\ sessions[t] = y)
    BY <1>1, <1>3, <2>1, <2>3
  <2>5. Standing' /\ Entries \subseteq Entries' /\ Entries' = 1 .. (Len(live) + 1)
    BY <1>1, <1>2, <2>1, <2>2, <2>4, StartKeeps
  <2> QED
    BY <1>2, <1>7, <2>2, <2>5
<1>6. CASE StartFresh(s)
  <2>1. sessions[s] = None /\ cooling' = cooling \cup {s}
    BY <1>6 DEF StartFresh
  <2>2. /\ Adds(s, sessions[s], "auth", "on") /\ sessions' = [sessions EXCEPT ![s] = Len(live) + 1]
        /\ expired' = expired \ {s}
    BY <1>1, <1>6, StartFreshAdds
  <2>3. /\ sessions' \in [Subs -> 0..MaxStarts] /\ sessions'[s] = Len(live) + 1
        /\ \A t \in Subs \ {s} : sessions'[t] = sessions[t]
    BY <1>1, <1>3, <2>2
  <2>4. Standing' /\ Entries \subseteq Entries' /\ Entries' = 1 .. (Len(live) + 1)
    BY <1>1, <1>2, <2>1, <2>2, <2>3, StartKeeps
  <2> QED
    BY <1>2, <1>7, <2>2, <2>4
<1> QED
  BY <1>4, <1>5, <1>6

LEMMA RestartStands ==
  ASSUME TgPoolIInv, Restart
  PROVE  /\ Standing' /\ Entries' = Entries
         /\ \A y \in Entries : live'[y].sub = live[y].sub /\ live'[y].step = "done"
<1>1. /\ Len(live) \in Nat /\ Len(live) <= MaxStarts /\ Entries = 1 .. Len(live)
      /\ live \in [Entries -> EntryType]
  BY EntriesTyped DEF TgPoolIInv
<1>2. /\ live' = [x \in Entries |-> [live[x] EXCEPT !.step = "done", !.client = "off", !.waiter = FALSE]]
      /\ sessions' = [s \in Subs |-> None]
  BY DEF Restart
<1>3. ASSUME NEW y \in Entries
      PROVE  /\ live'[y] \in EntryType /\ live'[y].sub = live[y].sub /\ live'[y].step = "done"
             /\ live'[y].client = "off" /\ live'[y].waiter = FALSE
  <2>1. live[y] \in EntryType
    BY <1>1
  <2>2. live'[y] = [live[y] EXCEPT !.step = "done", !.client = "off", !.waiter = FALSE]
    BY <1>2
  <2> QED
    BY <2>1, <2>2 DEF EntryType
<1>4. live' \in [1 .. Len(live) -> EntryType]
  BY <1>1, <1>2, <1>3
<1>5. live' \in Seq(EntryType) /\ Len(live') <= MaxStarts /\ Entries' = Entries
  BY <1>1, <1>4, EntriesListed
<1>6. None \in 0..MaxStarts
  BY TelegramAssumption DEF None
<1>7. Placed'
  BY <1>2, <1>6 DEF Placed, None
<1>8. WaiterIsLive' /\ Budget' /\ StartsWait' /\ NoOrphan'
  BY <1>3, <1>5 DEF WaiterIsLive, Budget, StartsWait, NoOrphan, Waits
<1> QED
  BY <1>3, <1>5, <1>7, <1>8 DEF Standing

-----------------------------------------------------------------------------
LEMMA FiledKept ==
  ASSUME TgPoolIInv, Entries \subseteq Entries', Next
  PROVE  Filed'
<1>1. /\ expired \subseteq Subs /\ exhausted \subseteq Subs /\ cooling \subseteq Subs
      /\ idle \subseteq Entries /\ identities \in [Subs -> {None} \cup Logins]
      /\ loads \in [Lookups -> LoadType]
      /\ row \in [Subs -> {None} \cup Logins] /\ dead \subseteq Logins /\ met \subseteq Subs
      /\ failures \in 0..MaxFailures /\ idle \subseteq Entries'
  BY DEF TgPoolIInv, Filed
<1>2. Entries \subseteq Logins /\ \A x \in Entries : SubOf(x) \in Subs
  BY EntriesTyped, TelegramAssumption DEF TgPoolIInv, Logins, Old, SubOf, EntryType
<1>3. Logins' = Logins /\ None' = None /\ LoadType' = LoadType
  BY DEF Logins, Old, None, LoadType, NoLoad, Loaded
<1> DEFINE Held2 == /\ expired' \subseteq Subs /\ exhausted' \subseteq Subs /\ cooling' \subseteq Subs
                    /\ idle' \subseteq Entries' /\ identities' \in [Subs -> {None} \cup Logins]
                    /\ loads' \in [Lookups -> LoadType]
                    /\ row' \in [Subs -> {None} \cup Logins] /\ dead' \subseteq Logins
                    /\ met' \subseteq Subs /\ failures' \in 0..MaxFailures
<1>4. ASSUME NEW s \in Subs, StartPaired(s) \/ StartOver(s) \/ StartEvicts(s)
      PROVE  Held2
  BY <1>1, <1>4 DEF StartPaired, StartOver, StartEvicts, Makes, CanStart, MeetsIf, marks, stored
<1>5. ASSUME NEW s \in Subs, StartFresh(s) PROVE Held2
  <2>1. expired' = expired \ {s} /\ exhausted' = exhausted \ {s}
    BY <1>5, StartFreshAdds DEF TgPoolIInv
  <2> QED
    BY <1>1, <1>5, <2>1 DEF StartFresh, Makes, CanStart, MeetsIf, marks, stored
<1>6. ASSUME NEW s \in Subs, SubmitPassword(s) \/ Prune(s) \/ CoolDown(s)
      PROVE  Held2
  BY <1>1, <1>6 DEF SubmitPassword, Prune, CoolDown, marks, stored
<1>7. ASSUME NEW s \in Subs, Me(s) PROVE Held2
  BY <1>1, <1>7 DEF Me, marks, stored
<1>8. \A a \in Lookups : /\ loads[a].step # "none" => loads[a].sub \in Subs
                         /\ loads[a].login \in {None} \cup Logins
  BY <1>1 DEF LoadType, NoLoad
<1>18. NoLoad \in LoadType
  BY DEF LoadType
<1>20. ASSUME NEW a \in Lookups, NEW step \in Loaded, loads[a].step # "none",
              loads' = [loads EXCEPT ![a].step = step]
       PROVE  loads' \in [Lookups -> LoadType]
  <2>1. loads[a] \in [sub : Subs, step : {"reading"} \cup Loaded, login : {None} \cup Logins]
    BY <1>1, <1>20 DEF LoadType, NoLoad
  <2>2. [loads[a] EXCEPT !.step = step] \in LoadType
    BY <2>1 DEF LoadType
  <2>3. loads' = [loads EXCEPT ![a] = [loads[a] EXCEPT !.step = step]]
    BY <1>20
  <2> QED
    BY <1>1, <2>2, <2>3
<1>21. ASSUME NEW s \in Subs, NEW a \in Lookups, MeAsks(s, a) PROVE Held2
  <2>1. [sub |-> s, step |-> "reading", login |-> None] \in LoadType
    BY DEF LoadType
  <2>2. loads' \in [Lookups -> LoadType]
    BY <1>1, <1>21, <2>1 DEF MeAsks
  <2> QED
    BY <1>1, <1>21, <2>2 DEF MeAsks, marks, stored
<1>22. ASSUME NEW a \in Lookups, RowRead(a) PROVE Held2
  <2>1. loads[a].sub \in Subs /\ row[loads[a].sub] \in {None} \cup Logins /\ loads[a].step # "none"
    BY <1>1, <1>8, <1>22 DEF RowRead
  <2>2. /\ UNCHANGED <<expired, exhausted, cooling, idle, identities, row, dead, failures>>
        /\ \/ loads' = [loads EXCEPT ![a] = NoLoad] /\ met' = met
           \/ /\ loads' = [loads EXCEPT ![a].step = "loading", ![a].login = row[loads[a].sub]]
              /\ met' \subseteq met \cup {loads[a].sub}
    BY <1>22 DEF RowRead, MeetsIf, marks, stored
  <2>3. loads[a] \in [sub : Subs, step : {"reading"} \cup Loaded, login : {None} \cup Logins]
    BY <1>1, <2>1 DEF LoadType, NoLoad
  <2>4. [loads[a] EXCEPT !.step = "loading", !.login = row[loads[a].sub]] \in LoadType
    BY <2>1, <2>3 DEF LoadType, Loaded
  <2>5. loads' \in [Lookups -> LoadType]
    BY <1>1, <1>18, <2>2, <2>4
  <2> QED
    BY <1>1, <2>1, <2>2, <2>5
<1>23. ASSUME NEW a \in Lookups, LoadAnswers(a) PROVE Held2
  <2>1. loads[a].step # "none" /\ "alive" \in Loaded /\ "deleting" \in Loaded
    BY <1>23 DEF LoadAnswers, Loaded
  <2>2. \/ loads' = [loads EXCEPT ![a] = NoLoad] \/ loads' = [loads EXCEPT ![a].step = "alive"]
        \/ loads' = [loads EXCEPT ![a].step = "deleting"]
    BY <1>23 DEF LoadAnswers
  <2>3. loads' \in [Lookups -> LoadType]
    BY <1>1, <1>18, <1>20, <2>1, <2>2
  <2> QED
    BY <1>1, <1>23, <2>3 DEF LoadAnswers, marks, stored
<1>24. ASSUME NEW a \in Lookups, IdentityKnown(a) PROVE Held2
  <2>1. loads[a].step # "none" /\ "putting" \in Loaded
    BY <1>24 DEF IdentityKnown, Loaded
  <2>2. loads' \in [Lookups -> LoadType]
    BY <1>20, <1>24, <2>1 DEF IdentityKnown
  <2>3. identities' \in [Subs -> {None} \cup Logins]
    BY <1>1, <1>8, <1>24 DEF IdentityKnown
  <2> QED
    BY <1>1, <1>24, <2>2, <2>3 DEF IdentityKnown, marks, stored
<1>9. ASSUME NEW a \in Lookups, LoadPut(a) PROVE Held2
  <2>1. loads' \in [Lookups -> LoadType]
    BY <1>1, <1>9, <1>18 DEF LoadPut
  <2>2. row' \in [Subs -> {None} \cup Logins] /\ failures' \in 0..MaxFailures
    BY <1>1, <1>8, <1>9, TelegramAssumption DEF LoadPut
  <2> QED
    BY <1>1, <1>9, <2>1, <2>2 DEF LoadPut, marks
<1>10. ASSUME NEW a \in Lookups, LoadDeleted(a) PROVE Held2
  <2>1. loads' \in [Lookups -> LoadType] /\ loads[a].sub \in Subs
    BY <1>1, <1>8, <1>10, <1>18 DEF LoadDeleted
  <2>2. /\ row' \in [Subs -> {None} \cup Logins]
        /\ identities' \in [Subs -> {None} \cup Logins]
    BY <1>1, <1>10 DEF LoadDeleted, Forgotten
  <2>3. failures' = failures \/ (failures < MaxFailures /\ failures' = failures + 1)
    BY <1>10 DEF LoadDeleted
  <2>4. failures' \in 0..MaxFailures
    BY <1>1, <2>3, TelegramAssumption
  <2>5. idle' \subseteq Entries' /\ expired' \subseteq Subs
    BY <1>1, <1>10, <2>1 DEF LoadDeleted
  <2> QED
    BY <1>1, <1>10, <2>1, <2>2, <2>4, <2>5 DEF LoadDeleted, MeetsIf
<1>11. ASSUME NEW x \in Entries, Restarted(x) \/ Sweeps(x) \/ Evicted(x) PROVE Held2
  BY <1>1, <1>2, <1>11 DEF Restarted, Sweeps, Evicted, Begin, MeetsIf, marks, stored, SubOf
<1>12. ASSUME NEW x \in Entries, Qr(x) \/ AskPassword(x) \/ Authorized(x) \/ RowPut(x)
       PROVE  Held2
  BY <1>1, <1>2, <1>12 DEF Qr, AskPassword, Authorized, RowPut, MeetsIf, marks, stored
<1>13. ASSUME NEW x \in Entries, PutFails(x) \/ FlowFails(x) \/ FlowDies(x) \/ FlowDeleted(x)
       PROVE  Held2
  BY <1>1, <1>2, <1>13, TelegramAssumption
     DEF PutFails, FlowFails, FlowDies, FlowDeleted, Forgotten, MeetsIf, marks, stored
<1>14. ASSUME NEW x \in Entries, Evict(x) \/ GoIdle(x) PROVE Held2
  BY <1>1, <1>14 DEF Evict, GoIdle, marks, stored
<1>15. ASSUME NEW l \in Logins, Revoke(l) PROVE Held2
  BY <1>1, <1>15 DEF Revoke, marks
<1>16. ASSUME Restart PROVE Held2
  BY <1>1, <1>16, <1>18 DEF Restart, stored
<1>17. Held2
  <2> HIDE DEF Held2
  <2> QED
    BY <1>4, <1>5, <1>6, <1>7, <1>8, <1>9, <1>10, <1>11, <1>12, <1>13, <1>14, <1>15, <1>16,
       <1>21, <1>22, <1>23, <1>24 DEF Next
<1> QED
  BY <1>3, <1>17 DEF Filed

-----------------------------------------------------------------------------
LEMMA TurnApart ==
  ASSUME Standing, Parted, NEW x \in Entries, NEW step, NEW socket, Turns(x, step, socket),
         NEW s \in Subs, SubOf(x) = s, Entries' = Entries,
         \A t \in Subs \ {s} :
           identities'[t] = identities[t] /\ LoadsKeep(t) /\ row'[t] = row[t],
         expired' \subseteq expired \cup {s}, failures > 0 => failures' > 0, met \subseteq met',
         s \notin met' => Apart(s)'
  PROVE  Parted'
<1>1. Len(live) \in Nat /\ Len(live) <= Len(live) /\ Entries' = 1 .. Len(live)
  BY EntriesTyped
<1>2. \A y \in Entries : /\ live'[y].sub = live[y].sub
                         /\ y # x => live'[y].step = live[y].step
  BY DEF Turns, Only, Alike
<1>3. \A y \in Entries' : live'[y].sub # s => y \in Entries /\ live'[y].step = live[y].step
  BY <1>2 DEF SubOf
<1> QED
  BY <1>1, <1>2, <1>3, OthersApart

\* A flow that ends with nothing under way, or begins.
LEMMA TurnRests ==
  ASSUME Standing, Parted, NEW x \in Entries, NEW step, NEW socket, Turns(x, step, socket),
         NEW s \in Subs, SubOf(x) = s, Entries' = Entries,
         live[x].step \notin {"putting", "deleting", "done"},
         step = "done" \/ (step = "auth" /\ s \notin expired'),
         UNCHANGED <<identities, row>>, \A t \in Subs : LoadsKeep(t),
         expired' \subseteq expired, failures > 0 => failures' > 0, met \subseteq met'
  PROVE  Parted'
<1>1. Len(live) \in Nat /\ Len(live) <= Len(live) /\ Entries' = 1 .. Len(live)
  BY EntriesTyped
<1>2. /\ \A y \in Entries : /\ live'[y].sub = live[y].sub
                            /\ y # x => live'[y].step = live[y].step
      /\ live'[x].step = step
  BY DEF Turns, Only, Alike
<1>3. ASSUME s \notin met' PROVE Apart(s)'
  <2>1. Apart(s)
    BY <1>3 DEF Parted
  <2>2. ASSUME NEW y \in Entries', live'[y].sub = s PROVE Rests(y, s)
    BY <1>2, <2>2 DEF Rests, SubOf
  <2> QED
    BY <1>1, <1>2, <2>1, <2>2, ApartKept
<1> QED
  BY <1>3, TurnApart

LEMMA QuietParts ==
  ASSUME TgPoolIInv, Next, Standing', Entries' = Entries,
         \/ \E s \in Subs : StartPaired(s) \/ SubmitPassword(s) \/ Me(s) \/ Prune(s) \/ CoolDown(s)
         \/ \E x \in Entries : Qr(x) \/ AskPassword(x) \/ Sweeps(x) \/ Evict(x) \/ GoIdle(x)
         \/ \E l \in Logins : Revoke(l)
  PROVE  Parted'
<1> DEFINE Same == \A y \in Entries : live'[y].sub = live[y].sub /\ live'[y].step = live[y].step
<1>1. Standing /\ Parted
  BY DEF TgPoolIInv
<1>2. ASSUME NEW x \in Entries, NEW socket, Turns(x, live[x].step, socket) PROVE Same
  BY <1>2 DEF Turns, Only, Alike
<1>3. /\ UNCHANGED <<identities, loads, row>> /\ expired' \subseteq expired
      /\ failures' = failures /\ met \subseteq met' /\ dead \subseteq dead'
  BY DEF StartPaired, CanStart, SubmitPassword, Me, Prune, CoolDown, Qr, AskPassword, Sweeps,
         Evict, GoIdle, Revoke, MeetsIf, marks, stored
<1>4. ASSUME NEW s \in Subs, StartPaired(s) \/ Me(s) \/ Prune(s) \/ CoolDown(s) PROVE Same
  BY <1>4 DEF StartPaired, Me, Prune, CoolDown
<1>5. ASSUME NEW s \in Subs, SubmitPassword(s) PROVE Same
  <2> HIDE DEF Same
  <2> QED
    BY <1>1, <1>2, <1>5, SubmitTurns
<1>6. ASSUME NEW x \in Entries, Qr(x) PROVE Same
  <2>1. live[x].step = "auth"
    BY <1>6 DEF Qr
  <2>2. Turns(x, live[x].step, "on") \/ Turns(x, live[x].step, "off")
    BY <1>1, <1>6, <2>1, QrTurns
  <2> HIDE DEF Same
  <2> QED
    BY <1>2, <2>2
<1>7. ASSUME NEW x \in Entries, AskPassword(x) PROVE Same
  <2>1. live[x].step = "auth"
    BY <1>7 DEF AskPassword
  <2>2. Turns(x, live[x].step, "on")
    BY <1>1, <1>7, <2>1, FlowTurns
  <2> HIDE DEF Same
  <2> QED
    BY <1>2, <2>2
<1>8. ASSUME NEW x \in Entries, Evict(x) PROVE Same
  <2>1. Turns(x, live[x].step, "off")
    BY <1>1, <1>8, DropTurns DEF Evict
  <2> HIDE DEF Same
  <2> QED
    BY <1>2, <2>1
<1>9. ASSUME NEW x \in Entries, GoIdle(x) PROVE Same
  BY <1>9 DEF GoIdle
<1>12. ASSUME NEW x \in Entries, Sweeps(x) PROVE Same
  <2>1. PICK y \in Entries : Turns(y, live[y].step, "off")
    BY <1>1, <1>12, SweepTurns DEF TgPoolIInv, Filed
  <2> HIDE DEF Same
  <2> QED
    BY <1>2, <2>1
<1>10. ASSUME NEW l \in Logins, Revoke(l) PROVE Same
  BY <1>10 DEF Revoke
<1>11. Same
  <2> HIDE DEF Same
  <2> QED
    BY <1>4, <1>5, <1>6, <1>7, <1>8, <1>9, <1>10, <1>12
<1>13. \A t \in Subs : LoadsKeep(t)
  BY <1>3, LoadsAsWere
<1> QED
  BY <1>1, <1>3, <1>11, <1>13, AllApart

LEMMA StartParts ==
  ASSUME TgPoolIInv, NEW s \in Subs, StartOver(s) \/ StartEvicts(s) \/ StartFresh(s)
  PROVE  Parted'
<1>1. Standing /\ Parted
  BY DEF TgPoolIInv
<1>2. /\ Entries' = 1 .. (Len(live) + 1) /\ met \subseteq met' /\ (s \notin met' => Unloaded(s))
      /\ \E gone, step, socket :
           /\ Adds(s, gone, step, socket)
           /\ step \in {"evicting", "dropping"} \/ (step = "auth" /\ s \notin expired')
  BY StartStands
<1>3. PICK gone, step, socket :
        /\ Adds(s, gone, step, socket)
        /\ step \in {"evicting", "dropping"} \/ (step = "auth" /\ s \notin expired')
  BY <1>2
<1>4. UNCHANGED <<identities, loads, row, dead, failures>>
  BY DEF StartOver, StartEvicts, StartFresh, stored
<1>11. \A t \in Subs : LoadsKeep(t)
  BY <1>4, LoadsAsWere
<1>5. expired' \subseteq expired
  BY <1>1, StartFreshAdds DEF StartOver, StartEvicts, marks
<1>6. Len(live) \in Nat /\ Entries = 1 .. Len(live)
  BY <1>1, EntriesTyped
<1>7. /\ \A y \in Entries : live'[y].sub = live[y].sub /\ live'[y].step = live[y].step
      /\ live'[Len(live) + 1].sub = s /\ live'[Len(live) + 1].step = step
  BY <1>3 DEF Adds, Follows
<1>8. /\ Len(live) + 1 \in Nat /\ Len(live) <= Len(live) + 1
      /\ \A y \in Entries' : y \in Entries \/ (y = Len(live) + 1 /\ y \notin Entries)
  BY <1>2, <1>6
<1>9. ASSUME s \notin met' PROVE Apart(s)'
  <2>1. Apart(s) /\ Unloaded(s)
    BY <1>1, <1>2, <1>9 DEF Parted
  <2>2. ASSUME NEW y \in Entries', live'[y].sub = s PROVE Rests(y, s)
    <3>1. CASE y \in Entries
      BY <1>7, <2>2, <3>1 DEF Rests
    <3>2. CASE y = Len(live) + 1 /\ y \notin Entries
      BY <1>3, <1>7, <2>1, <3>2 DEF Rests
    <3> QED
      BY <1>8, <3>1, <3>2
  <2> QED
    BY <1>1, <1>2, <1>4, <1>5, <1>7, <1>8, <1>11, <2>1, <2>2, ApartKept
<1>10. \A y \in Entries' : live'[y].sub # s => y \in Entries /\ live'[y].step = live[y].step
  BY <1>7, <1>8
<1> QED
  BY <1>1, <1>2, <1>4, <1>5, <1>7, <1>8, <1>9, <1>10, <1>11, OthersApart

LEMMA FlowParts ==
  ASSUME TgPoolIInv, NEW x \in Entries, Standing', Entries' = Entries, met \subseteq met',
         \/ Restarted(x) \/ Evicted(x) \/ Authorized(x) \/ RowPut(x) \/ PutFails(x)
         \/ FlowFails(x) \/ FlowDies(x) \/ FlowDeleted(x)
  PROVE  Parted'
<1>1. Standing /\ Parted /\ Filed
  BY DEF TgPoolIInv
<1>2. /\ Len(live) \in Nat /\ Entries = 1 .. Len(live) /\ Len(live) <= MaxStarts /\ MaxStarts \in Nat
      /\ live \in [Entries -> EntryType]
  BY <1>1, EntriesTyped, TelegramAssumption
<1>3. PICK s \in Subs : SubOf(x) = s
  BY <1>2 DEF SubOf, EntryType
<1>4. /\ identities \in [Subs -> {None} \cup Logins] /\ row \in [Subs -> {None} \cup Logins]
      /\ failures \in Nat
  BY <1>1, TelegramAssumption DEF Filed
<1>5. \A step, socket : Turns(x, step, socket) =>
        /\ \A y \in Entries : /\ live'[y].sub = live[y].sub
                              /\ y # x => live'[y].step = live[y].step
        /\ live'[x].step = step
  BY DEF Turns, Only, Alike
<1>6. x # None /\ x \in Nat /\ x # Old
  BY <1>2 DEF None, Old
\* What holds of the sub as long as nothing met it.
<1>7. ASSUME s \notin met
      PROVE  /\ LoadsAlone(s) /\ row[s] \in {None, Old} \cup Entries
             /\ identities[s] \notin {None, row[s]} =>
                  failures > 0 \/ \E z \in Entries : live[z].sub = s /\ live[z].step = "putting"
             /\ s \in expired /\ row[s] # None =>
                  failures > 0 \/ \E z \in Entries : live[z].sub = s /\ live[z].step = "deleting"
             /\ \A y \in Entries : live[y].sub = s =>
                  /\ live[y].step = "putting" =>
                       /\ identities[s] = y
                       /\ \A z \in Entries : live[z].sub = s /\ live[z].step # "done" => y <= z
                  /\ live[y].step = "deleting" => identities[s] = None
                  /\ live[y].step \in {"auth", "putting"} => s \notin expired
                  /\ live[y].step # "done" =>
                       Unloaded(s) /\ (row[s] \in {None, Old} \/ row[s] < y)
  <2>1. SubAlone(s) /\ \A y \in Entries : live[y].sub = s => FlowAlone(y)
    BY <1>1, <1>7, Zenon DEF Parted, Apart, SubOf
  <2>2. ASSUME NEW y \in Entries, live[y].sub = s
        PROVE  /\ live[y].step = "putting" =>
                    /\ identities[s] = y
                    /\ \A z \in Entries : live[z].sub = s /\ live[z].step # "done" => y <= z
               /\ live[y].step = "deleting" => identities[s] = None
               /\ live[y].step \in {"auth", "putting"} => s \notin expired
               /\ live[y].step # "done" =>
                    Unloaded(s) /\ (row[s] \in {None, Old} \/ row[s] < y)
    BY <2>1, <2>2 DEF FlowAlone, SubOf, Ended
  <2> QED
    BY <2>1, <2>2 DEF SubAlone, SubOf
<1>17. ASSUME UNCHANGED loads, s \notin met, live[x].step # "done"
       PROVE  Unloaded(s) /\ Unloaded(s)' /\ LoadsAlone(s)'
  <2>1. Unloaded(s)
    BY <1>3, <1>7, <1>17 DEF SubOf
  <2> QED
    BY <1>17, <2>1, UnloadedAlone
<1>18. ASSUME UNCHANGED <<loads, dead>>, NEW t \in Subs, row'[t] = row[t]
       PROVE  LoadsKeep(t)
  BY <1>18, LoadsAsWere
\* ... and what has to hold of it afterwards.
<1>8. ASSUME LoadsAlone(s)', row'[s] \in {None, Old} \cup Entries,
             identities'[s] \notin {None, row'[s]} =>
               failures' > 0 \/ \E z \in Entries : live'[z].sub = s /\ live'[z].step = "putting",
             s \in expired' /\ row'[s] # None =>
               failures' > 0 \/ \E z \in Entries : live'[z].sub = s /\ live'[z].step = "deleting",
             \A y \in Entries : live'[y].sub = s =>
               /\ live'[y].step = "putting" =>
                    /\ identities'[s] = y
                    /\ \A z \in Entries : live'[z].sub = s /\ live'[z].step # "done" => y <= z
               /\ live'[y].step = "deleting" => identities'[s] = None
               /\ live'[y].step \in {"auth", "putting"} => s \notin expired'
               /\ live'[y].step # "done" =>
                    Unloaded(s)' /\ (row'[s] \in {None, Old} \/ row'[s] < y)
      PROVE  Apart(s)'
  <2>1. SubAlone(s)'
    BY <1>8, Zenon DEF SubAlone, SubOf, None, Old
  <2>2. ASSUME NEW y \in Entries', live'[y].sub = s PROVE FlowAlone(y)'
    BY <1>8, <2>2 DEF FlowAlone, SubOf, Ended, None, Old
  <2> QED
    BY <2>1, <2>2 DEF Apart, SubOf
<1>9. CASE Restarted(x)
  <2>1. /\ Turns(x, "auth", "on") /\ live[x].step = "dropping" /\ expired' = expired \ {s}
        /\ UNCHANGED <<identities, loads, row, failures, dead>>
    BY <1>1, <1>3, <1>9, FlowTurns DEF Restarted, Begin, SubOf, stored
  <2> QED
    BY <1>1, <1>3, <1>18, <2>1, TurnRests
<1>10. CASE Evicted(x)
  <2>1. /\ live[x].step = "evicting" /\ UNCHANGED <<identities, loads, row, failures, dead>>
        /\ expired' \subseteq expired
        /\ \/ Turns(x, "done", live[x].client)
           \/ Turns(x, "auth", "on") /\ s \notin expired'
    BY <1>1, <1>3, <1>10, EvictedTurns DEF Evicted, stored
  <2> QED
    BY <1>1, <1>3, <1>18, <2>1, TurnRests
<1>11. CASE FlowFails(x)
  <2>1. /\ Turns(x, "done", "off") /\ live[x].step = "auth" /\ expired' = expired
        /\ UNCHANGED <<identities, loads, row, failures, dead>>
    BY <1>1, <1>11, DropTurns DEF FlowFails, marks, stored
  <2> QED
    BY <1>1, <1>3, <1>18, <2>1, TurnRests
<1>12. CASE Authorized(x)
  <2>1. /\ Turns(x, "putting", live[x].client) /\ live[x].step = "auth" /\ expired' = expired
        /\ identities' = [identities EXCEPT ![s] = x]
        /\ UNCHANGED <<loads, row, failures, dead>>
        /\ MeetsIf(s, live[x].client = "off" \/ ~Alone(x))
    BY <1>1, <1>3, <1>12, FlowTurns DEF Authorized, marks, stored
  <2>2. ASSUME s \notin met' PROVE Apart(s)'
    <3>1. s \notin met /\ \A y \in Entries : y # x /\ live[y].sub = s => live[y].step = "done"
      BY <1>3, <2>1, <2>2 DEF MeetsIf, Alone, SubOf, Ended
    <3>2. identities'[s] = x /\ live[x].sub = s
      BY <1>3, <1>4, <2>1 DEF SubOf
    <3>3. \A y \in Entries : live'[y].sub = s => y = x \/ live'[y].step = "done"
      BY <1>5, <2>1, <3>1
    <3>4. live'[x].sub = s /\ live'[x].step = "putting"
      BY <1>5, <2>1, <3>2
    <3>5. /\ Unloaded(s) /\ s \notin expired /\ (row[s] \in {None, Old} \/ row[s] < x)
          /\ row[s] \in {None, Old} \cup Entries
      BY <1>7, <2>1, <3>1, <3>2
    <3>6. /\ Unloaded(s)' /\ LoadsAlone(s)' /\ s \notin expired'
          /\ (row'[s] \in {None, Old} \/ row'[s] < x) /\ row'[s] \in {None, Old} \cup Entries
      BY <1>17, <2>1, <3>1, <3>5
    <3>7. \A z \in Entries : live'[z].sub = s /\ live'[z].step # "done" => x <= z
      <4>1. ASSUME NEW z \in Entries, live'[z].sub = s, live'[z].step # "done" PROVE x <= z
        <5>1. z = x
          BY <3>3, <4>1
        <5> QED
          BY <1>6, <5>1
      <4> QED
        BY <4>1
    <3>8. \A y \in Entries : live'[y].sub = s =>
            /\ live'[y].step = "putting" =>
                 /\ identities'[s] = y
                 /\ \A z \in Entries : live'[z].sub = s /\ live'[z].step # "done" => y <= z
            /\ live'[y].step = "deleting" => identities'[s] = None
            /\ live'[y].step \in {"auth", "putting"} => s \notin expired'
            /\ live'[y].step # "done" =>
                 Unloaded(s)' /\ (row'[s] \in {None, Old} \/ row'[s] < y)
      BY <3>2, <3>3, <3>4, <3>6, <3>7
    <3> QED
      BY <1>8, <3>4, <3>6, <3>8
  <2>3. \A t \in Subs \ {s} :
          identities'[t] = identities[t] /\ LoadsKeep(t) /\ row'[t] = row[t]
    BY <1>4, <1>18, <2>1
  <2> QED
    BY <1>1, <1>3, <2>1, <2>2, <2>3, TurnApart
<1>13. CASE RowPut(x)
  <2>1. /\ Turns(x, "done", live[x].client) /\ live[x].step = "putting" /\ expired' = expired
        /\ row' = [row EXCEPT ![s] = x]
        /\ UNCHANGED <<loads, identities, failures, met, dead>>
    BY <1>1, <1>3, <1>13, FlowTurns DEF RowPut, marks
  <2>2. ASSUME s \notin met' PROVE Apart(s)'
    <3>1. s \notin met /\ live[x].sub = s /\ row'[s] = x
      BY <1>3, <1>4, <2>1, <2>2 DEF SubOf
    <3>2. /\ identities[s] = x /\ Unloaded(s) /\ s \notin expired
          /\ \A z \in Entries : live[z].sub = s /\ live[z].step # "done" => x <= z
      BY <1>7, <2>1, <3>1
    <3>3. \A y \in Entries : live'[y].sub = s /\ live'[y].step # "done" =>
            live[y].sub = s /\ live'[y].step = live[y].step /\ x < y
      BY <1>2, <1>5, <2>1, <3>2
    <3>4. /\ identities'[s] = x /\ Unloaded(s)' /\ LoadsAlone(s)' /\ s \notin expired'
      BY <1>17, <2>1, <3>1, <3>2
    <3>5. \A y \in Entries : live'[y].sub = s /\ live'[y].step = "putting" => FALSE
      BY <1>2, <1>7, <3>1, <3>2, <3>3
    <3>6. \A y \in Entries : live'[y].sub = s /\ live'[y].step = "deleting" => FALSE
      BY <1>6, <1>7, <3>1, <3>2, <3>3
    <3>7. \A y \in Entries : live'[y].sub = s =>
            /\ live'[y].step = "putting" =>
                 /\ identities'[s] = y
                 /\ \A z \in Entries : live'[z].sub = s /\ live'[z].step # "done" => y <= z
            /\ live'[y].step = "deleting" => identities'[s] = None
            /\ live'[y].step \in {"auth", "putting"} => s \notin expired'
            /\ live'[y].step # "done" =>
                 Unloaded(s)' /\ (row'[s] \in {None, Old} \/ row'[s] < y)
      BY <3>1, <3>3, <3>4, <3>5, <3>6
    <3> QED
      BY <1>8, <3>1, <3>4, <3>7
  <2>3. \A t \in Subs \ {s} :
          identities'[t] = identities[t] /\ LoadsKeep(t) /\ row'[t] = row[t]
    BY <1>4, <1>18, <2>1
  <2> QED
    BY <1>1, <1>3, <2>1, <2>2, <2>3, TurnApart
<1>14. CASE PutFails(x)
  <2>1. /\ Turns(x, "done", "off") /\ live[x].step = "putting" /\ expired' = expired
        /\ failures' = failures + 1 /\ UNCHANGED <<loads, identities, row, met, dead>>
    BY <1>1, <1>14, DropTurns DEF PutFails, marks
  <2>2. failures' > 0
    BY <1>4, <2>1
  <2>3. ASSUME s \notin met' PROVE Apart(s)'
    <3>1. s \notin met /\ Unloaded(s)' /\ LoadsAlone(s)'
      BY <1>17, <2>1, <2>3
    <3>2. \A y \in Entries : live'[y].sub = s /\ live'[y].step # "done" =>
            live[y].sub = s /\ live'[y].step = live[y].step
      BY <1>5, <2>1
    <3>3. \A y \in Entries : live'[y].sub = s =>
            /\ live'[y].step = "putting" =>
                 /\ identities'[s] = y
                 /\ \A z \in Entries : live'[z].sub = s /\ live'[z].step # "done" => y <= z
            /\ live'[y].step = "deleting" => identities'[s] = None
            /\ live'[y].step \in {"auth", "putting"} => s \notin expired'
            /\ live'[y].step # "done" =>
                 Unloaded(s)' /\ (row'[s] \in {None, Old} \/ row'[s] < y)
      BY <1>7, <2>1, <3>1, <3>2
    <3>4. row'[s] \in {None, Old} \cup Entries
      BY <1>7, <2>1, <3>1
    <3> QED
      BY <1>8, <2>2, <3>1, <3>3, <3>4
  <2>4. \A t \in Subs \ {s} :
          identities'[t] = identities[t] /\ LoadsKeep(t) /\ row'[t] = row[t]
    BY <1>18, <2>1
  <2> QED
    BY <1>1, <1>3, <2>1, <2>2, <2>3, <2>4, TurnApart
<1>15. CASE FlowDies(x)
  <2>1. /\ Turns(x, "deleting", "on") /\ live[x].step = "auth" /\ expired' = expired \cup {s}
        /\ identities' = [identities EXCEPT ![s] = None]
        /\ UNCHANGED <<loads, row, failures, dead>> /\ MeetsIf(s, ~Alone(x))
    BY <1>1, <1>3, <1>15, FlowTurns DEF FlowDies, Forgotten, stored
  <2>2. ASSUME s \notin met' PROVE Apart(s)'
    <3>1. s \notin met /\ \A y \in Entries : y # x /\ live[y].sub = s => live[y].step = "done"
      BY <1>3, <2>1, <2>2 DEF MeetsIf, Alone, SubOf, Ended
    <3>2. identities'[s] = None /\ live[x].sub = s
      BY <1>3, <1>4, <2>1 DEF SubOf
    <3>3. \A y \in Entries : live'[y].sub = s => y = x \/ live'[y].step = "done"
      BY <1>5, <2>1, <3>1
    <3>4. live'[x].sub = s /\ live'[x].step = "deleting"
      BY <1>5, <2>1, <3>2
    <3>5. /\ Unloaded(s) /\ (row[s] \in {None, Old} \/ row[s] < x)
          /\ row[s] \in {None, Old} \cup Entries
      BY <1>7, <2>1, <3>1, <3>2
    <3>6. /\ Unloaded(s)' /\ LoadsAlone(s)'
          /\ (row'[s] \in {None, Old} \/ row'[s] < x) /\ row'[s] \in {None, Old} \cup Entries
      BY <1>17, <2>1, <3>1, <3>5
    <3>7. \A y \in Entries : live'[y].sub = s =>
            /\ live'[y].step = "putting" =>
                 /\ identities'[s] = y
                 /\ \A z \in Entries : live'[z].sub = s /\ live'[z].step # "done" => y <= z
            /\ live'[y].step = "deleting" => identities'[s] = None
            /\ live'[y].step \in {"auth", "putting"} => s \notin expired'
            /\ live'[y].step # "done" =>
                 Unloaded(s)' /\ (row'[s] \in {None, Old} \/ row'[s] < y)
      BY <3>2, <3>3, <3>4, <3>6
    <3> QED
      BY <1>8, <3>2, <3>4, <3>6, <3>7
  <2>3. \A t \in Subs \ {s} :
          identities'[t] = identities[t] /\ LoadsKeep(t) /\ row'[t] = row[t]
    BY <1>4, <1>18, <2>1
  <2> QED
    BY <1>1, <1>3, <2>1, <2>2, <2>3, TurnApart
<1>16. CASE FlowDeleted(x)
  <2>1. /\ Turns(x, "done", "off") /\ live[x].step = "deleting" /\ expired' = expired
        /\ UNCHANGED <<loads, identities, met, dead>>
        /\ \/ row' = [row EXCEPT ![s] = None] /\ failures' = failures
           \/ row' = row /\ failures' = failures + 1
    BY <1>1, <1>3, <1>16, DropTurns DEF FlowDeleted, marks
  <2>2. failures > 0 => failures' > 0
    BY <1>4, <2>1
  <2>3. ASSUME s \notin met' PROVE Apart(s)'
    <3>1. s \notin met /\ live[x].sub = s
      BY <1>3, <2>1, <2>3 DEF SubOf
    <3>2. identities'[s] = None /\ Unloaded(s)' /\ LoadsAlone(s)'
      BY <1>7, <1>17, <2>1, <3>1
    <3>3. row'[s] = None \/ (row'[s] = row[s] /\ failures' > 0)
      BY <1>4, <2>1
    <3>4. row'[s] \in {None, Old} \cup Entries
      BY <1>7, <3>1, <3>3
    <3>5. \A y \in Entries : live'[y].sub = s /\ live'[y].step # "done" =>
            live[y].sub = s /\ live'[y].step = live[y].step
      BY <1>5, <2>1
    <3>6. \A y \in Entries : live'[y].sub = s =>
            /\ live'[y].step = "putting" =>
                 /\ identities'[s] = y
                 /\ \A z \in Entries : live'[z].sub = s /\ live'[z].step # "done" => y <= z
            /\ live'[y].step = "deleting" => identities'[s] = None
            /\ live'[y].step \in {"auth", "putting"} => s \notin expired'
            /\ live'[y].step # "done" =>
                 Unloaded(s)' /\ (row'[s] \in {None, Old} \/ row'[s] < y)
      BY <1>7, <2>1, <3>1, <3>2, <3>3, <3>5
    <3> QED
      BY <1>8, <3>2, <3>3, <3>4, <3>6
  <2>4. \A t \in Subs \ {s} :
          identities'[t] = identities[t] /\ LoadsKeep(t) /\ row'[t] = row[t]
    BY <1>4, <1>18, <2>1
  <2> QED
    BY <1>1, <1>3, <2>1, <2>2, <2>3, <2>4, TurnApart
<1> QED
  BY <1>9, <1>10, <1>11, <1>12, <1>13, <1>14, <1>15, <1>16

\* A sub whose flows have all ended is apart when its lookups and its marks agree with its row.
LEMMA ApartDone ==
  ASSUME Standing, Entries' = Entries, NEW s \in Subs,
         \A y \in Entries : live'[y].sub = s => live'[y].step = "done",
         LoadsAlone(s)', row'[s] \in {None, Old} \cup Entries,
         identities'[s] \in {None, row'[s]} \/ failures' > 0,
         s \in expired' => row'[s] = None \/ failures' > 0
  PROVE  Apart(s)'
<1>1. SubAlone(s)'
  BY DEF SubAlone, SubOf, None, Old
<1>2. ASSUME NEW y \in Entries', live'[y].sub = s PROVE FlowAlone(y)'
  <2>1. live'[y].step = "done"
    BY <1>2
  <2> QED
    BY <2>1 DEF FlowAlone, SubOf, Ended
<1> QED
  BY <1>1, <1>2 DEF Apart, SubOf

\* A lookup is of one sub, and changes what is kept of no other.
LEMMA LooksApart ==
  ASSUME TgPoolIInv, NEW s \in Subs, NEW a \in Lookups,
         Looks(s, a) \/ (loads[a].sub = s /\ LoadDeleted(a))
  PROVE  /\ \A b \in Lookups \ {a} : loads'[b] = loads[b]
         /\ loads'[a].sub = s \/ loads'[a].step = "none"
         /\ \A t \in Subs \ {s} :
              identities'[t] = identities[t] /\ LoadsKeep(t) /\ row'[t] = row[t]
<1>1. /\ identities \in [Subs -> {None} \cup Logins] /\ row \in [Subs -> {None} \cup Logins]
      /\ loads \in [Lookups -> LoadType]
  BY DEF TgPoolIInv, Filed
<1>2. /\ \/ loads' = [loads EXCEPT ![a] = [sub |-> s, step |-> "reading", login |-> None]]
         \/ loads' = [loads EXCEPT ![a] = NoLoad]
         \/ loads' = [loads EXCEPT ![a].step = "loading", ![a].login = row[loads[a].sub]]
         \/ loads' = [loads EXCEPT ![a].step = "alive"]
         \/ loads' = [loads EXCEPT ![a].step = "deleting"]
         \/ loads' = [loads EXCEPT ![a].step = "putting"]
      /\ MeAsks(s, a) \/ (loads[a].sub = s /\ loads[a].step # "none")
  BY DEF Looks, MeAsks, RowRead, LoadAnswers, IdentityKnown, LoadPut, LoadDeleted
<1>3. \A b \in Lookups \ {a} : loads'[b] = loads[b]
  BY <1>1, <1>2
<1>4. loads'[a].sub = s \/ loads'[a].step = "none"
  <2>1. CASE MeAsks(s, a)
    BY <1>1, <2>1 DEF MeAsks
  <2>2. CASE loads[a].sub = s /\ loads[a].step # "none"
    <3>1. loads[a] \in [sub : Subs, step : {"reading"} \cup Loaded, login : {None} \cup Logins]
      BY <1>1, <2>2 DEF LoadType, NoLoad
    <3> QED
      BY <1>1, <1>2, <2>2, <3>1 DEF NoLoad
  <2> QED
    BY <1>2, <2>1, <2>2
<1>5. dead' = dead /\ \A t \in Subs \ {s} : identities'[t] = identities[t] /\ row'[t] = row[t]
  BY <1>1 DEF Looks, MeAsks, RowRead, LoadAnswers, IdentityKnown, LoadPut, LoadDeleted, Forgotten,
              stored
<1>6. ASSUME NEW t \in Subs \ {s} PROVE LoadsKeep(t)
  <2>1. \A b \in Lookups : loads'[b].sub = t => loads'[b] = loads[b] \/ loads'[b].step = "none"
    BY <1>3, <1>4, <1>6
  <2>2. row'[t] = row[t]
    BY <1>5, <1>6
  <2> QED
    BY <1>5, <2>1, <2>2 DEF LoadsKeep, Unloaded, LoadsAlone, Loaded, None
<1> QED
  BY <1>3, <1>4, <1>5, <1>6

\* The steps of a lookup that write nothing, and make nothing known.
LEMMA LookParts ==
  ASSUME TgPoolIInv, NEW s \in Subs, NEW a \in Lookups, Standing', Entries' = Entries,
         \/ MeAsks(s, a)
         \/ loads[a].sub = s /\ (LoadAnswers(a) \/ (RowRead(a) /\ row[s] = None))
  PROVE  Parted'
<1>1. Standing /\ Parted /\ loads \in [Lookups -> LoadType]
  BY DEF TgPoolIInv, Filed
<1>2. Looks(s, a)
  BY DEF Looks
<1>3. UNCHANGED <<live, identities, row, expired, failures, dead, met>>
  BY DEF MeAsks, RowRead, LoadAnswers, stored, marks
<1>4. /\ loads'[a].step \in {"reading", "none", "alive", "deleting"}
      /\ loads'[a].step \in {"alive", "deleting"} =>
           loads[a].sub = s /\ loads[a].step = "loading" /\ loads'[a].login = loads[a].login
      /\ loads'[a].step = "alive" => loads[a].login \notin dead
      /\ loads'[a].step = "deleting" => loads[a].login \in dead
  <2>1. CASE MeAsks(s, a)
    BY <1>1, <2>1 DEF MeAsks
  <2>2. CASE loads[a].sub = s /\ RowRead(a) /\ row[s] = None
    BY <1>1, <2>2 DEF RowRead, NoLoad
  <2>3. CASE loads[a].sub = s /\ LoadAnswers(a)
    <3>1. loads[a].step = "loading"
      BY <2>3 DEF LoadAnswers
    <3>2. loads[a] \in [sub : Subs, step : {"reading"} \cup Loaded, login : {None} \cup Logins]
      BY <1>1, <3>1 DEF LoadType, NoLoad
    <3> QED
      BY <1>1, <2>3, <3>1, <3>2 DEF LoadAnswers, NoLoad
  <2> QED
    BY <2>1, <2>2, <2>3
<1>5. \A b \in Lookups \ {a} : loads'[b] = loads[b]
  BY <1>2, LooksApart
<1>6. Unloaded(s) => Unloaded(s)'
  BY <1>4, <1>5 DEF Unloaded, Loaded
<1>7. ASSUME LoadsAlone(s) PROVE LoadsAlone(s)'
  <2>1. ASSUME NEW b \in Lookups, loads'[b].sub = s
        PROVE  /\ loads'[b].step = "deleting" => loads'[b].login \in dead
               /\ loads'[b].step \in {"alive", "putting"} => loads'[b].login = row[s]
               /\ loads'[b].step \in {"loading", "deleting"} =>
                    loads'[b].login = row[s] \/ (row[s] = None /\ loads'[b].login \in dead)
    <3>1. CASE b # a
      BY <1>5, <1>7, <2>1, <3>1 DEF LoadsAlone
    <3>2. CASE b = a
      BY <1>4, <1>7, <2>1, <3>2 DEF LoadsAlone
    <3> QED
      BY <3>1, <3>2
  <2> QED
    BY <1>3, <2>1 DEF LoadsAlone, None
<1>8. \A t \in Subs : LoadsKeep(t)
  <2>1. LoadsKeep(s)
    BY <1>6, <1>7 DEF LoadsKeep
  <2> QED
    BY <1>2, <2>1, LooksApart
<1> QED
  BY <1>1, <1>3, <1>8, AllApart

\* The steps that begin to load a session, and those that write what came of it.
LEMMA LoadParts ==
  ASSUME TgPoolIInv, NEW s \in Subs, NEW a \in Lookups, Standing', Entries' = Entries,
         loads[a].sub = s,
         \/ RowRead(a) /\ row[s] # None
         \/ IdentityKnown(a) \/ LoadPut(a) \/ LoadDeleted(a)
  PROVE  Parted'
<1>1. Standing /\ Parted /\ loads \in [Lookups -> LoadType]
  BY DEF TgPoolIInv, Filed
<1>2. /\ Len(live) \in Nat /\ Len(live) <= Len(live) /\ Entries' = 1 .. Len(live)
  BY <1>1, EntriesTyped
<1>3. /\ identities \in [Subs -> {None} \cup Logins] /\ row \in [Subs -> {None} \cup Logins]
      /\ failures \in Nat
  BY TelegramAssumption DEF TgPoolIInv, Filed
<1>4. \A y \in Entries : live'[y].sub = live[y].sub /\ live'[y].step = live[y].step
  <2>1. CASE live' = live
    BY <2>1
  <2>2. CASE sessions[s] # None /\ live' = Dropped(sessions[s])
    <3>1. sessions[s] \in Entries
      BY <1>1, <2>2 DEF Standing, Placed
    <3>2. Turns(sessions[s], live[sessions[s]].step, "off")
      BY <1>1, <2>2, <3>1, DropTurns
    <3> QED
      BY <3>2 DEF Turns, Only, Alike
  <2> QED
    BY <2>1, <2>2 DEF RowRead, IdentityKnown, LoadPut, LoadDeleted
<1>5. \A y \in Entries' : live'[y].sub # s => y \in Entries /\ live'[y].step = live[y].step
  BY <1>4
<1>6. met \subseteq met' /\ expired' \subseteq expired \cup {s}
  BY DEF RowRead, IdentityKnown, LoadPut, LoadDeleted, MeetsIf, marks
<1>7. failures > 0 => failures' > 0
  <2>1. failures' = failures \/ failures' = failures + 1
    BY DEF RowRead, IdentityKnown, LoadPut, LoadDeleted, stored
  <2> QED
    BY <1>3, <2>1
<1>8. /\ \A b \in Lookups \ {a} : loads'[b] = loads[b]
      /\ \A t \in Subs \ {s} :
           identities'[t] = identities[t] /\ LoadsKeep(t) /\ row'[t] = row[t]
  BY LooksApart DEF Looks
<1>9. ASSUME s \notin met'
      PROVE  /\ \A y \in Entries : live[y].sub = s => live[y].step = "done"
             /\ LoadsAlone(s) /\ row[s] \in {None, Old} \cup Entries
             /\ identities[s] \in {None, row[s]} \/ failures > 0
             /\ s \in expired => row[s] = None \/ failures > 0
  <2>1. SubAlone(s) /\ \A y \in Entries : live[y].sub = s => FlowAlone(y)
    BY <1>1, <1>6, <1>9, Zenon DEF Parted, Apart, SubOf
  <2>2. ASSUME NEW y \in Entries, live[y].sub = s PROVE live[y].step = "done"
    <3>1. CASE RowRead(a) /\ row[s] # None
      BY <1>9, <2>2, <3>1 DEF RowRead, MeetsIf, SubOf, Ended
    <3>2. CASE loads[a].step \in Loaded
      BY <2>1, <2>2, <3>2 DEF FlowAlone, SubOf, Ended, Unloaded
    <3> QED
      BY <3>1, <3>2 DEF IdentityKnown, LoadPut, LoadDeleted, Loaded
  <2> QED
    BY <2>1, <2>2 DEF SubAlone, SubOf
<1>11. loads[a] \in [sub : Subs, step : {"reading"} \cup Loaded, login : {None} \cup Logins]
  <2>1. loads[a].step # "none"
    BY DEF RowRead, IdentityKnown, LoadPut, LoadDeleted
  <2> QED
    BY <1>1, <2>1 DEF LoadType, NoLoad
\* What is asked of the lookups afterwards.
<1>12. ASSUME \A b \in Lookups : loads'[b].sub = s =>
                /\ loads'[b].step = "deleting" => loads'[b].login \in dead
                /\ loads'[b].step \in {"alive", "putting"} => loads'[b].login = row'[s]
                /\ loads'[b].step \in {"loading", "deleting"} =>
                     loads'[b].login = row'[s] \/ (row'[s] = None /\ loads'[b].login \in dead)
       PROVE  LoadsAlone(s)'
  <2>1. dead' = dead
    BY DEF RowRead, IdentityKnown, LoadPut, LoadDeleted, stored
  <2> QED
    BY <1>12, <2>1 DEF LoadsAlone, None
<1>13. ASSUME s \notin met' PROVE Apart(s)'
  <2>1. \A y \in Entries : live'[y].sub = s => live'[y].step = "done"
    BY <1>4, <1>9, <1>13
  <2>2. ASSUME NEW b \in Lookups, b # a, loads'[b].sub = s
        PROVE  /\ loads'[b] = loads[b] /\ loads[b].sub = s
               /\ loads[b].step = "deleting" => loads[b].login \in dead
               /\ loads[b].step \in {"alive", "putting"} => loads[b].login = row[s]
               /\ loads[b].step \in {"loading", "deleting"} =>
                    loads[b].login = row[s] \/ (row[s] = None /\ loads[b].login \in dead)
    BY <1>8, <1>9, <1>13, <2>2 DEF LoadsAlone
  <2>3. CASE RowRead(a) /\ row[s] # None
    <3>1. /\ loads' = [loads EXCEPT ![a].step = "loading", ![a].login = row[s]]
          /\ UNCHANGED <<identities, row, failures, expired>>
      BY <2>3 DEF RowRead, stored, marks
    <3>2. loads'[a].step = "loading" /\ loads'[a].login = row'[s]
      BY <1>1, <1>11, <3>1
    <3>3. LoadsAlone(s)'
      BY <1>12, <2>2, <3>1, <3>2
    <3> QED
      BY <1>1, <1>9, <1>13, <2>1, <3>1, <3>3, ApartDone
  <2>4. CASE IdentityKnown(a)
    <3>1. /\ loads' = [loads EXCEPT ![a].step = "putting"] /\ loads[a].step = "alive"
          /\ identities' = [identities EXCEPT ![s] = loads[a].login]
          /\ UNCHANGED <<row, failures, expired>>
      BY <2>4 DEF IdentityKnown, stored, marks
    <3>2. loads[a].login = row[s]
      BY <1>9, <1>13, <3>1 DEF LoadsAlone
    <3>3. loads'[a].step = "putting" /\ loads'[a].login = row'[s]
      BY <1>1, <1>11, <3>1, <3>2
    <3>4. LoadsAlone(s)'
      BY <1>12, <2>2, <3>1, <3>3
    <3>5. identities'[s] = row'[s]
      BY <1>3, <3>1, <3>2
    <3> QED
      BY <1>1, <1>9, <1>13, <2>1, <3>1, <3>4, <3>5, ApartDone
  <2>5. CASE LoadPut(a)
    <3>1. /\ loads' = [loads EXCEPT ![a] = NoLoad] /\ UNCHANGED <<identities, expired>>
          /\ row' = [row EXCEPT ![s] = loads[a].login] \/ row' = row
          /\ loads[a].step = "putting"
      BY <2>5 DEF LoadPut, marks
    <3>2. loads[a].login = row[s]
      BY <1>9, <1>13, <3>1 DEF LoadsAlone
    <3>3. row'[s] = row[s]
      BY <1>3, <3>1, <3>2
    <3>4. loads'[a].step = "none"
      BY <1>1, <3>1 DEF NoLoad
    <3>5. LoadsAlone(s)'
      BY <1>12, <2>2, <3>3, <3>4
    <3> QED
      BY <1>1, <1>7, <1>9, <1>13, <2>1, <3>1, <3>3, <3>5, ApartDone
  <2>6. CASE LoadDeleted(a)
    <3>1. /\ loads' = [loads EXCEPT ![a] = NoLoad] /\ identities' = [identities EXCEPT ![s] = None]
          /\ row' = [row EXCEPT ![s] = None] \/ (row' = row /\ failures' = failures + 1)
          /\ loads[a].step = "deleting"
          /\ MeetsIf(s, Loading(s, {"alive", "putting"}) # {})
      BY <2>6 DEF LoadDeleted, Forgotten
    <3>2. row'[s] = None \/ (row'[s] = row[s] /\ failures' > 0)
      BY <1>3, <3>1
    <3>3. loads'[a].step = "none" /\ identities'[s] = None
      BY <1>1, <1>3, <3>1 DEF NoLoad
    <3>4. loads[a].login \in dead /\ (loads[a].login = row[s] \/ row[s] = None)
      BY <1>9, <1>13, <3>1 DEF LoadsAlone
    <3>5. \A b \in Lookups : loads[b].sub = s => loads[b].step \notin {"alive", "putting"}
      BY <1>13, <3>1 DEF MeetsIf, Loading
    <3>6. LoadsAlone(s)'
      <4>1. ASSUME NEW b \in Lookups, b # a, loads'[b].sub = s
            PROVE  /\ loads'[b].step = "deleting" => loads'[b].login \in dead
                   /\ loads'[b].step \in {"alive", "putting"} => loads'[b].login = row'[s]
                   /\ loads'[b].step \in {"loading", "deleting"} =>
                        loads'[b].login = row'[s] \/ (row'[s] = None /\ loads'[b].login \in dead)
        BY <2>2, <3>2, <3>4, <3>5, <4>1
      <4> QED
        BY <1>12, <3>3, <4>1
    <3> QED
      BY <1>1, <1>9, <1>13, <2>1, <3>2, <3>3, <3>6, ApartDone
  <2> QED
    BY <2>3, <2>4, <2>5, <2>6
<1> QED
  BY <1>1, <1>2, <1>4, <1>5, <1>6, <1>7, <1>8, <1>13, OthersApart

LEMMA RestartParts ==
  ASSUME TgPoolIInv, Restart
  PROVE  Parted'
<1>1. /\ Standing /\ Parted /\ Standing' /\ Entries' = Entries
      /\ \A y \in Entries : live'[y].step = "done"
  BY RestartStands DEF TgPoolIInv
<1>2. SUFFICES ASSUME NEW s \in Subs, s \notin met' PROVE Apart(s)'
  BY DEF Parted
<1>3. /\ identities'[s] = None /\ row' = row /\ expired' = {} /\ met' = met
      /\ \A a \in Lookups : loads'[a] = NoLoad
  BY DEF Restart, stored
<1>4. row[s] \in {None, Old} \cup Entries
  BY <1>1, <1>2, <1>3 DEF Parted, Apart, SubAlone
<1>5. LoadsAlone(s)'
  BY <1>3 DEF NoLoad, LoadsAlone
<1> QED
  BY <1>1, <1>3, <1>4, <1>5, ApartDone

-----------------------------------------------------------------------------
LEMMA TgPoolInit == Init => TgPoolIInv
<1> SUFFICES ASSUME Init PROVE TgPoolIInv
  OBVIOUS
<1>1. live = <<>> /\ Entries = {} /\ live \in Seq(EntryType) /\ Len(live) = 0
  BY DEF Init, Entries
<1>2. Standing
  BY <1>1, TelegramAssumption
     DEF Init, Standing, Placed, WaiterIsLive, Budget, StartsWait, NoOrphan, None
<1>3. Filed
  BY <1>1, TelegramAssumption DEF Init, Filed, None, LoadType, Logins, Old
<1>4. Parted
  BY <1>1 DEF Init, Parted, Apart, SubAlone, LoadsAlone, NoLoad, SubOf
<1> QED
  BY <1>2, <1>3, <1>4 DEF TgPoolIInv

LEMMA TgPoolStep == TgPoolIInv /\ [Next]_vars => TgPoolIInv'
<1> SUFFICES ASSUME TgPoolIInv, [Next]_vars PROVE TgPoolIInv'
  OBVIOUS
<1>1. CASE UNCHANGED vars
  <2>1. /\ Entries' = Entries
        /\ UNCHANGED <<live, sessions, expired, exhausted, cooling, idle, identities, loads,
                       row, dead, failures, met>>
    BY <1>1 DEF vars, Entries
  <2>2. Standing'
    BY <2>1, StillKeeps DEF TgPoolIInv
  <2>3. Filed'
    BY <2>1 DEF TgPoolIInv, Filed, LoadType, NoLoad, Loaded, Logins, Old, None
  <2>4. \A t \in Subs : LoadsKeep(t)
    BY <2>1, LoadsAsWere
  <2>5. Parted'
    BY <2>1, <2>4, AllApart DEF TgPoolIInv
  <2> QED
    BY <2>2, <2>3, <2>5 DEF TgPoolIInv
<1>2. CASE Next
  <2>1. ASSUME Standing', Entries \subseteq Entries', Parted' PROVE TgPoolIInv'
    BY <1>2, <2>1, FiledKept DEF TgPoolIInv
  <2>2. ASSUME NEW s \in Subs, StartOver(s) \/ StartEvicts(s) \/ StartFresh(s) PROVE TgPoolIInv'
    BY <2>1, <2>2, StartStands, StartParts
  <2>3. ASSUME NEW s \in Subs, StartPaired(s) \/ Me(s) \/ Prune(s) \/ CoolDown(s)
        PROVE  TgPoolIInv'
    <3>1. Standing' /\ Entries' = Entries
      BY <2>3, IdleGoes
    <3>2. Parted'
      BY <1>2, <2>3, <3>1, QuietParts
    <3> QED
      BY <2>1, <3>1, <3>2
  <2>4. ASSUME NEW s \in Subs, SubmitPassword(s) PROVE TgPoolIInv'
    <3>1. Standing' /\ Entries' = Entries
      BY <2>4, CallStands
    <3>2. Parted'
      BY <1>2, <2>4, <3>1, QuietParts
    <3> QED
      BY <2>1, <3>1, <3>2
  <2>5. ASSUME NEW s \in Subs, NEW a \in Lookups, Looks(s, a) PROVE TgPoolIInv'
    <3>1. Standing' /\ Entries' = Entries
      BY <2>5, LookStands
    <3>2. CASE MeAsks(s, a) \/ (loads[a].sub = s /\ (LoadAnswers(a) \/ (RowRead(a) /\ row[s] = None)))
      BY <2>1, <3>1, <3>2, LookParts
    <3>3. CASE loads[a].sub = s /\ ((RowRead(a) /\ row[s] # None) \/ IdentityKnown(a) \/ LoadPut(a))
      BY <2>1, <3>1, <3>3, LoadParts
    <3> QED
      BY <2>5, <3>2, <3>3 DEF Looks
  <2>10. ASSUME NEW a \in Lookups,
                RowRead(a) \/ LoadAnswers(a) \/ IdentityKnown(a) \/ LoadPut(a) \/ LoadDeleted(a)
         PROVE  TgPoolIInv'
    <3>1. loads[a].step # "none"
      BY <2>10 DEF RowRead, LoadAnswers, IdentityKnown, LoadPut, LoadDeleted
    <3>2. PICK s \in Subs : loads[a].sub = s
      BY <3>1 DEF TgPoolIInv, Filed, LoadType, NoLoad
    <3>3. CASE Looks(s, a)
      BY <2>5, <3>3
    <3>4. CASE LoadDeleted(a)
      <4>1. Standing' /\ Entries' = Entries
        BY <3>2, <3>4, CallStands
      <4> QED
        BY <2>1, <3>2, <3>4, <4>1, LoadParts
    <3> QED
      BY <2>10, <3>2, <3>3, <3>4 DEF Looks
  <2>6. ASSUME NEW x \in Entries, Qr(x) \/ AskPassword(x) \/ Sweeps(x) \/ Evict(x)
        PROVE  TgPoolIInv'
    <3>1. Standing' /\ Entries' = Entries
      BY <2>6, FlowStands
    <3>2. Parted'
      BY <1>2, <2>6, <3>1, QuietParts
    <3> QED
      BY <2>1, <3>1, <3>2
  <2>7. ASSUME NEW x \in Entries,
               \/ Restarted(x) \/ Evicted(x) \/ Authorized(x) \/ RowPut(x) \/ PutFails(x)
               \/ FlowFails(x) \/ FlowDies(x) \/ FlowDeleted(x)
        PROVE  TgPoolIInv'
    <3>1. Standing' /\ Entries' = Entries /\ met \subseteq met'
      BY <2>7, FlowStands
    <3>2. Parted'
      BY <2>7, <3>1, FlowParts
    <3> QED
      BY <2>1, <3>1, <3>2
  <2>8. ASSUME (\E x \in Entries : GoIdle(x)) \/ (\E l \in Logins : Revoke(l)) PROVE TgPoolIInv'
    <3>1. Standing' /\ Entries' = Entries
      BY <2>8, StillKeeps DEF TgPoolIInv, GoIdle, Revoke, marks
    <3>2. Parted'
      BY <1>2, <2>8, <3>1, QuietParts
    <3> QED
      BY <2>1, <3>1, <3>2
  <2>9. ASSUME Restart PROVE TgPoolIInv'
    BY <2>1, <2>9, RestartStands, RestartParts
  <2>11. ASSUME NEW s \in Subs, NEW a \in Lookups, MeAsks(s, a) PROVE TgPoolIInv'
    BY <2>5, <2>11 DEF Looks
  <2> QED
    BY <1>2, <2>2, <2>3, <2>4, <2>6, <2>7, <2>8, <2>9, <2>10, <2>11 DEF Next
<1> QED
  BY <1>1, <1>2

LEMMA TgPoolSays == TgPoolIInv => TelegramPoolInv
<1> SUFFICES ASSUME TgPoolIInv PROVE TelegramPoolInv
  OBVIOUS
<1>1. TelegramTypeOK
  BY DEF TgPoolIInv, Standing, Placed, Filed, TelegramTypeOK
<1>2. NoOrphan /\ WaiterIsLive
  BY DEF TgPoolIInv, Standing
<1>3. \A s \in Subs \ met : SubAlone(s)
  BY DEF TgPoolIInv, Parted, Apart
<1>4. IdentityIsRow
  BY <1>3 DEF SubAlone, IdentityIsRow
<1>5. ExpiredHasNoRow
  <2>1. expired \subseteq Subs
    BY DEF TgPoolIInv, Filed
  <2>2. SUFFICES ASSUME NEW s \in expired \ met, sessions[s] = None /\ row[s] # None
                 PROVE  \/ failures > 0
                        \/ \E x \in Entries : SubOf(x) = s /\ live[x].step = "deleting"
    BY Zenon DEF ExpiredHasNoRow
  <2> QED
    BY <1>3, <2>1, <2>2 DEF SubAlone
<1> QED
  BY <1>1, <1>2, <1>4, <1>5 DEF TelegramPoolInv

\* What the pool tells of a sub agrees with what it holds and the store has, for every set of
\* subs, number of places, starts, lookups and failures: the status, the cached identity, the password
\* that waits, and the clients that are connected, of subs nothing met.
THEOREM PoolStaysWhole == Spec => []TelegramPoolInv
<1>1. Spec => []TgPoolIInv
  BY TgPoolInit, TgPoolStep, PTL DEF Spec
<1> QED
  BY <1>1, TgPoolSays, PTL

\* A login enters a row only from a flow that was authorized, or from where it was read, and no
\* older login replaces a newer one, unless a lookup or a flow of its sub met another.
THEOREM RowsMoveOn == Spec => RowMovesOn
<1> DEFINE OnlyOn == \A s \in Subs : row'[s] \notin {None, row[s]} =>
       \/ s \in met /\ \E a \in Loading(s, {"putting"}) : row'[s] = loads[a].login
       \/ /\ row'[s] # Old /\ live[row'[s]].step = "putting"
          /\ row[s] \in {None, Old} \/ row'[s] > row[s] \/ s \in met
<1>1. Spec => []TgPoolIInv
  BY TgPoolInit, TgPoolStep, PTL DEF Spec
<1>2. TgPoolIInv /\ [Next]_vars => [OnlyOn]_vars
  <2> SUFFICES ASSUME TgPoolIInv, Next PROVE OnlyOn
    OBVIOUS
  <2>1. /\ Len(live) <= MaxStarts /\ MaxStarts \in Nat /\ Entries = 1 .. Len(live)
        /\ Len(live) \in Nat /\ live \in [Entries -> EntryType] /\ row \in [Subs -> {None} \cup Logins]
    BY EntriesTyped, TelegramAssumption DEF TgPoolIInv, Filed
  <2>2. ASSUME NEW x \in Entries, RowPut(x) PROVE OnlyOn
    <3>1. /\ row' = [row EXCEPT ![live[x].sub] = x] /\ live[x].step = "putting" /\ x # Old
      BY <2>1, <2>2 DEF RowPut, SubOf, Old
    <3>2. live[x].sub \notin met => row[live[x].sub] \in {None, Old} \/ row[live[x].sub] < x
      <4>1. live[x].sub \in Subs
        BY <2>1 DEF EntryType
      <4>2. live[x].sub \notin met => FlowAlone(x)
        BY <4>1 DEF TgPoolIInv, Parted, Apart, SubOf
      <4> QED
        BY <3>1, <4>2 DEF FlowAlone, SubOf, Ended
    <3>3. ASSUME NEW s \in Subs, row'[s] \notin {None, row[s]}
          PROVE  /\ row'[s] = x
                 /\ row[s] \in {None, Old} \/ x > row[s] \/ s \in met
      <4>1. s = live[x].sub
        BY <2>1, <3>1, <3>3
      <4>2. row'[s] = x
        BY <2>1, <3>1, <4>1
      <4>3. row[s] \in Nat /\ x \in Nat
        BY <2>1 DEF None, Logins, Old
      <4> QED
        BY <3>2, <4>1, <4>2, <4>3
    <3> QED
      BY <3>1, <3>3
  <2>9. \A a \in Lookups : loads[a].step # "none" => loads[a].sub \in Subs
    BY DEF TgPoolIInv, Filed, LoadType, NoLoad
  <2>3. ASSUME NEW a \in Lookups, NEW s \in Subs, loads[a].sub = s, LoadPut(a) PROVE OnlyOn
    <3>1. /\ row' = [row EXCEPT ![s] = loads[a].login] \/ row' = row
          /\ loads[a].step = "putting" /\ a \in Loading(s, {"putting"})
      BY <2>3 DEF LoadPut, Loading
    <3>2. s \notin met => loads[a].login = row[s]
      BY <2>3, <3>1 DEF TgPoolIInv, Parted, Apart, SubAlone, LoadsAlone
    <3>3. ASSUME NEW t \in Subs, row'[t] \notin {None, row[t]}
          PROVE  t \in met /\ \E b \in Loading(t, {"putting"}) : row'[t] = loads[b].login
      <4>1. t = s /\ row'[t] = loads[a].login
        BY <2>1, <3>1, <3>3
      <4> QED
        BY <3>1, <3>2, <3>3, <4>1
    <3> QED
      BY <3>3
  <2>4. ASSUME \/ row' = row
               \/ \E s \in Subs : row' = [row EXCEPT ![s] = None]
        PROVE  OnlyOn
    BY <2>1, <2>4
  <2>5. ASSUME NEW x \in Entries, NEW s \in Subs, SubOf(x) = s, FlowDeleted(x) PROVE OnlyOn
    <3>1. row' = row \/ row' = [row EXCEPT ![s] = None]
      BY <2>5 DEF FlowDeleted
    <3> HIDE DEF OnlyOn
    <3> QED
      BY <2>4, <3>1
  <2>6. \A x \in Entries : SubOf(x) \in Subs
    BY <2>1 DEF SubOf, EntryType
  <2>7. ASSUME NEW a \in Lookups, NEW s \in Subs, loads[a].sub = s, LoadDeleted(a) PROVE OnlyOn
    <3>1. row' = row \/ row' = [row EXCEPT ![s] = None]
      BY <2>7 DEF LoadDeleted
    <3> HIDE DEF OnlyOn
    <3> QED
      BY <2>4, <3>1
  <2>8. \/ row' = row \/ (\E x \in Entries : RowPut(x) \/ FlowDeleted(x))
        \/ \E a \in Lookups : LoadPut(a) \/ LoadDeleted(a)
    BY DEF Next, StartPaired, StartOver, StartEvicts, StartFresh, SubmitPassword, Me, MeAsks,
           RowRead, LoadAnswers, IdentityKnown, Prune, CoolDown, Restarted, Sweeps, Evicted, Qr,
           AskPassword, Authorized, PutFails, FlowFails, FlowDies, Evict, GoIdle, Revoke, Restart,
           stored
  <2>10. ASSUME NEW a \in Lookups, LoadPut(a) \/ LoadDeleted(a) PROVE OnlyOn
    <3>1. loads[a].sub \in Subs
      BY <2>9, <2>10 DEF LoadPut, LoadDeleted
    <3> HIDE DEF OnlyOn
    <3> QED
      BY <2>3, <2>7, <2>10, <3>1
  <2> HIDE DEF OnlyOn
  <2> QED
    BY <2>2, <2>4, <2>5, <2>6, <2>8, <2>10
<1>3. Spec => [][OnlyOn]_vars
  BY <1>1, <1>2, PTL DEF Spec
<1> QED
  BY <1>3 DEF RowMovesOn
=============================================================================
