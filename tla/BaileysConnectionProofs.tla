------------------------ MODULE BaileysConnectionProofs ------------------------
(***************************************************************************)
(* Theorems about BaileysConnection, for any set of sockets.               *)
(***************************************************************************)
EXTENDS BaileysConnection, BrainIngest, FiniteSetTheorems, SequenceTheorems, TLAPS

(* While a connect() is under way there is one caller, no socket, and no   *)
(* timer or watchdog that could start another.                             *)
ConnectInv ==
  /\ connecting => sock = None /\ ~timer /\ ~watchdog /\ ~ready
  /\ \A c, d \in callers : c = d

Inv ==
  /\ TypeOK /\ ConnectInv
  /\ OneSocket /\ ReadyIsOpen /\ OpenIsReady
  /\ KeepsTrying /\ StaysOff

LEMMA InitInv == Init => Inv
  BY SocketAssumption
  DEF Init, Inv, TypeOK, ConnectInv, OneSocket, ReadyIsOpen, OpenIsReady,
      KeepsTrying, StaysOff, Live

(* What destroyCurrentSocket() leaves: no socket lives. *)
LEMMA Destroyed ==
  ASSUME Inv, DestroyCurrentSocket
  PROVE  /\ phase' \in [Sockets -> {"starting", "hung", "qr", "open", "ending", "closed"}]
         /\ sock' = None
         /\ \A k \in Sockets : ~Live(k)'
<1>1. \A k \in Sockets : ~Live(k)'
  BY DEF DestroyCurrentSocket, Inv, TypeOK, OneSocket, Live
<1>2. QED
  BY <1>1 DEF DestroyCurrentSocket, Inv, TypeOK

(* connect() and disconnect() in terms of what is left. *)
LEMMA NothingLives ==
  ASSUME Inv, TypeOK', ConnectInv', ~ready', \A k \in Sockets : ~Live(k)',
         wanted' => connecting',
         ~wanted' => woken' \/ (~connecting' /\ ~timer' /\ ~watchdog')
  PROVE  Inv'
  BY DEF Inv, OneSocket, ReadyIsOpen, OpenIsReady, KeepsTrying, StaysOff, Live

LEMMA StartsInv ==
  ASSUME Inv, ~connecting, NEW caller \in {"main", "renew", "timer", "watchdog"},
         Starts(caller), state' \in {"INITIALIZING", "CLOSED"},
         booted' \in BOOLEAN, wanted', woken' \in BOOLEAN
  PROVE  Inv'
<1>1. TypeOK'
  BY Destroyed DEF Starts, TimersCleared, Inv, TypeOK
<1>2. callers' = {caller}
  BY DEF Starts, Inv, TypeOK
<1>3. ConnectInv'
  BY <1>2, Destroyed DEF Starts, TimersCleared, ConnectInv
<1>4. QED
  BY <1>1, <1>3, Destroyed, NothingLives DEF Starts

LEMMA DisconnectsInv ==
  ASSUME Inv, Disconnects, booted' \in BOOLEAN, wanted' \in BOOLEAN,
         woken' \in BOOLEAN, wanted' => connecting, ~wanted' => woken' = connecting
  PROVE  Inv'
<1>1. TypeOK'
  BY Destroyed DEF Disconnects, TimersCleared, Inv, TypeOK
<1>2. ConnectInv'
  BY Destroyed DEF Disconnects, TimersCleared, Inv, ConnectInv
<1>3. QED
  BY <1>1, <1>2, Destroyed, NothingLives DEF Disconnects, TimersCleared

(* The reconnects of the timer and of the watchdog: whoever disconnected   *)
(* the client has seen a late close since.                                 *)
LEMMA ReconnectInv ==
  ASSUME Inv, ~connecting, timer \/ watchdog,
         NEW caller \in {"timer", "watchdog"}, ReconnectNow(caller)
  PROVE  Inv'
<1>1. TypeOK'
  BY Destroyed DEF ReconnectNow, Starts, TimersCleared, Inv, TypeOK
<1>2. callers' = {caller}
  BY DEF ReconnectNow, Starts, Inv, TypeOK
<1>3. ConnectInv'
  BY <1>2, Destroyed DEF ReconnectNow, Starts, TimersCleared, ConnectInv
<1>4. ~wanted' => woken'
  BY DEF ReconnectNow, Inv, StaysOff, TypeOK
<1>5. QED
  BY <1>1, <1>3, <1>4, Destroyed, NothingLives DEF ReconnectNow, Starts

LEMMA SocketMadeInv ==
  ASSUME Inv, NEW k \in Sockets, NEW first \in {"starting", "hung"},
         SocketMade(k, first)
  PROVE  Inv'
<1>1. /\ connecting /\ callers' = {}
      /\ ~connecting' /\ sock' = k /\ watchdog' /\ UNCHANGED <<flags, timer, asked>>
      /\ phase' = [phase EXCEPT ![k] = first]
  BY DEF SocketMade, Finally, Inv, TypeOK, ConnectInv
<1>2. \A j \in Sockets : Live(j)' <=> j = k
  BY <1>1, SocketAssumption DEF Inv, TypeOK, ConnectInv, OneSocket, Live
<1>3. TypeOK'
  <2>1. callers' = {} /\ connecting' = FALSE /\ watchdog' = TRUE
    BY DEF SocketMade, Finally, Inv, ConnectInv, TypeOK
  <2>2. phase' \in [Sockets -> {"starting", "hung", "qr", "open", "ending", "closed"}]
    BY <1>1 DEF Inv, TypeOK
  <2>3. /\ ready' = ready /\ state' = state /\ since' = since /\ timer' = timer
        /\ booted' = booted /\ wanted' = wanted /\ woken' = woken /\ failed' = failed
    BY <1>1 DEF flags, asked
  <2>4. sock' \in Sockets
    BY <1>1
  <2>5. QED
    BY <2>1, <2>2, <2>3, <2>4 DEF Inv, TypeOK
<1>4. ConnectInv' /\ OneSocket' /\ KeepsTrying'
  BY <1>1, <1>2 DEF ConnectInv, OneSocket, KeepsTrying
<1>5. ReadyIsOpen' /\ OpenIsReady'
  BY <1>1, <1>2 DEF ReadyIsOpen, OpenIsReady, Inv, TypeOK, ConnectInv, Live, flags
<1>6. StaysOff'
  BY <1>1 DEF StaysOff, Inv, asked
<1>7. QED
  BY <1>3, <1>4, <1>5, <1>6 DEF Inv

LEMMA ConnectFailsInv ==
  ASSUME Inv, NEW caller \in callers, ConnectFails(caller)
  PROVE  Inv'
<1>1. CASE caller = "main"
  <2>1. Init'
    BY <1>1 DEF ConnectFails, Init
  <2>2. QED
    BY <2>1, SocketAssumption
    DEF Init, Inv, TypeOK, ConnectInv, OneSocket, ReadyIsOpen, OpenIsReady,
        KeepsTrying, StaysOff, Live
<1>2. CASE caller # "main"
  <2>1. /\ connecting /\ callers' = {} /\ ~connecting' /\ failed'
        /\ UNCHANGED <<sock, phase, flags, timers, booted, wanted, woken>>
    BY <1>2 DEF ConnectFails, Finally, Inv, TypeOK, ConnectInv
  <2>2. TypeOK' /\ ConnectInv'
    BY <1>2, <2>1 DEF Inv, TypeOK, ConnectInv, flags, timers, ConnectFails, Finally
  <2>3. QED
    BY <2>1, <2>2
    DEF Inv, OneSocket, ReadyIsOpen, OpenIsReady, KeepsTrying, StaysOff, Live,
        flags, timers
<1>3. QED
  BY <1>1, <1>2

(* The events of a live socket, which is the current one. *)
LEMMA EventInv ==
  ASSUME Inv, NEW k \in Sockets,
         ConnectingEvent(k) \/ QrShown(k) \/ Opened(k) \/ SocketCloses(k)
  PROVE  Inv'
<1>1. sock = k /\ ~connecting /\ Live(k)
  BY SocketAssumption
  DEF Inv, OneSocket, ConnectInv, Live, ConnectingEvent, QrShown, Opened,
      SocketCloses
<1>2. wanted \/ woken
  BY <1>1 DEF Inv, StaysOff, TypeOK
<1>3. CASE ConnectingEvent(k)
  BY <1>1, <1>3
  DEF ConnectingEvent, Inv, TypeOK, ConnectInv, OneSocket, ReadyIsOpen,
      OpenIsReady, KeepsTrying, StaysOff, Live, timers, asked
<1>4. CASE QrShown(k)
  <2>1. TypeOK' /\ ConnectInv'
    BY <1>1, <1>4 DEF QrShown, Inv, TypeOK, ConnectInv, timers, asked
  <2>2. \A j \in Sockets : Live(j)' <=> j = k
    BY <1>1, <1>4 DEF QrShown, Inv, TypeOK, OneSocket, Live
  <2>3. QED
    BY <1>1, <1>2, <1>4, <2>1, <2>2
    DEF QrShown, Inv, TypeOK, OneSocket, ReadyIsOpen, OpenIsReady,
        KeepsTrying, StaysOff, Live, timers, asked
<1>5. CASE Opened(k)
  <2>1. TypeOK' /\ ConnectInv'
    BY <1>1, <1>5 DEF Opened, Inv, TypeOK, ConnectInv, timers, asked
  <2>2. \A j \in Sockets : Live(j)' <=> j = k
    BY <1>1, <1>5 DEF Opened, Inv, TypeOK, OneSocket, Live
  <2>3. QED
    BY <1>1, <1>2, <1>5, <2>1, <2>2
    DEF Opened, Inv, TypeOK, OneSocket, ReadyIsOpen, OpenIsReady,
        KeepsTrying, StaysOff, Live, timers, asked
<1>6. CASE SocketCloses(k)
  <2>1. /\ UNCHANGED <<sock, since, connecting, callers, watchdog, asked>>
        /\ ~ready' /\ timer' /\ state' \in {"CLOSED", "LOGGED_OUT"}
        /\ phase' = [phase EXCEPT ![k] = "closed"]
    BY <1>1, <1>6 DEF SocketCloses, CloseEvent, ScheduleReconnect
  <2>2. TypeOK' /\ ConnectInv'
    <3>1. timer' \in BOOLEAN /\ ready' \in BOOLEAN
      BY <1>6 DEF SocketCloses, CloseEvent, ScheduleReconnect, Inv, TypeOK
    <3>2. QED
      BY <1>1, <2>1, <3>1 DEF Inv, TypeOK, ConnectInv, asked
  <2>3. \A j \in Sockets : ~Live(j)'
    BY <1>1, <2>1 DEF Inv, TypeOK, OneSocket, Live
  <2>4. QED
    BY <1>2, <2>1, <2>2, <2>3
    DEF Inv, OneSocket, ReadyIsOpen, OpenIsReady, KeepsTrying, StaysOff, Live, asked
<1>7. QED
  BY <1>3, <1>4, <1>5, <1>6

LEMMA LateCloseInv ==
  ASSUME Inv, NEW k \in Sockets, LateClose(k)
  PROVE  Inv'
<1>1. /\ UNCHANGED <<sock, since, connecting, callers, watchdog, booted, wanted, failed>>
      /\ ~ready' /\ timer' = (timer \/ ~connecting) /\ state' = "CLOSED" /\ woken'
      /\ phase[k] = "ending" /\ phase' = [phase EXCEPT ![k] = "closed"]
  BY DEF LateClose, CloseEvent, ScheduleReconnect
<1>2. \A j \in Sockets : Live(j)' <=> Live(j)
  BY <1>1 DEF Inv, TypeOK, Live
<1>3. TypeOK' /\ ConnectInv'
  <2>1. /\ timer' \in BOOLEAN /\ ready' \in BOOLEAN /\ woken' \in BOOLEAN
        /\ connecting => ~timer'
    BY DEF LateClose, CloseEvent, ScheduleReconnect, Inv, TypeOK, ConnectInv
  <2>2. QED
    BY <1>1, <2>1 DEF Inv, TypeOK, ConnectInv
<1>4. OneSocket' /\ ReadyIsOpen' /\ StaysOff'
  BY <1>1, <1>2 DEF Inv, OneSocket, ReadyIsOpen, StaysOff
<1>5. OpenIsReady'
  <2>1. connecting => \A j \in Sockets : ~Live(j)
    BY SocketAssumption DEF Inv, ConnectInv, OneSocket
  <2>2. connecting => \A j \in Sockets : phase'[j] # "open"
    BY <1>2, <2>1 DEF Live
  <2>3. ~connecting => timer'
    BY <1>1
  <2>4. QED
    BY <2>2, <2>3 DEF OpenIsReady
<1>6. KeepsTrying'
  BY <1>1, <1>2 DEF Inv, KeepsTrying
<1>7. QED
  BY <1>3, <1>4, <1>5, <1>6 DEF Inv

(* The invariant is inductive. *)
LEMMA StepInv == Inv /\ [Next]_vars => Inv'
<1> SUFFICES ASSUME Inv, [Next]_vars PROVE Inv'
  OBVIOUS
<1>1. CASE MainConnects
  <2>1. CASE connecting
    <3>1. /\ UNCHANGED <<sock, phase, flags, connecting, callers, timers, failed, woken>>
          /\ booted' /\ wanted'
      BY <1>1, <2>1 DEF MainConnects, Busy
    <3>2. TypeOK'
      <4>1. booted' \in BOOLEAN /\ wanted' \in BOOLEAN
        BY <1>1 DEF MainConnects
      <4>2. QED
        BY <3>1, <4>1 DEF Inv, TypeOK, flags, timers
    <3>3. QED
      BY <2>1, <3>1, <3>2
      DEF Inv, ConnectInv, OneSocket, ReadyIsOpen, OpenIsReady, KeepsTrying,
          StaysOff, Live, flags, timers
  <2>2. CASE ~connecting
    BY <1>1, <2>2, StartsInv DEF MainConnects, Busy, Inv, TypeOK
  <2>3. QED
    BY <2>1, <2>2
<1>2. CASE Disconnect
  BY <1>2, DisconnectsInv DEF Disconnect, Inv, TypeOK
<1>3. CASE RenewQR
  <2>1. CASE connecting
    BY <1>3, <2>1, DisconnectsInv DEF RenewQR, Busy, Inv, TypeOK
  <2>2. CASE ~connecting
    BY <1>3, <2>2, StartsInv DEF RenewQR, Busy, Inv, TypeOK
  <2>3. QED
    BY <2>1, <2>2
<1>4. CASE TimerFires
  BY <1>4, ReconnectInv DEF TimerFires, Busy, Inv, ConnectInv
<1>5. CASE RunWatchdog
  BY <1>5, ReconnectInv DEF RunWatchdog, Busy
<1>6. CASE \E caller \in callers : ConnectFails(caller)
  BY <1>6, ConnectFailsInv
<1>7. CASE \E k \in Sockets : SocketMade(k, "starting") \/ SocketMade(k, "hung")
  BY <1>7, SocketMadeInv
<1>8. CASE \E k \in Sockets :
             ConnectingEvent(k) \/ QrShown(k) \/ Opened(k) \/ SocketCloses(k)
  BY <1>8, EventInv
<1>9. CASE \E k \in Sockets : LateClose(k)
  BY <1>9, LateCloseInv
<1>10. CASE UNCHANGED vars
  BY <1>10
  DEF vars, Inv, TypeOK, ConnectInv, OneSocket, ReadyIsOpen, OpenIsReady,
      KeepsTrying, StaysOff, Live
<1>11. QED
  BY <1>1, <1>2, <1>3, <1>4, <1>5, <1>6, <1>7, <1>8, <1>9, <1>10 DEF Next

LEMMA Invariance == Spec => []Inv
  BY InitInv, StepInv, PTL DEF Spec

-----------------------------------------------------------------------------
(* Every variable has its type, and connect() has one run at a time.       *)
THEOREM TypeCorrect == Spec => []TypeOK
<1>1. Inv => TypeOK
  BY DEF Inv
<1>2. QED
  BY <1>1, Invariance, PTL

(* No interleaving of main(), timers, watchdog, renewals and late closes   *)
(* leaves a socket alive that the client does not hold, and what it says   *)
(* of its connection is true of that socket, or about to be put right.     *)
THEOREM SocketCorrect == Spec => [](OneSocket /\ ReadyIsOpen /\ OpenIsReady)
<1>1. Inv => OneSocket /\ ReadyIsOpen /\ OpenIsReady
  BY DEF Inv
<1>2. QED
  BY <1>1, Invariance, PTL

(* A client that is to be connected never runs out of things that will try *)
(* it, unless a connect() rejects ...                                      *)
THEOREM AlwaysTrying == Spec => []KeepsTrying
<1>1. Inv => KeepsTrying
  BY DEF Inv
<1>2. QED
  BY <1>1, Invariance, PTL

(* ... and one that was told to disconnect has nothing that would.         *)
THEOREM OffIsOff == Spec => []StaysOff
<1>1. Inv => StaysOff
  BY DEF Inv
<1>2. QED
  BY <1>1, Invariance, PTL

(* ConnectionInv of the runs, for every set of sockets: one socket, what   *)
(* the client says of it is true or about to be, and the client tries when *)
(* it should and only then.                                                *)
THEOREM ConnectionCorrect == Spec => []ConnectionInv
<1>1. Inv => ConnectionInv
  BY DEF Inv, ConnectionInv
<1>2. QED
  BY <1>1, Invariance, PTL
-----------------------------------------------------------------------------
(* The jobs that carry messages to the Brain.  Keys are ordered totally, so *)
(* a batch of the oldest rows leaves none behind: what the live cursor will *)
(* pass when the batch in hand is saved is behind the old cursor, in the    *)
(* batch, or was filed behind it.                                           *)
Marks == Int \X Int

Adapters == {"whatsapp", "telegram", "instagram"}

Processes ==
  [step : {"idle", "cursor", "fetch", "push"}, dry : BOOLEAN,
   left : Seq(ToSet(Namespaces)), from : Marks \cup {NoCursor},
   batch : SUBSET Rows, todo : SUBSET Adapters, spent : Nat]

JobTypes ==
  /\ job \in [Jobs -> Processes]
  /\ cursor \in [Jobs -> [ToSet(Namespaces) -> Marks \cup {NoCursor}]]

(* The batches are fetched from the cursor, or from SINCE without one. *)
LiveFrom ==
  job["live"].step = "fetch" /\ job["live"].dry = FALSE =>
    \/ job["live"].from = <<Since, 0>>
    \/ /\ job["live"].from = cursor["live"][Namespace("live")]
       /\ job["live"].from # NoCursor

(* What the cursor will pass is known, or left to push. *)
BatchCovers ==
  job["live"].step = "push" /\ job["live"].dry = FALSE =>
    \A r \in filed \ missed :
      /\ Account[r] = Namespace("live") /\ Stamp[r] >= Since
      /\ ~Above(Key(r), CursorAfter(job["live"].batch))
      => r \in known \/ (r \in job["live"].batch /\ Adapter(r) \in job["live"].todo)

CarryInv == BrainTypeOK /\ JobTypes /\ CursorCovers /\ LiveFrom /\ BatchCovers

(* The keys of rows are ordered by time and id. *)
LEMMA KeyOrder ==
  /\ \A r \in Rows : Key(r) \in Marks /\ Stamp[r] \in Nat /\ r \in Nat /\ r > 0
  /\ \A a, b, c \in Marks : Above(a, b) /\ Above(b, c) => Above(a, c)
  /\ \A a \in Marks : ~Above(a, a)
  /\ \A r, q \in Rows : Above(Key(r), Key(q)) \/ Above(Key(q), Key(r)) \/ r = q
<1>1. \A r \in Rows : Stamp[r] \in Nat /\ r \in Nat /\ r > 0 /\ Stamp[r] \in Int /\ r \in Int
  BY IngestAssumption
<1>2. \A r \in Rows : Key(r) \in Marks
  BY <1>1 DEF Key, Marks
<1>3. \A a, b, c \in Marks : Above(a, b) /\ Above(b, c) => Above(a, c)
  <2> TAKE a, b, c \in Marks
  <2>1. {a[1], a[2], b[1], b[2], c[1], c[2]} \subseteq Int
    BY DEF Marks
  <2>2. QED BY <2>1 DEF Above
<1>4. \A a \in Marks : ~Above(a, a)
  BY DEF Above, Marks
<1>5. \A r, q \in Rows : Above(Key(r), Key(q)) \/ Above(Key(q), Key(r)) \/ r = q
  BY <1>1 DEF Above, Key
<1>6. QED BY <1>1, <1>2, <1>3, <1>4, <1>5

(* A set of rows has a first and a last one. *)
LEMMA RowsHaveEnds ==
  ASSUME NEW S \in SUBSET Rows, S # {}
  PROVE  /\ \E r \in S : \A q \in S : ~Above(Key(q), Key(r))
         /\ \E r \in S : \A q \in S : ~Above(Key(r), Key(q))
<1> DEFINE R == StrictSubsetOrdering(S)
           up(r) == {q \in S : Above(Key(q), Key(r))}
           down(r) == {q \in S : Above(Key(r), Key(q))}
           Ups == {up(r) : r \in S}
           Downs == {down(r) : r \in S}
<1>1. IsFiniteSet(S)
  BY FS_Subset, IngestAssumption
<1>2. IsWellFoundedOn(R, SUBSET S)
  <2>1. IsWellFoundedOn(R, FiniteSubsetsOf(S))
    BY FS_StrictSubsetOrderingWellFounded
  <2>2. FiniteSubsetsOf(S) = SUBSET S
    BY <1>1, FS_FiniteSubsetsOfFinite
  <2>3. QED BY <2>1, <2>2
<1>3. Ups \subseteq SUBSET S /\ Ups # {} /\ Downs \subseteq SUBSET S /\ Downs # {}
  OBVIOUS
<1>4. \A q, r \in S : q \in up(r) => up(q) \subseteq up(r) /\ up(q) # up(r)
  <2> TAKE q, r \in S
  <2> HAVE q \in up(r)
  <2>1. q \notin up(q)
    BY KeyOrder
  <2>2. up(q) \subseteq up(r)
    BY KeyOrder
  <2>3. QED BY <2>1, <2>2
<1>5. \A q, r \in S : q \in down(r) => down(q) \subseteq down(r) /\ down(q) # down(r)
  <2> TAKE q, r \in S
  <2> HAVE q \in down(r)
  <2>1. q \notin down(q)
    BY KeyOrder
  <2>2. down(q) \subseteq down(r)
    BY KeyOrder
  <2>3. QED BY <2>1, <2>2
<1>6. \E r \in S : \A q \in S : ~Above(Key(q), Key(r))
  <2>1. \E x \in Ups : \A y \in Ups : <<y, x>> \notin R
    BY <1>2, <1>3, WFMin
  <2>2. PICK r \in S : \A y \in Ups : <<y, up(r)>> \notin R
    BY <2>1
  <2>3. ASSUME NEW q \in S, q \in up(r) PROVE FALSE
    <3>1. <<up(q), up(r)>> \in R
      BY <1>4, <2>3 DEF StrictSubsetOrdering
    <3>2. up(q) \in Ups
      OBVIOUS
    <3>3. QED BY <2>2, <3>1, <3>2
  <2>4. QED BY <2>3
<1>7. \E r \in S : \A q \in S : ~Above(Key(r), Key(q))
  <2>1. \E x \in Downs : \A y \in Downs : <<y, x>> \notin R
    BY <1>2, <1>3, WFMin
  <2>2. PICK r \in S : \A y \in Downs : <<y, down(r)>> \notin R
    BY <2>1
  <2>3. ASSUME NEW q \in S, q \in down(r) PROVE FALSE
    <3>1. <<down(q), down(r)>> \in R
      BY <1>5, <2>3 DEF StrictSubsetOrdering
    <3>2. down(q) \in Downs
      OBVIOUS
    <3>3. QED BY <2>2, <3>1, <3>2
  <2>4. QED BY <2>3
<1>8. QED BY <1>6, <1>7

LEMMA NewestOf ==
  ASSUME NEW S \in SUBSET Rows, S # {}
  PROVE  Newest(S) \in S /\ \A q \in S : ~Above(Key(q), Key(Newest(S)))
<1>1. \E r \in S : \A q \in S : ~Above(Key(q), Key(r))
  BY RowsHaveEnds
<1>2. QED BY <1>1 DEF Newest

(* toISOString() rounds down, so the cursor after a batch is not above it. *)
LEMMA CursorAfterOf ==
  ASSUME NEW S \in SUBSET Rows, S # {}
  PROVE  /\ CursorAfter(S) \in Marks
         /\ \A r \in Rows : ~Above(Key(r), CursorAfter(S)) => ~Above(Key(r), Key(Newest(S)))
<1>1. Newest(S) \in Rows
  BY NewestOf
<1>2. /\ Stamp[Newest(S)] \in Nat /\ Newest(S) \in Nat /\ PerMs \in Nat /\ PerMs > 0
  BY <1>1, KeyOrder, IngestAssumption
<1>3. InMs(Stamp[Newest(S)]) \in Int /\ InMs(Stamp[Newest(S)]) <= Stamp[Newest(S)]
  BY <1>2 DEF InMs
<1>4. \A r \in Rows : Stamp[r] \in Nat /\ r \in Nat
  BY KeyOrder
<1>5. QED BY <1>2, <1>3, <1>4 DEF CursorAfter, Marks, Above, Key

(* The oldest n rows of a set: some when there are any, and with a row all  *)
(* that are not above it.                                                   *)
LEMMA OldestOf ==
  ASSUME NEW S \in SUBSET Rows, NEW n \in Int
  PROVE  /\ Oldest(S, n) \subseteq S
         /\ S # {} /\ n > 0 => Oldest(S, n) # {}
         /\ \A r \in S, q \in Oldest(S, n) : ~Above(Key(r), Key(q)) => r \in Oldest(S, n)
<1> DEFINE under(r) == {q \in S : Above(Key(r), Key(q))}
<1>1. \A r \in S : IsFiniteSet(under(r)) /\ Cardinality(under(r)) \in Nat
  <2>1. IsFiniteSet(S)
    BY FS_Subset, IngestAssumption
  <2>2. \A r \in S : under(r) \in SUBSET S
    OBVIOUS
  <2>3. QED BY <2>1, <2>2, FS_Subset, FS_CardinalityType
<1>2. Oldest(S, n) = {r \in S : Cardinality(under(r)) < n}
  BY DEF Oldest
<1>3. ASSUME S # {}, n > 0 PROVE Oldest(S, n) # {}
  <2>1. PICK r \in S : \A q \in S : ~Above(Key(r), Key(q))
    BY <1>3, RowsHaveEnds
  <2>2. under(r) = {}
    BY <2>1
  <2>3. Cardinality(under(r)) = 0
    BY <2>2, FS_EmptySet
  <2>4. QED BY <1>2, <1>3, <2>3
<1>4. ASSUME NEW r \in S, NEW q \in Oldest(S, n), ~Above(Key(r), Key(q))
      PROVE  r \in Oldest(S, n)
  <2>1. q \in S /\ Cardinality(under(q)) < n
    BY <1>2
  <2>2. under(r) \in SUBSET under(q)
    <3>1. r = q \/ Above(Key(q), Key(r))
      BY <1>4, <2>1, KeyOrder
    <3>2. \A p \in under(r) : Above(Key(q), Key(p))
      BY <3>1, <2>1, KeyOrder
    <3>3. QED BY <3>2
  <2>3. Cardinality(under(r)) <= Cardinality(under(q))
    BY <1>1, <2>1, <2>2, FS_Subset
  <2> HIDE DEF under
  <2>4. QED BY <1>1, <1>2, <2>1, <2>3
<1>5. QED BY <1>2, <1>3, <1>4
LEMMA LimitOf == ASSUME JobTypes, NEW j \in Jobs PROVE Limit(j) \in Int
<1>1. job[j].spent \in Nat /\ Batch \in Nat /\ MaxRows \in Nat
  BY IngestAssumption DEF JobTypes, Processes
<1>2. ASSUME NEW a \in Int, NEW b \in Int PROVE Min({a, b}) \in Int
  <2>1. \E x \in {a, b} : \A y \in {a, b} : x <= y
    BY <1>2
  <2>2. QED BY <2>1 DEF Min
<1>3. QED BY <1>1, <1>2 DEF Limit

(* A process and its fields. *)
LEMMA JobFields ==
  ASSUME CarryInv, NEW j \in Jobs
  PROVE  /\ job[j] \in Processes
         /\ job[j].step \in {"idle", "cursor", "fetch", "push"} /\ job[j].dry \in BOOLEAN
         /\ job[j].left \in Seq(ToSet(Namespaces)) /\ job[j].todo \in SUBSET Adapters
         /\ job[j].spent \in Nat /\ job[j].from \in Marks \cup {NoCursor}
         /\ job[j].batch \in SUBSET Rows
         /\ job[j].batch \subseteq filed
         /\ job[j].batch # {} <=> job[j].step = "push"
         /\ job[j].step = "idle" <=> job[j].left = <<>>
         /\ job[j].todo \subseteq {Adapter(r) : r \in job[j].batch}
<1>1. job[j] \in Processes
  BY DEF CarryInv, JobTypes
<1>2. /\ job[j].batch \subseteq filed
      /\ (job[j].batch # {}) <=> (job[j].step = "push")
      /\ (job[j].step = "idle") <=> (job[j].left = <<>>)
      /\ job[j].todo \subseteq {Adapter(r) : r \in job[j].batch}
  BY Zenon DEF CarryInv, BrainTypeOK
<1>3. /\ job[j].step \in {"idle", "cursor", "fetch", "push"} /\ job[j].dry \in BOOLEAN
      /\ job[j].left \in Seq(ToSet(Namespaces)) /\ job[j].todo \in SUBSET Adapters
      /\ job[j].spent \in Nat /\ job[j].from \in Marks \cup {NoCursor}
      /\ job[j].batch \in SUBSET Rows
  BY <1>1 DEF Processes
<1>4. QED BY <1>1, <1>2, <1>3, Zenon

LEMMA NamespaceOf ==
  ASSUME CarryInv, NEW j \in Jobs, job[j].step # "idle"
  PROVE  Namespace(j) \in ToSet(Namespaces)
<1>1. job[j].left \in Seq(ToSet(Namespaces)) /\ job[j].left # <<>>
  BY JobFields
<1>2. QED BY <1>1 DEF Namespace

LEMMA IdleOf ==
  /\ JobIdle \in Processes /\ JobIdle.step = "idle" /\ JobIdle.left = <<>>
  /\ JobIdle.batch = {} /\ JobIdle.todo = {}
  BY DEF JobIdle, Processes

(* A process in its types. *)
Proper(p) ==
  /\ p \in Processes
  /\ p.step = "idle" <=> p.left = <<>>
  /\ p.batch \subseteq filed
  /\ p.batch # {} <=> p.step = "push"
  /\ p.todo \subseteq {Adapter(r) : r \in p.batch}

LEMMA OnToOf ==
  ASSUME CarryInv, NEW j \in Jobs, job[j].step # "idle"
  PROVE  Proper(OnTo(j)) /\ OnTo(j).step \in {"idle", "cursor"}
<1>1. job[j].left \in Seq(ToSet(Namespaces)) /\ job[j].left # <<>>
  BY JobFields
<1>2. CASE Len(job[j].left) > 1
  <2>1. Tail(job[j].left) \in Seq(ToSet(Namespaces)) /\ Tail(job[j].left) # <<>>
    <3>1. ASSUME NEW T, NEW s \in Seq(T), Len(s) > 1
          PROVE  Tail(s) \in Seq(T) /\ Tail(s) # <<>>
      <4>1. Len(Tail(s)) = Len(s) - 1 /\ Len(s) \in Nat /\ Tail(s) \in Seq(T)
        BY <3>1, HeadTailProperties, LenProperties
      <4>2. ASSUME NEW n \in Nat, n > 1 PROVE n - 1 # 0
        BY <4>2
      <4>3. Len(Tail(s)) # 0
        BY <3>1, <4>1, <4>2, Zenon
      <4>4. QED BY <4>1, <4>3, EmptySeq
    <3>2. QED BY <1>1, <1>2, <3>1
  <2>2. OnTo(j) = [job[j] EXCEPT !.step = "cursor", !.left = Tail(job[j].left),
                                 !.batch = {}, !.todo = {}, !.spent = 0, !.from = NoCursor]
    BY <1>2 DEF OnTo
  <2>3. /\ OnTo(j) \in Processes
        /\ OnTo(j).step = "cursor" /\ OnTo(j).left = Tail(job[j].left)
        /\ OnTo(j).batch = {} /\ OnTo(j).todo = {}
    <3> DEFINE left == Tail(job[j].left)
               p == [job[j] EXCEPT !.step = "cursor", !.left = left,
                                   !.batch = {}, !.todo = {}, !.spent = 0, !.from = NoCursor]
    <3>1. job[j] \in Processes /\ left \in Seq(ToSet(Namespaces)) /\ OnTo(j) = p
      BY <2>1, <2>2, JobFields
    <3> HIDE DEF left
    <3>2. p \in Processes /\ p.step = "cursor" /\ p.left = left /\ p.batch = {} /\ p.todo = {}
      BY <3>1 DEF Processes
    <3> HIDE DEF p
    <3>3. QED BY <3>1, <3>2 DEF left
  <2>5. QED BY <2>1, <2>3 DEF Proper
<1>3. CASE ~(Len(job[j].left) > 1)
  <2>1. OnTo(j) = JobIdle
    BY <1>3 DEF OnTo
  <2>2. QED BY <2>1, IdleOf DEF Proper
<1>4. QED BY <1>2, <1>3

LEMMA IdleProper == Proper(JobIdle)
  BY IdleOf DEF Proper

(* A step of one job that files no row keeps the types if it leaves its     *)
(* process in them.                                                         *)
LEMMA JobMoves ==
  ASSUME CarryInv, NEW j \in Jobs, NEW p, Proper(p), Becomes(j, p),
         filed' = filed, known \subseteq known', known' \subseteq filed,
         missed \subseteq missed', missed' \subseteq filed, clock' = clock,
         faults' \in 0 .. MaxFaults,
         cursor' \in [Jobs -> [ToSet(Namespaces) -> Marks \cup {NoCursor}]]
  PROVE  /\ BrainTypeOK' /\ JobTypes'
         /\ job'[j] = p /\ \A k \in Jobs : k # j => job'[k] = job[k]
<1>1. job' = [job EXCEPT ![j] = p]
  BY DEF Becomes
<1>2. job'[j] = p /\ \A k \in Jobs : k # j => job'[k] = job[k]
  BY <1>1 DEF CarryInv, JobTypes
<1>3. JobTypes'
  BY <1>1 DEF CarryInv, JobTypes, Proper
<1>4. BrainTypeOK'
  <2>1. ASSUME NEW k \in Jobs
        PROVE  /\ job'[k].step \in {"idle", "cursor", "fetch", "push"}
               /\ job'[k].step = "idle" <=> job'[k].left = <<>>
               /\ job'[k].batch \subseteq filed'
               /\ job'[k].batch # {} <=> job'[k].step = "push"
               /\ job'[k].todo \subseteq {Adapter(r) : r \in job'[k].batch}
    <3>1. CASE k = j
      <4>1. job'[k] = p
        BY <1>2, <3>1
      <4>2. p.step \in {"idle", "cursor", "fetch", "push"}
        BY DEF Proper, Processes
      <4>3. QED BY <4>1, <4>2, Zenon DEF Proper
    <3>2. CASE k # j
      <4>1. job'[k] = job[k]
        BY <1>2, <3>2
      <4>2. job[k].step \in {"idle", "cursor", "fetch", "push"}
        BY JobFields
      <4>3. QED BY <4>1, <4>2, JobFields, Zenon
    <3>3. QED BY <3>1, <3>2
  <2>2. clock' \in 0 .. MaxClock /\ filed' \subseteq Rows
    BY DEF CarryInv, BrainTypeOK
  <2>3. \A r : Adapter(r)' = Adapter(r)
    BY DEF Adapter
  <2>4. QED BY <2>1, <2>2, <2>3 DEF BrainTypeOK
<1>5. QED BY <1>2, <1>3, <1>4
(* What is known of the live cursor stays when rows only become known.      *)
LEMMA CoversKept ==
  ASSUME CursorCovers, cursor'["live"] = cursor["live"], filed' = filed, missed' = missed,
         known \subseteq known'
  PROVE  CursorCovers'
  BY DEF CursorCovers, Behind

LEMMA LiveKept ==
  ASSUME LiveFrom, BatchCovers, job'["live"] = job["live"],
         cursor'["live"] = cursor["live"], filed' = filed, missed' = missed,
         known \subseteq known'
  PROVE  LiveFrom' /\ BatchCovers'
<1>1. Namespace("live")' = Namespace("live")
  BY DEF Namespace
<1>2. LiveFrom'
  BY <1>1 DEF LiveFrom
<1>3. BatchCovers'
  BY <1>1 DEF BatchCovers
<1>4. QED BY <1>2, <1>3

LEMMA LiveRests ==
  ASSUME job'["live"].step \in {"idle", "cursor"}
  PROVE  LiveFrom' /\ BatchCovers'
  BY DEF LiveFrom, BatchCovers

LEMMA JobsAre == "live" \in Jobs /\ "replay" \in Jobs /\ \A j \in Jobs : j # "live" => j = "replay"
  BY DEF Jobs

(* A step of a job that writes nothing, and the parts it leaves to show.    *)
LEMMA QuietMove ==
  ASSUME CarryInv, NEW j \in Jobs, NEW p, Proper(p), Becomes(j, p),
         UNCHANGED <<filed, cursor, missed, clock>>, faults' \in 0 .. MaxFaults,
         known \subseteq known', known' \subseteq filed,
         j = "live" => LiveFrom' /\ BatchCovers'
  PROVE  CarryInv'
<1>1. cursor' \in [Jobs -> [ToSet(Namespaces) -> Marks \cup {NoCursor}]] /\ missed' \subseteq filed
  BY DEF CarryInv, JobTypes, BrainTypeOK
<1>2. /\ BrainTypeOK' /\ JobTypes'
      /\ job'[j] = p /\ \A k \in Jobs : k # j => job'[k] = job[k]
  BY <1>1, JobMoves
<1>3. CursorCovers'
  BY CoversKept DEF CarryInv
<1>4. LiveFrom' /\ BatchCovers'
  BY <1>2, LiveKept, JobsAre DEF CarryInv
<1>5. QED BY <1>2, <1>3, <1>4 DEF CarryInv

LEMMA BecomesOf ==
  ASSUME CarryInv, NEW j \in Jobs, NEW p, Becomes(j, p)
  PROVE  job'[j] = p
  BY DEF CarryInv, JobTypes, Becomes

LEMMA BeginsStep ==
  ASSUME CarryInv, NEW j \in Jobs, Begins(j)
  PROVE  CarryInv'
<1>1. PICK dry \in {FALSE} \cup {i = j : i \in DryRuns} :
        Becomes(j, [JobIdle EXCEPT !.step = "cursor", !.dry = dry, !.left = Namespaces])
  BY DEF Begins
<1> DEFINE p == [JobIdle EXCEPT !.step = "cursor", !.dry = dry, !.left = Namespaces]
<1>2. dry \in BOOLEAN
  OBVIOUS
<1>4. Namespaces \in Seq(ToSet(Namespaces)) /\ Namespaces # <<>>
  BY IngestAssumption DEF Begins
<1>5. Proper(p) /\ p.step = "cursor"
  <2>1. /\ p \in Processes /\ p.step = "cursor" /\ p.left = Namespaces
        /\ p.batch = {} /\ p.todo = {}
    BY <1>2, <1>4 DEF JobIdle, Processes
  <2> HIDE DEF p
  <2>2. QED BY <1>4, <2>1 DEF Proper
<1> HIDE DEF p
<1>6. UNCHANGED <<clock, filed, cursor, known, missed, faults>>
  BY DEF Begins
<1>7. faults' \in 0 .. MaxFaults /\ known \subseteq known' /\ known' \subseteq filed
  BY <1>6 DEF CarryInv, BrainTypeOK
<1>8. Becomes(j, p)
  BY <1>1 DEF p
<1>9. j = "live" => LiveFrom' /\ BatchCovers'
  BY <1>5, <1>8, BecomesOf, LiveRests
<1>10. QED BY <1>5, <1>6, <1>7, <1>8, <1>9, QuietMove

LEMMA TakesCursorStep ==
  ASSUME CarryInv, NEW j \in Jobs, TakesCursor(j)
  PROVE  CarryInv'
<1> DEFINE c == cursor[j][Namespace(j)]
           from == IF c = NoCursor THEN <<Since, 0>> ELSE c
           p == [job[j] EXCEPT !.step = "fetch", !.from = from]
<1>1. /\ job[j].step = "cursor" /\ Becomes(j, p)
      /\ UNCHANGED <<clock, filed, cursor, known, missed, faults>>
  BY DEF TakesCursor
<1>2. Namespace(j) \in ToSet(Namespaces)
  BY <1>1, NamespaceOf
<1>3. from \in Marks
  <2>1. c \in Marks \cup {NoCursor}
    BY <1>2 DEF CarryInv, JobTypes
  <2>2. <<Since, 0>> \in Marks
    BY IngestAssumption DEF Marks
  <2>3. QED BY <2>1, <2>2
<1>4. /\ p \in Processes /\ p.step = "fetch" /\ p.from = from /\ p.dry = job[j].dry
      /\ p.left = job[j].left /\ p.batch = job[j].batch /\ p.todo = job[j].todo
  <2>1. job[j] \in Processes /\ from \in Marks \cup {NoCursor}
    BY <1>3, JobFields
  <2>2. "fetch" \in {"idle", "cursor", "fetch", "push"}
    OBVIOUS
  <2> HIDE DEF from
  <2>3. QED BY <2>1, <2>2 DEF Processes
<1>5. /\ Proper(p) /\ p.step = "fetch" /\ p.left = job[j].left /\ p.from = from
      /\ p.dry = job[j].dry
  <2>1. job[j].batch = {} /\ job[j].todo = {} /\ job[j].left # <<>>
    BY <1>1, JobFields
  <2> HIDE DEF p, from
  <2>2. QED BY <1>3, <1>4, <2>1, JobFields DEF Proper
<1>6. faults' \in 0 .. MaxFaults /\ known \subseteq known' /\ known' \subseteq filed
  BY <1>1 DEF CarryInv, BrainTypeOK
<1>7. ASSUME j = "live" PROVE LiveFrom' /\ BatchCovers'
  <2>1. job'["live"] = p
    BY <1>1, <1>7, BecomesOf
  <2>2. Namespace("live")' = Namespace("live")
    BY <1>5, <1>7, <2>1 DEF Namespace
  <2>3. p.from = <<Since, 0>> \/ (p.from = cursor'["live"][Namespace("live")'] /\ p.from # NoCursor)
    BY <1>1, <1>5, <1>7, <2>2
  <2> HIDE DEF p
  <2>4. QED BY <1>5, <2>1, <2>3 DEF LiveFrom, BatchCovers
<1> HIDE DEF p
<1>8. QED BY <1>1, <1>5, <1>6, <1>7, QuietMove

LEMMA StopsStep ==
  ASSUME CarryInv, NEW j \in Jobs, Stops(j)
  PROVE  CarryInv'
<1>1. /\ job[j].step = "fetch" /\ Becomes(j, OnTo(j))
      /\ UNCHANGED <<clock, filed, cursor, known, missed, faults>>
  BY DEF Stops
<1>2. Proper(OnTo(j)) /\ OnTo(j).step \in {"idle", "cursor"}
  BY <1>1, OnToOf
<1>3. faults' \in 0 .. MaxFaults /\ known \subseteq known' /\ known' \subseteq filed
  BY <1>1 DEF CarryInv, BrainTypeOK
<1>4. j = "live" => LiveFrom' /\ BatchCovers'
  BY <1>1, <1>2, BecomesOf, LiveRests
<1>5. QED BY <1>1, <1>2, <1>3, <1>4, QuietMove

(* A batch of the oldest rows leaves none behind.                           *)
LEMMA FetchesStep ==
  ASSUME CarryInv, NEW j \in Jobs, Fetches(j)
  PROVE  CarryInv'
<1> DEFINE found == Oldest(Matching(j), Limit(j))
           todo == IF job[j].dry THEN {} ELSE {Adapter(r) : r \in found}
           p == [job[j] EXCEPT !.step = "push", !.batch = found, !.todo = todo]
<1>1. /\ job[j].step = "fetch" /\ Limit(j) > 0 /\ Matching(j) # {} /\ Becomes(j, p)
      /\ UNCHANGED <<clock, filed, cursor, known, missed, faults>>
  BY DEF Fetches
<1>2. Matching(j) \in SUBSET Rows /\ Matching(j) \subseteq filed
  BY DEF Matching, CarryInv, BrainTypeOK
<1>3. Limit(j) \in Int
  BY LimitOf DEF CarryInv
<1>4. /\ found \subseteq Matching(j) /\ found # {}
      /\ \A r \in Matching(j), q \in found : ~Above(Key(r), Key(q)) => r \in found
  BY <1>1, <1>2, <1>3, OldestOf
<1>5. todo \in SUBSET Adapters /\ todo \subseteq {Adapter(r) : r \in found}
  BY DEF Adapter, Adapters
<1> HIDE DEF found
<1>6. /\ p \in Processes /\ p.step = "push" /\ p.batch = found /\ p.todo = todo
      /\ p.dry = job[j].dry /\ p.left = job[j].left
  <2>1. job[j] \in Processes /\ found \in SUBSET Rows /\ todo \in SUBSET Adapters
    BY <1>2, <1>4, <1>5, JobFields
  <2>2. "push" \in {"idle", "cursor", "fetch", "push"}
    OBVIOUS
  <2> HIDE DEF todo
  <2>3. QED BY <2>1, <2>2 DEF Processes
<1>7. /\ Proper(p) /\ p.step = "push" /\ p.left = job[j].left /\ p.batch = found
      /\ p.todo = todo /\ p.dry = job[j].dry
  <2>1. job[j].left # <<>>
    BY <1>1, JobFields
  <2> HIDE DEF p, todo
  <2>2. QED BY <1>2, <1>4, <1>5, <1>6, <2>1, JobFields DEF Proper
<1>8. faults' \in 0 .. MaxFaults /\ known \subseteq known' /\ known' \subseteq filed
  BY <1>1 DEF CarryInv, BrainTypeOK
<1>9. ASSUME j = "live" PROVE LiveFrom' /\ BatchCovers'
  <2>1. job'["live"] = p
    BY <1>1, <1>9, BecomesOf
  <2>2. Namespace("live")' = Namespace("live")
    BY <1>7, <1>9, <2>1 DEF Namespace
  <2>3. ASSUME p.dry = FALSE, NEW r \in filed \ missed, Account[r] = Namespace("live"),
               Stamp[r] >= Since, ~Above(Key(r), CursorAfter(found))
        PROVE  r \in known \/ (r \in found /\ Adapter(r) \in todo)
    <3>1. r \in Rows /\ found \in SUBSET Rows
      BY <1>2, <1>4 DEF CarryInv, BrainTypeOK
    <3>2. ~Above(Key(r), Key(Newest(found))) /\ Newest(found) \in found
      BY <1>4, <2>3, <3>1, CursorAfterOf, NewestOf
    <3>3. CASE Above(Key(r), job["live"].from)
      <4>1. r \in Matching("live")
        BY <2>3, <3>3 DEF Matching
      <4>2. r \in found
        BY <1>4, <1>9, <3>2, <4>1
      <4>3. Adapter(r) \in todo
        BY <1>7, <2>3, <4>2
      <4>4. QED BY <4>2, <4>3
    <3>4. CASE ~Above(Key(r), job["live"].from)
      <4>1. job["live"].from # <<Since, 0>>
        <5>1. Stamp[r] \in Nat /\ r \in Nat /\ r > 0 /\ Since \in Nat
          BY <3>1, KeyOrder, IngestAssumption
        <5>2. Above(Key(r), <<Since, 0>>)
          BY <2>3, <5>1 DEF Above, Key
        <5>3. QED BY <3>4, <5>2
      <4>2. job["live"].from = cursor["live"][Namespace("live")] /\ job["live"].from # NoCursor
        BY <1>1, <1>7, <1>9, <2>3, <4>1 DEF CarryInv, LiveFrom
      <4>3. Behind(r, Account[r], cursor["live"][Account[r]])
        BY <2>3, <3>4, <4>2 DEF Behind
      <4>4. QED BY <2>3, <4>3 DEF CarryInv, CursorCovers
    <3>5. QED BY <3>3, <3>4
  <2> HIDE DEF p, todo
  <2>4. LiveFrom'
    BY <1>7, <2>1 DEF LiveFrom
  <2>5. BatchCovers'
    BY <1>1, <1>7, <2>1, <2>2, <2>3 DEF BatchCovers
  <2>6. QED BY <2>4, <2>5
<1> HIDE DEF p
<1>10. QED BY <1>1, <1>7, <1>8, <1>9, QuietMove
LEMMA PushesStep ==
  ASSUME CarryInv, NEW j \in Jobs, Pushes(j)
  PROVE  CarryInv'
<1> DEFINE a == NextAdapter(j)
           todo == job[j].todo \ {a}
           p == [job[j] EXCEPT !.todo = todo]
<1>1. /\ job[j].step = "push" /\ Becomes(j, p)
      /\ known' = known \cup Docs(job[j].batch, a)
      /\ UNCHANGED <<clock, filed, cursor, missed, faults>>
  BY DEF Pushes
<1>2. /\ p \in Processes /\ p.step = "push" /\ p.batch = job[j].batch /\ p.todo = todo
      /\ p.dry = job[j].dry /\ p.left = job[j].left
  <2>1. job[j] \in Processes /\ todo \in SUBSET Adapters
    BY JobFields
  <2> HIDE DEF todo
  <2>2. QED BY <1>1, <2>1 DEF Processes
<1> HIDE DEF p
<1>3. Proper(p)
  <2>1. todo \subseteq {Adapter(r) : r \in job[j].batch}
    BY JobFields
  <2>2. job[j].left # <<>> /\ job[j].batch # {} /\ job[j].batch \subseteq filed
    BY <1>1, JobFields
  <2> HIDE DEF todo
  <2>3. QED BY <1>2, <2>1, <2>2 DEF Proper
<1>4. faults' \in 0 .. MaxFaults /\ known \subseteq known' /\ known' \subseteq filed
  <2>1. Docs(job[j].batch, a) \subseteq filed
    BY JobFields DEF Docs
  <2>2. QED BY <1>1, <2>1 DEF CarryInv, BrainTypeOK
<1>5. ASSUME j = "live" PROVE LiveFrom' /\ BatchCovers'
  <2>1. job'["live"] = p
    BY <1>1, <1>5, BecomesOf
  <2>2. Namespace("live")' = Namespace("live")
    BY <1>2, <1>5, <2>1 DEF Namespace
  <2>3. ASSUME job["live"].dry = FALSE, NEW r \in filed \ missed,
               Account[r] = Namespace("live"), Stamp[r] >= Since,
               ~Above(Key(r), CursorAfter(job["live"].batch))
        PROVE  r \in known' \/ (r \in job["live"].batch /\ Adapter(r) \in todo)
    <3>1. r \in known \/ (r \in job["live"].batch /\ Adapter(r) \in job["live"].todo)
      BY <1>1, <1>5, <2>3 DEF CarryInv, BatchCovers
    <3>2. QED BY <1>1, <1>5, <3>1 DEF Docs
  <2> HIDE DEF todo, a
  <2>4. LiveFrom'
    BY <1>2, <2>1 DEF LiveFrom
  <2>5. BatchCovers'
    BY <1>1, <1>2, <1>5, <2>1, <2>2, <2>3 DEF BatchCovers
  <2>6. QED BY <2>4, <2>5
<1>6. QED BY <1>1, <1>3, <1>4, <1>5, QuietMove

(* A job that ends before its time. *)
LEMMA EndsStep ==
  ASSUME CarryInv, NEW j \in Jobs, PushFails(j) \/ JobDies(j)
  PROVE  CarryInv'
<1>1. Becomes(j, JobIdle) /\ UNCHANGED <<clock, filed, cursor, missed>>
  BY DEF PushFails, JobDies
<1>2. known \subseteq known' /\ known' \subseteq filed
  <2>1. Docs(job[j].batch, NextAdapter(j)) \subseteq filed
    BY JobFields DEF Docs
  <2>2. QED BY <2>1 DEF PushFails, JobDies, CarryInv, BrainTypeOK
<1>3. faults' \in 0 .. MaxFaults
  BY IngestAssumption DEF PushFails, JobDies, CarryInv, BrainTypeOK
<1>4. j = "live" => LiveFrom' /\ BatchCovers'
  BY <1>1, IdleOf, BecomesOf, LiveRests
<1>5. QED BY <1>1, <1>2, <1>3, <1>4, IdleProper, QuietMove

(* When the whole batch is pushed the Brain has all that the cursor passes. *)
LEMMA SavesStep ==
  ASSUME CarryInv, NEW j \in Jobs, Saves(j)
  PROVE  CarryInv'
<1> DEFINE n == Namespace(j)
           c == CursorAfter(job[j].batch)
           spent == job[j].spent + Cardinality(job[j].batch)
           q == [job[j] EXCEPT !.step = "fetch", !.from = c, !.batch = {}, !.spent = spent]
           p == IF Cardinality(job[j].batch) < Limit(j) THEN OnTo(j) ELSE q
<1>1. /\ job[j].step = "push" /\ job[j].todo = {} /\ Becomes(j, p)
      /\ cursor' = IF job[j].dry THEN cursor ELSE [cursor EXCEPT ![j][n] = c]
      /\ UNCHANGED <<clock, filed, known, missed, faults>>
  BY DEF Saves
<1>2. /\ job[j].batch \in SUBSET Rows /\ job[j].batch # {} /\ job[j].left # <<>>
      /\ n \in ToSet(Namespaces)
  BY <1>1, JobFields, NamespaceOf
<1>3. c \in Marks /\ c # NoCursor
  <2>1. c \in Marks
    BY <1>2, CursorAfterOf
  <2>2. \A m \in Marks : m # NoCursor
    BY DEF Marks, NoCursor
  <2>3. QED BY <2>1, <2>2
<1>4. spent \in Nat
  <2>1. IsFiniteSet(job[j].batch)
    BY <1>2, IngestAssumption, FS_Subset
  <2>2. Cardinality(job[j].batch) \in Nat /\ job[j].spent \in Nat
    BY <2>1, FS_CardinalityType, JobFields
  <2>3. QED BY <2>2
<1> HIDE DEF c, spent, n
<1>5. /\ q \in Processes /\ q.step = "fetch" /\ q.from = c /\ q.batch = {}
      /\ q.dry = job[j].dry /\ q.left = job[j].left /\ q.todo = job[j].todo
  <2>1. job[j] \in Processes
    BY JobFields
  <2>2. QED BY <1>3, <1>4, <2>1 DEF Processes
<1> HIDE DEF q
<1>6. Proper(q)
  BY <1>1, <1>2, <1>5 DEF Proper
<1>7. Proper(OnTo(j)) /\ OnTo(j).step \in {"idle", "cursor"}
  BY <1>1, OnToOf
<1>8. Proper(p) /\ (p = q \/ p.step \in {"idle", "cursor"})
  BY <1>6, <1>7
<1> HIDE DEF p
<1>9. CASE job[j].dry = TRUE
  <2>1. cursor' = cursor
    BY <1>1, <1>9
  <2>2. faults' \in 0 .. MaxFaults /\ known \subseteq known' /\ known' \subseteq filed
    BY <1>1 DEF CarryInv, BrainTypeOK
  <2>3. ASSUME j = "live" PROVE LiveFrom' /\ BatchCovers'
    <3>1. job'["live"] = p
      BY <1>1, <2>3, BecomesOf
    <3>2. CASE p = q
      BY <1>5, <1>9, <3>1, <3>2 DEF LiveFrom, BatchCovers
    <3>3. CASE p.step \in {"idle", "cursor"}
      BY <3>1, <3>3, LiveRests
    <3>4. QED BY <1>8, <3>2, <3>3
  <2>4. QED BY <1>1, <1>8, <2>1, <2>2, <2>3, QuietMove
<1>10. CASE job[j].dry = FALSE
  <2>1. cursor' = [cursor EXCEPT ![j][n] = c]
    BY <1>1, <1>10
  <2>2. missed \subseteq missed' /\ missed' \subseteq filed
    BY <1>1 DEF CarryInv, BrainTypeOK
  <2>3. /\ BrainTypeOK' /\ JobTypes' /\ job'[j] = p
        /\ \A k \in Jobs : k # j => job'[k] = job[k] /\ cursor'[k] = cursor[k]
        /\ cursor'[j][n] = c
        /\ \A m \in ToSet(Namespaces) : m # n => cursor'[j][m] = cursor[j][m]
    <3>1. cursor \in [Jobs -> [ToSet(Namespaces) -> Marks \cup {NoCursor}]]
      BY DEF CarryInv, JobTypes
    <3>2. /\ cursor' \in [Jobs -> [ToSet(Namespaces) -> Marks \cup {NoCursor}]]
          /\ \A k \in Jobs : k # j => cursor'[k] = cursor[k]
          /\ cursor'[j][n] = c
          /\ \A m \in ToSet(Namespaces) : m # n => cursor'[j][m] = cursor[j][m]
      BY <1>2, <1>3, <2>1, <3>1
    <3>3. faults' \in 0 .. MaxFaults /\ known \subseteq known' /\ known' \subseteq filed
      BY <1>1 DEF CarryInv, BrainTypeOK
    <3>4. BrainTypeOK' /\ JobTypes' /\ job'[j] = p /\ \A k \in Jobs : k # j => job'[k] = job[k]
      BY <1>1, <1>8, <2>2, <3>2, <3>3, JobMoves
    <3>5. QED BY <3>2, <3>4
  <2>4. CASE j # "live"
    <3>1. job'["live"] = job["live"] /\ cursor'["live"] = cursor["live"]
      BY <2>3, <2>4, JobsAre
    <3>2. CursorCovers'
      BY <1>1, <3>1, CoversKept DEF CarryInv
    <3>3. LiveFrom' /\ BatchCovers'
      BY <1>1, <3>1, LiveKept DEF CarryInv
    <3>4. QED BY <2>3, <3>2, <3>3 DEF CarryInv
  <2>5. CASE j = "live"
    <3>1. ASSUME NEW r \in filed' \ missed', Stamp[r] >= Since,
                 Behind(r, Account[r], cursor'["live"][Account[r]])
          PROVE  r \in known'
      <4>1. r \in filed \ missed /\ r \in Rows /\ known' = known
        BY <1>1, <3>1 DEF CarryInv, BrainTypeOK
      <4>2. CASE Account[r] = n
        <5>1. ~Above(Key(r), c)
          BY <2>3, <2>5, <3>1, <4>2 DEF Behind
        <5>2. QED BY <1>1, <1>10, <2>5, <3>1, <4>1, <4>2, <5>1 DEF CarryInv, BatchCovers, n, c
      <4>3. CASE Account[r] # n
        <5>1. Account[r] \in ToSet(Namespaces)
          BY <4>1, IngestAssumption
        <5>2. cursor'["live"][Account[r]] = cursor["live"][Account[r]]
          BY <2>3, <2>5, <4>3, <5>1
        <5>3. QED BY <3>1, <4>1, <5>2 DEF CarryInv, CursorCovers
      <4>4. QED BY <4>2, <4>3
    <3>2. CursorCovers'
      BY <3>1 DEF CursorCovers, Behind
    <3>3. LiveFrom' /\ BatchCovers'
      <4>1. CASE p = q
        <5>1. Namespace("live")' = n
          BY <1>5, <2>3, <2>5, <4>1 DEF Namespace, n
        <5>2. QED BY <1>3, <1>5, <2>3, <2>5, <4>1, <5>1 DEF LiveFrom, BatchCovers
      <4>2. CASE p.step \in {"idle", "cursor"}
        BY <2>3, <2>5, <4>2, LiveRests
      <4>3. QED BY <1>8, <4>1, <4>2
    <3>4. QED BY <2>3, <3>2, <3>3 DEF CarryInv
  <2>6. QED BY <2>4, <2>5
<1>11. QED BY <1>9, <1>10, JobFields
(* An account without a cursor: what it has not read is missed, as the code *)
(* says.                                                                    *)
LEMMA SkipsHistoryStep == ASSUME CarryInv, SkipsHistory PROVE CarryInv'
<1> DEFINE n == Namespace("live")
           c == <<InMs(clock), 0>>
<1>1. /\ job["live"].step = "cursor" /\ Becomes("live", OnTo("live"))
      /\ UNCHANGED <<clock, filed, known, faults>>
      /\ IF job["live"].dry THEN UNCHANGED <<cursor, missed>>
         ELSE /\ cursor' = [cursor EXCEPT !["live"][n] = c]
              /\ missed' = missed \cup {r \in filed : Behind(r, n, c)}
  BY DEF SkipsHistory
<1>2. "live" \in Jobs /\ n \in ToSet(Namespaces)
  BY <1>1, JobsAre, NamespaceOf
<1>3. c \in Marks
  <2>1. clock \in Int /\ PerMs \in Nat /\ PerMs > 0
    BY IngestAssumption DEF CarryInv, BrainTypeOK
  <2>2. InMs(clock) \in Int
    BY <2>1 DEF InMs
  <2>3. QED BY <2>2 DEF Marks
<1>4. Proper(OnTo("live")) /\ OnTo("live").step \in {"idle", "cursor"}
  BY <1>1, <1>2, OnToOf
<1>5. job'["live"] = OnTo("live")
  BY <1>1, <1>2, BecomesOf
<1>6. LiveFrom' /\ BatchCovers'
  BY <1>4, <1>5, LiveRests
<1>7. faults' \in 0 .. MaxFaults /\ known \subseteq known' /\ known' \subseteq filed
  BY <1>1 DEF CarryInv, BrainTypeOK
<1> HIDE DEF c, n
<1>8. CASE job["live"].dry = TRUE
  <2>1. UNCHANGED <<filed, cursor, missed, clock>>
    BY <1>1, <1>8
  <2>2. QED BY <1>1, <1>2, <1>4, <1>6, <1>7, <2>1, QuietMove
<1>9. CASE job["live"].dry = FALSE
  <2>1. /\ cursor' = [cursor EXCEPT !["live"][n] = c]
        /\ missed' = missed \cup {r \in filed : Behind(r, n, c)}
    BY <1>1, <1>9
  <2>2. missed \subseteq missed' /\ missed' \subseteq filed
    BY <2>1 DEF CarryInv, BrainTypeOK
  <2>3. /\ BrainTypeOK' /\ JobTypes' /\ cursor'["live"][n] = c
        /\ \A m \in ToSet(Namespaces) : m # n => cursor'["live"][m] = cursor["live"][m]
    <3>1. cursor \in [Jobs -> [ToSet(Namespaces) -> Marks \cup {NoCursor}]]
      BY DEF CarryInv, JobTypes
    <3>2. /\ cursor' \in [Jobs -> [ToSet(Namespaces) -> Marks \cup {NoCursor}]]
          /\ cursor'["live"][n] = c
          /\ \A m \in ToSet(Namespaces) : m # n => cursor'["live"][m] = cursor["live"][m]
      BY <1>2, <1>3, <2>1, <3>1
    <3>3. BrainTypeOK' /\ JobTypes'
      BY <1>1, <1>2, <1>4, <1>7, <2>2, <3>2, JobMoves
    <3>4. QED BY <3>2, <3>3
  <2>4. ASSUME NEW r \in filed' \ missed', Stamp[r] >= Since,
               Behind(r, Account[r], cursor'["live"][Account[r]])
        PROVE  r \in known'
    <3>1. r \in filed \ missed /\ r \in Rows /\ known' = known
      BY <1>1, <2>1, <2>4 DEF CarryInv, BrainTypeOK
    <3>2. Account[r] # n
      BY <2>1, <2>3, <2>4, <3>1
    <3>3. Account[r] \in ToSet(Namespaces)
      BY <3>1, IngestAssumption
    <3>4. cursor'["live"][Account[r]] = cursor["live"][Account[r]]
      BY <2>3, <3>2, <3>3
    <3>5. QED BY <2>4, <3>1, <3>4 DEF CarryInv, CursorCovers
  <2>5. CursorCovers'
    BY <2>4 DEF CursorCovers, Behind
  <2>6. QED BY <1>6, <2>3, <2>5 DEF CarryInv
<1>10. job["live"].dry \in BOOLEAN
  BY <1>2, JobFields
<1>11. QED BY <1>8, <1>9, <1>10

(* What the rows are does not matter to a job that moves none. *)
LEMMA SameJobs ==
  ASSUME CarryInv, UNCHANGED <<job, cursor>>
  PROVE  /\ JobTypes' /\ LiveFrom' /\ Namespace("live")' = Namespace("live")
<1>1. Namespace("live")' = Namespace("live")
  BY DEF Namespace
<1>2. JobTypes'
  BY DEF CarryInv, JobTypes
<1>3. LiveFrom'
  BY <1>1 DEF CarryInv, LiveFrom
<1>4. QED BY <1>1, <1>2, <1>3

LEMMA TimePassesStep == ASSUME CarryInv, TimePasses PROVE CarryInv'
<1>1. /\ UNCHANGED <<filed, cursor, job, known, missed, faults>>
      /\ clock < MaxClock /\ clock' = clock + 1
  BY DEF TimePasses
<1>2. clock' \in 0 .. MaxClock
  BY <1>1, IngestAssumption DEF CarryInv, BrainTypeOK
<1>3. BrainTypeOK'
  <2>1. /\ filed' \subseteq Rows /\ known' \subseteq filed' /\ missed' \subseteq filed'
        /\ faults' \in 0 .. MaxFaults
    BY <1>1 DEF CarryInv, BrainTypeOK
  <2>2. ASSUME NEW j \in Jobs
        PROVE  /\ job'[j].step \in {"idle", "cursor", "fetch", "push"}
               /\ job'[j].step = "idle" <=> job'[j].left = <<>>
               /\ job'[j].batch \subseteq filed'
               /\ job'[j].batch # {} <=> job'[j].step = "push"
               /\ job'[j].todo \subseteq {Adapter(r) : r \in job'[j].batch}
    <3>1. job' = job /\ filed' = filed
      BY <1>1
    <3>2. QED BY <3>1, JobFields, Zenon
  <2>3. \A r : Adapter(r)' = Adapter(r)
    BY DEF Adapter
  <2>4. QED BY <1>2, <2>1, <2>2, <2>3 DEF BrainTypeOK
<1>4. JobTypes' /\ LiveFrom'
  BY <1>1, SameJobs
<1>5. CursorCovers'
  BY <1>1, CoversKept DEF CarryInv
<1>6. BatchCovers'
  BY <1>1, LiveKept DEF CarryInv
<1>7. QED BY <1>3, <1>4, <1>5, <1>6 DEF CarryInv

(* A row that is filed behind the cursor, or behind the one of the batch in *)
(* hand, is missed.                                                         *)
LEMMA FilesStep == ASSUME CarryInv, NEW r \in Rows, Files(r) PROVE CarryInv'
<1> DEFINE n == Account[r]
           inHand == job["live"].batch
           late == \/ Behind(r, n, cursor["live"][n])
                   \/ inHand # {} /\ Namespace("live") = n /\ Behind(r, n, CursorAfter(inHand))
<1>1. /\ r \notin filed /\ filed' = filed \cup {r}
      /\ missed' = missed \cup {q \in {r} :
            \/ Behind(q, n, cursor["live"][n])
            \/ inHand # {} /\ Namespace("live") = n /\ Behind(q, n, CursorAfter(inHand))}
      /\ UNCHANGED <<clock, cursor, job, known, faults>>
  BY DEF Files
<1>2. missed \subseteq missed' /\ missed' \subseteq missed \cup {r} /\ (late => r \in missed')
  BY <1>1
<1>3. BrainTypeOK'
  <2>1. /\ filed' \subseteq Rows /\ known' \subseteq filed' /\ missed' \subseteq filed'
        /\ faults' \in 0 .. MaxFaults /\ clock' \in 0 .. MaxClock
    BY <1>1, <1>2 DEF CarryInv, BrainTypeOK
  <2>2. ASSUME NEW j \in Jobs
        PROVE  /\ job'[j].step \in {"idle", "cursor", "fetch", "push"}
               /\ job'[j].step = "idle" <=> job'[j].left = <<>>
               /\ job'[j].batch \subseteq filed'
               /\ job'[j].batch # {} <=> job'[j].step = "push"
               /\ job'[j].todo \subseteq {Adapter(q) : q \in job'[j].batch}
    <3>1. job' = job
      BY <1>1
    <3>2. job[j].batch \subseteq filed'
      BY <1>1, JobFields
    <3>3. QED BY <3>1, <3>2, JobFields, Zenon
  <2>3. \A q : Adapter(q)' = Adapter(q)
    BY DEF Adapter
  <2>4. QED BY <2>1, <2>2, <2>3 DEF BrainTypeOK
<1>4. JobTypes' /\ LiveFrom' /\ Namespace("live")' = Namespace("live")
  BY <1>1, SameJobs
<1>5. \A q \in filed' \ missed' : q \in filed \ missed \/ q = r
  BY <1>1, <1>2
<1>6. CursorCovers'
  <2>1. ASSUME NEW q \in filed' \ missed', Stamp[q] >= Since,
               Behind(q, Account[q], cursor'["live"][Account[q]])
        PROVE  q \in known'
    <3>1. cursor' = cursor /\ known' = known
      BY <1>1
    <3>2. q # r
      BY <1>2, <2>1, <3>1
    <3>3. q \in filed \ missed
      BY <1>5, <3>2
    <3>4. QED BY <2>1, <3>1, <3>3 DEF CarryInv, CursorCovers
  <2>2. QED BY <2>1 DEF CursorCovers, Behind
<1>7. BatchCovers'
  <2>1. ASSUME job["live"].step = "push", job["live"].dry = FALSE,
               NEW q \in filed' \ missed', Account[q] = Namespace("live"), Stamp[q] >= Since,
               ~Above(Key(q), CursorAfter(inHand))
        PROVE  q \in known \/ (q \in inHand /\ Adapter(q) \in job["live"].todo)
    <3>1. inHand # {} /\ inHand \in SUBSET Rows
      BY <2>1, JobFields, JobsAre
    <3>2. CursorAfter(inHand) # NoCursor
      BY DEF CursorAfter, NoCursor
    <3>3. q # r
      BY <1>2, <2>1, <3>1, <3>2 DEF Behind
    <3>4. q \in filed \ missed
      BY <1>5, <3>3
    <3>5. QED BY <2>1, <3>4 DEF CarryInv, BatchCovers
  <2>2. job' = job /\ known' = known
    BY <1>1
  <2>3. QED BY <1>4, <2>1, <2>2 DEF BatchCovers
<1>8. QED BY <1>3, <1>4, <1>6, <1>7 DEF CarryInv

LEMMA CarryStart == BrainInit => CarryInv
<1> SUFFICES ASSUME BrainInit PROVE CarryInv
  OBVIOUS
<1>1. \A j \in Jobs : job[j] = JobIdle
  BY DEF BrainInit
<1>2. /\ clock = 0 /\ filed = {} /\ known = {} /\ missed = {} /\ faults = 0
      /\ job = [j \in Jobs |-> JobIdle]
      /\ cursor = [j \in Jobs |-> [n \in ToSet(Namespaces) |-> NoCursor]]
  BY DEF BrainInit
<1>3. BrainTypeOK
  <2>1. clock \in 0 .. MaxClock /\ faults \in 0 .. MaxFaults
    BY <1>2, IngestAssumption
  <2>2. ASSUME NEW j \in Jobs
        PROVE  /\ job[j].step \in {"idle", "cursor", "fetch", "push"}
               /\ job[j].step = "idle" <=> job[j].left = <<>>
               /\ job[j].batch \subseteq filed
               /\ job[j].batch # {} <=> job[j].step = "push"
               /\ job[j].todo \subseteq {Adapter(r) : r \in job[j].batch}
    BY <1>1, IdleOf
  <2>3. QED BY <1>2, <2>1, <2>2 DEF BrainTypeOK
<1>4. JobTypes
  BY <1>2, IdleOf DEF JobTypes
<1>5. CursorCovers
  BY <1>2 DEF CursorCovers
<1>6. LiveFrom /\ BatchCovers
  BY <1>1, IdleOf, JobsAre DEF LiveFrom, BatchCovers
<1>7. QED BY <1>3, <1>4, <1>5, <1>6 DEF CarryInv

LEMMA CarryRests == ASSUME CarryInv, UNCHANGED brainVars PROVE CarryInv'
<1>1. UNCHANGED <<clock, filed, cursor, job, known, missed, faults>>
  BY DEF brainVars
<1>2. JobTypes' /\ LiveFrom'
  BY <1>1, SameJobs
<1>3. CursorCovers'
  BY <1>1, CoversKept DEF CarryInv
<1>4. BatchCovers'
  BY <1>1, LiveKept DEF CarryInv
<1>5. \A r : Adapter(r)' = Adapter(r)
  BY DEF Adapter
<1>6. BrainTypeOK'
  BY <1>1, <1>5 DEF CarryInv, BrainTypeOK
<1>7. QED BY <1>2, <1>3, <1>4, <1>6 DEF CarryInv

LEMMA CarryStep == CarryInv /\ [BrainNext]_brainVars => CarryInv'
<1> SUFFICES ASSUME CarryInv, [BrainNext]_brainVars PROVE CarryInv'
  OBVIOUS
<1>1. ASSUME NEW j \in Jobs, JobSteps(j) PROVE CarryInv'
  BY <1>1, BeginsStep, TakesCursorStep, StopsStep, FetchesStep, PushesStep, SavesStep, Zenon
     DEF JobSteps
<1>2. CASE IngestAccount
  BY <1>1, <1>2, SkipsHistoryStep, JobsAre DEF IngestAccount
<1>3. CASE ReplayAccount
  BY <1>1, <1>3, JobsAre DEF ReplayAccount
<1>4. CASE \E j \in Jobs : PushFails(j) \/ JobDies(j)
  BY <1>4, EndsStep
<1>5. CASE TimePasses
  BY <1>5, TimePassesStep
<1>6. CASE \E r \in Rows : Files(r)
  BY <1>6, FilesStep
<1>7. CASE UNCHANGED brainVars
  BY <1>7, CarryRests
<1>8. QED BY <1>2, <1>3, <1>4, <1>5, <1>6, <1>7, Zenon DEF BrainNext

(* brain-ingest: the cursor of an account passes no row since SINCE that    *)
(* the Brain has not been given, unless it was filed behind the cursor.     *)
THEOREM BrainCorrect == BrainSpec => []BrainInv
<1>1. CarryInv => BrainInv
  BY DEF CarryInv, BrainInv
<1>2. QED BY CarryStart, CarryStep, <1>1, PTL DEF BrainSpec
=============================================================================
