--------------------------- MODULE BaileysConnection ---------------------------
(***************************************************************************)
(* The connection of a BaileysClient (connectors/whatsapp-web/src/         *)
(* baileys-client.ts) in the process of main.ts: connect() and             *)
(* disconnect(), the handlers bound to each socket, the reconnect timer    *)
(* and the watchdog.                                                       *)
(*                                                                         *)
(* The sockets are those of the baileys library.  One that disconnect() or *)
(* a reconnect has ended emits its last event, `close`, before end()       *)
(* returns, some time later, or not at all; the handlers do not ask which  *)
(* socket an event is of.                                                  *)
(***************************************************************************)
EXTENDS FiniteSets

CONSTANTS Sockets,   \* bound: sockets in use or whose last event is to come
          None

ASSUME SocketAssumption == None \notin Sockets

VARIABLES
  sock,        \* `this.sock`
  phase,       \* what each socket has done; "ending": its close is to come
  ready,       \* `ready`
  state,       \* `lastState`
  connecting,  \* `connecting`
  callers,     \* who awaits a connect() that is under way
  since,       \* `initializeStartedAt` is set
  timer,       \* `reconnectTimer` is set
  watchdog,    \* `watchdogTimer` is set
  booted,      \* main() has called connect()
  wanted,      \* connect() was asked for after the last disconnect()
  woken,       \* since then a late close has come, or a connect() was under way
  failed       \* the last connect() rejected

flags == <<ready, state, since>>
timers == <<timer, watchdog>>
asked == <<booted, wanted, woken, failed>>
vars == <<sock, phase, ready, state, connecting, callers, since, timer,
          watchdog, booted, wanted, woken, failed>>

Live(k) == phase[k] \in {"starting", "hung", "qr", "open"}
Free(k) == phase[k] = "closed" /\ k # sock

Init ==
  /\ sock = None /\ phase = [k \in Sockets |-> "closed"]
  /\ ready = FALSE /\ state = "none" /\ since = FALSE
  /\ connecting = FALSE /\ callers = {}
  /\ timer = FALSE /\ watchdog = FALSE
  /\ booted = FALSE /\ wanted = FALSE /\ woken = FALSE /\ failed = FALSE

-----------------------------------------------------------------------------
(* destroyCurrentSocket(): the socket is ended, and no longer the client's. *)
DestroyCurrentSocket ==
  /\ sock' = None
  /\ \E last \in {"closed", "ending"} :
       phase' = [k \in Sockets |-> IF k = sock /\ Live(k) THEN last ELSE phase[k]]

TimersCleared == watchdog' = FALSE /\ timer' = FALSE

(* connect() to its first await on the disk, by a caller that finds no     *)
(* other connect() under way.                                              *)
Starts(caller) ==
  /\ connecting' = TRUE /\ callers' = callers \cup {caller}
  /\ ready' = FALSE /\ since' = TRUE /\ failed' = FALSE
  /\ TimersCleared
  /\ DestroyCurrentSocket

(* Mutated: without the in-flight guard. *)
NeverBusy == FALSE

(* connect() returns at once when another one is under way. *)
Busy == connecting

(* main() connects.  If /qr/renew has made a socket before it, its close,  *)
(* when it comes at once, is handled with `connecting` set.                *)
MainConnects ==
  /\ ~booted /\ booted' = TRUE /\ wanted' = TRUE
  /\ \/ /\ Busy
        /\ UNCHANGED <<sock, phase, flags, connecting, callers, timers, failed>>
     \/ /\ ~Busy /\ Starts("main")
        /\ \/ state' = "INITIALIZING"
           \/ /\ \E k \in Sockets : k = sock /\ Live(k) /\ phase'[k] = "closed"
              /\ state' = "CLOSED"
  /\ UNCHANGED woken

(* reconnectNow(), which goes on into connect(). *)
ReconnectNow(caller) ==
  /\ Starts(caller) /\ state' = "INITIALIZING"
  /\ UNCHANGED <<booted, wanted, woken>>

(* disconnect().  The handler of a close that comes at once finds          *)
(* `intentionalDisconnect` set; a connect() under way goes on.             *)
Disconnects ==
  /\ TimersCleared
  /\ DestroyCurrentSocket
  /\ ready' = FALSE /\ state' = "DISCONNECTED"
  /\ UNCHANGED <<connecting, callers, since, failed>>

(* /auth/logout *)
Disconnect ==
  /\ Disconnects
  /\ wanted' = FALSE /\ woken' = connecting
  /\ UNCHANGED booted

(* renewQR(): disconnect(), then connect(). *)
RenewQR ==
  /\ \/ Busy /\ Disconnects
     \/ ~Busy /\ Starts("renew") /\ state' = "INITIALIZING"
  /\ wanted' = TRUE
  /\ UNCHANGED <<booted, woken>>

(* The finally of connect(). *)
Finally == connecting' = FALSE

(* connect() has made its socket, which may never come to anything. *)
SocketMade(k, first) ==
  \E caller \in callers :
    /\ Finally /\ callers' = callers \ {caller}
    /\ Free(k) /\ sock' = k /\ phase' = [phase EXCEPT ![k] = first]
    /\ watchdog' = TRUE
    /\ UNCHANGED <<flags, timer, asked>>

(* connect() rejects: the media bucket is looked for and forgotten, but    *)
(* the history tables and the auth directory must be there.  main() exits, *)
(* and the pod starts again; the others only log it.                       *)
ConnectFails(caller) ==
  /\ caller \in callers
  /\ IF caller = "main"
     THEN /\ sock' = None /\ phase' = [k \in Sockets |-> "closed"]
          /\ ready' = FALSE /\ state' = "none" /\ since' = FALSE
          /\ connecting' = FALSE /\ callers' = {}
          /\ timer' = FALSE /\ watchdog' = FALSE
          /\ booted' = FALSE /\ wanted' = FALSE /\ woken' = FALSE
          /\ failed' = FALSE
     ELSE /\ Finally /\ callers' = callers \ {caller}
          /\ failed' = TRUE
          /\ UNCHANGED <<sock, phase, flags, timers, booted, wanted, woken>>

-----------------------------------------------------------------------------
(* connection: 'connecting'. *)
ConnectingEvent(k) ==
  /\ phase[k] \in {"starting", "hung"} /\ state # "CONNECTING"
  /\ state' = "CONNECTING"
  /\ UNCHANGED <<sock, phase, ready, since, connecting, callers, timers, asked>>

(* handleQR() *)
QrShown(k) ==
  /\ phase[k] \in {"starting", "qr"}
  /\ phase' = [phase EXCEPT ![k] = "qr"]
  /\ ready' = FALSE /\ state' = "QR"
  /\ UNCHANGED <<sock, since, connecting, callers, timers, asked>>

(* connection: 'open', markConnected() *)
Opened(k) ==
  /\ phase[k] = "starting"
  /\ phase' = [phase EXCEPT ![k] = "open"]
  /\ ready' = TRUE /\ state' = "CONNECTED" /\ since' = FALSE
  /\ UNCHANGED <<sock, connecting, callers, timers, asked>>

ScheduleReconnect == timer' = (timer \/ ~connecting)

(* connection: 'close' *)
CloseEvent(next) ==
  /\ ready' = FALSE /\ state' = next
  /\ ScheduleReconnect
  /\ UNCHANGED <<sock, since, connecting, callers, watchdog>>

(* A socket closes: the link is lost, the server asks for a new one, the   *)
(* QRs have run out, or the device was unlinked.                           *)
SocketCloses(k) ==
  /\ Live(k) /\ phase' = [phase EXCEPT ![k] = "closed"]
  /\ \E next \in {"CLOSED", "LOGGED_OUT"} : CloseEvent(next)
  /\ UNCHANGED asked

(* The close of a socket that was ended before. *)
LateClose(k) ==
  /\ phase[k] = "ending" /\ phase' = [phase EXCEPT ![k] = "closed"]
  /\ CloseEvent("CLOSED")
  /\ woken' = TRUE
  /\ UNCHANGED <<booted, wanted, failed>>

TimerFires ==
  /\ timer
  /\ \/ /\ Busy /\ timer' = FALSE
        /\ UNCHANGED <<sock, phase, flags, connecting, callers, watchdog, asked>>
     \/ ~Busy /\ ReconnectNow("timer")

(* Mutated: a socket that has begun to connect is left to its events. *)
StuckUnlessConnecting ==
  ~ready /\ since /\ state \notin {"QR", "LOGGED_OUT", "CONNECTING"}

(* No progress within initializeMaxMs, and not for want of a scan. *)
Stuck == ~ready /\ since /\ state \notin {"QR", "LOGGED_OUT"}

(* runWatchdog() *)
RunWatchdog == watchdog /\ ~Busy /\ Stuck /\ ReconnectNow("watchdog")

Next ==
  \/ MainConnects \/ Disconnect \/ RenewQR \/ TimerFires \/ RunWatchdog
  \/ \E caller \in callers : ConnectFails(caller)
  \/ \E k \in Sockets :
       \/ SocketMade(k, "starting") \/ SocketMade(k, "hung")
       \/ ConnectingEvent(k) \/ QrShown(k) \/ Opened(k)
       \/ SocketCloses(k) \/ LateClose(k)

Spec == Init /\ [][Next]_vars

(* Timers run and awaits end.  WhatsApp is assumed not to leave every      *)
(* socket hanging, nor to close every one before it has come to something. *)
Fairness ==
  /\ WF_vars(MainConnects) /\ WF_vars(TimerFires) /\ WF_vars(RunWatchdog)
  /\ \A k \in Sockets : WF_vars(LateClose(k))
  /\ WF_vars(\E k \in Sockets : SocketMade(k, "starting") \/ SocketMade(k, "hung"))
  /\ SF_vars(\E k \in Sockets : SocketMade(k, "starting"))
  /\ SF_vars(\E k \in Sockets : Opened(k))

FairSpec == Spec /\ Fairness

-----------------------------------------------------------------------------
(* Every variable has its type, and `connecting` is set exactly while a    *)
(* connect() is under way.                                                 *)
TypeOK ==
  /\ sock \in Sockets \cup {None}
  /\ phase \in [Sockets -> {"starting", "hung", "qr", "open", "ending", "closed"}]
  /\ state \in {"none", "INITIALIZING", "CONNECTING", "QR", "CONNECTED",
                "CLOSED", "LOGGED_OUT", "DISCONNECTED"}
  /\ ready \in BOOLEAN /\ since \in BOOLEAN
  /\ timer \in BOOLEAN /\ watchdog \in BOOLEAN
  /\ booted \in BOOLEAN /\ wanted \in BOOLEAN
  /\ woken \in BOOLEAN /\ failed \in BOOLEAN
  /\ callers \subseteq {"main", "renew", "timer", "watchdog"}
  /\ connecting = (callers # {})

(* The client holds the only socket that lives: no interleaving of timers, *)
(* watchdog, renewals and main() makes one it forgets.                     *)
OneSocket == \A k \in Sockets : Live(k) => k = sock

(* isConnected(), the guard of every send, is never true of a socket that  *)
(* has not opened or has closed since.                                     *)
ReadyIsOpen == ready => sock \in Sockets /\ phase[sock] = "open"

(* A late close may make an open client look closed, but then a reconnect  *)
(* is scheduled: it does not refuse sends on a good socket for ever.       *)
OpenIsReady == \A k \in Sockets : phase[k] = "open" => ready \/ timer

(* A client that was not told to disconnect has a socket, a reconnect      *)
(* scheduled or a connect() under way, unless the last connect() rejected. *)
KeepsTrying ==
  wanted => connecting \/ timer \/ (\E k \in Sockets : Live(k)) \/ failed

(* A client that was told to disconnect does nothing, but for a connect()  *)
(* that was under way and what a late close of an old socket sets off.     *)
StaysOff ==
  ~wanted /\ ~woken
    => ~connecting /\ ~timer /\ ~watchdog /\ \A k \in Sockets : ~Live(k)

(* A client that is to be connected gets connected or asks for a scan,     *)
(* over sockets that hang or close, unless a connect() rejects.            *)
Recovers ==
  wanted /\ ~ready ~> ready \/ state = "QR" \/ ~wanted \/ failed

(* The client's flags tell the truth of its sockets, over late closes,     *)
(* timers, renewals and the watchdog: it holds the only one that lives,    *)
(* knows whether it is open, keeps trying until it is told to stop, and    *)
(* then is off.                                                            *)
ConnectionInv ==
  /\ TypeOK /\ OneSocket /\ ReadyIsOpen /\ OpenIsReady /\ KeepsTrying /\ StaysOff
=============================================================================
