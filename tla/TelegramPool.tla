---------------------------- MODULE TelegramPool ----------------------------
(***************************************************************************)
(* TelegramSessionPool of connectors/telegram/src/pairing/session-pool.ts: *)
(* one mtcute client per sub, whose QR flow runs in the background of its  *)
(* start(), with the row of the credential store as all that outlives the  *)
(* process.                                                                *)
(*                                                                         *)
(* An entry is the LivePairing of one start(), numbered in the order of    *)
(* the calls; the login it authorizes has its number, and Old is the login *)
(* a row held before.  Nothing keeps the me() calls of a sub apart: each   *)
(* looks its row up for itself.  Time is order only: the start interval    *)
(* and the idle time pass when the flows of the sub wait for nobody but    *)
(* its user, and an entry that was touched does not come of idle age again *)
(* within the sweep that found it idle.                                    *)
(***************************************************************************)
EXTENDS Integers, Sequences, FiniteSets

CONSTANTS Subs,          \* session keys
          Held,          \* those whose row has a login when the process begins
          MaxSessions,   \* limits.maxSessions
          MaxQr,         \* limits.maxQrPerStart
          Lookups,       \* bound: me() calls that look a row up at one time
          MaxStarts,     \* bound: start() calls that make an entry
          MaxFailures    \* bound: failures of the store

ASSUME TelegramAssumption ==
  /\ Held \subseteq Subs /\ MaxSessions \in Nat \ {0} /\ MaxQr \in Nat
  /\ MaxStarts \in Nat /\ MaxFailures \in Nat

VARIABLES
  live,        \* the entries, in the order of their starts
  sessions,    \* `sessions`: the entry of each sub, or None
  expired,     \* `expired`
  exhausted,   \* `qrExhausted`
  cooling,     \* subs checkStartRate() refuses
  idle,        \* listed entries not touched for idleMs
  identities,  \* `identities`: whose identity each sub has, or None
  loads,       \* the lookups of me(): from its read of the row to the end
               \* of its lazyLoadIdentity()
  row,         \* the login in the stored row of each sub, or None
  dead,        \* logins Telegram has ended
  met,         \* history: subs of which a lookup met a start or a flow,
               \* one deleted the row another was about to put, a flow ended
               \* after its drop or next to an earlier one, or a start that
               \* waited found another entry listed
  failures     \* failures of the store so far

marks == <<expired, exhausted, cooling>>
stored == <<row, dead, failures>>
vars == <<live, sessions, expired, exhausted, cooling, idle, identities, loads,
          row, dead, failures, met>>

None == 0
Old == MaxStarts + 1
Logins == 1..Old

Entries == DOMAIN live
SubOf(x) == live[x].sub
Current(x) == sessions[SubOf(x)] = x
Size == Cardinality({s \in Subs : sessions[s] # None})
Waits(x) == live[x].step \in {"evicting", "dropping"}
Ended(x) == live[x].step = "done"

NoLoad == [sub |-> None, step |-> "none", login |-> None]

(* The lookups of the sub that have come to one of these steps. *)
Loading(s, steps) == {a \in Lookups : loads[a].sub = s /\ loads[a].step \in steps}

Loaded == {"loading", "alive", "putting", "deleting"}

(* Has no flow of the sub anything to wait for but its user? *)
Settled(s) ==
  \A x \in Entries : SubOf(x) = s =>
    live[x].step = "done" \/ (live[x].step = "auth" /\ live[x].client = "on")

MeetsIf(s, late) == met' = IF late THEN met \cup {s} ELSE met

(* Has every other flow of the sub ended? *)
Alone(x) == \A y \in Entries \ {x} : SubOf(y) = SubOf(x) => Ended(y)

Init ==
  /\ live = <<>> /\ sessions = [s \in Subs |-> None]
  /\ expired = {} /\ exhausted = {} /\ cooling = {} /\ idle = {}
  /\ identities = [s \in Subs |-> None] /\ loads = [a \in Lookups |-> NoLoad]
  /\ row = [s \in Subs |-> IF s \in Held THEN Old ELSE None]
  /\ dead = {} /\ failures = 0 /\ met = {}

-----------------------------------------------------------------------------

(* drop(): unlist the entry if it is current, abort its flow, reject the   *)
(* password() that waits, and disconnect.                                  *)
Dropped(x) == [live EXCEPT ![x].client = "off", ![x].waiter = FALSE]

Unlisted(x) == IF Current(x) THEN [sessions EXCEPT ![SubOf(x)] = None] ELSE sessions

NewEntry(s, step) ==
  [sub |-> s, step |-> step, sweep |-> {}, state |-> "starting", qrs |-> 0,
   client |-> "off", waiter |-> FALSE]

(* Mutated: the mark of an ended session stays. *)
BeginMarked(x, entries) ==
  LET s == entries[x].sub IN
  /\ live' = [entries EXCEPT ![x].step = "auth", ![x].client = "on",
                             ![x].sweep = {}]
  /\ sessions' = [sessions EXCEPT ![s] = x]
  /\ exhausted' = exhausted \ {s} /\ UNCHANGED expired

(* The last part of start(): the marks go, the entry is listed, whatever   *)
(* was, and its flow begins.                                               *)
Begin(x, entries) ==
  LET s == entries[x].sub IN
  /\ live' = [entries EXCEPT ![x].step = "auth", ![x].client = "on",
                             ![x].sweep = {}]
  /\ sessions' = [sessions EXCEPT ![s] = x]
  /\ expired' = expired \ {s} /\ exhausted' = exhausted \ {s}

CanStart(s) ==
  /\ s \notin cooling /\ MeetsIf(s, Loading(s, Loaded) # {})

Makes(s) == CanStart(s) /\ Len(live) < MaxStarts

(* start() of a paired entry only touches it. *)
StartPaired(s) ==
  /\ CanStart(s) /\ sessions[s] # None /\ live[sessions[s]].state = "paired"
  /\ cooling' = cooling \cup {s}
  /\ idle' = idle \ {sessions[s]}
  /\ UNCHANGED <<live, sessions, expired, exhausted, identities, loads, stored>>

(* start() over an entry that is not paired, up to the disconnect.         *)
StartOver(s) ==
  /\ Makes(s) /\ sessions[s] # None /\ live[sessions[s]].state # "paired"
  /\ live' = Append(Dropped(sessions[s]), NewEntry(s, "dropping"))
  /\ sessions' = [sessions EXCEPT ![s] = None]
  /\ idle' = idle \ {sessions[s]}
  /\ cooling' = cooling \cup {s}
  /\ UNCHANGED <<expired, exhausted, identities, loads, stored>>

(* The old client has disconnected. *)
Restarted(x) ==
  /\ live[x].step = "dropping"
  /\ Begin(x, live)
  /\ UNCHANGED <<cooling, idle, identities, loads, stored, met>>

(* start() finds the pool full.  evictIdle() drops the first idle entry at *)
(* once and waits for its disconnect; with none idle it waits for nothing, *)
(* and start() throws pool_full with nothing changed.                      *)
StartEvicts(s) ==
  /\ Makes(s) /\ sessions[s] = None /\ Size >= MaxSessions
  /\ \E y \in idle :
       LET sweep == {x \in idle : Current(x)} IN
       /\ Current(y)
       /\ live' = Append(Dropped(y),
            [NewEntry(s, "evicting") EXCEPT !.sweep = sweep \ {y}])
       /\ sessions' = Unlisted(y)
       /\ idle' = idle \ {y}
  /\ UNCHANGED <<marks, identities, loads, stored>>

(* The disconnect has ended: on to the next entry that is idle still.      *)
Sweeps(x) ==
  /\ live[x].step = "evicting"
  /\ \E y \in live[x].sweep \cap idle :
       /\ live' = [Dropped(y) EXCEPT ![x].sweep = @ \ {y}]
       /\ sessions' = Unlisted(y)
       /\ idle' = idle \ {y}
  /\ UNCHANGED <<marks, identities, loads, stored, met>>

(* evictIdle() has returned: the size is checked again, but neither what   *)
(* is listed nor the start interval.                                       *)
Evicted(x) ==
  /\ live[x].step = "evicting" /\ live[x].sweep \cap idle = {}
  /\ IF Size >= MaxSessions
     THEN /\ live' = [live EXCEPT ![x].step = "done", ![x].sweep = {}]
          /\ UNCHANGED <<sessions, marks, met>>
     ELSE /\ Begin(x, live)
          /\ cooling' = cooling \cup {SubOf(x)}
          /\ MeetsIf(SubOf(x), sessions[SubOf(x)] # None)
  /\ UNCHANGED <<idle, identities, loads, stored>>

StartFresh(s) ==
  /\ Makes(s) /\ sessions[s] = None /\ Size < MaxSessions
  /\ Begin(Len(live) + 1, Append(live, NewEntry(s, "auth")))
  /\ cooling' = cooling \cup {s}
  /\ UNCHANGED <<idle, identities, loads, stored>>

-----------------------------------------------------------------------------

QrSpent(x) == live[x].qrs >= MaxQr

(* onQr(): the library shows a new login URL; a spent budget ends the flow *)
(* and keeps nothing of it.                                                *)
Qr(x) ==
  /\ live[x].step = "auth" /\ live[x].client = "on" /\ ~live[x].waiter
  /\ live[x].state \in {"starting", "qr"} /\ Current(x)
  /\ IF ~QrSpent(x)
     THEN /\ live' = [live EXCEPT ![x].qrs = @ + 1, ![x].state = "qr"]
          /\ UNCHANGED <<sessions, exhausted, idle>>
     ELSE /\ live' = [Dropped(x) EXCEPT ![x].qrs = @ + 1]
          /\ sessions' = Unlisted(x)
          /\ idle' = idle \ {x}
          /\ exhausted' = exhausted \cup {SubOf(x)}
  /\ UNCHANGED <<expired, cooling, identities, loads, stored, met>>

(* requestPassword(): after the scan of an account with 2FA, or again      *)
(* after onPasswordInvalid().                                              *)
AskPassword(x) ==
  /\ live[x].step = "auth" /\ live[x].client = "on" /\ ~live[x].waiter
  /\ live[x].state \in {"qr", "password"} /\ Current(x)
  /\ live' = [live EXCEPT ![x].state = "password", ![x].waiter = TRUE]
  /\ UNCHANGED <<sessions, marks, idle, identities, loads, stored, met>>

SubmitPassword(s) ==
  /\ sessions[s] # None
  /\ live[sessions[s]].state = "password" /\ live[sessions[s]].waiter
  /\ live' = [live EXCEPT ![sessions[s]].waiter = FALSE]
  /\ idle' = idle \ {sessions[s]}
  /\ UNCHANGED <<sessions, marks, identities, loads, stored, met>>

(* The user has scanned, or sent the right password: startPairing()        *)
(* resolves, even of a flow dropped while the last answer was on its way.  *)
Authorized(x) ==
  /\ live[x].step = "auth" /\ live[x].state \in {"qr", "password"}
  /\ ~live[x].waiter
  /\ MeetsIf(SubOf(x), live[x].client = "off" \/ ~Alone(x))
  /\ identities' = [identities EXCEPT ![SubOf(x)] = x]
  /\ live' = [live EXCEPT ![x].step = "putting",
                          ![x].state = IF Current(x) THEN "paired" ELSE @]
  /\ UNCHANGED <<sessions, marks, idle, loads, stored>>

(* Mutated: the row is written before the authorization. *)
RowPutEarly(x) ==
  /\ live[x].step \in {"auth", "putting"} /\ live[x].state # "starting"
  /\ live' = [live EXCEPT ![x].step = "done"]
  /\ row' = [row EXCEPT ![SubOf(x)] = x]
  /\ UNCHANGED <<sessions, marks, idle, identities, loads, dead, failures, met>>

(* store.put() of the exported session. *)
RowPut(x) ==
  /\ live[x].step = "putting"
  /\ live' = [live EXCEPT ![x].step = "done"]
  /\ row' = [row EXCEPT ![SubOf(x)] = x]
  /\ UNCHANGED <<sessions, marks, idle, identities, loads, dead, failures, met>>

(* It rejects: runFlow() drops the entry, unless it was aborted. *)
PutFails(x) ==
  /\ live[x].step = "putting" /\ failures < MaxFailures
  /\ failures' = failures + 1
  /\ live' = [Dropped(x) EXCEPT ![x].step = "done"]
  /\ sessions' = Unlisted(x)
  /\ idle' = idle \ {x}
  /\ UNCHANGED <<marks, identities, loads, row, dead, met>>

(* startPairing() rejects: a dropped flow is left, any other is dropped.   *)
FlowFails(x) ==
  /\ live[x].step = "auth"
  /\ live' = [Dropped(x) EXCEPT ![x].step = "done"]
  /\ sessions' = Unlisted(x)
  /\ idle' = idle \ {x}
  /\ UNCHANGED <<marks, identities, loads, stored, met>>

(* The identity of a sub whose session has died goes. *)
Forgotten(s) == [identities EXCEPT ![s] = None]

(* startPairing() rejects with one of DEAD_SESSION_RPC_ERRORS: the first   *)
(* part of markExpired(), up to the delete.                                *)
FlowDies(x) ==
  /\ live[x].step = "auth" /\ live[x].client = "on"
  /\ MeetsIf(SubOf(x), ~Alone(x))
  /\ live' = [live EXCEPT ![x].step = "deleting", ![x].state = "expired"]
  /\ expired' = expired \cup {SubOf(x)}
  /\ identities' = Forgotten(SubOf(x))
  /\ UNCHANGED <<sessions, exhausted, cooling, idle, loads, stored>>

(* The delete has returned, or failed, which is only logged. *)
FlowDeleted(x) ==
  /\ live[x].step = "deleting"
  /\ \/ row' = [row EXCEPT ![SubOf(x)] = None] /\ UNCHANGED failures
     \/ failures < MaxFailures /\ failures' = failures + 1 /\ UNCHANGED row
  /\ live' = [Dropped(x) EXCEPT ![x].step = "done"]
  /\ sessions' = Unlisted(x)
  /\ idle' = idle \ {x}
  /\ UNCHANGED <<marks, identities, loads, dead, met>>

-----------------------------------------------------------------------------
(* Has me() to read the row of the sub? *)
Unknown(s) ==
  /\ sessions[s] # None => live[sessions[s]].state \notin {"paired", "expired"}
  /\ s \notin expired /\ identities[s] = None

(* me() that can answer from memory touches the live entry, no more ...    *)
Me(s) ==
  /\ sessions[s] # None /\ ~Unknown(s)
  /\ idle' = idle \ {sessions[s]}
  /\ UNCHANGED <<live, sessions, marks, identities, loads, stored, met>>

(* ... and any other asks the store for the row, whoever else is asking.   *)
MeAsks(s, a) ==
  /\ Unknown(s) /\ loads[a].step = "none"
  /\ idle' = idle \ {sessions[s]}
  /\ loads' = [loads EXCEPT ![a] = [sub |-> s, step |-> "reading", login |-> None]]
  /\ UNCHANGED <<live, sessions, marks, identities, stored, met>>

(* The row is read: me() answers null, or lazyLoadIdentity() begins.       *)
RowRead(a) ==
  LET s == loads[a].sub IN
  /\ loads[a].step = "reading"
  /\ IF row[s] = None
     THEN loads' = [loads EXCEPT ![a] = NoLoad] /\ UNCHANGED met
     ELSE /\ loads' = [loads EXCEPT ![a].step = "loading", ![a].login = row[s]]
          /\ MeetsIf(s, \E x \in Entries : SubOf(x) = s /\ ~Ended(x))
  /\ UNCHANGED <<live, sessions, marks, idle, identities, stored>>

(* Telegram answers loadSession(): the session lives, or is dead; or it    *)
(* throws otherwise.                                                       *)
LoadAnswers(a) ==
  /\ loads[a].step = "loading"
  /\ \/ loads[a].login \notin dead /\ loads' = [loads EXCEPT ![a].step = "alive"]
     \/ loads[a].login \in dead /\ loads' = [loads EXCEPT ![a].step = "deleting"]
     \/ loads' = [loads EXCEPT ![a] = NoLoad]
  /\ UNCHANGED <<live, sessions, marks, idle, identities, stored, met>>

(* The answer has come. *)
IdentityKnown(a) ==
  /\ loads[a].step = "alive"
  /\ loads' = [loads EXCEPT ![a].step = "putting"]
  /\ identities' = [identities EXCEPT ![loads[a].sub] = loads[a].login]
  /\ UNCHANGED <<live, sessions, marks, idle, stored, met>>

(* The refreshed export is put back, which may fail. *)
LoadPut(a) ==
  /\ loads[a].step = "putting"
  /\ loads' = [loads EXCEPT ![a] = NoLoad]
  /\ \/ row' = [row EXCEPT ![loads[a].sub] = loads[a].login] /\ UNCHANGED failures
     \/ failures < MaxFailures /\ failures' = failures + 1 /\ UNCHANGED row
  /\ UNCHANGED <<live, sessions, marks, idle, identities, dead, met>>

(* The row of a dead session is deleted, or not, and markExpiredSub()      *)
(* drops what is live.                                                     *)
LoadDeleted(a) ==
  LET s == loads[a].sub IN
  /\ loads[a].step = "deleting"
  /\ loads' = [loads EXCEPT ![a] = NoLoad]
  /\ MeetsIf(s, Loading(s, {"alive", "putting"}) # {})
  /\ \/ row' = [row EXCEPT ![s] = None] /\ UNCHANGED failures
     \/ failures < MaxFailures /\ failures' = failures + 1 /\ UNCHANGED row
  /\ expired' = expired \cup {s}
  /\ identities' = Forgotten(s)
  /\ idle' = idle \ {sessions[s]}
  /\ IF sessions[s] = None THEN UNCHANGED <<live, sessions>>
     ELSE live' = Dropped(sessions[s]) /\ sessions' = [sessions EXCEPT ![s] = None]
  /\ UNCHANGED <<exhausted, cooling, dead>>

-----------------------------------------------------------------------------
(* Mutated: an entry that waits for a password is not idle. *)
EvictableUnlessAsked(x) == Current(x) /\ x \in idle /\ ~live[x].waiter

Evictable(x) == Current(x) /\ x \in idle

(* evictIdle() drops an idle entry. *)
Evict(x) ==
  /\ Evictable(x)
  /\ live' = Dropped(x) /\ sessions' = Unlisted(x)
  /\ idle' = idle \ {x}
  /\ UNCHANGED <<marks, identities, loads, stored, met>>

(* A day later evictIdle() forgets the marks of the sub. *)
Prune(s) ==
  /\ s \in expired \cup exhausted /\ s \notin cooling /\ Settled(s)
  /\ expired' = expired \ {s} /\ exhausted' = exhausted \ {s}
  /\ UNCHANGED <<live, sessions, cooling, idle, identities, loads, stored, met>>

GoIdle(x) ==
  /\ Current(x) /\ x \notin idle /\ Settled(SubOf(x))
  /\ \A y \in Entries : x \notin live[y].sweep
  /\ idle' = idle \cup {x}
  /\ UNCHANGED <<live, sessions, marks, identities, loads, stored, met>>

(* checkStartRate() would let the sub start again (bound: while the model  *)
(* has a start left).                                                      *)
CoolDown(s) ==
  /\ s \in cooling /\ Settled(s) /\ Len(live) < MaxStarts
  /\ cooling' = cooling \ {s}
  /\ UNCHANGED <<live, sessions, expired, exhausted, idle, identities, loads,
                 stored, met>>

(* The user, or Telegram, ends a login in a row: nothing tells the pool.   *)
Revoke(l) ==
  /\ l \notin dead
  /\ \E s \in Subs : row[s] = l
  /\ dead' = dead \cup {l}
  /\ UNCHANGED <<live, sessions, marks, idle, identities, loads, row, failures, met>>

(* The process is stopped, or dies, and starts again: only rows are left.  *)
Restart ==
  /\ \E s \in Subs : sessions[s] # None \/ identities[s] # None
  /\ live' = [x \in Entries |-> [live[x] EXCEPT
       !.step = "done", !.client = "off", !.waiter = FALSE]]
  /\ sessions' = [s \in Subs |-> None]
  /\ expired' = {} /\ exhausted' = {} /\ cooling' = {} /\ idle' = {}
  /\ identities' = [s \in Subs |-> None]
  /\ loads' = [a \in Lookups |-> NoLoad]
  /\ UNCHANGED <<stored, met>>

Next ==
  \/ \E s \in Subs :
       \/ StartPaired(s) \/ StartOver(s) \/ StartEvicts(s) \/ StartFresh(s)
       \/ SubmitPassword(s) \/ Me(s) \/ Prune(s) \/ CoolDown(s)
       \/ \E a \in Lookups : MeAsks(s, a)
  \/ \E a \in Lookups :
       \/ RowRead(a) \/ LoadAnswers(a) \/ IdentityKnown(a) \/ LoadPut(a)
       \/ LoadDeleted(a)
  \/ \E x \in Entries :
       \/ Restarted(x) \/ Sweeps(x) \/ Evicted(x) \/ Qr(x) \/ AskPassword(x)
       \/ Authorized(x) \/ RowPut(x) \/ PutFails(x) \/ FlowFails(x)
       \/ FlowDies(x) \/ FlowDeleted(x) \/ Evict(x) \/ GoIdle(x)
  \/ \E l \in Logins : Revoke(l)
  \/ Restart

Spec == Init /\ [][Next]_vars

(* Awaits end and the clocks run; nobody has to start, scan or answer.     *)
Fairness ==
  /\ \A x \in 1..MaxStarts :
       /\ WF_vars(x \in Entries /\ (Restarted(x) \/ Sweeps(x) \/ Evicted(x)))
       /\ WF_vars(x \in Entries /\ (RowPut(x) \/ FlowDeleted(x)))
       /\ WF_vars(x \in Entries /\ live[x].client = "off" /\ FlowFails(x))
       /\ SF_vars(x \in Entries /\ GoIdle(x))
       /\ WF_vars(x \in Entries /\ Evict(x))
  /\ \A a \in Lookups :
       WF_vars(RowRead(a) \/ LoadAnswers(a) \/ IdentityKnown(a) \/ LoadPut(a)
                 \/ LoadDeleted(a))

FairSpec == Spec /\ Fairness

-----------------------------------------------------------------------------
EntryType ==
  [sub : Subs, step : {"evicting", "dropping", "auth", "putting", "deleting", "done"},
   sweep : SUBSET (1..MaxStarts), qrs : 0..(MaxQr + 1), client : {"on", "off"},
   state : {"starting", "qr", "password", "paired", "expired"}, waiter : BOOLEAN]

LoadType ==
  {NoLoad} \cup [sub : Subs, step : {"reading"} \cup Loaded, login : {None} \cup Logins]

(* An entry is listed only under its own sub and past its start.           *)
TelegramTypeOK ==
  /\ live \in Seq(EntryType) /\ Len(live) <= MaxStarts
  /\ sessions \in [Subs -> 0..MaxStarts]
  /\ \A s \in Subs : sessions[s] # None =>
       sessions[s] \in Entries /\ SubOf(sessions[s]) = s /\ ~Waits(sessions[s])
  /\ expired \cup exhausted \cup cooling \subseteq Subs /\ idle \subseteq Entries
  /\ identities \in [Subs -> {None} \cup Logins]
  /\ loads \in [Lookups -> LoadType]
  /\ row \in [Subs -> {None} \cup Logins] /\ dead \subseteq Logins /\ met \subseteq Subs
  /\ failures \in 0..MaxFailures

(* "Live sockets right now" (session-pool.ts:213) and "close every socket" *)
(* (376) go by `sessions`: a client that is connected is one it lists.     *)
SocketsAreListed == \A x \in Entries : live[x].client = "on" => Current(x)

(* That is so unless a start that waited for evictIdle() was passed by     *)
(* another start of its sub, whose entry it then replaces unseen.          *)
NoOrphan == \A x \in Entries : live[x].client = "on" => Current(x) \/ SubOf(x) \in met

(* "A pending waiter is rejected if the flow dies (restart/shutdown), so   *)
(* the library never hangs on a dead socket" (session-pool.ts:431-432).    *)
WaiterIsLive == \A x \in Entries : live[x].waiter => live[x].client = "on"

(* What me() would answer from its cache is the identity of the login in   *)
(* the row, or one whose put is under way or has failed: "live socket      *)
(* first, else the row" (session-pool.ts:306).                             *)
IdentityIsRow ==
  \A s \in Subs \ met : identities[s] \notin {None, row[s]} =>
    failures > 0 \/ \E x \in Entries : SubOf(x) = s /\ live[x].step = "putting"

(* A sub that reads `expired` has no row of a living login, unless one is  *)
(* being written or the delete failed.                                     *)
ExpiredHasNoRow ==
  \A s \in expired \ met : sessions[s] = None /\ row[s] # None =>
    \/ failures > 0
    \/ \E x \in Entries : SubOf(x) = s /\ live[x].step = "deleting"

(* "A row without a live socket is `paired` (the row is only ever written  *)
(* after a completed authorization)" (session-pool.ts:270-271): a login    *)
(* that enters a row is one whose flow was authorized, or was read there,  *)
(* and no older login replaces a newer one, unless a lookup or a flow met  *)
(* another.                                                                *)
RowMovesOn ==
  [][\A s \in Subs : row'[s] \notin {None, row[s]} =>
       \/ s \in met /\ \E a \in Loading(s, {"putting"}) : row'[s] = loads[a].login
       \/ /\ row'[s] # Old /\ live[row'[s]].step = "putting"
          /\ row[s] \in {None, Old} \/ row'[s] > row[s] \/ s \in met]_vars

HalfDone(x) ==
  x \in Entries /\ Current(x) /\ live[x].state \in {"starting", "qr", "password"}

Touched ==
  \E s \in Subs :
    []<><<Me(s) \/ SubmitPassword(s) \/ \E a \in Lookups : MeAsks(s, a)>>_idle

(* "evictIdle closes a flow nobody has acted on for idleMs": polling the   *)
(* state does not keep one of the places (session-pool.ts:278-279).        *)
HalfDoneGoes ==
  \A x \in 1..MaxStarts : (HalfDone(x) ~> ~HalfDone(x)) \/ Touched

(* What a sub is told agrees with what the pool holds and the store has:   *)
(* its status, its identity, the waiter of its password, and no client is  *)
(* connected that the pool does not list.                                  *)
TelegramPoolInv ==
  /\ TelegramTypeOK /\ NoOrphan /\ WaiterIsLive /\ IdentityIsRow /\ ExpiredHasNoRow
=============================================================================
