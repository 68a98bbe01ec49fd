----------------------------- MODULE PairingPool -----------------------------
(***************************************************************************)
(* SessionPool of connectors/whatsapp-web/src/pairing/session-pool.ts: one *)
(* WhatsApp client per sub, created by start(), closed by the eviction of  *)
(* idle entries, by a spent QR budget or by the end of the login, with the *)
(* row of the credential store as all that outlives it.  The lifecycle of  *)
(* the client is the part of baileys-client.ts the pool drives.            *)
(*                                                                         *)
(* An entry is the LiveSession of one start(), numbered in the order of    *)
(* the calls.  A login is a linked device; the one entry x pairs is        *)
(* numbered x, and Old is the login a row held before the process began.   *)
(*                                                                         *)
(* Time is order only.  Awaits on the disk and the store, and the debounce *)
(* of a write (2 s), are assumed to end before what takes a person, a      *)
(* reconnect delay (5 s) or the start interval (60 s): the guards Settled  *)
(* and Alone say so.                                                       *)
(***************************************************************************)
EXTENDS Integers, Sequences, FiniteSets

CONSTANTS Subs,          \* session keys
          Held,          \* those whose row has a login when the process begins
          MaxSessions,   \* limits.maxSessions
          MaxQr,         \* limits.maxQrPerStart
          MaxStarts,     \* bound: start() calls that make an entry
          MaxFailures    \* bound: failures of the store or of connect()

ASSUME PoolAssumption ==
  /\ Held \subseteq Subs /\ MaxSessions \in Nat \ {0} /\ MaxQr \in Nat
  /\ MaxStarts \in Nat /\ MaxFailures \in Nat

VARIABLES
  live,       \* the entries, in the order of their starts
  sessions,   \* `sessions`: the entry of each sub, or Nothing
  expired,    \* `expired`
  exhausted,  \* `qrExhausted`
  cooling,    \* subs checkStartRate() refuses
  idle,       \* entries not touched for idleMs
  armed,      \* entries whose write-back has a write to make
  leaving,    \* entries whose drop() awaits its flush
  hook,       \* entries whose sessionInvalidatedHook awaits
  dir,        \* the login in the auth directory of each sub
  stored,     \* the login in the stored row of each sub
  dead,       \* the logins of each sub the provider has ended
  failures,   \* failures so far
  met         \* history: subs of which a drop met a connect() under way, a
              \* start the flush of a drop, or a start that waited another's

marks == <<expired, exhausted, cooling>>
drops == <<armed, leaving, hook>>
creds == <<dir, stored, dead>>
poolVars == <<live, sessions, expired, exhausted, cooling, idle, armed,
              leaving, hook, dir, stored, dead, failures, met>>

Missing == -1            \* no row, or no directory
Nothing == 0             \* no entry, or no credentials in row or directory
Old == MaxStarts + 1
Logins == 1..Old
Contents == {Missing, Nothing} \cup Logins

Entries == DOMAIN live
SubOf(x) == live[x].sub
Listed(x) == sessions[SubOf(x)] = x
Size == Cardinality({s \in Subs : sessions[s] # Nothing})

(* Is no start, drop, hook or write of s under way? *)
Settled(s) ==
  \A x \in Entries :
    SubOf(x) = s => live[x].step = "done" /\ x \notin leaving \cup hook \cup armed

(* Is no other entry of the sub inside its drop or its hook? *)
Alone(x) ==
  \A y \in leaving \cup hook : SubOf(y) = SubOf(x) => y = x

(* disconnect(): a socket, or the timer of a reconnect, goes; a connect()  *)
(* in progress is not stopped.                                             *)
Stopped(client) == IF client = "connecting" THEN "connecting" ELSE "off"

(* Mutated: the client is left alone. *)
NotClosed(x) == live

(* The entries once the client of x is disconnected. *)
Closed(x) == [live EXCEPT ![x].client = Stopped(@)]

(* Of the entries dropped, the subs of those that are inside connect(). *)
Connectings(X) == {SubOf(x) : x \in {y \in X : live[y].client = "connecting"}}

(* The sub, if its directory is emptied while a drop() flushes from it. *)
Flushings(s) == {s} \cap {SubOf(x) : x \in leaving}

-----------------------------------------------------------------------------
PoolInit ==
  /\ live = <<>> /\ sessions = [s \in Subs |-> Nothing]
  /\ expired = {} /\ exhausted = {} /\ cooling = {}
  /\ idle = {} /\ armed = {} /\ leaving = {} /\ hook = {}
  /\ dir = [s \in Subs |-> Missing]
  /\ stored = [s \in Subs |-> IF s \in Held THEN Old ELSE Missing]
  /\ dead = [s \in Subs |-> {}] /\ failures = 0 /\ met = {}

NewEntry(s, step, sweep) ==
  [sub |-> s, step |-> step, sweep |-> sweep, state |-> "starting", qrs |-> 0,
   client |-> "off", login |-> Nothing, opened |-> FALSE, invalidated |-> FALSE]

(* start() past its guards, to the await of attachCredentialSession(): the *)
(* start is recorded, the marks of the last one go, the directory is       *)
(* emptied.                                                                *)
Record(s) ==
  /\ cooling' = cooling \cup {s}
  /\ expired' = expired \ {s}
  /\ exhausted' = exhausted \ {s}
  /\ dir' = [dir EXCEPT ![s] = Missing]

(* start() of a sub that is already paired and live. *)
StartPaired(s) ==
  /\ s \notin cooling
  /\ sessions[s] # Nothing /\ live[sessions[s]].state = "paired"
  /\ cooling' = cooling \cup {s}
  /\ idle' = idle \ {sessions[s]}
  /\ UNCHANGED <<live, sessions, expired, exhausted, drops, creds, failures, met>>

(* start() that finds the pool full.  evictIdle() has something to await   *)
(* only when the flush of an idle entry has a write to make ...            *)
Sweep == {x \in idle : Listed(x)}

StartAwaits(s) ==
  /\ Len(live) < MaxStarts /\ s \notin cooling
  /\ sessions[s] = Nothing /\ Size >= MaxSessions
  /\ \E x \in Sweep \cap armed :
       /\ sessions' = [sessions EXCEPT ![SubOf(x)] = Nothing]
       /\ leaving' = leaving \cup {x}
  /\ live' = Append(live, NewEntry(s, "evicting", Sweep))
  /\ UNCHANGED <<marks, idle, armed, hook, creds, failures, met>>

(* ... and otherwise drops every idle entry in this step; if there is none *)
(* start() throws, and nothing has changed.                                *)
StartEvicts(s) ==
  /\ Len(live) < MaxStarts /\ s \notin cooling
  /\ sessions[s] = Nothing /\ Size >= MaxSessions
  /\ Sweep # {} /\ Sweep \cap armed = {}
  /\ Size - Cardinality(Sweep) < MaxSessions
  /\ sessions' = [z \in Subs |-> IF sessions[z] \in Sweep THEN Nothing ELSE sessions[z]]
  /\ live' = Append([x \in Entries |->
                      IF x \in Sweep THEN [live[x] EXCEPT !.client = Stopped(@)]
                      ELSE live[x]], NewEntry(s, "loading", {}))
  /\ Record(s) /\ met' = met \cup Connectings(Sweep) \cup Flushings(s)
  /\ UNCHANGED <<idle, drops, stored, dead, failures>>

(* start() that goes on at once.  The entry it replaces has never opened,  *)
(* so its flush has nothing to await and drop() ends in this step.         *)
StartFresh(s) ==
  /\ Len(live) < MaxStarts /\ s \notin cooling
  /\ \/ /\ sessions[s] = Nothing /\ Size < MaxSessions
        /\ live' = Append(live, NewEntry(s, "loading", {}))
        /\ UNCHANGED sessions
     \/ LET old == sessions[s] IN
        /\ old # Nothing /\ live[old].state # "paired"
        /\ live' = Append(Closed(old), NewEntry(s, "loading", {}))
        /\ sessions' = [sessions EXCEPT ![s] = Nothing]
  /\ Record(s)
  /\ met' = met \cup Connectings({sessions[s]} \cap Entries) \cup Flushings(s)
  /\ UNCHANGED <<idle, drops, stored, dead, failures>>

(* The evictIdle() of start() has returned, and the size is checked again. *)
Evicted(x) ==
  /\ live[x].step = "evicting"
  /\ \A y \in live[x].sweep : y \notin leaving /\ (Listed(y) => y \notin idle)
  /\ IF Size >= MaxSessions
     THEN /\ live' = [live EXCEPT ![x].step = "done"]
          /\ UNCHANGED <<marks, dir, met>>
     ELSE /\ live' = [live EXCEPT ![x].step = "loading"]
          /\ Record(SubOf(x))
          /\ met' = met \cup Flushings(SubOf(x)) \cup ({SubOf(x)} \cap cooling)
  /\ UNCHANGED <<sessions, idle, drops, stored, dead, failures>>

(* connect() reads the auth directory, which it makes if it has to. *)
Connecting(x, s, content) ==
  /\ dir' = [dir EXCEPT ![s] = IF content = Missing THEN Nothing ELSE content]
  /\ live' = [live EXCEPT ![x].client = "connecting", ![x].login = dir'[s],
                          ![x].step = IF @ = "loading" THEN "connecting" ELSE @]

(* loadCredentialSession() has applied the row, if there is one: the entry *)
(* is listed, whatever was, and its client connects.                       *)
Loaded(x) ==
  LET s == SubOf(x) IN
  /\ live[x].step = "loading"
  /\ Connecting(x, s, IF stored[s] \in Logins THEN stored[s] ELSE dir[s])
  /\ sessions' = [sessions EXCEPT ![s] = x]
  /\ UNCHANGED <<marks, idle, drops, stored, dead, failures, met>>

(* store.get() rejects. *)
LoadFails(x) ==
  /\ live[x].step = "loading" /\ failures < MaxFailures
  /\ live' = [live EXCEPT ![x].step = "done"]
  /\ failures' = failures + 1
  /\ UNCHANGED <<sessions, marks, idle, drops, creds, met>>

-----------------------------------------------------------------------------

(* connect() has made its socket. *)
SocketMade(x) ==
  /\ live[x].client = "connecting"
  /\ live' = [live EXCEPT ![x].client = "on", ![x].step = "done"]
  /\ UNCHANGED <<sessions, marks, idle, drops, creds, failures, met>>

(* connect() rejects: start() unlists the sub; a reconnect only logs it.   *)
ConnectFails(x) ==
  /\ live[x].client = "connecting" /\ failures < MaxFailures
  /\ live' = [live EXCEPT ![x].client = "off", ![x].step = "done"]
  /\ sessions' = IF live[x].step = "connecting"
                 THEN [sessions EXCEPT ![SubOf(x)] = Nothing] ELSE sessions
  /\ failures' = failures + 1
  /\ UNCHANGED <<marks, idle, drops, creds, met>>

(* The socket closes, and the client waits to reconnect. *)
SocketCloses(x) ==
  /\ live[x].client \in {"on", "open"}
  /\ live' = [live EXCEPT ![x].client = "waiting"]
  /\ UNCHANGED <<sessions, marks, idle, drops, creds, failures, met>>

Reconnect(x) ==
  /\ live[x].client = "waiting"
  /\ Settled(SubOf(x)) \/ x \in leaving \ hook
  /\ Connecting(x, SubOf(x), dir[SubOf(x)])
  /\ UNCHANGED <<sessions, marks, idle, drops, stored, dead, failures, met>>

QrSpent(x) == live[x].qrs >= MaxQr

(* The socket has no login and shows a QR: onQr(). *)
Qr(x) ==
  /\ live[x].client = "on" /\ live[x].login = Nothing
  /\ live[x].state \notin {"expired", "paired"} /\ Listed(x)
  /\ IF ~QrSpent(x)
     THEN /\ live' = [live EXCEPT ![x].qrs = @ + 1, ![x].state = "qr"]
          /\ UNCHANGED <<sessions, exhausted>>
     ELSE /\ live' = [Closed(x) EXCEPT ![x].qrs = @ + 1]
          /\ sessions' = [sessions EXCEPT ![SubOf(x)] = Nothing]
          /\ exhausted' = exhausted \cup {SubOf(x)}
  /\ UNCHANGED <<expired, cooling, idle, drops, creds, failures, met>>

(* Mutated: `opened` is not looked at. *)
AlwaysMirrors(x) == TRUE

(* Does the credsSaved hook of the entry schedule a write? *)
Mirrors(x) == live[x].opened /\ ~live[x].invalidated

CredsSaved(x) == armed' = IF Mirrors(x) THEN armed \cup {x} ELSE armed

(* The QR is scanned: the new login is saved, and the server asks the      *)
(* client to restart the connection.                                       *)
Scanned(x) ==
  /\ live[x].client = "on" /\ live[x].login = Nothing /\ live[x].state = "qr"
  /\ Settled(SubOf(x))
  /\ live' = [live EXCEPT ![x].client = "waiting", ![x].login = x]
  /\ dir' = [dir EXCEPT ![SubOf(x)] = IF @ = Missing THEN @ ELSE x]
  /\ CredsSaved(x)
  /\ UNCHANGED <<sessions, marks, idle, leaving, hook, stored, dead, failures, met>>

FirstOpen(x) == ~live[x].opened /\ ~live[x].invalidated

(* connection: open.  The first one schedules the first row. *)
Open(x) ==
  /\ live[x].client = "on" /\ live[x].login \in Logins \ dead[SubOf(x)]
  /\ Alone(x)
  /\ live' = [live EXCEPT
                ![x].client = "open",
                ![x].opened = @ \/ FirstOpen(x),
                ![x].state = IF @ = "expired" THEN @ ELSE "paired"]
  /\ armed' = IF FirstOpen(x) THEN armed \cup {x} ELSE armed
  /\ UNCHANGED <<sessions, marks, idle, leaving, hook, creds, failures, met>>

(* A later saveCreds() of an open client, and its hook. *)
Saved(x) ==
  LET s == SubOf(x) IN
  /\ live[x].client = "open" /\ dir[s] # Missing
  /\ dir' = [dir EXCEPT ![s] = live[x].login]
  /\ CredsSaved(x)
  /\ UNCHANGED <<live, sessions, marks, idle, leaving, hook, stored, dead,
                 failures, met>>

(* sessionInvalidatedHook has been called. *)
Hooked(x) == hook \cup {x}

(* The provider ends the login, or refuses one it ended: the directory is  *)
(* wiped, the hook starts with its flush, a reconnect is scheduled.        *)
LoggedOut(x) ==
  LET s == SubOf(x) IN
  /\ live[x].client \in {"on", "open"} /\ live[x].login # Nothing
  /\ dead' = [dead EXCEPT ![s] = @ \cup {live[x].login}]
  /\ dir' = [dir EXCEPT ![s] = Missing]
  /\ hook' = Hooked(x)
  /\ live' = [live EXCEPT ![x].client = "waiting", ![x].invalidated = TRUE]
  /\ UNCHANGED <<sessions, marks, idle, armed, leaving, stored, failures, met>>

-----------------------------------------------------------------------------
(* The write-back reads the auth directory and puts what it holds; without *)
(* a directory, or when the put is refused, nothing is written.            *)
Write(x) ==
  LET s == SubOf(x) IN
  /\ x \in armed
  /\ armed' = armed \ {x}
  /\ \/ /\ dir[s] # Missing
        /\ stored' = [stored EXCEPT ![s] = dir[s]]
        /\ UNCHANGED failures
     \/ /\ dir[s] = Missing
        /\ UNCHANGED <<stored, failures>>
     \/ /\ dir[s] # Missing /\ failures < MaxFailures
        /\ failures' = failures + 1
        /\ UNCHANGED stored
  /\ UNCHANGED <<live, sessions, marks, idle, leaving, hook, dir, dead, met>>

MarkExpired(x) ==
  /\ live' = [Closed(x) EXCEPT ![x].state = "expired"]
  /\ expired' = expired \cup {SubOf(x)}
  /\ sessions' = IF Listed(x) THEN [sessions EXCEPT ![SubOf(x)] = Nothing] ELSE sessions

(* The hook's store.delete() has returned. *)
RowDeleted(x) ==
  /\ x \in hook \ armed
  /\ hook' = hook \ {x}
  /\ stored' = [stored EXCEPT ![SubOf(x)] = Missing]
  /\ MarkExpired(x)
  /\ UNCHANGED <<exhausted, cooling, idle, armed, leaving, dir, dead,
                 failures, met>>

(* It rejects: the entry stays as it is. *)
DeleteFails(x) ==
  /\ x \in hook \ armed /\ failures < MaxFailures
  /\ hook' = hook \ {x} /\ failures' = failures + 1
  /\ UNCHANGED <<live, sessions, marks, idle, armed, leaving, creds, met>>

Flushing(x) == x \in armed

(* drop() of an idle entry by evictIdle(), up to the await of its flush if *)
(* there is a write to make.                                               *)
Evict(x) ==
  /\ Listed(x) /\ x \in idle
  /\ sessions' = [sessions EXCEPT ![SubOf(x)] = Nothing]
  /\ IF Flushing(x)
     THEN leaving' = leaving \cup {x} /\ UNCHANGED live
     ELSE live' = Closed(x) /\ UNCHANGED leaving
  /\ met' = met \cup (IF Flushing(x) THEN {} ELSE Connectings({x}))
  /\ UNCHANGED <<marks, idle, armed, hook, creds, failures>>

(* The flush has returned, and the client is disconnected. *)
Left(x) ==
  /\ x \in leaving \ armed
  /\ leaving' = leaving \ {x} /\ live' = Closed(x)
  /\ met' = met \cup Connectings({x})
  /\ UNCHANGED <<sessions, marks, idle, armed, hook, creds, failures>>

(* me() of a sub with a live entry. *)
Me(s) ==
  /\ sessions[s] # Nothing
  /\ idle' = idle \ {sessions[s]}
  /\ UNCHANGED <<live, sessions, marks, drops, creds, failures, met>>

(* idleMs since the entry was touched. *)
GoIdle(x) ==
  /\ Listed(x) /\ x \notin idle /\ Settled(SubOf(x))
  /\ idle' = idle \cup {x}
  /\ UNCHANGED <<live, sessions, marks, drops, creds, failures, met>>

(* checkStartRate() would let the sub start again. *)
CoolDown(s) ==
  /\ s \in cooling
  /\ \A x \in Entries : SubOf(x) = s => live[x].step = "done" /\ x \notin leaving
  /\ cooling' = cooling \ {s}
  /\ UNCHANGED <<live, sessions, expired, exhausted, idle, drops, creds,
                 failures, met>>

(* A day later evictIdle() forgets the marks of the sub. *)
Prune(s) ==
  /\ s \in expired \cup exhausted /\ s \notin cooling /\ Settled(s)
  /\ expired' = expired \ {s} /\ exhausted' = exhausted \ {s}
  /\ UNCHANGED <<live, sessions, cooling, idle, drops, creds, failures, met>>

PoolNext ==
  \/ \E s \in Subs : \/ StartPaired(s) \/ StartAwaits(s) \/ StartEvicts(s)
                     \/ StartFresh(s) \/ Me(s) \/ CoolDown(s) \/ Prune(s)
  \/ \E x \in Entries :
       \/ Evicted(x) \/ Loaded(x) \/ LoadFails(x)
       \/ SocketMade(x) \/ ConnectFails(x) \/ SocketCloses(x) \/ Reconnect(x)
       \/ Qr(x) \/ Scanned(x) \/ Open(x) \/ Saved(x) \/ LoggedOut(x)
       \/ Write(x) \/ RowDeleted(x) \/ DeleteFails(x)
       \/ Evict(x) \/ Left(x) \/ GoIdle(x)

PoolSpec == PoolInit /\ [][PoolNext]_poolVars

-----------------------------------------------------------------------------
Steps == {"evicting", "loading", "connecting", "done"}
States == {"starting", "qr", "paired", "expired"}
Clients == {"off", "connecting", "on", "open", "waiting"}

EntryType ==
  [sub : Subs, step : Steps, sweep : SUBSET (1..MaxStarts), state : States,
   qrs : 0..(MaxQr + 1), client : Clients, login : {Nothing} \cup Logins,
   opened : BOOLEAN, invalidated : BOOLEAN]

(* Every listed entry is one of the sub it is listed under, and only an    *)
(* entry past its load is listed, armed, leaving or idle.                  *)
PoolTypeOK ==
  /\ live \in Seq(EntryType) /\ Len(live) <= MaxStarts
  /\ sessions \in [Subs -> 0..MaxStarts]
  /\ \A s \in Subs : sessions[s] # Nothing =>
       /\ sessions[s] \in Entries /\ SubOf(sessions[s]) = s
       /\ live[sessions[s]].step \in {"connecting", "done"}
  /\ expired \subseteq Subs /\ exhausted \subseteq Subs /\ cooling \subseteq Subs
  /\ idle \cup armed \cup leaving \cup hook \subseteq Entries
  /\ dir \in [Subs -> Contents] /\ stored \in [Subs -> Contents]
  /\ dead \in [Subs -> SUBSET Logins] /\ failures \in 0..MaxFailures
  /\ met \subseteq Subs

(* A socket, or a client that will make one, is one the pool lists or is   *)
(* about to close: "A socket exists only between a `start` and its         *)
(* eviction" (session-pool.ts:12-13), unless a drop met it in connect(),   *)
(* or a start that waited for evictIdle() replaced it unseen.              *)
NoOrphan ==
  \A x \in Entries :
    live[x].client # "off" =>
      Listed(x) \/ x \in leaving \cup hook \/ SubOf(x) \in met

(* The pool does not call a sub paired whose login the provider has ended, *)
(* except while the row is being deleted, or after a failure: "`loggedOut` *)
(* deletes the row and marks the sub `expired`" (session-pool.ts:15-16).   *)
PairedIsAlive ==
  \A x \in Entries :
    Listed(x) /\ live[x].state = "paired"
      => \/ live[x].login \notin dead[SubOf(x)] \/ x \in hook
         \/ failures > 0 \/ SubOf(x) \in met

(* The row of an ended login does not stay: its delete is under way, if    *)
(* the store has not failed and one client at a time had the directory.    *)
DeadRowGoes ==
  \A s \in Subs :
    stored[s] \in dead[s] =>
      failures > 0 \/ s \in met \/ \E x \in hook : SubOf(x) = s

(* A paired entry has its own login in the row, unless a write is due or   *)
(* has failed, or the login was ended.                                     *)
PairedIsStored ==
  \A x \in Entries :
    Listed(x) /\ live[x].state = "paired" /\ x \notin armed \cup hook
      => \/ stored[SubOf(x)] = live[x].login
         \/ failures > 0 \/ SubOf(x) \in met

(* "The row is written only after the first `connection: open`"            *)
(* (session-pool.ts:14): a login that a write puts in a row has been open. *)
(* (A write may find an emptied directory, and put a row without a login;  *)
(* that of a client a drop left running, the login of the next entry.)     *)
RowAfterOpen ==
  [][\A s \in Subs :
       stored'[s] \in Logins \ {stored[s]} /\ s \notin met
         => \E x \in Entries : live[x].opened /\ live[x].login = stored'[s]]_poolVars

(* "the first row lands right after the first open"                        *)
(* (credential-session.ts:174): the write of an entry whose login lives    *)
(* puts that login in the row, unless the store fails, or a start has      *)
(* emptied the directory since.                                            *)
FirstRowLands ==
  [][\A x \in armed \ armed' :
       live[x].login \notin dead[SubOf(x)] /\ SubOf(x) \notin met
         => stored'[SubOf(x)] = live[x].login \/ failures' > 0]_poolVars

(* A sub whose QR budget was spent has no client, but for one that is      *)
(* being closed, until it is started again.                                *)
ExhaustedIsClosed ==
  \A x \in Entries :
    SubOf(x) \in exhausted \ met =>
      live[x].client = "off" \/ x \in leaving \cup hook

(* The entries, the clients and the rows agree, whatever is opened,        *)
(* dropped, evicted, exhausted or ended in between: no client runs that    *)
(* the pool does not list, no entry says paired of a login that was ended  *)
(* or is not stored, no ended login keeps its row.                         *)
PoolInv ==
  /\ PoolTypeOK /\ NoOrphan /\ PairedIsAlive /\ PairedIsStored
  /\ DeadRowGoes /\ ExhaustedIsClosed

(* A row is put only by a login that has been open, and then it is put.    *)
RowsComeRight == RowAfterOpen /\ FirstRowLands
=============================================================================
