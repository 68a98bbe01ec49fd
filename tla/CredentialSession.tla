-------------------------- MODULE CredentialSession --------------------------
(***************************************************************************)
(* How the connectors tie a messaging login to its stored row: the         *)
(* write-back mirrors the session, the hook of an invalidated session      *)
(* deletes the row, and a start loads it.  Three wirings of the same       *)
(* handle:                                                                 *)
(*   "perSub"    attachCredentialSession(), default options, of            *)
(*               connectors/whatsapp-web/src/credential-session.ts         *)
(*   "pairing"   the same with writeAfterFirstOpen (the pairing pool)      *)
(*   "telegram"  main() of connectors/telegram/src/main.ts                 *)
(*                                                                         *)
(* Versions number the persists of all logins in turn; `dead` is the       *)
(* newest version of a login the provider has ended, so version v belongs  *)
(* to a dead login iff v <= dead.                                          *)
(***************************************************************************)
EXTENDS CredentialWriteBack

CONSTANTS Wirings,       \* the wirings looked at
          MaxRestarts    \* bound: restarts of the process

ASSUME SessionAssumption ==
  Wirings \subseteq {"perSub", "pairing", "telegram"} /\ MaxRestarts \in Nat

VARIABLES
  wiring,        \* "perSub", "pairing" or "telegram", for good
  opened,        \* the client has connected since the start
  invalidated,   \* the flag of the same name ("pairing")
  hook,          \* sessionInvalidatedHook: "none", "flushing", "deleting"
  wiping,        \* the auth directory of a logged-out login is being removed
  dead,          \* newest version of an ended login
  deleted,       \* the value of `dead` when the row was last deleted
  restarts

life == <<opened, invalidated, hook, wiping, dead, deleted, restarts>>
sessionVars == <<vars, life, wiring>>

Alive(version) == version > dead

-----------------------------------------------------------------------------
(* A first start: nothing stored, or the row of an earlier run loaded.     *)
SessionInit ==
  /\ wiring \in Wirings
  /\ Init /\ row = session
  /\ opened = FALSE /\ invalidated = FALSE
  /\ hook = "none" /\ wiping = FALSE
  /\ dead = 0 /\ deleted = 0 /\ restarts = 0

(* markExpired(): the pool has closed the client of an ended login.        *)
Closed == wiring = "pairing" /\ invalidated /\ deleted = dead

(* Is a persist of the session mirrored? *)
Mirrored == wiring = "pairing" => opened /\ ~invalidated

(* saveCreds(), or a persist of the mtcute storage, and its hook.  Where   *)
(* there is no session this is the first of a new login.                   *)
CredsSaved ==
  /\ latest < MaxPersists
  /\ Alive(session) \/ (session = 0 /\ ~Closed)
  /\ wiring = "telegram" => Alive(session)
  /\ ~wiping
  /\ latest' = latest + 1
  /\ session' = latest + 1
  /\ IF Mirrored
     THEN Schedule(latest + 1)
     ELSE UNCHANGED <<timer, due, asked, cancelled>>
  /\ UNCHANGED <<row, pending, exporting, puts, promised, failed, failures,
                 life>>

(* The client connects.  The pool's first row is scheduled now, and        *)
(* telegram's main() flushes.                                              *)
Connected ==
  /\ ~opened /\ Alive(session)
  /\ hook = "none" /\ ~invalidated
  /\ opened' = TRUE
  /\ \/ /\ wiring = "pairing"
        /\ Schedule(session)
        /\ UNCHANGED <<pending, exporting, promised>>
     \/ /\ wiring = "telegram"
        /\ Flush
        /\ UNCHANGED <<asked, cancelled>>
     \/ /\ wiring = "perSub"
        /\ UNCHANGED <<timer, due, asked, cancelled, pending, exporting,
                       promised>>
  /\ UNCHANGED <<session, latest, row, puts, failed, failures, invalidated,
                 hook, wiping, dead, deleted, restarts>>

(* Mutated: a login that was refused before it opened keeps its row. *)
PairingHookOpened ==
  /\ invalidated' = TRUE /\ hook' = IF opened THEN "flushing" ELSE "none"
  /\ Flush /\ UNCHANGED cancelled

(* The hook of the pairing pool: no put can be scheduled from now on, and  *)
(* what is scheduled or in flight lands before the delete.                 *)
PairingHook ==
  /\ invalidated' = TRUE /\ hook' = "flushing"
  /\ Flush /\ UNCHANGED cancelled

InvalidatedHook ==
  \/ wiring = "pairing" /\ PairingHook
  \/ /\ wiring = "perSub"
     /\ hook' = "deleting"
     /\ UNCHANGED <<invalidated, timer, due, pending, exporting, promised,
                    cancelled>>
  \/ /\ wiring = "telegram"
     /\ hook' = "deleting"
     /\ Cancel /\ UNCHANGED <<invalidated, exporting>>

(* The provider ends the login, or still refuses one it ended before:      *)
(* baileys closes with loggedOut, mtcute's start() rejects.                *)
LoggedOut ==
  /\ session # 0 /\ hook = "none" /\ ~wiping
  /\ wiring = "telegram" => ~opened
  /\ dead' = IF Alive(session) THEN latest ELSE dead
  /\ wiping' = (wiring # "telegram")
  /\ InvalidatedHook
  /\ UNCHANGED <<session, latest, row, puts, asked, failed, failures, opened,
                 deleted, restarts>>

(* The rm of the auth directory ends. *)
Wiped ==
  /\ wiping
  /\ wiping' = FALSE /\ session' = 0
  /\ UNCHANGED <<latest, row, handle, history, opened, invalidated, hook, dead,
                 deleted, restarts>>

(* Mutated: the flush is not awaited. *)
FlushNotAwaited ==
  /\ hook = "flushing"
  /\ hook' = "deleting"
  /\ UNCHANGED <<vars, opened, invalidated, wiping, dead, deleted, restarts>>

(* The flush of PairingHook has returned. *)
FlushReturned ==
  /\ hook = "flushing" /\ ~InFlight /\ ~pending
  /\ hook' = "deleting"
  /\ UNCHANGED <<vars, opened, invalidated, wiping, dead, deleted, restarts>>

(* store.delete() returns; in the pool onInvalidated() follows. *)
Delete ==
  /\ hook = "deleting"
  /\ row' = 0
  /\ deleted' = dead
  /\ hook' = "none"
  /\ UNCHANGED <<session, latest, handle, history, opened, invalidated, wiping,
                 dead, restarts>>

(* The query throws: the hook's rejection is logged. *)
DeleteFails ==
  /\ hook = "deleting"
  /\ failures < MaxFailures /\ failures' = failures + 1
  /\ hook' = "none"
  /\ UNCHANGED <<session, latest, row, handle, asked, failed, cancelled, opened,
                 invalidated, wiping, dead, deleted, restarts>>

(* The process dies at any moment, or exits after telegram's start() was   *)
(* refused; a put it had sent may still reach the row.  The next start     *)
(* loads the row over the auth directory, which only the pool empties      *)
(* first.                                                                  *)
Restart ==
  /\ restarts < MaxRestarts
  /\ restarts' = restarts + 1
  /\ row' \in {row} \cup puts
  /\ session' = IF row' # 0 THEN row' ELSE IF wiring = "perSub" THEN session ELSE 0
  /\ wiring = "telegram" => row' # 0
  /\ timer' = FALSE /\ due' = FALSE /\ pending' = FALSE
  /\ exporting' = FALSE /\ puts' = {} /\ promised' = 0
  /\ asked' = 0 /\ failed' = FALSE /\ cancelled' = FALSE
  /\ opened' = FALSE /\ invalidated' = FALSE
  /\ hook' = "none" /\ wiping' = FALSE
  /\ UNCHANGED <<latest, failures, dead, deleted>>

WriteBackSteps ==
  /\ TimerFires \/ Export \/ ExportFails \/ Put \/ PutFails
  /\ UNCHANGED life

SessionNext ==
  /\ wiring' = wiring
  /\ \/ CredsSaved \/ Connected \/ LoggedOut \/ Wiped
     \/ FlushReturned \/ Delete \/ DeleteFails \/ Restart
     \/ WriteBackSteps

SessionSpec == SessionInit /\ [][SessionNext]_sessionVars

(* An action, whose wiring stays. *)
Kept(A) == A /\ wiring' = wiring

(* Timers fire, queries and the rm return, and a login the provider has    *)
(* ended is refused each time it is presented.                             *)
SessionFairness ==
  /\ WF_sessionVars(Kept(WriteBackSteps))
  /\ WF_sessionVars(Kept(Wiped)) /\ WF_sessionVars(Kept(FlushReturned))
  /\ WF_sessionVars(Kept(Delete \/ DeleteFails))
  /\ WF_sessionVars(Kept(LoggedOut /\ ~Alive(session)))

-----------------------------------------------------------------------------
(* Every variable has its type. *)
SessionTypeOK ==
  /\ TypeOK /\ wiring \in Wirings
  /\ opened \in BOOLEAN /\ invalidated \in BOOLEAN /\ wiping \in BOOLEAN
  /\ hook \in {"none", "flushing", "deleting"}
  /\ dead \in 0 .. latest /\ deleted \in 0 .. dead
  /\ restarts \in 0 .. MaxRestarts

(* "Let an in-flight put land first so it cannot resurrect the row after   *)
(* the delete" (credential-session.ts:181-182): once the pool's hook has   *)
(* deleted the row of a dead login, no version of it is stored again.      *)
NoDeadRow == row = 0 \/ row > deleted
NeverResurrected == wiring = "pairing" => NoDeadRow

(* What the live login asked to have stored is stored, or a run that will  *)
(* store it is due, over invalidations and restarts.  (With "perSub" the   *)
(* delete of the last login's row may take the new login's with it.)       *)
AliveNotForgotten == wiring # "perSub" /\ Alive(asked) => NothingForgotten

(* "`loggedOut` deletes the row" (session-pool.ts:15): in the pairing pool *)
(* the row of a login the provider has ended goes, also when the process   *)
(* died before its delete and a start loads it, unless a query failed.     *)
DeadRow == row # 0 /\ ~Alive(row)

EndedRowGoes == wiring = "pairing" => (DeadRow ~> ~DeadRow \/ failures > 0)

(* Types; the row of a dead login stays deleted, and the login that lives  *)
(* is not forgotten.                                                       *)
SessionInv == SessionTypeOK /\ NeverResurrected /\ AliveNotForgotten
=============================================================================
