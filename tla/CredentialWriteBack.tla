------------------------- MODULE CredentialWriteBack -------------------------
(***************************************************************************)
(* createCredentialWriteBack() of shared/src/session-store/                *)
(* credential-write-back.ts: the debounced mirror of a live messaging      *)
(* session into its row of user_channel_credentials.                       *)
(*                                                                         *)
(* A session and a row are abstracted to the version of the session: the   *)
(* number of the persist event that produced it, 0 where there is none.    *)
(* One action is one stretch of JavaScript between two awaits.             *)
(***************************************************************************)
EXTENDS Integers

CONSTANTS MaxPersists,   \* bound: versions of the session
          MaxFailures    \* bound: failed exports, puts and deletes

ASSUME WriteBackAssumption == MaxPersists \in Nat \ {0} /\ MaxFailures \in Nat

VARIABLES
  session,     \* version of the live session
  latest,      \* newest version there has been
  row,         \* version in the store
  timer, due,  \* the debounce timer is armed; `due`
  pending,     \* a run was asked for while one was in flight
  exporting,   \* the run in flight awaits getPayload() ...
  puts,        \* ... or its store.put(): the versions on their way
  asked,       \* version of the session at the last schedule()
  promised,    \* what the waiting flush() calls may count on, 0 if nothing
  failed,      \* the last run failed
  cancelled,   \* cancel() dropped the last request
  failures

handle  == <<timer, due, pending, exporting, puts, promised>>
history == <<asked, failed, cancelled, failures>>
vars == <<session, latest, row, timer, due, pending, exporting, puts, asked,
          promised, failed, cancelled, failures>>

-----------------------------------------------------------------------------
(* schedule(): the debounce timer is armed, again if it was already. *)
Schedule(version) ==
  /\ timer' = TRUE /\ due' = TRUE
  /\ asked' = version /\ cancelled' = FALSE

(* `inFlight` is set. *)
InFlight == exporting \/ puts # {}

(* Mutated run(): a request made while a run is in flight is forgotten, ... *)
RunOnce ==
  /\ exporting' = (exporting \/ ~InFlight)
  /\ UNCHANGED pending

(* ... or starts a second run. *)
RunUnguarded ==
  /\ exporting' = TRUE
  /\ UNCHANGED pending

(* run(): one export and put at a time, and a trailing one if asked for.   *)
Run ==
  /\ exporting' = (exporting \/ ~InFlight)
  /\ pending' = (pending \/ InFlight)

(* The finally block of a run: the trailing run starts inside the promise  *)
(* every waiting flush() holds, or the promise resolves.                   *)
Settle ==
  /\ exporting' = pending
  /\ pending' = FALSE
  /\ promised' = IF pending THEN promised ELSE 0

(* flush(): what is due, in flight or pending lands before it returns.     *)
FlushRuns == due \/ InFlight \/ pending

Flush ==
  /\ timer' = FALSE
  /\ IF FlushRuns
     THEN due' = FALSE /\ promised' = asked /\ Run
     ELSE UNCHANGED <<due, promised, pending, exporting>>

(* cancel(): the run in flight goes on; a flush() that waits for the        *)
(* trailing run returns without it.                                        *)
Cancel ==
  /\ timer' = FALSE /\ due' = FALSE /\ pending' = FALSE
  /\ promised' = IF pending THEN 0 ELSE promised
  /\ cancelled' = (cancelled \/ due \/ pending)

-----------------------------------------------------------------------------
(* The handle in use: its caller persists, flushes and cancels at any time. *)
Init ==
  /\ session \in {0, 1} /\ row \in {0, session} /\ latest = session
  /\ timer = FALSE /\ due = FALSE /\ pending = FALSE
  /\ exporting = FALSE /\ puts = {}
  /\ asked = 0 /\ promised = 0 /\ failed = FALSE /\ cancelled = FALSE
  /\ failures = 0

(* The library persisted the session, and its hook calls schedule(). *)
Persisted ==
  /\ latest < MaxPersists
  /\ latest' = latest + 1
  /\ session' = latest + 1
  /\ Schedule(latest + 1)
  /\ UNCHANGED <<row, pending, exporting, puts, promised, failed, failures>>

TimerFires ==
  /\ timer
  /\ timer' = FALSE /\ due' = FALSE
  /\ Run
  /\ UNCHANGED <<session, latest, row, puts, promised, history>>

(* getPayload() returns a snapshot of the session as it now is.            *)
Export ==
  /\ exporting /\ session # 0
  /\ exporting' = FALSE
  /\ puts' = puts \cup {session}
  /\ UNCHANGED <<session, latest, row, timer, due, pending, promised, history>>

ExportFails ==
  /\ exporting
  /\ IF session = 0
     THEN UNCHANGED failures
     ELSE failures < MaxFailures /\ failures' = failures + 1
  /\ failed' = TRUE
  /\ Settle
  /\ UNCHANGED <<session, latest, row, timer, due, puts, asked, cancelled>>

(* store.put() upserts the row and returns. *)
Put ==
  /\ \E version \in puts : row' = version /\ puts' = puts \ {version}
  /\ failed' = FALSE
  /\ Settle
  /\ UNCHANGED <<session, latest, timer, due, asked, cancelled, failures>>

(* A put may have reached the row before it failed.  The error of a run is *)
(* logged, and nothing is retried.                                         *)
PutFails ==
  /\ failures < MaxFailures /\ failures' = failures + 1
  /\ \E version \in puts : row' \in {row, version} /\ puts' = puts \ {version}
  /\ failed' = TRUE
  /\ Settle
  /\ UNCHANGED <<session, latest, timer, due, asked, cancelled>>

FlushCalled ==
  /\ Flush
  /\ UNCHANGED <<session, latest, row, puts, history>>

CancelCalled ==
  /\ Cancel
  /\ UNCHANGED <<session, latest, row, exporting, puts, asked, failed,
                 failures>>

Next ==
  \/ Persisted \/ TimerFires \/ Export \/ ExportFails \/ Put \/ PutFails
  \/ FlushCalled \/ CancelCalled

Spec == Init /\ [][Next]_vars

(* Timers fire, and an export and a query return or throw. *)
FairSpec ==
  Spec /\ WF_vars(TimerFires) /\ WF_vars(Export \/ ExportFails)
       /\ WF_vars(Put \/ PutFails)

-----------------------------------------------------------------------------
(* Every variable has its type. *)
TypeOK ==
  /\ latest \in 0 .. MaxPersists
  /\ session \in 0 .. latest /\ row \in 0 .. latest /\ puts \subseteq 0 .. latest
  /\ asked \in 0 .. latest /\ promised \in 0 .. latest
  /\ timer \in BOOLEAN /\ due \in BOOLEAN /\ pending \in BOOLEAN
  /\ exporting \in BOOLEAN /\ failed \in BOOLEAN /\ cancelled \in BOOLEAN
  /\ failures \in 0 .. MaxFailures

(* A version a run now in flight, or one that will follow it, is to store. *)
Coming ==
  due \/ pending \/ exporting \/ \E version \in puts : version >= asked

(* "A trailing run guarantees the LAST persist always reaches the store":  *)
(* as long as the row lacks the last version asked for, a run that exports *)
(* after the request is due or in flight; only a failed run or cancel()    *)
(* ends without one.                                                       *)
NothingForgotten == row < asked => Coming \/ failed \/ cancelled

(* flush() returns when the row holds what had been asked for when it was  *)
(* called, over any number of persists and trailing runs in between.       *)
FlushCovers ==
  [][promised # 0 /\ promised' = 0
       => row' >= promised \/ failed' \/ cancelled']_vars

(* "The in-flight guard keeps puts ordered": a put in flight never carries *)
(* an older version than the row, whatever failed before.                  *)
PutsInOrder == \A version \in puts : row <= version

(* The strengthenings that make them inductive. *)

(* The guard: one run at a time, and a trailing run only behind one. *)
GuardInv ==
  /\ exporting => puts = {}
  /\ \A v, w \in puts : v = w
  /\ pending => InFlight
  /\ due = timer

VersionInv ==
  /\ row <= session /\ asked <= session
  /\ \A version \in puts : version <= session

(* A put of an older version has a request behind it. *)
RequestInv ==
  \A version \in puts : version >= asked \/ due \/ pending \/ cancelled

(* What a waiting flush() was promised is in a run in flight or behind it. *)
PromiseInv ==
  promised # 0 =>
    /\ promised <= asked
    /\ pending \/ exporting \/ \E version \in puts : version >= promised

(* The row follows the session as the abstract mirror does. *)
Mirror == INSTANCE CredentialMirror WITH session <- session, row <- row
MirrorSpec == Mirror!Spec

(* Types, and the last persist asked for is never forgotten: however the   *)
(* timer, the runs and the flushes meet, a write that carries it is due.   *)
WriteBackInv == TypeOK /\ NothingForgotten
=============================================================================
