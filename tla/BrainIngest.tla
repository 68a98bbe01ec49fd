------------------------------ MODULE BrainIngest ------------------------------
(***************************************************************************)
(* The jobs that carry the messages of the database to the Brain           *)
(* (mcp-server/src/jobs): brain-ingest, a CronJob that goes on from the    *)
(* cursor of each account, and brain-replay, started by hand over a span   *)
(* of the past with cursors of its own.  Next to them the connectors file  *)
(* rows: created_at is the time of the insert, but a row is seen once its  *)
(* insert has committed, and one without text once it has been given one.  *)
(*                                                                         *)
(* created_at has microseconds, the cursor milliseconds: times are numbers *)
(* of ticks, PerMs of them to the millisecond.  A row is the number that   *)
(* is its id.  The Brain keeps one document per source_id.                 *)
(***************************************************************************)
EXTENDS Integers, FiniteSets, Sequences, SequencesExt, FiniteSetsExt

CONSTANTS
  Rows,        \* ids of the messages that come to have a text
  Stamp,       \* created_at of each row, in ticks
  Account,     \* the namespace of each row
  Platform,    \* the platform of each row
  PerMs,       \* ticks of a millisecond
  Namespaces,  \* ingestNamespaces()
  Batch,       \* BRAIN_INGEST_BATCH
  MaxRows,     \* BRAIN_INGEST_MAX_ROWS, 0 for none
  Backfill,    \* BRAIN_INGEST_BACKFILL
  Since, Until,   \* SINCE, of both jobs, and UNTIL, of a replay
  ReplayOnly,  \* PLATFORM of a replay, "all" without one
  DryRuns,     \* the jobs that may be run with DRY_RUN
  MaxClock,    \* bound: the time
  MaxFaults    \* bound: pushes that fail, jobs that die

Jobs == {"live", "replay"}

ASSUME IngestAssumption ==
  /\ Rows \subseteq Nat \ {0} /\ IsFiniteSet(Rows)
  /\ Stamp \in [Rows -> Nat] /\ PerMs \in Nat \ {0}
  /\ Namespaces \in Seq(ToSet(Namespaces)) /\ IsInjective(Namespaces)
  /\ Account \in [Rows -> ToSet(Namespaces)]
  /\ Batch \in Nat \ {0} /\ MaxRows \in Nat /\ Backfill \in BOOLEAN
  /\ {Since, Until, MaxClock, MaxFaults} \subseteq Nat /\ DryRuns \subseteq Jobs

VARIABLES
  clock,    \* now(), in ticks
  filed,    \* the rows fetchBatch() can see
  cursor,   \* of each job and namespace: the row of its cursor table, or NoCursor
  job,      \* the process of each job
  known,    \* the rows the Brain has a document of
  missed,   \* rows that were filed behind the live cursor, or before its first
  faults    \* bounded

brainVars == <<clock, filed, cursor, job, known, missed, faults>>

NoCursor == <<>>
JobIdle  == [step |-> "idle", dry |-> FALSE, left |-> <<>>, from |-> NoCursor,
             batch |-> {}, todo |-> {}, spent |-> 0]

BrainInit ==
  /\ clock = 0 /\ filed = {} /\ known = {} /\ missed = {} /\ faults = 0
  /\ cursor = [j \in Jobs |-> [n \in ToSet(Namespaces) |-> NoCursor]]
  /\ job = [j \in Jobs |-> JobIdle]

(***************************************************************************)
(* Keys and cursors: (created_at, id), in that order.                      *)
(***************************************************************************)
Key(r) == <<Stamp[r], r>>
Above(k, c) == k[1] > c[1] \/ (k[1] = c[1] /\ k[2] > c[2])

\* toISOString() keeps the milliseconds.
InMs(t) == t - (t % PerMs)

Newest(S) == CHOOSE r \in S : \A q \in S : ~Above(Key(q), Key(r))
CursorAfter(S) == <<InMs(Stamp[Newest(S)]), Newest(S)>>

\* The rows of a namespace a cursor leaves behind.
Behind(r, n, c) == Account[r] = n /\ c # NoCursor /\ ~Above(Key(r), c)

Adapter(r) ==
  IF Platform[r] \in {"telegram", "instagram"} THEN Platform[r] ELSE "whatsapp"

(***************************************************************************)
(* fetchBatch() and the push of what it returns.                           *)
(***************************************************************************)
Namespace(j) == Head(job[j].left)

\* WHERE: of the namespace, after the cursor, and of the span of a replay.
Matching(j) ==
  {r \in filed :
     /\ Account[r] = Namespace(j) /\ Above(Key(r), job[j].from)
     /\ j = "replay" => Stamp[r] < Until /\ ReplayOnly \in {"all", Platform[r]}}

Limit(j) == IF MaxRows = 0 THEN Batch ELSE Min({Batch, MaxRows - job[j].spent})

\* ORDER BY created_at, id LIMIT n.
Oldest(S, n) == {r \in S : Cardinality({q \in S : Above(Key(r), Key(q))}) < n}

Docs(S, a) == {r \in S : Adapter(r) = a}

\* The adapters are served in the order their first rows have in the batch.
NextAdapter(j) ==
  CHOOSE a \in job[j].todo :
    \A b \in job[j].todo \ {a} :
      ~Above(Key(CHOOSE r \in Oldest(Docs(job[j].batch, a), 1) : TRUE),
             Key(CHOOSE r \in Oldest(Docs(job[j].batch, b), 1) : TRUE))

(***************************************************************************)
(* One account of a job after the other.                                   *)
(***************************************************************************)
\* Mutated: the job ends with the first account that is done.
OnToNone(j) == JobIdle

\* The next account, or the end of the process.
OnTo(j) ==
  IF Len(job[j].left) > 1
  THEN [job[j] EXCEPT !.step = "cursor", !.left = Tail(job[j].left),
                      !.batch = {}, !.todo = {}, !.spent = 0, !.from = NoCursor]
  ELSE JobIdle

Becomes(j, p) == job' = [job EXCEPT ![j] = p]

\* main(): "Forbid" and the person who replays start no second one, and without an
\* account there is nothing to do.
Begins(j) ==
  /\ job[j].step = "idle" /\ Namespaces # <<>>
  /\ \E dry \in {FALSE} \cup {i = j : i \in DryRuns} :
       Becomes(j, [JobIdle EXCEPT !.step = "cursor", !.dry = dry, !.left = Namespaces])
  /\ UNCHANGED <<clock, filed, cursor, known, missed, faults>>

\* getLiveCursor() or getReplayCursor() finds one, or the job goes from SINCE.
TakesCursor(j) ==
  LET c == cursor[j][Namespace(j)] IN
  /\ job[j].step = "cursor"
  /\ c # NoCursor \/ j = "replay" \/ Backfill
  /\ Becomes(j, [job[j] EXCEPT !.step = "fetch",
                               !.from = IF c = NoCursor THEN <<Since, 0>> ELSE c])
  /\ UNCHANGED <<clock, filed, cursor, known, missed, faults>>

\* "no cursor — initialized to now(), skipping history"
SkipsHistory ==
  LET n == Namespace("live")
      c == <<InMs(clock), 0>>
  IN
  /\ job["live"].step = "cursor" /\ cursor["live"][n] = NoCursor /\ ~Backfill
  /\ IF job["live"].dry THEN UNCHANGED <<cursor, missed>>
     ELSE /\ cursor' = [cursor EXCEPT !["live"][n] = c]
          /\ missed' = missed \cup {r \in filed : Behind(r, n, c)}
  /\ Becomes("live", OnTo("live"))
  /\ UNCHANGED <<clock, filed, known, faults>>

\* No row is left, or MAX_ROWS have been handled.
Stops(j) ==
  /\ job[j].step = "fetch"
  /\ Limit(j) <= 0 \/ Matching(j) = {}
  /\ Becomes(j, OnTo(j))
  /\ UNCHANGED <<clock, filed, cursor, known, missed, faults>>

Fetches(j) ==
  LET found == Oldest(Matching(j), Limit(j)) IN
  /\ job[j].step = "fetch" /\ Limit(j) > 0 /\ Matching(j) # {}
  /\ Becomes(j, [job[j] EXCEPT
       !.step = "push", !.batch = found,
       !.todo = IF job[j].dry THEN {} ELSE {Adapter(r) : r \in found}])
  /\ UNCHANGED <<clock, filed, cursor, known, missed, faults>>

Pushes(j) ==
  /\ job[j].step = "push" /\ job[j].todo # {}
  /\ known' = known \cup Docs(job[j].batch, NextAdapter(j))
  /\ Becomes(j, [job[j] EXCEPT !.todo = @ \ {NextAdapter(j)}])
  /\ UNCHANGED <<clock, filed, cursor, missed, faults>>

\* Mutated: a push that fails does not stop the batch.
PushFailsUnheard(j) ==
  /\ job[j].step = "push" /\ job[j].todo # {} /\ faults < MaxFaults
  /\ Becomes(j, [job[j] EXCEPT !.todo = @ \ {NextAdapter(j)}]) /\ faults' = faults + 1
  /\ UNCHANGED <<clock, filed, cursor, known, missed>>

\* pushToBrain() throws, whatever the Brain made of the documents: exit 1.
PushFails(j) ==
  /\ job[j].step = "push" /\ job[j].todo # {} /\ faults < MaxFaults
  /\ \E got \in {{}, Docs(job[j].batch, NextAdapter(j))} : known' = known \cup got
  /\ Becomes(j, JobIdle) /\ faults' = faults + 1
  /\ UNCHANGED <<clock, filed, cursor, missed>>

\* The whole batch is pushed: setLiveCursor() or setReplayCursor(), and on.
Saves(j) ==
  LET c == CursorAfter(job[j].batch) IN
  /\ job[j].step = "push" /\ job[j].todo = {}
  /\ cursor' = IF job[j].dry THEN cursor
               ELSE [cursor EXCEPT ![j][Namespace(j)] = c]
  /\ Becomes(j, IF Cardinality(job[j].batch) < Limit(j) THEN OnTo(j)
                ELSE [job[j] EXCEPT !.step = "fetch", !.from = c, !.batch = {},
                                    !.spent = @ + Cardinality(job[j].batch)])
  /\ UNCHANGED <<clock, filed, known, missed, faults>>

\* activeDeadlineSeconds, or the pod is lost.
JobDies(j) ==
  /\ job[j].step # "idle" /\ faults < MaxFaults
  /\ Becomes(j, JobIdle) /\ faults' = faults + 1
  /\ UNCHANGED <<clock, filed, cursor, known, missed>>

(***************************************************************************)
(* The connectors.                                                         *)
(***************************************************************************)
TimePasses ==
  /\ clock < MaxClock /\ clock' = clock + 1
  /\ UNCHANGED <<filed, cursor, job, known, missed, faults>>

\* A row is seen: its insert commits, or a transcription gives it a text.
Files(r) ==
  LET n == Account[r]
      inHand == job["live"].batch
  IN
  /\ r \notin filed /\ Stamp[r] <= clock
  /\ filed' = filed \cup {r}
  /\ missed' = missed \cup {q \in {r} :
       \/ Behind(q, n, cursor["live"][n])
       \/ inHand # {} /\ Namespace("live") = n /\ Behind(q, n, CursorAfter(inHand))}
  /\ UNCHANGED <<clock, cursor, job, known, faults>>

-----------------------------------------------------------------------------
JobSteps(j) ==
  \/ Begins(j) \/ TakesCursor(j) \/ Stops(j) \/ Fetches(j)
  \/ Pushes(j) \/ Saves(j)

IngestAccount == JobSteps("live") \/ SkipsHistory

ReplayAccount == JobSteps("replay")

BrainNext ==
  \/ IngestAccount \/ ReplayAccount
  \/ \E j \in Jobs : PushFails(j) \/ JobDies(j)
  \/ TimePasses \/ \E r \in Rows : Files(r)

\* The schedule starts brain-ingest again and again, and it runs.
BrainFairness == WF_brainVars(IngestAccount)

BrainSpec == BrainInit /\ [][BrainNext]_brainVars /\ BrainFairness

-----------------------------------------------------------------------------
(* Every variable has its type; a batch in hand is of rows that are filed,  *)
(* and what is left to push of it is of adapters it has.                    *)
BrainTypeOK ==
  /\ clock \in 0 .. MaxClock /\ faults \in 0 .. MaxFaults
  /\ filed \subseteq Rows /\ known \subseteq filed /\ missed \subseteq filed
  /\ \A j \in Jobs :
       /\ job[j].step \in {"idle", "cursor", "fetch", "push"}
       /\ job[j].step = "idle" <=> job[j].left = <<>>
       /\ job[j].batch \subseteq filed
       /\ job[j].batch # {} <=> job[j].step = "push"
       /\ job[j].todo \subseteq {Adapter(r) : r \in job[j].batch}

(* The live cursor passes no row since SINCE that the Brain has not been    *)
(* given, unless the row was filed behind it: not when the push of one      *)
(* adapter fails after another's, not when the job dies between a push and  *)
(* the cursor, and not by a replay that runs at the same time.              *)
CursorCovers ==
  \A r \in filed \ missed :
    Stamp[r] >= Since /\ Behind(r, Account[r], cursor["live"][Account[r]]) => r \in known

(* "Skipping passes loses no data: the ingest is incremental (keyset cursor *)
(* in brain_ingest_cursor) and idempotent" (k8s/base/manifest.yaml:211-212, *)
(* in Spanish): each row filed ahead of the cursor reaches the Brain.       *)
EveryRowGoes == \A r \in Rows : r \in filed ~> r \in known \cup missed

(* Types, and the cursor covers. *)
BrainInv == BrainTypeOK /\ CursorCovers
================================================================================
