---------------------------- MODULE UnreadDigest ----------------------------
(***************************************************************************)
(* The unread digest (mcp-server/src/application/unread-digest.service.ts):  *)
(* social_start_digest stores the queue of unread chats, and each call reads *)
(* the row, summarises the next batch with the language model, for up to a   *)
(* minute or two, and writes the checkpoint back.  Nothing keeps two calls   *)
(* of one digest apart, a call may fail or die at any point, and the row is  *)
(* all that survives.                                                        *)
(***************************************************************************)
EXTENDS Naturals, Sequences

CONSTANTS
    Calls,      \* calls that may be under way at one time
    MaxChats,   \* the cap on the queue
    MaxBatch,   \* the largest batch (10 in the code)
    MaxFailures \* bound: queries of the row that fail, calls that die

ASSUME BoundsAreNatural == MaxChats \in Nat /\ MaxBatch \in Nat \ {0} /\ MaxFailures \in Nat

Platforms == {"whatsapp", "telegram"}

VARIABLES
    row,        \* the digest's row; `exists` is FALSE before the start
    call,       \* call -> what it has in hand
    failures
vars == <<row, call, failures>>

NoCall == [at |-> "none"]
NoRow == [exists |-> FALSE, total |-> 0, next |-> 0, size |-> 1, partials |-> <<>>,
          status |-> "in_progress", warnings |-> {}]

Init == row = NoRow /\ call = [c \in Calls |-> NoCall] /\ failures = 0

-----------------------------------------------------------------------------
(* Collecting the chats *)

NothingUnread == <<"queue", "empty">>
Unreadable(chats) == {<<"chat", i>> : i \in chats}
Smaller(a, b) == IF a < b THEN a ELSE b

\* A platform either fails, which is a warning, or lists its unread chats; the
\* queue is capped, and an empty one with nothing failed is a warning too.
Collected(unread, failed) ==
    LET Listed(p) == IF p \in failed THEN 0 ELSE unread[p]
        total     == Listed("whatsapp") + Listed("telegram")
    IN [NoRow EXCEPT !.exists = TRUE,
                     !.total = Smaller(total, MaxChats),
                     !.warnings = IF total = 0 /\ failed = {} THEN {NothingUnread}
                                  ELSE {<<"platform", p>> : p \in failed}]

\* start(): the insert, and the first batch after it.
Start ==
    /\ ~row.exists
    /\ \E unread \in [Platforms -> 0..MaxChats], failed \in SUBSET Platforms,
          size \in 1..MaxBatch :
         row' = [Collected(unread, failed) EXCEPT !.size = size]
    /\ \E c \in Calls : call' = [call EXCEPT ![c] = [at |-> "load"]]
    /\ UNCHANGED failures

\* continue(): the batch's size is updated while the digest is in progress.
Continue(c) ==
    /\ row.exists /\ call[c].at = "none"
    /\ \E size \in 1..MaxBatch :
         row' = [row EXCEPT !.size = IF row.status = "in_progress" THEN size ELSE @]
    /\ call' = [call EXCEPT ![c] = [at |-> "load"]]
    /\ UNCHANGED failures

\* A completed digest is only answered; one with nothing left is completed.
Load(c) ==
    /\ call[c].at = "load"
    /\ call' = [call EXCEPT ![c] = IF row.status = "completed" THEN NoCall
                                   ELSE [at |-> "work", seen |-> row]]
    /\ UNCHANGED <<row, failures>>

ToIndex(seen) == Smaller(seen.total, seen.next + seen.size)

\* A chat that cannot be read is in its batch with a warning.
Batch(seen, unreadable) ==
    [from |-> seen.next, to |-> ToIndex(seen), unreadable |-> unreadable]

\* What processNext() makes of the row it read.
Processed(seen, unreadable) ==
    LET batch == Batch(seen, unreadable)
    IN [seen EXCEPT !.next = batch.to, !.partials = Append(@, batch),
                    !.status = IF batch.to >= seen.total THEN "completed" ELSE "in_progress",
                    !.warnings = @ \cup Unreadable(unreadable)]

(* Mutated: a digest with nothing left is written back as it was read. *)
CompletedOpen(seen) == [seen EXCEPT !.next = seen.total]

Completed(seen) == [seen EXCEPT !.next = seen.total, !.status = "completed"]

\* The model answers, or times out and a list of the chats stands for its
\* summary: either way the call goes on.
Summarise(c) ==
    /\ call[c].at = "work"
    /\ LET seen == call[c].seen
       IN IF seen.next >= seen.total
          THEN call' = [call EXCEPT ![c] = [at |-> "write", made |-> Completed(seen)]]
          ELSE \E unreadable \in SUBSET (seen.next..ToIndex(seen) - 1) :
                 call' = [call EXCEPT ![c] = [at |-> "write", made |-> Processed(seen, unreadable)]]
    /\ UNCHANGED <<row, failures>>

(* Mutated: a checkpoint behind the row's is thrown away, its batch is not. *)
WrittenPartly(made) ==
    [made EXCEPT !.size = row.size,
                 !.next = IF made.next > row.next THEN made.next ELSE row.next]

\* The update has no guard: it puts the checkpoint of the row it read over
\* whatever is there.  The batch's size and the queue are left alone.
Written(made) == [made EXCEPT !.size = row.size]

Update(c) ==
    /\ call[c].at = "write"
    /\ row' = Written(call[c].made)
    /\ call' = [call EXCEPT ![c] = NoCall]
    /\ UNCHANGED failures

\* A query fails, or the server dies, under the call.
CallFails(c) ==
    /\ call[c].at # "none"
    /\ failures < MaxFailures
    /\ failures' = failures + 1
    /\ call' = [call EXCEPT ![c] = NoCall]
    /\ UNCHANGED row

Next ==
    \/ Start
    \/ \E c \in Calls : Continue(c) \/ Load(c) \/ Summarise(c) \/ Update(c) \/ CallFails(c)

Spec == Init /\ [][Next]_vars

\* The queries and the model answer or time out, and the callers do what
\* `continueTool` tells them while the digest is in progress.
Fairness ==
    \A c \in Calls : /\ WF_vars(Load(c) \/ Summarise(c) \/ Update(c))
                     /\ WF_vars(Continue(c) /\ row.status = "in_progress")

FairSpec == Spec /\ Fairness
-----------------------------------------------------------------------------
(* What may not go wrong *)

\* Every variable has its type: what a call has in hand is a row that was read, and
\* one to be written.
Batches == [from : 0..MaxChats, to : 0..MaxChats, unreadable : SUBSET (0..MaxChats - 1)]

IsRow(r) ==
    /\ DOMAIN r = DOMAIN NoRow
    /\ r.exists \in BOOLEAN /\ r.total \in 0..MaxChats /\ r.next \in 0..MaxChats
    /\ r.size \in 1..MaxBatch /\ r.partials \in Seq(Batches)
    /\ r.status \in {"in_progress", "completed"}

DigestTypeOK ==
    /\ IsRow(row) /\ failures \in 0..MaxFailures /\ DOMAIN call = Calls
    /\ \A c \in Calls :
         /\ call[c].at \in {"none", "load", "work", "write"}
         /\ call[c].at = "work" => IsRow(call[c].seen) /\ call[c].seen.status = "in_progress"
         /\ call[c].at = "write" => IsRow(call[c].made)

\* Whatever calls overlap, the batches in the row follow one another from the
\* first chat to the checkpoint, each chat in one of them, none left out; and a
\* completed digest has them all.
PartialsCover ==
    LET n == Len(row.partials)
    IN /\ row.next = (IF n = 0 THEN 0 ELSE row.partials[n].to)
       /\ row.next <= row.total
       /\ \A i \in 1..n :
            /\ row.partials[i].from = (IF i = 1 THEN 0 ELSE row.partials[i - 1].to)
            /\ row.partials[i].from < row.partials[i].to
       /\ row.status = "completed" => row.next = row.total

\* A chat that could not be read has its warning for as long as its batch is in
\* the row, and a digest of no chats says why.
FailuresAreWarned ==
    /\ \A i \in 1..Len(row.partials) : Unreadable(row.partials[i].unreadable) \subseteq row.warnings
    /\ row.exists /\ row.total = 0 => row.warnings # {}

\* Calls that overlap may set the checkpoint back, even that of a completed
\* digest, but not for ever: callers who go on while it is in progress end with
\* it completed for good.
Completes == row.exists ~> [](row.status = "completed")

\* Types; the row of a digest holds every chat handled once, or its warning.
DigestInv == DigestTypeOK /\ PartialsCover /\ FailuresAreWarned
=============================================================================
