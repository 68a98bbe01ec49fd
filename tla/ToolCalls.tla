----------------------------- MODULE ToolCalls -----------------------------
(***************************************************************************)
(* The calls of the social tools that change something, as                  *)
(* mcp-server/src/mcp/server.ts runs them (executeCanonicalTool): the       *)
(* ledger of idempotency keys in Redis, the sub-operations of a             *)
(* social_send_message, and the life of a draft (approve, send with the     *)
(* token, mark as sent).  Several calls run at once, the connector may      *)
(* accept a post and its answer be lost, Redis or the database may fail,    *)
(* and the server may die at any point; the ledger and the drafts survive.  *)
(*                                                                          *)
(* The model holds one WhatsApp account and one draft.  Binding, validation *)
(* and routing come before (module ToolRouting).                            *)
(***************************************************************************)
EXTENDS Naturals, FiniteSets

CONSTANTS
    Calls,          \* the calls made, each at most once
    Keys,           \* idempotency keys the callers use
    None,           \* no key; no entry in the ledger; no answer
    MaxFailures,    \* bound: failures of Redis and of the database
    MaxDeaths,      \* bound: deaths of the server
    MaxExpiries     \* bound: keys that outlive their 24 hours

VARIABLES
    ledger,     \* slot -> its entry in Redis
    epoch,      \* slot -> how many entries have expired
    call,       \* call -> where it stands
    draft,      \* the draft's row: its status, and the tokens issued for it
    posted,     \* posts of the draft the connector has accepted
    failures, deaths
vars == <<ledger, epoch, call, draft, posted, failures, deaths>>

Tools == {"sendMessage", "approveDraft", "sendDraft"}

\* A message has one part (its text) or two (an attachment after it); two
\* payloads under one key differ in that.  The draft tools name the draft.
Requests ==
    [tool : {"sendMessage"}, key : Keys \cup {None}, parts : 1..2]
      \cup [tool : {"approveDraft", "sendDraft"}, key : Keys \cup {None}, parts : {1}]

\* The storage key hashes the tool's name, channel, account and key.
Slots == Tools \X Keys
Slot(c) == <<call[c].req.tool, call[c].req.key>>

Errors == {"provider_error", "outcome_unknown", "invalid_request"}
Answers == {"ok", "conflict"} \cup Errors

\* What Redis holds under a key: the payload, whose call it is, its response.
Entries == [parts : 1..2, owner : Calls, response : Answers \cup {None}]

ASSUME ToolBounds == {MaxFailures, MaxDeaths, MaxExpiries} \subseteq Nat
ASSUME NoneIsNothing == None \notin Keys \cup Requests \cup Answers \cup Entries

NotMade == [at |-> "notMade", req |-> None, epoch |-> 0, accepted |-> 0,
            acked |-> 0, response |-> None, answer |-> None]

(***************************************************************************)
(* Steps of a call.  `accepted` counts the parts the connector took,        *)
(* `acked` those whose acceptance the server has seen.                      *)
(***************************************************************************)
Executing == {"run", "wait", "update", "mark", "store"}
Running(c) == call[c].at \notin {"notMade", "done", "dead"}
Goes(c, to) == call' = [call EXCEPT ![c].at = to]
Answered(c, answer) == call' = [call EXCEPT ![c].at = "done", ![c].answer = answer]
Keyed(c) == call[c].req.key # None

\* execute() never throws: its catch turns an error into a response.  With a
\* key the response is stored first.
Responds(c, response) ==
    call' = [call EXCEPT ![c].response = response,
                         ![c].answer = IF Keyed(c) THEN None ELSE response,
                         ![c].at = IF Keyed(c) THEN "store" ELSE "done"]

Init ==
    /\ ledger = [s \in Slots |-> None]
    /\ epoch = [s \in Slots |-> 0]
    /\ call = [c \in Calls |-> NotMade]
    /\ draft = [status |-> "DRAFT", tokens |-> 0]
    /\ posted = 0
    /\ failures = 0
    /\ deaths = 0

Others == <<epoch, failures, deaths>>

\* A caller sends a draft only with a token an approval gave it.
Begin(c) ==
    /\ call[c].at = "notMade"
    /\ \E req \in Requests :
         /\ req.tool = "sendDraft" => draft.tokens > 0
         /\ call' = [call EXCEPT ![c].req = req,
                                 ![c].at = IF req.key = None THEN "run" ELSE "claim"]
    /\ UNCHANGED <<ledger, draft, posted>> /\ UNCHANGED Others

-----------------------------------------------------------------------------
(* The ledger *)

Pending(c) == [parts |-> call[c].req.parts, owner |-> c, response |-> None]

(* Mutated: a pending entry is taken for an abandoned one. *)
ClaimAnyway(c) ==
    /\ call[c].at = "claim"
    /\ IF ledger[Slot(c)] = None \/ ledger[Slot(c)].response = None
       THEN /\ ledger' = [ledger EXCEPT ![Slot(c)] = Pending(c)]
            /\ call' = [call EXCEPT ![c].at = "run", ![c].epoch = epoch[Slot(c)]]
       ELSE Goes(c, "look") /\ UNCHANGED ledger
    /\ UNCHANGED <<draft, posted>> /\ UNCHANGED Others

\* SET ... NX: the first call of the key writes its entry and goes on.
Claim(c) ==
    /\ call[c].at = "claim"
    /\ IF ledger[Slot(c)] = None
       THEN /\ ledger' = [ledger EXCEPT ![Slot(c)] = Pending(c)]
            /\ call' = [call EXCEPT ![c].at = "run", ![c].epoch = epoch[Slot(c)]]
       ELSE Goes(c, "look") /\ UNCHANGED ledger
    /\ UNCHANGED <<draft, posted>> /\ UNCHANGED Others

\* Redis fails: the call ends with the error, before anything was done.
ClaimFails(c) ==
    /\ call[c].at \in {"claim", "look"}
    /\ failures < MaxFailures
    /\ failures' = failures + 1
    /\ Answered(c, "provider_error")
    /\ UNCHANGED <<ledger, epoch, draft, posted, deaths>>

(* Mutated: the payload is not compared. *)
FromLedgerUncompared(c, entry) ==
    IF entry = None THEN "conflict"
    ELSE IF entry.response # None THEN entry.response
    ELSE "outcome_unknown"

\* What a call whose key is taken answers, from what it reads there.
FromLedger(c, entry) ==
    IF entry = None \/ entry.parts # call[c].req.parts THEN "conflict"
    ELSE IF entry.response # None THEN entry.response
    ELSE "outcome_unknown"

Look(c) ==
    /\ call[c].at = "look"
    /\ Answered(c, FromLedger(c, ledger[Slot(c)]))
    /\ UNCHANGED <<ledger, draft, posted>> /\ UNCHANGED Others

\* The response replaces the pending entry, unconditionally.
Store(c) ==
    /\ call[c].at = "store"
    /\ ledger' = [ledger EXCEPT ![Slot(c)] =
                    [Pending(c) EXCEPT !.response = call[c].response]]
    /\ Answered(c, call[c].response)
    /\ UNCHANGED <<draft, posted>> /\ UNCHANGED Others

\* The entry stays pending; a success can no longer be promised to a retry.
StoreFails(c) ==
    /\ call[c].at = "store"
    /\ failures < MaxFailures
    /\ failures' = failures + 1
    /\ Answered(c, IF call[c].response = "ok" THEN "outcome_unknown" ELSE call[c].response)
    /\ UNCHANGED <<ledger, epoch, draft, posted, deaths>>

\* 24 hours after it was written; no call runs that long.
Expire(s) ==
    /\ ledger[s] # None
    /\ epoch[s] < MaxExpiries
    /\ \A c \in Calls : Running(c) /\ Keyed(c) /\ Slot(c) = s => call[c].at \notin Executing
    /\ ledger' = [ledger EXCEPT ![s] = None]
    /\ epoch' = [epoch EXCEPT ![s] = @ + 1]
    /\ UNCHANGED <<call, draft, posted, failures, deaths>>
-----------------------------------------------------------------------------
(* A post to the connector: each part of a message, or the draft *)

Posts(c) == call[c].req.tool # "approveDraft"

\* A draft is posted only while its row says APPROVED (read just before).
MayPost(c) == call[c].req.tool = "sendDraft" => draft.status = "APPROVED"

PostAccepted(c) ==
    /\ call[c].at = "run" /\ Posts(c) /\ MayPost(c)
    /\ call' = [call EXCEPT ![c].at = "wait", ![c].accepted = @ + 1]
    /\ posted' = IF call[c].req.tool = "sendDraft" THEN posted + 1 ELSE posted
    /\ UNCHANGED <<ledger, draft>> /\ UNCHANGED Others

(* Mutated: the parts accepted so far are forgotten. *)
FailureOfPart(c, code) == code

\* After a part whose acceptance was seen a failure is no plain failure.
Failure(c, code) ==
    IF call[c].req.tool = "sendMessage" /\ call[c].acked > 0 THEN "outcome_unknown" ELSE code

\* Sending is disabled, the client is not connected, or WhatsApp refuses.
PostRefused(c) ==
    /\ call[c].at = "run" /\ Posts(c) /\ MayPost(c)
    /\ Responds(c, Failure(c, "provider_error"))
    /\ UNCHANGED <<ledger, draft, posted>> /\ UNCHANGED Others

NotApproved(c) ==
    /\ call[c].at = "run" /\ Posts(c) /\ ~MayPost(c)
    /\ Responds(c, "invalid_request")
    /\ UNCHANGED <<ledger, draft, posted>> /\ UNCHANGED Others

\* The connector's answer arrives.
AfterAnswer(c) ==
    LET seen == call[c].acked + 1
        more == seen < call[c].req.parts
        draftSent == call[c].req.tool = "sendDraft"
    IN [call[c] EXCEPT !.acked = seen,
                       !.at = IF more THEN "run" ELSE IF draftSent THEN "mark"
                              ELSE IF Keyed(c) THEN "store" ELSE "done",
                       !.response = IF more \/ draftSent THEN None ELSE "ok",
                       !.answer = IF more \/ draftSent \/ Keyed(c) THEN None ELSE "ok"]

PostAnswered(c) ==
    /\ call[c].at = "wait"
    /\ call' = [call EXCEPT ![c] = AfterAnswer(c)]
    /\ UNCHANGED <<ledger, draft, posted>> /\ UNCHANGED Others

\* The connector took it and its answer is lost: a timeout is told as such,
\* any other failure of the request as the provider's.
PostUnanswered(c) ==
    /\ call[c].at = "wait"
    /\ failures < MaxFailures
    /\ failures' = failures + 1
    /\ \E code \in {"provider_error", "outcome_unknown"} : Responds(c, Failure(c, code))
    /\ UNCHANGED <<ledger, epoch, draft, posted, deaths>>
-----------------------------------------------------------------------------
(* Drafts *)

\* approveDraft(): the row is read and checked, and updated in a second query.
ApproveReads(c) ==
    /\ call[c].at = "run" /\ call[c].req.tool = "approveDraft"
    /\ IF draft.status = "DRAFT" THEN Goes(c, "update") ELSE Responds(c, "provider_error")
    /\ UNCHANGED <<ledger, draft, posted>> /\ UNCHANGED Others

ApproveUpdates(c) ==
    /\ call[c].at = "update"
    /\ draft' = [status |-> "APPROVED", tokens |-> draft.tokens + 1]
    /\ Responds(c, "ok")
    /\ UNCHANGED <<ledger, posted>> /\ UNCHANGED Others

MarkAsSent(c) ==
    /\ call[c].at = "mark"
    /\ draft' = [draft EXCEPT !.status = "SENT"]
    /\ Responds(c, "ok")
    /\ UNCHANGED <<ledger, posted>> /\ UNCHANGED Others

\* The update fails: the draft is out, its row still says APPROVED.
QueryFails(c) ==
    /\ call[c].at \in {"update", "mark"}
    /\ failures < MaxFailures
    /\ failures' = failures + 1
    /\ Responds(c, "provider_error")
    /\ UNCHANGED <<ledger, epoch, draft, posted, deaths>>
-----------------------------------------------------------------------------
\* The server dies: its calls are never answered.
Die ==
    /\ deaths < MaxDeaths
    /\ \E c \in Calls : Running(c)
    /\ deaths' = deaths + 1
    /\ call' = [c \in Calls |-> IF Running(c) THEN [call[c] EXCEPT !.at = "dead"] ELSE call[c]]
    /\ UNCHANGED <<ledger, epoch, draft, posted, failures>>

Step(c) ==
    \/ Claim(c) \/ ClaimFails(c) \/ Look(c) \/ Store(c) \/ StoreFails(c)
    \/ PostAccepted(c) \/ PostRefused(c) \/ NotApproved(c)
    \/ PostAnswered(c) \/ PostUnanswered(c)
    \/ ApproveReads(c) \/ ApproveUpdates(c) \/ MarkAsSent(c) \/ QueryFails(c)

Next == Die \/ (\E c \in Calls : Begin(c) \/ Step(c)) \/ (\E s \in Slots : Expire(s))

Spec == Init /\ [][Next]_vars
-----------------------------------------------------------------------------
(* What may not go wrong *)

\* Ledger, calls and draft stay within their types.
ToolTypeOK ==
    /\ ledger \in [Slots -> {None} \cup Entries]
    /\ epoch \in [Slots -> 0..MaxExpiries]
    /\ draft \in [status : {"DRAFT", "APPROVED", "SENT"}, tokens : Nat]
    /\ posted \in Nat /\ failures \in Nat /\ deaths \in Nat
    /\ \A c \in Calls :
         /\ call[c].at \in {"notMade", "claim", "look", "done", "dead"} \cup Executing
         /\ call[c].req \in Requests \cup {None}
         /\ call[c].epoch \in Nat /\ call[c].accepted \in 0..2 /\ call[c].acked \in 0..2
         /\ call[c].response \in Answers \cup {None}
         /\ call[c].answer \in Answers \cup {None}

\* Within the life of a key its payload reaches the connector through one call
\* only, however often it is retried, from however many callers, over deaths
\* of the server and failures of Redis; and each part of it once.
SentOncePerKey ==
    \A c, d \in Calls :
        /\ call[c].req # None => call[c].accepted <= call[c].req.parts
        /\ /\ c # d
           /\ call[c].accepted > 0 /\ call[d].accepted > 0
           /\ Keyed(c) /\ Keyed(d) /\ Slot(c) = Slot(d)
           => call[c].epoch # call[d].epoch

\* A call told `ok`, by its own execution or by a replay, has had all its parts
\* accepted by the connector.
OkIsDone ==
    \A c \in Calls :
        call[c].answer = "ok" /\ Posts(c)
        => \E d \in Calls : /\ call[d].req = call[c].req
                            /\ call[d].accepted = call[d].req.parts

\* A message of which the server has seen a part accepted never answers as if
\* nothing had happened: the caller is told `ok` or that the outcome is unknown.
SeenIsNeverDenied ==
    \A c \in Calls :
        /\ call[c].at = "done" /\ call[c].acked > 0
        /\ call[c].req.tool = "sendMessage"
        => call[c].answer \in {"ok", "outcome_unknown"}

\* A draft reads SENT only when the connector has accepted it, and a caller was
\* given a token for it only when it was approved.
SentIsPosted == draft.status = "SENT" => posted > 0 /\ draft.tokens > 0

\* Types; the payload of a key goes out once, `ok` and SENT are said only of what
\* the connector accepted, and what was seen accepted is not denied.
ToolCallsInv == ToolTypeOK /\ SentOncePerKey /\ OkIsDone /\ SentIsPosted /\ SeenIsNeverDenied
=============================================================================
