---------------------------- MODULE WhatsAppSend ----------------------------
(***************************************************************************)
(* What leaves a WhatsApp account: the sends of                             *)
(* connectors/whatsapp-web/src/baileys-client.ts behind the HTTP API, and   *)
(* the requests that a text WhatsApp restricts leaves for the open worker   *)
(* (workers/whatsapp-open-worker), which sends it through WhatsApp Web.     *)
(* The connector's calls run concurrently with the workers and with an      *)
(* operator; a worker may die or lose its database between any two steps.   *)
(*                                                                          *)
(* All direct texts of the model are one text to one number, hence one      *)
(* request: its idempotency key is a hash of account, number and text.      *)
(***************************************************************************)
EXTENDS Naturals, FiniteSets

CONSTANTS
    Calls,          \* calls of the HTTP API, each made at most once
    Kinds,          \* what they may ask for
    Workers,        \* pods of the open worker
    None,           \* no answer; no owner
    MaxAsks,        \* bound: times the request is asked for
    MaxFaults       \* bound: deaths and database failures of the workers

ASSUME KindsAreServed ==
    Kinds \subseteq {"direct", "group", "voice", "file", "forward", "react", "delete"}

\* What a failed call answers.
Classes == {"timeout", "missing_session", "disconnected", "invalid_recipient",
            "account_restricted", "group_metadata", "message_unavailable",
            "quoted_message_unavailable", "unknown"}

ASSUME NoneIsNone == None \notin Workers \cup Classes \cup {"ok"}

ASSUME BoundsAreNat == MaxAsks \in Nat /\ MaxFaults \in Nat

VARIABLES
    call,       \* call -> where it stands
    wire,       \* message -> what became of it
    recent,     \* recentImmediateSendFailures: message -> class, or None
    row,        \* the request's row: its status, and whose update it was last
    worker,     \* worker -> where its loop stands
    asked,      \* times the request was set up for a send
    clicked,    \* times a worker pressed the send button
    faults
vars == <<call, wire, recent, row, worker, asked, clicked, faults>>
queue == <<row, worker, asked, clicked, faults>>
sends == <<call, wire, recent>>

\* The messages of a call: its first attempt, and a group's second.
Messages == Calls \X {1, 2}
Message(c) == <<c, call[c].attempt>>

Statuses == {"pending", "processing", "opened", "sent", "failed", "cancelled"}

Init ==
    /\ call = [c \in Calls |-> [at |-> "notMade", kind |-> None, attempt |-> 0,
                                answer |-> None, refusal |-> None]]
    /\ wire = [m \in Messages |-> "none"]
    /\ recent = [m \in Messages |-> None]
    /\ row = [status |-> "none", owner |-> None]
    /\ worker = [w \in Workers |-> "idle"]
    /\ asked = 0
    /\ clicked = 0
    /\ faults = 0
-----------------------------------------------------------------------------
(* A call of the HTTP API *)

Text(kind) == kind \in {"direct", "group"}
Goes(c, to) == call' = [call EXCEPT ![c].at = to]

\* A group's id is no phone number; sends of files and of voice notes queue nothing.
Queues(kind, class) == kind = "direct" /\ class = "account_restricted"

Fails(c, class) ==
    call' = [call EXCEPT ![c].at = IF Queues(call[c].kind, class) THEN "queue" ELSE "done",
                         ![c].answer = class]

\* The account must be connected, but for a file, a reaction and a deletion,
\* which need no more than a socket.
Begin(c) ==
    /\ call[c].at = "notMade"
    /\ \E kind \in Kinds, connected \in BOOLEAN :
         call' = [call EXCEPT ![c] =
            [at |-> IF connected THEN "prepare" ELSE "done", kind |-> kind, attempt |-> 0,
             answer |-> IF connected THEN None ELSE "disconnected", refusal |-> None]]
    /\ UNCHANGED <<wire, recent>> /\ UNCHANGED queue

\* What may fail before anything is sent: a direct text without a trusted
\* contact's token, a group without metadata, a file whose quoted message or
\* bytes are missing, a message that neither memory nor the database has.
PrepareFailures(kind) ==
    CASE kind = "direct" -> {"invalid_recipient", "account_restricted", "unknown"}
      [] kind = "group" -> {"timeout", "group_metadata"}
      [] kind = "file" -> {"quoted_message_unavailable", "unknown"}
      [] kind \in {"forward", "delete"} -> {"message_unavailable"}
      [] OTHER -> {}

PrepareFails(c) ==
    /\ call[c].at = "prepare"
    /\ \E class \in PrepareFailures(call[c].kind) : Fails(c, class)
    /\ UNCHANGED <<wire, recent>> /\ UNCHANGED queue

\* A reaction to a message nobody knows is dropped with a warning.
ReactsToNothing(c) ==
    /\ call[c].at = "prepare" /\ call[c].kind = "react"
    /\ call' = [call EXCEPT ![c].at = "done", ![c].answer = "ok"]
    /\ UNCHANGED <<wire, recent>> /\ UNCHANGED queue

\* sock.sendMessage() is called; the socket encrypts and writes in its own time.
Send(c) ==
    /\ call[c].at \in {"prepare", "repaired"}
    /\ call' = [call EXCEPT ![c].at = "sending", ![c].attempt = @ + 1]
    /\ wire' = [wire EXCEPT ![<<c, call[c].attempt + 1>>] = "prepared"]
    /\ UNCHANGED recent /\ UNCHANGED queue

\* The stanza is written: WhatsApp has the message, for better or worse.
Written(m) ==
    /\ wire[m] = "prepared"
    /\ wire' = [wire EXCEPT ![m] = "written"]
    /\ UNCHANGED <<call, recent>> /\ UNCHANGED queue

(* Mutated: a direct text is sent again as well. *)
RetriesAny(c, class) ==
    /\ Text(call[c].kind)
    /\ call[c].attempt = 1
    /\ class \in {"missing_session", "timeout", "unknown"}

\* shouldRetryGroupSend(): a group's first failure is repaired and retried.
Retries(c, class) ==
    /\ call[c].kind = "group"
    /\ call[c].attempt = 1
    /\ class \in {"missing_session", "timeout", "unknown"}

AttemptFails(c, class) == IF Retries(c, class) THEN Goes(c, "repair") ELSE Fails(c, class)

\* The socket fails before it writes.
Throws(c) ==
    /\ call[c].at = "sending" /\ wire[Message(c)] = "prepared"
    /\ wire' = [wire EXCEPT ![Message(c)] = "none"]
    /\ \E class \in {"missing_session", "disconnected", "unknown"} : AttemptFails(c, class)
    /\ UNCHANGED recent /\ UNCHANGED queue

\* race(): a text's call goes on after 45 s; the socket's send is not cancelled.
TimesOut(c) ==
    /\ call[c].at = "sending" /\ Text(call[c].kind) /\ wire[Message(c)] = "prepared"
    /\ AttemptFails(c, "timeout")
    /\ UNCHANGED <<wire, recent>> /\ UNCHANGED queue

\* The forced refresh of the group's sessions, with its own failures.
Repair(c) ==
    /\ call[c].at = "repair"
    /\ \/ Goes(c, "repaired")
       \/ \E class \in {"timeout", "disconnected", "unknown"} : Fails(c, class)
    /\ UNCHANGED <<wire, recent>> /\ UNCHANGED queue

\* The send resolves.  The first attempt of a text waits for an error ack, and
\* finds one that has come already; nothing else waits.
Resolves(c) ==
    /\ call[c].at = "sending" /\ wire[Message(c)] \in {"written", "refused"}
    /\ IF ~Text(call[c].kind) \/ call[c].attempt = 2
       THEN /\ call' = [call EXCEPT ![c].at = "done", ![c].answer = "ok"]
            /\ UNCHANGED recent
       ELSE IF recent[Message(c)] # None
       THEN /\ AttemptFails(c, recent[Message(c)])
            /\ recent' = [recent EXCEPT ![Message(c)] = None]
       ELSE Goes(c, "ackWait") /\ UNCHANGED recent
    /\ UNCHANGED wire /\ UNCHANGED queue

\* 5 s without an error ack.
NoRefusal(c) ==
    /\ call[c].at = "ackWait"
    /\ call' = [call EXCEPT ![c].at = "done", ![c].answer = "ok"]
    /\ UNCHANGED <<wire, recent>> /\ UNCHANGED queue

RefusalOf(m, class) ==
    call' = [call EXCEPT ![m[1]].refusal =
                IF call[m[1]].at # "done" /\ call[m[1]].attempt = m[2] THEN class ELSE @]

\* WhatsApp refuses the message with an error ack: 463 for a number it does not
\* let the account reach.  The ack resolves the wait or is kept for it.
Refused(m) ==
    /\ wire[m] = "written"
    /\ wire' = [wire EXCEPT ![m] = "refused"]
    /\ \E class \in {"account_restricted", "unknown"} :
         IF call[m[1]].at = "ackWait" /\ Message(m[1]) = m
         THEN AttemptFails(m[1], class) /\ UNCHANGED recent
         ELSE /\ RefusalOf(m, class)
              /\ recent' = [recent EXCEPT ![m] = class]
    /\ UNCHANGED queue

\* A kept ack expires after 15 s; a send that is written resolves well before.
Forget(m) ==
    /\ recent[m] # None
    /\ call[m[1]].at # "sending" \/ Message(m[1]) # m
    /\ recent' = [recent EXCEPT ![m] = None]
    /\ UNCHANGED <<call, wire>> /\ UNCHANGED queue
-----------------------------------------------------------------------------
(* The queue of requests for the open worker *)

Sets(status, by) == row' = [status |-> status, owner |-> by]

\* INSERT ... ON CONFLICT: whatever is not sent or cancelled is pending again.
Upserted ==
    IF row.status \in {"sent", "cancelled"} THEN UNCHANGED <<row, asked>>
    ELSE Sets("pending", None) /\ asked' = asked + 1

\* The restricted text is queued; if the query fails the call says so.
Enqueue(c) ==
    /\ call[c].at = "queue"
    /\ Goes(c, "done")
    /\ \/ asked < MaxAsks /\ Upserted
       \/ UNCHANGED <<row, asked>>
    /\ UNCHANGED <<wire, recent, worker, clicked, faults>>

\* PATCH /manual-open/requests/:id: the operator sets any status.
Patch(status) ==
    /\ row.status # "none"
    /\ Sets(status, None)
    /\ IF status \in {"pending", "processing"}
       THEN asked < MaxAsks /\ asked' = asked + 1
       ELSE UNCHANGED asked
    /\ UNCHANGED sends /\ UNCHANGED <<worker, clicked, faults>>

\* Processing for 15 minutes: a worker opens the chat in less, or gives up.
Stale ==
    /\ row.status = "processing"
    /\ row.owner # None => worker[row.owner] \notin {"open", "failing", "relogin"}

Turns(w, to) == worker' = [worker EXCEPT ![w] = to]

(* Mutated: stale claims are left alone. *)
ResetNothing(w) ==
    /\ worker[w] = "idle"
    /\ UNCHANGED row
    /\ Turns(w, "claim")
    /\ UNCHANGED sends /\ UNCHANGED <<asked, clicked, faults>>

ResetStaleProcessing(w) ==
    /\ worker[w] = "idle"
    /\ IF Stale THEN Sets("pending", None) ELSE UNCHANGED row
    /\ Turns(w, "claim")
    /\ UNCHANGED sends /\ UNCHANGED <<asked, clicked, faults>>

\* FOR UPDATE SKIP LOCKED: one worker gets the row; none, and the loop sleeps.
ClaimNextRequest(w) ==
    /\ worker[w] = "claim"
    /\ IF row.status = "pending"
       THEN Sets("processing", w) /\ Turns(w, "open")
       ELSE UNCHANGED row /\ Turns(w, "idle")
    /\ UNCHANGED sends /\ UNCHANGED <<asked, clicked, faults>>

Updates(w, from, status, to) ==
    /\ worker[w] = from
    /\ Sets(status, w)
    /\ Turns(w, to)
    /\ UNCHANGED sends /\ UNCHANGED <<asked, clicked, faults>>

\* The compose page is open and filled in; then the button; then it is sent.
Opened(w) == Updates(w, "open", "opened", "click")
Sent(w) == Updates(w, "settle", "sent", "idle")

Click(w) ==
    /\ worker[w] = "click"
    /\ Turns(w, "settle")
    /\ clicked' = clicked + 1
    /\ UNCHANGED sends /\ UNCHANGED <<row, asked, faults>>

\* The page fails, there is no button, or WhatsApp Web asks for a login.
PageFails(w) ==
    /\ \/ worker[w] \in {"open", "click"} /\ Turns(w, "failing")
       \/ worker[w] = "open" /\ Turns(w, "relogin")
    /\ UNCHANGED sends /\ UNCHANGED <<row, asked, clicked, faults>>

Failed(w) == Updates(w, "failing", "failed", "idle")
LoginRequired(w) == Updates(w, "relogin", "pending", "idle")

\* A query fails.  In sendRequest() that fails the request; anywhere else it
\* ends the process.
QueryFails(w) ==
    /\ faults < MaxFaults
    /\ faults' = faults + 1
    /\ \/ worker[w] \in {"open", "settle"} /\ Turns(w, "failing")
       \/ worker[w] \in {"idle", "claim", "failing", "relogin"} /\ Turns(w, "down")
    /\ UNCHANGED sends /\ UNCHANGED <<row, asked, clicked>>

Die(w) ==
    /\ faults < MaxFaults
    /\ faults' = faults + 1
    /\ worker[w] \notin {"idle", "down"}
    /\ Turns(w, "down")
    /\ UNCHANGED sends /\ UNCHANGED <<row, asked, clicked>>

Restart(w) ==
    /\ worker[w] = "down"
    /\ Turns(w, "idle")
    /\ UNCHANGED sends /\ UNCHANGED <<row, asked, clicked, faults>>
-----------------------------------------------------------------------------
CallStep(c) ==
    \/ Begin(c) \/ PrepareFails(c) \/ ReactsToNothing(c) \/ Send(c) \/ Throws(c)
    \/ TimesOut(c) \/ Repair(c) \/ Resolves(c) \/ NoRefusal(c) \/ Enqueue(c)

Loop(w) ==
    \/ ResetStaleProcessing(w) \/ ClaimNextRequest(w) \/ Opened(w) \/ Click(w)
    \/ Sent(w) \/ Failed(w) \/ LoginRequired(w) \/ Restart(w)

WorkerStep(w) == Loop(w) \/ PageFails(w) \/ QueryFails(w) \/ Die(w)

Next ==
    \/ \E c \in Calls : CallStep(c)
    \/ \E m \in Messages : Written(m) \/ Refused(m) \/ Forget(m)
    \/ \E w \in Workers : WorkerStep(w)
    \/ \E status \in Statuses : Patch(status)

Spec == Init /\ [][Next]_vars

\* A worker's loop goes on, and its pod is restarted when it ends.
Fairness == \A w \in Workers : WF_vars(Loop(w))

FairSpec == Spec /\ Fairness
-----------------------------------------------------------------------------
(* What may not go wrong *)

\* Every variable has its type.
SendTypeOK ==
    /\ call \in [Calls -> [at : {"notMade", "prepare", "sending", "ackWait", "repair",
                                "repaired", "queue", "done"},
                          kind : Kinds \cup {None}, attempt : 0..2,
                          answer : Classes \cup {"ok", None},
                          refusal : Classes \cup {None}]]
    /\ wire \in [Messages -> {"none", "prepared", "written", "refused"}]
    /\ recent \in [Messages -> Classes \cup {None}]
    /\ row \in [status : Statuses \cup {"none"}, owner : Workers \cup {None}]
    /\ worker \in [Workers -> {"idle", "claim", "open", "click", "settle", "failing",
                              "relogin", "down"}]
    /\ asked \in 0..MaxAsks /\ clicked \in Nat /\ faults \in 0..MaxFaults

\* No call but a group's gives WhatsApp two messages: a direct text whose send
\* timed out may still go out, and is never sent a second time.
SentOnce ==
    \A c \in Calls :
        call[c].kind # "group" => wire[<<c, 2>>] = "none"

\* A refusal that arrives before the answer is heard: the first attempt of a
\* text answers `ok` only if no error ack for it had come.
RefusalIsHeard ==
    \A c \in Calls :
        call[c].answer = "ok" /\ Text(call[c].kind) /\ call[c].attempt = 1
        => call[c].refusal = None

\* A text is left for the open worker only by a call none of whose messages
\* WhatsApp has taken or may yet take, so that it is not sent by both ways.
QueuedIsNotTaken ==
    \A c \in Calls :
        call[c].at = "queue" => wire[<<c, 1>>] \in {"none", "refused"}

\* The open worker presses the button no more often than the request was asked
\* for, whatever dies, fails or is reset in between.
ClickedAsAsked == clicked <= asked

\* A claim is let go of: a worker that died leaves no request processing.
ClaimIsLetGo == row.status = "processing" ~> row.status # "processing"

\* A text reaches WhatsApp once, by whichever way: a retry, the open worker, or a
\* worker that takes over a request another has left; and who calls hears of a
\* refusal that came in time.  (Types included.)
SendInv == SendTypeOK /\ SentOnce /\ QueuedIsNotTaken /\ ClickedAsAsked /\ RefusalIsHeard
=============================================================================
