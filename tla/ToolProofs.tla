------------------------------- MODULE ToolProofs -------------------------------
(***************************************************************************)
(* ToolCallsInv of ToolCalls for every set of calls and of keys, and every *)
(* number of failures, deaths and expiries; RoutingInv of ToolRouting for  *)
(* every set of account ids, whatever the registry's file does.            *)
(***************************************************************************)
EXTENDS ToolCalls, ToolRouting, FiniteSetTheorems, SequenceTheorems, TLAPS

Places == {"notMade", "claim", "look", "done", "dead"} \cup Executing

Calling ==
  [at : Places, req : Requests \cup {None}, epoch : Nat, accepted : Nat, acked : Nat,
   response : Answers \cup {None}, answer : Answers \cup {None}]

(***************************************************************************)
(* What is known of one call, by the place it is at.                       *)
(***************************************************************************)
Sends(q) == q.req.tool # "approveDraft"

Counts(q) ==
  /\ q.acked <= q.accepted
  /\ q.req # None => q.accepted <= q.req.parts
  /\ q.at \in {"notMade", "claim", "look"} => q.accepted = 0 /\ q.acked = 0
  /\ q.at = "run" => q.accepted = q.acked /\ q.accepted < q.req.parts
  /\ q.at = "wait" => q.accepted = q.acked + 1 /\ Sends(q)
  /\ q.at = "mark" => q.accepted = q.req.parts /\ q.req.tool = "sendDraft"
  /\ q.at = "update" => ~Sends(q)

Named(q) ==
  /\ q.at = "notMade" <=> q.req = None
  /\ q.at \in {"claim", "look", "store"} => q.req.key # None

(* `ok` is only said of what is done, and what was seen done is not denied. *)
Honest(q) ==
  /\ q.req # None /\ q.response = "ok" /\ Sends(q) => q.accepted = q.req.parts
  /\ q.req # None /\ q.req.tool = "sendMessage" /\ q.acked > 0 =>
       /\ q.at = "store" => q.response \in {"ok", "outcome_unknown"}
       /\ q.at = "done" => q.answer \in {"ok", "outcome_unknown"}
  /\ q.at = "store" => q.response # None
  /\ q.at = "notMade" => q.response = None /\ q.answer = None

CallOK(q) == q \in Calling /\ Counts(q) /\ Named(q) /\ Honest(q)

LEMMA RequestFacts ==
  \A r \in Requests : /\ r.tool \in Tools /\ r.key \in Keys \cup {None} /\ r.parts \in 1 .. 2
                      /\ r.tool # "sendMessage" => r.parts = 1
                      /\ r = [tool |-> r.tool, key |-> r.key, parts |-> r.parts]
BY DEF Requests, Tools

LEMMA NotMadeOK == CallOK(NotMade)
<1>1. NotMade \in Calling
  BY DEF NotMade, Calling, Places
<1>2. NotMade.at = "notMade" /\ NotMade.req = None /\ NotMade.accepted = 0 /\ NotMade.acked = 0
      /\ NotMade.response = None /\ NotMade.answer = None
  BY DEF NotMade
<1>3. QED
  BY <1>1, <1>2 DEF CallOK, Counts, Named, Honest

(* A call moves to another place, all else unchanged. *)
LEMMA MovesOK ==
  ASSUME NEW q, CallOK(q), NEW to \in Places, q.at # "notMade",
         \/ q.at = "claim" /\ to = "look"
         \/ q.at = "run" /\ to = "update" /\ ~Sends(q)
         \/ to = "dead"
  PROVE  CallOK([q EXCEPT !.at = to])
<1> DEFINE p == [q EXCEPT !.at = to]
<1>1. /\ p \in Calling /\ p.at = to /\ p.req = q.req /\ p.accepted = q.accepted
      /\ p.acked = q.acked /\ p.response = q.response /\ p.answer = q.answer
  BY DEF CallOK, Calling
<1> HIDE DEF p
<1>2. Counts(p)
  BY <1>1 DEF CallOK, Counts, Sends
<1>3. Named(p)
  BY <1>1 DEF CallOK, Named
<1>4. Honest(p)
  BY <1>1 DEF CallOK, Honest, Sends
<1>5. QED
  BY <1>1, <1>2, <1>3, <1>4 DEF CallOK, p

(* It is made. *)
LEMMA MadeOK ==
  ASSUME NEW q, CallOK(q), q.at = "notMade", NEW req \in Requests
  PROVE  CallOK([q EXCEPT !.req = req, !.at = IF req.key = None THEN "run" ELSE "claim"])
<1> DEFINE to == IF req.key = None THEN "run" ELSE "claim"
           p == [q EXCEPT !.req = req, !.at = to]
<1>1. to \in {"run", "claim"} /\ (to = "claim" => req.key # None) /\ to \in Places
  BY DEF Places, Executing
<1> HIDE DEF to
<1>2. /\ p \in Calling /\ p.at = to /\ p.req = req /\ p.accepted = q.accepted
      /\ p.acked = q.acked /\ p.response = q.response /\ p.answer = q.answer
  BY <1>1 DEF CallOK, Calling
<1>3. /\ q.accepted = 0 /\ q.acked = 0 /\ q.response = None
  BY DEF CallOK, Counts, Honest
<1>4. req # None /\ req.parts \in 1 .. 2 /\ None # "ok"
  BY RequestFacts, NoneIsNothing DEF Answers
<1> HIDE DEF p
<1>5. Counts(p)
  BY <1>1, <1>2, <1>3, <1>4 DEF Counts
<1>6. Named(p)
  BY <1>1, <1>2, <1>4 DEF Named
<1>7. Honest(p)
  BY <1>1, <1>2, <1>3, <1>4 DEF Honest
<1>8. QED
  BY <1>2, <1>5, <1>6, <1>7 DEF CallOK, p, to

(* It has written its entry. *)
LEMMA ClaimedOK ==
  ASSUME NEW q, CallOK(q), q.at = "claim", NEW e \in Nat
  PROVE  CallOK([q EXCEPT !.at = "run", !.epoch = e])
<1> DEFINE p == [q EXCEPT !.at = "run", !.epoch = e]
<1>1. /\ p \in Calling /\ p.at = "run" /\ p.req = q.req /\ p.accepted = q.accepted
      /\ p.acked = q.acked /\ p.response = q.response /\ p.answer = q.answer
  BY DEF CallOK, Calling, Places, Executing
<1>2. q.accepted = 0 /\ q.acked = 0 /\ q.req # None /\ q.req \in Requests
  BY DEF CallOK, Counts, Named, Calling
<1>3. q.req.parts \in 1 .. 2
  BY <1>2, RequestFacts
<1> HIDE DEF p
<1>4. Counts(p)
  BY <1>1, <1>2, <1>3 DEF Counts
<1>5. Named(p) /\ Honest(p)
  BY <1>1, <1>2 DEF Named, Honest, CallOK, Sends
<1>6. QED
  BY <1>1, <1>4, <1>5 DEF CallOK, p

(* It is answered: before anything was done, or with its response, which   *)
(* becomes "outcome_unknown" when it cannot be kept.                       *)
LEMMA AnsweredOK ==
  ASSUME NEW q, CallOK(q), NEW a \in Answers,
         \/ q.at \in {"claim", "look"}
         \/ q.at = "store" /\ a \in {q.response, "outcome_unknown"}
  PROVE  CallOK([q EXCEPT !.at = "done", !.answer = a])
<1> DEFINE p == [q EXCEPT !.at = "done", !.answer = a]
<1>1. /\ p \in Calling /\ p.at = "done" /\ p.req = q.req /\ p.accepted = q.accepted
      /\ p.acked = q.acked /\ p.response = q.response /\ p.answer = a
  BY DEF CallOK, Calling, Places
<1> HIDE DEF p
<1>2. Counts(p)
  BY <1>1 DEF CallOK, Counts
<1>3. Named(p)
  BY <1>1 DEF CallOK, Named
<1>4. q.at \in {"claim", "look"} => q.acked = 0
  BY DEF CallOK, Counts
<1>5. Honest(p)
  BY <1>1, <1>4 DEF CallOK, Honest, Sends
<1>6. QED
  BY <1>1, <1>2, <1>3, <1>5 DEF CallOK, p

(* What a call's execution ended with: Responds, of the call as a record. *)
Ended(q, response) ==
  [q EXCEPT !.response = response,
            !.answer = IF q.req.key # None THEN None ELSE response,
            !.at = IF q.req.key # None THEN "store" ELSE "done"]

LEMMA EndedOK ==
  ASSUME NEW q, CallOK(q), NEW r \in Answers, q.at \in {"run", "wait", "update", "mark"},
         r = "ok" => q.at \in {"update", "mark"},
         q.req.tool = "sendMessage" /\ q.acked > 0 => r = "outcome_unknown"
  PROVE  CallOK(Ended(q, r))
<1> DEFINE p == Ended(q, r)
<1>1. /\ p \in Calling /\ p.req = q.req /\ p.accepted = q.accepted /\ p.acked = q.acked
      /\ p.response = r
      /\ \/ p.at = "store" /\ q.req.key # None
         \/ p.at = "done" /\ p.answer = r
  BY DEF CallOK, Calling, Places, Executing, Ended
<1> HIDE DEF p
<1>2. Counts(p)
  BY <1>1 DEF CallOK, Counts
<1>3. Named(p)
  BY <1>1 DEF CallOK, Named
<1>4. r # None
  BY NoneIsNothing
<1>5. r = "ok" /\ Sends(q) => q.accepted = q.req.parts
  BY DEF CallOK, Counts
<1>6. Honest(p)
  BY <1>1, <1>4, <1>5 DEF Honest, Sends
<1>7. QED
  BY <1>1, <1>2, <1>3, <1>6 DEF CallOK, p

LEMMA AcceptedOK ==
  ASSUME NEW q, CallOK(q), q.at = "run", Sends(q)
  PROVE  CallOK([q EXCEPT !.at = "wait", !.accepted = @ + 1])
<1> DEFINE n == q.accepted + 1
<1>0. q.accepted \in Nat /\ q.acked \in Nat /\ n \in Nat /\ n = q.accepted + 1
  BY DEF CallOK, Calling
<1> HIDE DEF n
<1> DEFINE p == [q EXCEPT !.at = "wait", !.accepted = n]
<1>1. /\ p \in Calling /\ p.at = "wait" /\ p.req = q.req /\ p.accepted = n
      /\ p.acked = q.acked /\ p.response = q.response /\ p.answer = q.answer
  BY <1>0 DEF CallOK, Calling, Places, Executing
<1> HIDE DEF p
<1>2. q.req # None /\ q.req \in Requests
  BY DEF CallOK, Named, Calling
<1>3. q.req.parts \in 1 .. 2
  BY <1>2, RequestFacts
<1>4. q.accepted = q.acked /\ q.accepted < q.req.parts
  BY DEF CallOK, Counts
<1>5. Counts(p)
  BY <1>0, <1>1, <1>3, <1>4 DEF Counts, Sends
<1>6. Named(p)
  BY <1>1, <1>2 DEF Named
<1>7. q.response = "ok" /\ Sends(q) => q.accepted = q.req.parts
  BY <1>2 DEF CallOK, Honest
<1>8. q.response # "ok"
  BY <1>0, <1>3, <1>4, <1>7
<1>9. Honest(p)
  BY <1>1, <1>8 DEF Honest
<1>10. QED
  BY <1>1, <1>5, <1>6, <1>9 DEF CallOK, p, n
(* The connector's answer: there are more parts, it was the draft, or it   *)
(* was the last part.                                                      *)
LEMMA SeenOK ==
  ASSUME NEW c \in Calls, CallOK(call[c]), call[c].at = "wait"
  PROVE  /\ CallOK(AfterAnswer(c)) /\ AfterAnswer(c).req = call[c].req
         /\ AfterAnswer(c).epoch = call[c].epoch
         /\ AfterAnswer(c).accepted = call[c].accepted
         /\ AfterAnswer(c).at \in {"run", "mark", "store", "done"}
<1> DEFINE q == call[c]
           seen == q.acked + 1
           p == AfterAnswer(c)
<1>1. /\ q \in Calling /\ q.req # None /\ q.req \in Requests /\ q.accepted = q.acked + 1
      /\ q.accepted <= q.req.parts /\ Sends(q) /\ q.acked \in Nat /\ seen \in Nat
  BY DEF CallOK, Counts, Named, Calling
<1>2. q.req.parts \in 1 .. 2 /\ q.req.tool \in {"sendMessage", "sendDraft"}
      /\ (q.req.tool = "sendDraft" => q.req.parts = 1)
  BY <1>1, RequestFacts DEF Sends, Tools
<1>3. q.response = "ok" => seen = q.req.parts
  BY <1>1 DEF CallOK, Honest
<1>c. None \notin Answers /\ "ok" \in Answers
  BY NoneIsNothing DEF Answers
<1>4. CASE seen < q.req.parts
  <2>1. p = [q EXCEPT !.acked = seen, !.at = "run", !.response = None, !.answer = None]
    BY <1>4 DEF AfterAnswer
  <2>2. /\ p \in Calling /\ p.at = "run" /\ p.req = q.req /\ p.accepted = q.accepted
        /\ p.acked = seen /\ p.response = None /\ p.epoch = q.epoch
    BY <1>1, <2>1 DEF Calling, Places, Executing
  <2> HIDE DEF p
  <2>3. Counts(p)
    BY <1>1, <1>4, <2>2 DEF Counts
  <2>4. Named(p) /\ Honest(p)
    BY <1>1, <1>c, <2>2 DEF Named, Honest
  <2>5. QED
    BY <2>2, <2>3, <2>4 DEF CallOK, p
<1>5. CASE ~(seen < q.req.parts) /\ q.req.tool = "sendDraft"
  <2>1. p = [q EXCEPT !.acked = seen, !.at = "mark", !.response = None, !.answer = None]
    <3>1. ~(call[c].acked + 1 < call[c].req.parts) /\ call[c].req.tool = "sendDraft"
      BY <1>5
    <3>2. QED
      BY <3>1 DEF AfterAnswer
  <2>2. /\ p \in Calling /\ p.at = "mark" /\ p.req = q.req /\ p.accepted = q.accepted
        /\ p.acked = seen /\ p.response = None /\ p.epoch = q.epoch
    BY <1>1, <2>1 DEF Calling, Places, Executing
  <2> HIDE DEF p
  <2>3. Counts(p)
    BY <1>1, <1>2, <1>5, <2>2 DEF Counts
  <2>4. Named(p) /\ Honest(p)
    BY <1>1, <1>c, <2>2 DEF Named, Honest
  <2>5. QED
    BY <2>2, <2>3, <2>4 DEF CallOK, p
<1>6. CASE ~(seen < q.req.parts) /\ q.req.tool = "sendMessage"
  <2>1. p = [q EXCEPT !.acked = seen, !.at = IF q.req.key # None THEN "store" ELSE "done",
                      !.response = "ok", !.answer = IF q.req.key # None THEN None ELSE "ok"]
    <3>1. ~(call[c].acked + 1 < call[c].req.parts) /\ call[c].req.tool # "sendDraft"
      BY <1>6
    <3>2. QED
      BY <3>1 DEF AfterAnswer, Keyed
  <2>2. /\ p \in Calling /\ p.req = q.req /\ p.accepted = q.accepted /\ p.acked = seen
        /\ p.response = "ok" /\ p.epoch = q.epoch
        /\ \/ p.at = "store" /\ q.req.key # None
           \/ p.at = "done" /\ p.answer = "ok"
    BY <1>1, <1>c, <2>1 DEF Calling, Places, Executing
  <2> HIDE DEF p
  <2>3. Counts(p)
    BY <1>1, <1>2, <1>6, <2>2 DEF Counts
  <2>4. p.accepted = p.req.parts
    BY <1>1, <1>2, <1>6, <2>2
  <2>5. Named(p) /\ Honest(p)
    BY <1>1, <1>c, <2>2, <2>4 DEF Named, Honest
  <2>6. QED
    BY <2>2, <2>3, <2>5 DEF CallOK, p
<1>7. QED
  BY <1>1, <1>2, <1>4, <1>5, <1>6
(***************************************************************************)
(* What is known of the ledger and of the draft.                           *)
(***************************************************************************)
Busy(q) == q.at \in Executing \/ q.accepted > 0

Holds(c) == Keyed(c) /\ Busy(call[c])

Complete(q) == q.accepted = q.req.parts

(* An entry is of a call that was made under its key, with its payload,    *)
(* and says `ok` only when all of it was accepted.                         *)
OwnerInv ==
  \A s \in Slots : ledger[s] # None =>
    LET o == call[ledger[s].owner] IN
      /\ o.req # None /\ <<o.req.tool, o.req.key>> = s /\ o.req.parts = ledger[s].parts
      /\ ledger[s].response = "ok" /\ Sends(o) => Complete(o)

(* Who executes under a key, or had something accepted, wrote its entry;   *)
(* the entry is still its own while the key lives.                         *)
HolderInv ==
  \A c \in Calls : Holds(c) =>
    /\ call[c].epoch <= epoch[Slot(c)]
    /\ call[c].epoch = epoch[Slot(c)] =>
         ledger[Slot(c)] # None /\ ledger[Slot(c)].owner = c
    /\ call[c].at \in Executing => call[c].epoch = epoch[Slot(c)]

OneHolder ==
  \A c, d \in Calls :
    c # d /\ Holds(c) /\ Holds(d) /\ Slot(c) = Slot(d) => call[c].epoch # call[d].epoch

OkInv ==
  \A c \in Calls :
    call[c].req # None /\ call[c].answer = "ok" /\ Sends(call[c]) =>
      \E d \in Calls : call[d].req = call[c].req /\ Complete(call[d])

LedgerInv == OwnerInv /\ HolderInv /\ OneHolder /\ OkInv

DraftInv ==
  /\ \A c \in Calls : call[c].req # None /\ call[c].req.tool = "sendDraft" =>
       draft.tokens > 0 /\ (call[c].accepted > 0 => posted > 0)
  /\ SentIsPosted

Stored ==
  /\ ledger \in [Slots -> {None} \cup Entries] /\ epoch \in [Slots -> 0 .. MaxExpiries]
  /\ draft \in [status : {"DRAFT", "APPROVED", "SENT"}, tokens : Nat]
  /\ posted \in Nat /\ failures \in Nat /\ deaths \in Nat

CallsInv == call \in [Calls -> Calling] /\ \A c \in Calls : CallOK(call[c])

ToolInv == Stored /\ CallsInv /\ LedgerInv /\ DraftInv

(* What a step of a call that is made may do to it.                        *)
Grows(p, q) ==
  /\ q.req = p.req /\ q.epoch = p.epoch /\ p.accepted <= q.accepted
  /\ Busy(q) => Busy(p)
  /\ q.at \in Executing => p.at \in Executing

AnswerKept(q) ==
  q.req # None /\ q.answer = "ok" /\ Sends(q) =>
    Complete(q) \/ \E d \in Calls : call[d].req = q.req /\ Complete(call[d])

LEMMA CallFacts ==
  ASSUME CallsInv, NEW c \in Calls
  PROVE  /\ call[c] \in Calling /\ CallOK(call[c]) /\ call[c].accepted \in Nat
         /\ call[c].epoch \in Nat
         /\ call[c].req # None => call[c].req \in Requests /\ call[c].accepted <= call[c].req.parts
                                  /\ call[c].req.parts \in Nat
BY RequestFacts DEF CallsInv, CallOK, Counts, Calling

LEMMA CompleteStays ==
  ASSUME CallsInv, CallsInv', NEW c \in Calls, Grows(call[c], call'[c]), call[c].req # None,
         Complete(call[c])
  PROVE  Complete(call'[c])
<1>1. /\ call[c].accepted \in Nat /\ call[c].accepted = call[c].req.parts
      /\ call[c].accepted <= call'[c].accepted /\ call'[c].req = call[c].req
  BY CallFacts DEF Grows, Complete
<1>2. CallOK(call'[c]) /\ call'[c] \in Calling
  BY DEF CallsInv, CallOK
<1>3. call'[c].accepted <= call'[c].req.parts /\ call'[c].accepted \in Nat
  BY <1>1, <1>2 DEF CallOK, Counts, Calling
<1>4. QED
  BY <1>1, <1>3 DEF Complete

LEMMA HoldsStays ==
  ASSUME CallsInv, NEW c \in Calls, Grows(call[c], call'[c]), Holds(c)'
  PROVE  /\ Holds(c) /\ Slot(c)' = Slot(c) /\ call'[c].epoch = call[c].epoch
         /\ call'[c].at \in Executing => call[c].at \in Executing
BY DEF Grows, Holds, Keyed, Slot

LEMMA SlotIsSlot ==
  ASSUME CallsInv, NEW c \in Calls, call[c].req # None, Keyed(c)
  PROVE  Slot(c) \in Slots
BY CallFacts, RequestFacts DEF Slot, Slots, Keyed

LEMMA LedgerStays ==
  ASSUME CallsInv, CallsInv', LedgerInv, UNCHANGED <<ledger, epoch>>,
         ledger \in [Slots -> {None} \cup Entries],
         \A c \in Calls : Grows(call[c], call'[c]) /\ (call'[c].answer = call[c].answer \/ AnswerKept(call'[c]))
  PROVE  LedgerInv'
<1>1. OwnerInv'
  <2> SUFFICES ASSUME NEW s \in Slots, ledger[s] # None
               PROVE  LET o == call'[ledger[s].owner] IN
                        /\ o.req # None /\ <<o.req.tool, o.req.key>> = s
                        /\ o.req.parts = ledger[s].parts
                        /\ ledger[s].response = "ok" /\ Sends(o) => Complete(o)
    BY DEF OwnerInv
  <2> DEFINE c == ledger[s].owner
  <2>1. c \in Calls
    BY DEF Entries
  <2>2. /\ call[c].req # None /\ <<call[c].req.tool, call[c].req.key>> = s
        /\ call[c].req.parts = ledger[s].parts
        /\ ledger[s].response = "ok" /\ Sends(call[c]) => Complete(call[c])
    BY DEF LedgerInv, OwnerInv
  <2>3. Grows(call[c], call'[c])
    BY <2>1
  <2> HIDE DEF c
  <2>4. call'[c].req = call[c].req
    BY <2>3 DEF Grows
  <2>5. ledger[s].response = "ok" /\ Sends(call'[c]) => Complete(call'[c])
    BY <2>1, <2>2, <2>3, <2>4, CompleteStays DEF Sends
  <2>6. QED
    BY <2>2, <2>4, <2>5 DEF c
<1>2. HolderInv'
  <2> SUFFICES ASSUME NEW c \in Calls, Holds(c)'
               PROVE  /\ call'[c].epoch <= epoch[Slot(c)']
                      /\ call'[c].epoch = epoch[Slot(c)'] =>
                           ledger[Slot(c)'] # None /\ ledger[Slot(c)'].owner = c
                      /\ call'[c].at \in Executing => call'[c].epoch = epoch[Slot(c)']
    BY DEF HolderInv
  <2>1. QED
    BY HoldsStays DEF LedgerInv, HolderInv
<1>3. OneHolder'
  <2> SUFFICES ASSUME NEW c \in Calls, NEW d \in Calls, c # d, Holds(c)', Holds(d)',
                      Slot(c)' = Slot(d)'
               PROVE  call'[c].epoch # call'[d].epoch
    BY DEF OneHolder
  <2>1. QED
    BY HoldsStays DEF LedgerInv, OneHolder
<1>4. OkInv'
  <2> SUFFICES ASSUME NEW c \in Calls, call'[c].req # None, call'[c].answer = "ok",
                      Sends(call'[c])
               PROVE  \E d \in Calls : call'[d].req = call'[c].req /\ Complete(call'[d])
    BY DEF OkInv
  <2>1. call'[c].req = call[c].req
    BY DEF Grows
  <2>2. Complete(call'[c]) \/ \E d \in Calls : call[d].req = call'[c].req /\ Complete(call[d])
    <3>1. CASE call'[c].answer = call[c].answer
      BY <2>1, <3>1 DEF LedgerInv, OkInv, Sends
    <3>2. CASE AnswerKept(call'[c])
      BY <3>2 DEF AnswerKept
    <3>3. QED
      BY <3>1, <3>2
  <2>3. CASE Complete(call'[c])
    BY <2>3
  <2>4. CASE \E d \in Calls : call[d].req = call'[c].req /\ Complete(call[d])
    <3>1. PICK d \in Calls : call[d].req = call'[c].req /\ Complete(call[d])
      BY <2>4
    <3>2. call'[d].req = call'[c].req
      BY <3>1 DEF Grows
    <3>3. Complete(call'[d])
      BY <3>1, CompleteStays
    <3>4. QED
      BY <3>2, <3>3
  <2>5. QED
    BY <2>2, <2>3, <2>4
<1>5. QED
  BY <1>1, <1>2, <1>3, <1>4 DEF LedgerInv
(***************************************************************************)
(* Steps.                                                                  *)
(***************************************************************************)

(* One call moves, the ledger does not. *)
LEMMA OneCall ==
  ASSUME ToolInv, NEW c \in Calls, NEW q, call' = [call EXCEPT ![c] = q], CallOK(q),
         Grows(call[c], q), q.answer = call[c].answer \/ AnswerKept(q),
         UNCHANGED <<ledger, epoch>>, Stored', SentIsPosted',
         draft.tokens <= draft'.tokens, posted <= posted',
         q.req # None /\ q.req.tool = "sendDraft" /\ q.accepted > 0 => posted' > 0
  PROVE  ToolInv'
<1>1. /\ q \in Calling /\ call \in [Calls -> Calling]
      /\ draft.tokens \in Nat /\ draft'.tokens \in Nat /\ posted \in Nat /\ posted' \in Nat
  BY DEF CallOK, ToolInv, CallsInv, Stored
<1>2. /\ call' \in [Calls -> Calling] /\ call'[c] = q
      /\ \A d \in Calls : d # c => call'[d] = call[d]
  BY <1>1
<1>3. CallsInv'
  <2>1. \A d \in Calls : CallOK(call'[d])
    BY <1>2 DEF ToolInv, CallsInv
  <2>2. QED
    BY <1>2, <2>1 DEF CallsInv
<1>4. ASSUME NEW d \in Calls
      PROVE  /\ Grows(call[d], call'[d])
             /\ call'[d].answer = call[d].answer \/ AnswerKept(call'[d])
  <2>1. CASE d = c
    BY <1>2, <2>1
  <2>2. CASE d # c
    <3>1. call[d].accepted \in Nat
      BY <1>1 DEF Calling
    <3>2. call'[d] = call[d]
      BY <1>2, <2>2
    <3>3. QED
      BY <3>1, <3>2 DEF Grows
  <2>3. QED
    BY <2>1, <2>2
<1>5. LedgerInv'
  BY <1>3, <1>4, LedgerStays DEF ToolInv, Stored
<1>6. DraftInv'
  <2>1. ASSUME NEW d \in Calls, call'[d].req # None, call'[d].req.tool = "sendDraft"
        PROVE  draft'.tokens > 0 /\ (call'[d].accepted > 0 => posted' > 0)
    <3>1. call'[d].req = call[d].req
      BY <1>4 DEF Grows
    <3>2. draft.tokens > 0 /\ (call[d].accepted > 0 => posted > 0)
      BY <2>1, <3>1 DEF ToolInv, DraftInv
    <3>3. CASE d = c
      BY <1>1, <1>2, <2>1, <3>2, <3>3
    <3>4. CASE d # c
      BY <1>1, <1>2, <3>2, <3>4
    <3>5. QED
      BY <3>3, <3>4
  <2>2. QED
    BY <2>1 DEF DraftInv
<1>7. QED
  BY <1>3, <1>5, <1>6 DEF ToolInv

(* It does so and nothing but a failure is counted. *)
LEMMA OnlyCall ==
  ASSUME ToolInv, NEW c \in Calls, NEW q, call' = [call EXCEPT ![c] = q], CallOK(q),
         Grows(call[c], q), q.answer = call[c].answer \/ AnswerKept(q),
         q.accepted = call[c].accepted,
         UNCHANGED <<ledger, epoch, draft, posted, deaths>>,
         failures' \in {failures, failures + 1}
  PROVE  ToolInv'
<1>1. Stored' /\ draft.tokens <= draft'.tokens /\ posted <= posted'
  BY DEF ToolInv, Stored
<1>2. SentIsPosted'
  BY DEF ToolInv, DraftInv, SentIsPosted
<1>3. q.req # None /\ q.req.tool = "sendDraft" /\ q.accepted > 0 => posted' > 0
  BY DEF ToolInv, DraftInv, Grows
<1>4. QED
  BY <1>1, <1>2, <1>3, OneCall

LEMMA AtCall ==
  ASSUME ToolInv, NEW c \in Calls
  PROVE  /\ CallOK(call[c]) /\ call[c] \in Calling /\ call[c].accepted \in Nat
         /\ call[c].epoch \in Nat /\ call \in [Calls -> Calling]
         /\ call[c].at # "notMade" => call[c].req # None /\ call[c].req \in Requests
BY CallFacts DEF ToolInv, CallsInv, CallOK, Named

LEMMA EndedFacts ==
  ASSUME NEW q \in Calling, NEW r \in Answers, q.at \in {"run", "wait", "update", "mark"}
  PROVE  /\ Grows(q, Ended(q, r)) /\ Ended(q, r).accepted = q.accepted
         /\ Ended(q, r).answer \in {None, Ended(q, r).response} /\ Ended(q, r).response = r
         /\ Ended(q, r).req = q.req
<1> DEFINE p == Ended(q, r)
<1>1. /\ p.req = q.req /\ p.epoch = q.epoch /\ p.accepted = q.accepted /\ q.accepted \in Nat
      /\ p.answer \in {None, p.response} /\ p.response = r
  BY DEF Ended, Calling
<1>2. q.at \in Executing
  BY DEF Executing
<1> HIDE DEF p
<1>3. QED
  BY <1>1, <1>2 DEF Grows, Busy, p

LEMMA RespondsIsEnded ==
  ASSUME NEW c \in Calls, NEW r \in Answers, call \in [Calls -> Calling], Responds(c, r)
  PROVE  call' = [call EXCEPT ![c] = Ended(call[c], r)]
BY DEF Responds, Ended, Keyed, Calling

(* What a response leaves: an answer that is kept. *)
LEMMA EndedKept ==
  ASSUME NEW q, CallOK(q), q.answer \in {None, q.response}
  PROVE  AnswerKept(q)
<1>1. None # "ok"
  BY NoneIsNothing DEF Answers
<1>2. QED
  BY <1>1 DEF CallOK, Honest, AnswerKept, Complete

LEMMA RespondsStep ==
  ASSUME ToolInv, NEW c \in Calls, NEW r \in Answers, Responds(c, r),
         call[c].at \in {"run", "wait", "update", "mark"},
         r = "ok" => call[c].at \in {"update", "mark"},
         call[c].req.tool = "sendMessage" /\ call[c].acked > 0 => r = "outcome_unknown",
         UNCHANGED <<ledger, epoch, draft, posted, deaths>>,
         failures' \in {failures, failures + 1}
  PROVE  ToolInv'
<1> DEFINE q == Ended(call[c], r)
<1>1. call' = [call EXCEPT ![c] = q] /\ CallOK(call[c]) /\ call[c] \in Calling
  BY AtCall, RespondsIsEnded
<1>2. CallOK(q)
  BY <1>1, EndedOK
<1>3. /\ Grows(call[c], q) /\ q.accepted = call[c].accepted
      /\ q.answer \in {None, q.response}
  BY <1>1, EndedFacts
<1>4. AnswerKept(q)
  BY <1>2, <1>3, EndedKept
<1> HIDE DEF q
<1>5. QED
  BY <1>1, <1>2, <1>3, <1>4, OnlyCall
(* Who holds a key is made. *)
LEMMA NotMadeFacts ==
  ASSUME ToolInv, NEW c \in Calls, Holds(c)
  PROVE  call[c].req # None /\ call[c].req \in Requests
<1>1. CallOK(call[c])
  BY AtCall
<1>2. call[c].at # "notMade"
  <2>1. "notMade" \notin Executing
    BY DEF Executing
  <2>2. QED
    BY <1>1, <2>1 DEF Holds, Busy, CallOK, Counts
<1>3. QED
  BY <1>2, AtCall

(* A call goes to another place. *)
LEMMA GoesStep ==
  ASSUME ToolInv, NEW c \in Calls, NEW to \in Places, Goes(c, to),
         \/ call[c].at = "claim" /\ to = "look"
         \/ call[c].at = "run" /\ to = "update" /\ ~Sends(call[c]),
         UNCHANGED <<ledger, epoch, draft, posted, failures, deaths>>
  PROVE  ToolInv'
<1> DEFINE p == call[c]
           q == [p EXCEPT !.at = to]
<1>1. CallOK(p) /\ p \in Calling /\ call \in [Calls -> Calling] /\ p.at # "notMade"
  BY AtCall
<1>2. call' = [call EXCEPT ![c] = q]
  BY <1>1 DEF Goes
<1>3. CallOK(q)
  BY <1>1, MovesOK
<1>4. /\ q.req = p.req /\ q.epoch = p.epoch /\ q.accepted = p.accepted /\ q.answer = p.answer
      /\ q.at = to /\ p.accepted \in Nat
  BY <1>1 DEF Calling
<1>5. to \in Executing => p.at \in Executing
  BY DEF Executing
<1> HIDE DEF p, q
<1>6. Grows(p, q)
  BY <1>4, <1>5 DEF Grows, Busy
<1>7. failures' \in {failures, failures + 1}
  OBVIOUS
<1>8. QED
  BY <1>2, <1>3, <1>4, <1>6, <1>7, OnlyCall DEF p

(* A call is answered without an execution, or with its response. *)
LEMMA AnsweredStep ==
  ASSUME ToolInv, NEW c \in Calls, NEW a \in Answers, Answered(c, a),
         \/ call[c].at \in {"claim", "look"}
         \/ call[c].at = "store" /\ a \in {call[c].response, "outcome_unknown"},
         a = "ok" /\ Sends(call[c]) =>
           Complete(call[c]) \/ \E d \in Calls : call[d].req = call[c].req /\ Complete(call[d]),
         UNCHANGED <<ledger, epoch, draft, posted, deaths>>,
         failures' \in {failures, failures + 1}
  PROVE  ToolInv'
<1> DEFINE p == call[c]
           q == [p EXCEPT !.at = "done", !.answer = a]
<1>1. CallOK(p) /\ p \in Calling /\ call \in [Calls -> Calling]
  BY AtCall
<1>2. call' = [call EXCEPT ![c] = q]
  BY <1>1 DEF Answered
<1>3. CallOK(q)
  BY <1>1, AnsweredOK
<1>4. /\ q.req = p.req /\ q.epoch = p.epoch /\ q.accepted = p.accepted /\ q.answer = a
      /\ q.at = "done" /\ p.accepted \in Nat
  BY <1>1 DEF Calling
<1> HIDE DEF q
<1>5. "done" \notin Executing
  BY DEF Executing
<1>6. Grows(p, q)
  BY <1>4, <1>5 DEF Grows, Busy
<1>7. AnswerKept(q)
  BY <1>4 DEF AnswerKept, Sends, Complete
<1>8. QED
  BY <1>2, <1>3, <1>4, <1>6, <1>7, OnlyCall

LEMMA BeginStep ==
  ASSUME ToolInv, NEW c \in Calls, Begin(c)
  PROVE  ToolInv'
<1>1. PICK req \in Requests :
        /\ req.tool = "sendDraft" => draft.tokens > 0
        /\ call' = [call EXCEPT ![c].req = req,
                                ![c].at = IF req.key = None THEN "run" ELSE "claim"]
  BY DEF Begin
<1> DEFINE p == call[c]
           to == IF req.key = None THEN "run" ELSE "claim"
           q == [p EXCEPT !.req = req, !.at = to]
<1>2. CallOK(p) /\ p \in Calling /\ call \in [Calls -> Calling] /\ p.at = "notMade"
  BY AtCall DEF Begin
<1>3. /\ UNCHANGED <<ledger, epoch, draft, posted, failures, deaths>>
      /\ call' = [call EXCEPT ![c] = q]
  BY <1>1, <1>2 DEF Begin, Others
<1>4. CallOK(q)
  BY <1>2, MadeOK
<1>5. p.req = None /\ p.accepted = 0 /\ p.answer = None
  BY <1>2 DEF CallOK, Named, Counts, Honest
<1>6. /\ q.req = req /\ q.accepted = 0 /\ q.answer = None /\ q.at = to /\ q \in Calling
  BY <1>2, <1>4, <1>5 DEF Calling, CallOK
<1>7. to = "claim" \/ req.key = None
  OBVIOUS
<1>8. None \notin Requests /\ None # "ok" /\ "claim" \notin Executing
  BY NoneIsNothing DEF Answers, Executing
<1> HIDE DEF q, to, p
<1>9. /\ call' \in [Calls -> Calling] /\ call'[c] = q
      /\ \A d \in Calls : d # c => call'[d] = call[d]
  BY <1>2, <1>3, <1>6
<1>10. CallsInv'
  <2>1. \A d \in Calls : CallOK(call'[d])
    BY <1>4, <1>9 DEF ToolInv, CallsInv
  <2>2. QED
    BY <1>9, <2>1 DEF CallsInv
<1>11. ~Holds(c)' /\ \A d \in Calls : d # c => Holds(d)' = Holds(d) /\ Slot(d)' = Slot(d)
  <2>1. ~Holds(c)'
    BY <1>6, <1>7, <1>8, <1>9 DEF Holds, Keyed, Busy
  <2>2. ASSUME NEW d \in Calls, d # c PROVE Holds(d)' = Holds(d) /\ Slot(d)' = Slot(d)
    BY <1>9, <2>2 DEF Holds, Keyed, Slot
  <2>3. QED
    BY <2>1, <2>2
<1>12. OwnerInv'
  <2> SUFFICES ASSUME NEW s \in Slots, ledger[s] # None
               PROVE  LET o == call'[ledger[s].owner] IN
                        /\ o.req # None /\ <<o.req.tool, o.req.key>> = s
                        /\ o.req.parts = ledger[s].parts
                        /\ ledger[s].response = "ok" /\ Sends(o) => Complete(o)
    BY <1>3 DEF OwnerInv
  <2>1. ledger[s].owner \in Calls
    BY DEF ToolInv, Stored, Entries
  <2>2. call[ledger[s].owner].req # None
    BY DEF ToolInv, LedgerInv, OwnerInv
  <2>3. ledger[s].owner # c
    BY <1>5, <2>2 DEF p
  <2>4. call'[ledger[s].owner] = call[ledger[s].owner]
    BY <1>9, <2>1, <2>3
  <2>5. QED
    BY <2>4 DEF ToolInv, LedgerInv, OwnerInv
<1>13. HolderInv'
  <2> SUFFICES ASSUME NEW d \in Calls, Holds(d)'
               PROVE  /\ call'[d].epoch <= epoch[Slot(d)']
                      /\ call'[d].epoch = epoch[Slot(d)'] =>
                           ledger[Slot(d)'] # None /\ ledger[Slot(d)'].owner = d
                      /\ call'[d].at \in Executing => call'[d].epoch = epoch[Slot(d)']
    BY <1>3 DEF HolderInv
  <2>1. QED
    BY <1>9, <1>11 DEF ToolInv, LedgerInv, HolderInv
<1>14. OneHolder'
  BY <1>9, <1>11 DEF ToolInv, LedgerInv, OneHolder
<1>15. OkInv'
  <2> SUFFICES ASSUME NEW d \in Calls, call'[d].req # None, call'[d].answer = "ok",
                      Sends(call'[d])
               PROVE  \E e \in Calls : call'[e].req = call'[d].req /\ Complete(call'[e])
    BY DEF OkInv
  <2>1. d # c
    BY <1>6, <1>8, <1>9
  <2>2. PICK e \in Calls : call[e].req = call[d].req /\ Complete(call[e])
    BY <1>9, <2>1 DEF ToolInv, LedgerInv, OkInv
  <2>3. e # c
    BY <1>5, <1>9, <2>1, <2>2 DEF p
  <2>4. QED
    BY <1>9, <2>1, <2>2, <2>3
<1>16. DraftInv'
  <2>1. ASSUME NEW d \in Calls, call'[d].req # None, call'[d].req.tool = "sendDraft"
        PROVE  draft.tokens > 0 /\ (call'[d].accepted > 0 => posted > 0)
    <3>1. CASE d = c
      <4>1. call'[d].req = req /\ call'[d].accepted = 0
        BY <1>6, <1>9, <3>1
      <4>2. QED
        BY <1>1, <2>1, <4>1
    <3>2. CASE d # c
      <4>1. call'[d] = call[d]
        BY <1>9, <3>2
      <4>2. QED
        BY <2>1, <4>1 DEF ToolInv, DraftInv
    <3>3. QED
      BY <3>1, <3>2
  <2>2. QED
    BY <1>3, <2>1 DEF ToolInv, DraftInv, SentIsPosted
<1>17. Stored'
  BY <1>3 DEF ToolInv, Stored
<1>18. QED
  BY <1>10, <1>12, <1>13, <1>14, <1>15, <1>16, <1>17 DEF ToolInv, LedgerInv
(* The first call of a key writes its entry: whoever wrote one before did  *)
(* so in an earlier life of the key.                                       *)
LEMMA ClaimStep ==
  ASSUME ToolInv, NEW c \in Calls, Claim(c)
  PROVE  ToolInv'
<1> DEFINE p == call[c]
           s == Slot(c)
           q == [p EXCEPT !.at = "run", !.epoch = epoch[s]]
<1>1. /\ CallOK(p) /\ p \in Calling /\ call \in [Calls -> Calling] /\ p.at = "claim"
      /\ UNCHANGED <<epoch, draft, posted, failures, deaths>>
  BY AtCall DEF Claim, Others
<1>2. p.req # None /\ p.req \in Requests /\ p.req.key # None /\ p.accepted = 0
  BY <1>1 DEF CallOK, Named, Counts, Calling
<1>3. s \in Slots
  BY <1>2, SlotIsSlot DEF ToolInv, Keyed
<1>4. CASE ledger[s] # None
  <2>1. Goes(c, "look") /\ UNCHANGED ledger
    BY <1>4 DEF Claim
  <2>2. "look" \in Places
    BY DEF Places
  <2>3. QED
    BY <1>1, <2>1, <2>2, GoesStep
<1>5. CASE ledger[s] = None
  <2>1. ledger' = [ledger EXCEPT ![s] = Pending(c)] /\ call' = [call EXCEPT ![c] = q]
    <3>1. /\ ledger' = [ledger EXCEPT ![s] = Pending(c)]
          /\ call' = [call EXCEPT ![c].at = "run", ![c].epoch = epoch[s]]
      BY <1>5 DEF Claim
    <3>2. QED
      BY <1>1, <3>1
  <2>2. /\ ledger \in [Slots -> {None} \cup Entries] /\ epoch \in [Slots -> Nat]
        /\ epoch[s] \in Nat
    BY <1>3, ToolBounds DEF ToolInv, Stored
  <2>3. CallOK(q)
    BY <1>1, <2>2, ClaimedOK
  <2>4. /\ q \in Calling /\ q.at = "run" /\ q.req = p.req /\ q.epoch = epoch[s]
        /\ q.accepted = 0 /\ q.answer = p.answer
    BY <1>1, <1>2, <2>3 DEF CallOK, Calling
  <2>5. /\ Pending(c) \in Entries /\ Pending(c).owner = c /\ Pending(c).response = None
        /\ Pending(c).parts = p.req.parts
    <3>1. p.req.parts \in 1 .. 2
      BY <1>2, RequestFacts
    <3>2. QED
      BY <3>1 DEF Pending, Entries
  <2>6. None \notin Entries /\ None # "ok" /\ "run" \in Executing /\ "claim" \notin Executing
    BY NoneIsNothing DEF Answers, Executing
  <2>7. s = <<p.req.tool, p.req.key>>
    BY DEF Slot
  <2> HIDE DEF q
  <2>8. /\ call' \in [Calls -> Calling] /\ call'[c] = q
        /\ \A d \in Calls : d # c => call'[d] = call[d]
    BY <1>1, <2>1, <2>4
  <2>9. /\ ledger' \in [Slots -> {None} \cup Entries] /\ ledger'[s] = Pending(c)
        /\ \A t \in Slots : t # s => ledger'[t] = ledger[t]
    BY <1>3, <2>1, <2>2, <2>5
  <2>10. \A d \in Calls : /\ call'[d].req = call[d].req /\ Slot(d)' = Slot(d)
                          /\ call'[d].accepted = call[d].accepted
                          /\ call'[d].answer = call[d].answer
                          /\ d # c => Holds(d)' = Holds(d)
    <3> SUFFICES ASSUME NEW d \in Calls
                 PROVE  /\ call'[d].req = call[d].req /\ Slot(d)' = Slot(d)
                        /\ call'[d].accepted = call[d].accepted
                        /\ call'[d].answer = call[d].answer
                        /\ d # c => Holds(d)' = Holds(d)
      OBVIOUS
    <3>1. CASE d = c
      BY <1>2, <2>4, <2>8, <3>1 DEF Slot
    <3>2. CASE d # c
      BY <2>8, <3>2 DEF Slot, Holds, Keyed
    <3>3. QED
      BY <3>1, <3>2
  <2> HIDE DEF s, p
  <2>11. CallsInv'
    <3>1. \A d \in Calls : CallOK(call'[d])
      BY <2>3, <2>8 DEF ToolInv, CallsInv
    <3>2. QED
      BY <2>8, <3>1 DEF CallsInv
  <2>12. OwnerInv'
    <3> SUFFICES ASSUME NEW t \in Slots, ledger'[t] # None
                 PROVE  LET o == call'[ledger'[t].owner] IN
                          /\ o.req # None /\ <<o.req.tool, o.req.key>> = t
                          /\ o.req.parts = ledger'[t].parts
                          /\ ledger'[t].response = "ok" /\ Sends(o) => Complete(o)
      BY DEF OwnerInv
    <3>1. CASE t = s
      BY <1>2, <2>4, <2>5, <2>6, <2>7, <2>8, <2>9, <3>1
    <3>2. CASE t # s
      <4>1. ledger'[t] = ledger[t] /\ ledger[t].owner \in Calls
        BY <2>2, <2>9, <3>2 DEF Entries
      <4>2. /\ call[ledger[t].owner].req # None
            /\ <<call[ledger[t].owner].req.tool, call[ledger[t].owner].req.key>> = t
            /\ call[ledger[t].owner].req.parts = ledger[t].parts
            /\ ledger[t].response = "ok" /\ Sends(call[ledger[t].owner])
                 => Complete(call[ledger[t].owner])
        BY <4>1 DEF ToolInv, LedgerInv, OwnerInv
      <4>3. ledger[t].owner # c
        BY <2>7, <3>2, <4>2 DEF p
      <4>4. call'[ledger[t].owner] = call[ledger[t].owner]
        BY <2>8, <4>1, <4>3
      <4>5. QED
        BY <4>1, <4>2, <4>4
    <3>3. QED
      BY <3>1, <3>2
  <2>13. \A d \in Calls : d # c /\ Holds(d) /\ Slot(d) = s =>
           call[d].epoch < epoch[s] /\ call[d].at \notin Executing
    <3> SUFFICES ASSUME NEW d \in Calls, d # c, Holds(d), Slot(d) = s
                 PROVE  call[d].epoch < epoch[s] /\ call[d].at \notin Executing
      OBVIOUS
    <3>1. call[d].epoch <= epoch[s] /\ call[d].epoch # epoch[s] /\ call[d].at \notin Executing
      BY <1>5 DEF ToolInv, LedgerInv, HolderInv, s
    <3>2. call[d].epoch \in Nat
      BY AtCall
    <3>3. QED
      BY <2>2, <3>1, <3>2
  <2>14. Slot(c)' = s
    BY <2>10 DEF s
  <2>15. HolderInv'
    <3> SUFFICES ASSUME NEW d \in Calls, Holds(d)'
                 PROVE  /\ call'[d].epoch <= epoch[Slot(d)']
                        /\ call'[d].epoch = epoch[Slot(d)'] =>
                             ledger'[Slot(d)'] # None /\ ledger'[Slot(d)'].owner = d
                        /\ call'[d].at \in Executing => call'[d].epoch = epoch[Slot(d)']
      BY <1>1 DEF HolderInv
    <3>1. CASE d = c
      BY <2>2, <2>4, <2>5, <2>6, <2>8, <2>9, <2>14, <3>1
    <3>2. CASE d # c
      <4>1. Holds(d) /\ call'[d] = call[d] /\ Slot(d)' = Slot(d)
        BY <2>8, <2>10, <3>2
      <4>2. CASE Slot(d) = s
        <5>1. call[d].epoch < epoch[s] /\ call[d].at \notin Executing /\ call[d].epoch \in Nat
          BY <2>13, <3>2, <4>1, <4>2, AtCall
        <5>2. QED
          BY <2>2, <4>1, <4>2, <5>1
      <4>3. CASE Slot(d) # s
        <5>1. call[d].req # None /\ Keyed(d)
          BY <4>1, NotMadeFacts DEF Holds
        <5>2. Slot(d) \in Slots
          BY <5>1, SlotIsSlot DEF ToolInv
        <5>3. ledger'[Slot(d)] = ledger[Slot(d)]
          BY <2>9, <4>3, <5>2
        <5>4. QED
          BY <4>1, <5>3 DEF ToolInv, LedgerInv, HolderInv
      <4>4. QED
        BY <4>2, <4>3
    <3>3. QED
      BY <3>1, <3>2
  <2>16. OneHolder'
    <3> SUFFICES ASSUME NEW d \in Calls, NEW e \in Calls, d # e, Holds(d)', Holds(e)',
                        Slot(d)' = Slot(e)'
                 PROVE  call'[d].epoch # call'[e].epoch
      BY DEF OneHolder
    <3>1. CASE d # c /\ e # c
      BY <2>8, <2>10, <3>1 DEF ToolInv, LedgerInv, OneHolder
    <3>2. ASSUME NEW f \in Calls, f # c, Holds(f)', Slot(f)' = Slot(c)'
          PROVE  call'[f].epoch # call'[c].epoch
      <4>1. Holds(f) /\ Slot(f) = s /\ call'[f] = call[f]
        BY <2>8, <2>10, <2>14, <3>2
      <4>2. call[f].epoch < epoch[s] /\ call[f].epoch \in Nat
        BY <2>13, <3>2, <4>1, AtCall
      <4>3. QED
        BY <2>2, <2>4, <2>8, <4>1, <4>2
    <3>3. QED
      BY <3>1, <3>2
  <2>17. OkInv'
    BY <2>10 DEF ToolInv, LedgerInv, OkInv, Sends, Complete
  <2>18. DraftInv'
    BY <1>1, <2>10 DEF ToolInv, DraftInv, SentIsPosted
  <2>19. Stored'
    BY <1>1, <2>9 DEF ToolInv, Stored
  <2>20. QED
    BY <2>11, <2>12, <2>15, <2>16, <2>17, <2>18, <2>19 DEF ToolInv, LedgerInv
<1>6. QED
  BY <1>4, <1>5
(* The response is stored over the call's own pending entry.               *)
LEMMA StoreStep ==
  ASSUME ToolInv, NEW c \in Calls, Store(c)
  PROVE  ToolInv'
<1> DEFINE p == call[c]
           s == Slot(c)
           a == p.response
           q == [p EXCEPT !.at = "done", !.answer = a]
           e == [Pending(c) EXCEPT !.response = a]
<1>1. /\ CallOK(p) /\ p \in Calling /\ call \in [Calls -> Calling] /\ p.at = "store"
      /\ UNCHANGED <<epoch, draft, posted, failures, deaths>>
      /\ ledger' = [ledger EXCEPT ![s] = e] /\ Answered(c, a)
  BY AtCall DEF Store, Others
<1>2. p.req # None /\ p.req \in Requests /\ p.req.key # None
  BY <1>1 DEF CallOK, Named, Calling
<1>3. s \in Slots /\ s = <<p.req.tool, p.req.key>>
  BY <1>2, SlotIsSlot DEF ToolInv, Keyed, Slot
<1>4. a \in Answers
  BY <1>1 DEF CallOK, Honest, Calling
<1>5. call' = [call EXCEPT ![c] = q]
  BY <1>1 DEF Answered
<1>6. CallOK(q)
  BY <1>1, <1>4, AnsweredOK
<1>7. /\ q.req = p.req /\ q.epoch = p.epoch /\ q.accepted = p.accepted /\ q.answer = a
      /\ q.at = "done" /\ q \in Calling /\ p.accepted \in Nat /\ p.epoch \in Nat
  BY <1>1, <1>6 DEF Calling, CallOK
<1>8. /\ e \in Entries /\ e.owner = c /\ e.response = a /\ e.parts = p.req.parts
  <2>1. p.req.parts \in 1 .. 2
    BY <1>2, RequestFacts
  <2>2. QED
    BY <1>4, <2>1 DEF Pending, Entries
<1>9. a = "ok" /\ Sends(p) => Complete(p)
  BY <1>1, <1>2 DEF CallOK, Honest, Complete
<1>10. None \notin Entries /\ None # "ok" /\ "done" \notin Executing /\ "store" \in Executing
  BY NoneIsNothing DEF Answers, Executing
<1>11. /\ ledger \in [Slots -> {None} \cup Entries] /\ epoch \in [Slots -> Nat]
  BY ToolBounds DEF ToolInv, Stored
<1>12. Holds(c) /\ p.epoch = epoch[s] /\ ledger[s] # None /\ ledger[s].owner = c
  <2>1. Holds(c)
    BY <1>1, <1>2, <1>10 DEF Holds, Keyed, Busy
  <2>2. QED
    BY <1>1, <1>10, <2>1 DEF ToolInv, LedgerInv, HolderInv
<1>g. Grows(p, q)
  BY <1>7, <1>10, <1>12 DEF Grows, Holds, Busy
<1> HIDE DEF q, e, s, a, p
<1>13. /\ call' \in [Calls -> Calling] /\ call'[c] = q
       /\ \A d \in Calls : d # c => call'[d] = call[d]
  BY <1>1, <1>5, <1>7
<1>14. /\ ledger' \in [Slots -> {None} \cup Entries] /\ ledger'[s] = e
       /\ \A t \in Slots : t # s => ledger'[t] = ledger[t]
  BY <1>1, <1>3, <1>8, <1>11
<1>15. ASSUME NEW d \in Calls PROVE Grows(call[d], call'[d])
  <2>1. CASE d = c
    BY <1>13, <1>g, <2>1 DEF p
  <2>2. CASE d # c
    <3>1. call[d].accepted \in Nat /\ call'[d] = call[d]
      BY <1>13, <2>2, AtCall
    <3>2. QED
      BY <3>1 DEF Grows
  <2>3. QED
    BY <2>1, <2>2
<1>16. CallsInv'
  <2>1. \A d \in Calls : CallOK(call'[d])
    BY <1>6, <1>13 DEF ToolInv, CallsInv
  <2>2. QED
    BY <1>13, <2>1 DEF CallsInv
<1>17. \A d \in Calls : call'[d].req = call[d].req /\ call'[d].accepted = call[d].accepted
                        /\ call'[d].epoch = call[d].epoch
  BY <1>7, <1>13 DEF p
<1>18. \A d \in Calls : Holds(d)' => Holds(d) /\ Slot(d)' = Slot(d)
                                     /\ (call'[d].at \in Executing => call[d].at \in Executing)
  BY <1>15, HoldsStays DEF ToolInv
<1>19. OwnerInv'
  <2> SUFFICES ASSUME NEW t \in Slots, ledger'[t] # None
               PROVE  LET o == call'[ledger'[t].owner] IN
                        /\ o.req # None /\ <<o.req.tool, o.req.key>> = t
                        /\ o.req.parts = ledger'[t].parts
                        /\ ledger'[t].response = "ok" /\ Sends(o) => Complete(o)
    BY DEF OwnerInv
  <2>1. CASE t = s
    <3>1. ledger'[t] = e /\ call'[ledger'[t].owner] = q
      BY <1>8, <1>13, <1>14, <2>1
    <3>2. e.response = "ok" /\ Sends(q) => Complete(q)
      BY <1>7, <1>8, <1>9 DEF Sends, Complete
    <3>3. QED
      BY <1>2, <1>3, <1>7, <1>8, <2>1, <3>1, <3>2
  <2>2. CASE t # s
    <3>1. ledger'[t] = ledger[t] /\ ledger[t].owner \in Calls
      BY <1>11, <1>14, <2>2 DEF Entries
    <3> DEFINE o == ledger[t].owner
    <3>2. /\ call[o].req # None /\ <<call[o].req.tool, call[o].req.key>> = t
          /\ call[o].req.parts = ledger[t].parts
          /\ ledger[t].response = "ok" /\ Sends(call[o]) => Complete(call[o])
      BY <3>1 DEF ToolInv, LedgerInv, OwnerInv
    <3> HIDE DEF o
    <3>3. call'[o].req = call[o].req /\ call'[o].accepted = call[o].accepted
      BY <1>17, <3>1 DEF o
    <3>4. QED
      BY <3>1, <3>2, <3>3 DEF Sends, Complete, o
  <2>3. QED
    BY <2>1, <2>2
<1>20. HolderInv'
  <2> SUFFICES ASSUME NEW d \in Calls, Holds(d)'
               PROVE  /\ call'[d].epoch <= epoch[Slot(d)']
                      /\ call'[d].epoch = epoch[Slot(d)'] =>
                           ledger'[Slot(d)'] # None /\ ledger'[Slot(d)'].owner = d
                      /\ call'[d].at \in Executing => call'[d].epoch = epoch[Slot(d)']
    BY <1>1 DEF HolderInv
  <2>1. /\ Holds(d) /\ Slot(d)' = Slot(d) /\ call'[d].epoch = call[d].epoch
        /\ call'[d].at \in Executing => call[d].at \in Executing
    BY <1>17, <1>18
  <2>2. /\ call[d].epoch <= epoch[Slot(d)]
        /\ call[d].epoch = epoch[Slot(d)] =>
             ledger[Slot(d)] # None /\ ledger[Slot(d)].owner = d
        /\ call[d].at \in Executing => call[d].epoch = epoch[Slot(d)]
    BY <2>1 DEF ToolInv, LedgerInv, HolderInv
  <2>3. Slot(d) \in Slots
    BY <2>1, NotMadeFacts, SlotIsSlot DEF ToolInv, Holds
  <2>4. CASE Slot(d) = s
    BY <1>8, <1>10, <1>12, <1>14, <2>1, <2>2, <2>4
  <2>5. CASE Slot(d) # s
    BY <1>14, <2>1, <2>2, <2>3, <2>5
  <2>6. QED
    BY <2>4, <2>5
<1>21. OneHolder'
  BY <1>17, <1>18 DEF ToolInv, LedgerInv, OneHolder
<1>22. OkInv'
  <2> SUFFICES ASSUME NEW d \in Calls, call'[d].req # None, call'[d].answer = "ok",
                      Sends(call'[d])
               PROVE  \E f \in Calls : call'[f].req = call'[d].req /\ Complete(call'[f])
    BY DEF OkInv
  <2>1. CASE d = c
    BY <1>7, <1>9, <1>13, <1>17, <2>1 DEF Sends, Complete, p
  <2>2. CASE d # c
    <3>1. PICK f \in Calls : call[f].req = call[d].req /\ Complete(call[f])
      BY <1>13, <2>2 DEF ToolInv, LedgerInv, OkInv
    <3>2. QED
      BY <1>17, <3>1 DEF Complete
  <2>3. QED
    BY <2>1, <2>2
<1>23. DraftInv'
  BY <1>1, <1>17 DEF ToolInv, DraftInv, SentIsPosted
<1>24. Stored'
  BY <1>1, <1>14 DEF ToolInv, Stored
<1>25. QED
  BY <1>16, <1>19, <1>20, <1>21, <1>22, <1>23, <1>24 DEF ToolInv, LedgerInv

(* A key outlives its day: who held it holds what is past.                 *)
LEMMA ExpireStep ==
  ASSUME ToolInv, NEW s \in Slots, Expire(s)
  PROVE  ToolInv'
<1>1. /\ ledger' = [ledger EXCEPT ![s] = None] /\ epoch' = [epoch EXCEPT ![s] = @ + 1]
      /\ UNCHANGED <<call, draft, posted, failures, deaths>> /\ epoch[s] < MaxExpiries
      /\ ledger \in [Slots -> {None} \cup Entries] /\ epoch \in [Slots -> 0 .. MaxExpiries]
      /\ MaxExpiries \in Nat
  BY ToolBounds DEF Expire, ToolInv, Stored
<1>2. epoch[s] \in 0 .. MaxExpiries /\ epoch[s] + 1 \in 0 .. MaxExpiries
  BY <1>1
<1>3. /\ ledger' \in [Slots -> {None} \cup Entries] /\ epoch' \in [Slots -> 0 .. MaxExpiries]
      /\ ledger'[s] = None /\ epoch'[s] = epoch[s] + 1
      /\ \A t \in Slots : t # s => ledger'[t] = ledger[t] /\ epoch'[t] = epoch[t]
  BY <1>1, <1>2
<1>4. OwnerInv'
  <2>1. \A t \in Slots : ledger'[t] # None => t # s /\ ledger'[t] = ledger[t]
    BY <1>3
  <2>2. QED
    BY <1>1, <2>1 DEF ToolInv, LedgerInv, OwnerInv
<1>5. HolderInv'
  <2> SUFFICES ASSUME NEW d \in Calls, Holds(d)
               PROVE  /\ call[d].epoch <= epoch'[Slot(d)]
                      /\ call[d].epoch = epoch'[Slot(d)] =>
                           ledger'[Slot(d)] # None /\ ledger'[Slot(d)].owner = d
                      /\ call[d].at \in Executing => call[d].epoch = epoch'[Slot(d)]
    BY <1>1 DEF HolderInv, Holds, Keyed, Slot
  <2>1. /\ call[d].epoch <= epoch[Slot(d)] /\ call[d].epoch \in Nat
        /\ call[d].epoch = epoch[Slot(d)] =>
             ledger[Slot(d)] # None /\ ledger[Slot(d)].owner = d
        /\ call[d].at \in Executing => call[d].epoch = epoch[Slot(d)]
    BY AtCall DEF ToolInv, LedgerInv, HolderInv
  <2>2. Slot(d) \in Slots
    BY NotMadeFacts, SlotIsSlot DEF ToolInv, Holds
  <2>3. CASE Slot(d) = s
    <3>1. call[d].at \notin Executing
      BY <2>3 DEF Expire, Running, Executing, Holds
    <3>2. QED
      BY <1>2, <1>3, <2>1, <2>3, <3>1
  <2>4. CASE Slot(d) # s
    BY <1>3, <2>1, <2>2, <2>4
  <2>5. QED
    BY <2>3, <2>4
<1>6. OneHolder' /\ OkInv' /\ DraftInv' /\ CallsInv'
  BY <1>1 DEF ToolInv, LedgerInv, OneHolder, OkInv, DraftInv, SentIsPosted, CallsInv, Holds,
              Keyed, Slot
<1>7. Stored'
  BY <1>1, <1>3 DEF ToolInv, Stored
<1>8. QED
  BY <1>4, <1>5, <1>6, <1>7 DEF ToolInv, LedgerInv

LEMMA DieStep ==
  ASSUME ToolInv, Die
  PROVE  ToolInv'
<1>1. /\ call' = [c \in Calls |-> IF Running(c) THEN [call[c] EXCEPT !.at = "dead"] ELSE call[c]]
      /\ deaths' = deaths + 1 /\ UNCHANGED <<ledger, epoch, draft, posted, failures>>
  BY DEF Die
<1>2. ASSUME NEW c \in Calls
      PROVE  /\ call'[c] \in Calling /\ CallOK(call'[c]) /\ Grows(call[c], call'[c])
             /\ call'[c].answer = call[c].answer /\ call'[c].accepted = call[c].accepted
  <2> DEFINE p == call[c]
             q == [p EXCEPT !.at = "dead"]
  <2>1. CallOK(p) /\ p \in Calling /\ p.accepted \in Nat
    BY AtCall
  <2>2. CASE Running(c)
    <3>1. call'[c] = q /\ p.at # "notMade" /\ "dead" \in Places /\ "dead" \notin Executing
      BY <1>1, <2>2 DEF Running, Places, Executing
    <3>2. CallOK(q)
      BY <2>1, <3>1, MovesOK
    <3>3. /\ q.req = p.req /\ q.epoch = p.epoch /\ q.accepted = p.accepted
          /\ q.answer = p.answer /\ q.at = "dead"
      BY <2>1 DEF Calling
    <3> HIDE DEF q
    <3>4. QED
      BY <2>1, <3>1, <3>2, <3>3 DEF CallOK, Grows, Busy
  <2>3. CASE ~Running(c)
    <3>1. call'[c] = p
      BY <1>1, <2>3
    <3>2. QED
      BY <2>1, <3>1 DEF Grows
  <2>4. QED
    BY <2>2, <2>3
<1>3. call' \in [Calls -> Calling]
  <2>1. call' = [c \in Calls |-> call'[c]]
    BY <1>1
  <2>2. QED
    BY <1>2, <2>1
<1>4. CallsInv'
  BY <1>2, <1>3 DEF CallsInv
<1>5. LedgerInv'
  BY <1>1, <1>2, <1>4, LedgerStays DEF ToolInv, Stored
<1>6. DraftInv'
  BY <1>1, <1>2 DEF ToolInv, DraftInv, SentIsPosted, Grows
<1>7. Stored'
  BY <1>1 DEF ToolInv, Stored
<1>8. QED
  BY <1>4, <1>5, <1>6, <1>7 DEF ToolInv
LEMMA FailureIsAnswer ==
  ASSUME NEW c \in Calls, NEW code \in {"provider_error", "outcome_unknown"}
  PROVE  /\ Failure(c, code) \in Answers /\ Failure(c, code) # "ok"
         /\ call[c].req.tool = "sendMessage" /\ call[c].acked > 0 =>
              Failure(c, code) = "outcome_unknown"
BY DEF Failure, Answers, Errors

(* The posts of a call. *)
LEMMA PostStep ==
  ASSUME ToolInv, NEW c \in Calls,
         PostAccepted(c) \/ PostRefused(c) \/ NotApproved(c) \/ PostAnswered(c)
           \/ PostUnanswered(c)
  PROVE  ToolInv'
<1>0. CallOK(call[c]) /\ call[c] \in Calling /\ call \in [Calls -> Calling]
      /\ call[c].accepted \in Nat /\ posted \in Nat
  BY AtCall DEF ToolInv, Stored
<1>1. CASE PostAccepted(c)
  <2> DEFINE p == call[c]
             q == [p EXCEPT !.at = "wait", !.accepted = @ + 1]
  <2>1. /\ p.at = "run" /\ Sends(p) /\ UNCHANGED <<ledger, epoch, draft, failures, deaths>>
        /\ posted' = IF p.req.tool = "sendDraft" THEN posted + 1 ELSE posted
    BY <1>1 DEF PostAccepted, Posts, Sends, Others
  <2>2. call' = [call EXCEPT ![c] = q]
    BY <1>0, <1>1 DEF PostAccepted
  <2>3. CallOK(q)
    BY <1>0, <2>1, AcceptedOK
  <2>4. /\ q.at = "wait" /\ q.req = p.req /\ q.epoch = p.epoch /\ q.answer = p.answer
        /\ q.accepted = p.accepted + 1
    BY <1>0 DEF Calling
  <2>5. Grows(p, q)
    <3>1. p.at \in Executing /\ p.accepted <= p.accepted + 1
      BY <1>0, <2>1 DEF Executing
    <3> HIDE DEF p, q
    <3>2. QED
      BY <2>4, <3>1 DEF Grows, Busy
  <2>6. /\ posted' \in Nat /\ posted <= posted'
        /\ p.req.tool = "sendDraft" => posted' > 0
    BY <1>0, <2>1
  <2>7. Stored' /\ draft.tokens <= draft'.tokens
    BY <2>1, <2>6 DEF ToolInv, Stored
  <2>8. SentIsPosted'
    BY <1>0, <2>1, <2>6 DEF ToolInv, DraftInv, SentIsPosted
  <2> HIDE DEF q
  <2>9. QED
    BY <2>1, <2>2, <2>3, <2>4, <2>5, <2>6, <2>7, <2>8, OneCall
<1>2. CASE PostRefused(c)
  <2> DEFINE r == Failure(c, "provider_error")
  <2>1. /\ r \in Answers /\ r # "ok"
        /\ call[c].req.tool = "sendMessage" /\ call[c].acked > 0 => r = "outcome_unknown"
    BY FailureIsAnswer
  <2>2. /\ call[c].at = "run" /\ Responds(c, r)
        /\ UNCHANGED <<ledger, epoch, draft, posted, failures, deaths>>
    BY <1>2 DEF PostRefused, Others
  <2> HIDE DEF r
  <2>3. QED
    BY <2>1, <2>2, RespondsStep
<1>3. CASE NotApproved(c)
  <2>1. /\ call[c].at = "run" /\ Responds(c, "invalid_request")
        /\ call[c].req.tool = "sendDraft"
        /\ UNCHANGED <<ledger, epoch, draft, posted, failures, deaths>>
    BY <1>3 DEF NotApproved, MayPost, Others
  <2>2. "invalid_request" \in Answers
    BY DEF Answers, Errors
  <2>3. QED
    BY <2>1, <2>2, RespondsStep
<1>4. CASE PostAnswered(c)
  <2> DEFINE q == AfterAnswer(c)
  <2>1. /\ call[c].at = "wait" /\ call' = [call EXCEPT ![c] = q]
        /\ UNCHANGED <<ledger, epoch, draft, posted, failures, deaths>>
    BY <1>4 DEF PostAnswered, Others
  <2>2. /\ CallOK(q) /\ q.req = call[c].req /\ q.epoch = call[c].epoch
        /\ q.accepted = call[c].accepted
    BY <1>0, <2>1, SeenOK
  <2>3. q.answer \in {None, q.response}
    BY <1>0 DEF AfterAnswer, Calling
  <2> HIDE DEF q
  <2>4. AnswerKept(q)
    BY <2>2, <2>3, EndedKept
  <2>5. Grows(call[c], q)
    BY <1>0, <2>1, <2>2 DEF Grows, Busy, Executing
  <2>6. failures' \in {failures, failures + 1}
    BY <2>1
  <2>7. QED
    BY <2>1, <2>2, <2>4, <2>5, <2>6, OnlyCall
<1>5. CASE PostUnanswered(c)
  <2>1. PICK code \in {"provider_error", "outcome_unknown"} : Responds(c, Failure(c, code))
    BY <1>5 DEF PostUnanswered
  <2> DEFINE r == Failure(c, code)
  <2>2. /\ r \in Answers /\ r # "ok"
        /\ call[c].req.tool = "sendMessage" /\ call[c].acked > 0 => r = "outcome_unknown"
    BY FailureIsAnswer
  <2>3. /\ call[c].at = "wait" /\ Responds(c, r) /\ failures' \in {failures, failures + 1}
        /\ UNCHANGED <<ledger, epoch, draft, posted, deaths>>
    BY <1>5, <2>1 DEF PostUnanswered
  <2> HIDE DEF r
  <2>4. QED
    BY <2>2, <2>3, RespondsStep
<1>6. QED
  BY <1>1, <1>2, <1>3, <1>4, <1>5

(* The draft's queries. *)
LEMMA DraftStep ==
  ASSUME ToolInv, NEW c \in Calls,
         ApproveReads(c) \/ ApproveUpdates(c) \/ MarkAsSent(c) \/ QueryFails(c)
  PROVE  ToolInv'
<1>0. /\ CallOK(call[c]) /\ call[c] \in Calling /\ call \in [Calls -> Calling]
      /\ call[c].accepted \in Nat /\ draft.tokens \in Nat
      /\ draft \in [status : {"DRAFT", "APPROVED", "SENT"}, tokens : Nat] /\ posted \in Nat
      /\ {"ok", "provider_error"} \subseteq Answers
  BY AtCall DEF ToolInv, Stored, Answers, Errors
<1>1. call[c].at = "update" => ~Sends(call[c]) /\ call[c].req # None
                               /\ call[c].req.tool # "sendMessage"
  BY <1>0, AtCall DEF CallOK, Counts, Sends
<1>2. call[c].at = "mark" => /\ call[c].req # None /\ call[c].req \in Requests
                             /\ call[c].req.tool = "sendDraft"
                             /\ call[c].accepted = call[c].req.parts
  BY <1>0, AtCall DEF CallOK, Counts
<1>3. CASE ApproveReads(c) /\ draft.status = "DRAFT"
  <2>1. /\ call[c].at = "run" /\ ~Sends(call[c]) /\ Goes(c, "update") /\ "update" \in Places
        /\ UNCHANGED <<ledger, epoch, draft, posted, failures, deaths>>
    BY <1>3 DEF ApproveReads, Sends, Places, Executing, Others
  <2>2. QED
    BY <2>1, GoesStep
<1>4. CASE ApproveReads(c) /\ draft.status # "DRAFT"
  <2>1. /\ call[c].at = "run" /\ call[c].req.tool # "sendMessage"
        /\ Responds(c, "provider_error")
        /\ UNCHANGED <<ledger, epoch, draft, posted, failures, deaths>>
    BY <1>4 DEF ApproveReads, Others
  <2>2. QED
    BY <1>0, <2>1, RespondsStep
<1>5. CASE QueryFails(c)
  <2>1. /\ call[c].at \in {"update", "mark"} /\ Responds(c, "provider_error")
        /\ UNCHANGED <<ledger, epoch, draft, posted, deaths>>
        /\ failures' \in {failures, failures + 1}
    BY <1>5 DEF QueryFails
  <2>2. call[c].req.tool # "sendMessage"
    BY <1>1, <1>2, <2>1
  <2>3. QED
    BY <1>0, <2>1, <2>2, RespondsStep
<1>6. CASE ApproveUpdates(c) \/ MarkAsSent(c)
  <2> DEFINE q == Ended(call[c], "ok")
  <2>1. /\ call[c].at \in {"update", "mark"} /\ Responds(c, "ok")
        /\ UNCHANGED <<ledger, epoch, posted, failures, deaths>>
        /\ \/ draft' = [status |-> "APPROVED", tokens |-> draft.tokens + 1]
           \/ call[c].at = "mark" /\ draft' = [draft EXCEPT !.status = "SENT"]
    BY <1>6 DEF ApproveUpdates, MarkAsSent, Others
  <2>2. call' = [call EXCEPT ![c] = q]
    BY <1>0, <2>1, RespondsIsEnded
  <2>3. call[c].req.tool # "sendMessage"
    BY <1>1, <1>2, <2>1
  <2>4. CallOK(q)
    BY <1>0, <2>1, <2>3, EndedOK
  <2>5. /\ Grows(call[c], q) /\ q.accepted = call[c].accepted /\ q.req = call[c].req
        /\ q.answer \in {None, q.response}
    BY <1>0, <2>1, EndedFacts
  <2> HIDE DEF q
  <2>6. AnswerKept(q)
    BY <2>4, <2>5, EndedKept
  <2>7. /\ draft' \in [status : {"DRAFT", "APPROVED", "SENT"}, tokens : Nat]
        /\ draft.tokens <= draft'.tokens
    BY <1>0, <2>1
  <2>8. Stored'
    BY <2>1, <2>7 DEF ToolInv, Stored
  <2>9. call[c].at = "mark" => draft.tokens > 0 /\ posted > 0
    <3>1. call[c].at = "mark" => call[c].accepted > 0
      BY <1>0, <1>2, RequestFacts
    <3>2. QED
      BY <1>2, <3>1 DEF ToolInv, DraftInv
  <2>10. SentIsPosted'
    <3>1. draft'.status = "SENT" => call[c].at = "mark"
      BY <1>0, <2>1
    <3>2. draft'.status = "SENT" => draft'.tokens > 0 /\ posted' > 0
      BY <1>0, <2>1, <2>7, <2>9, <3>1
    <3>3. QED
      BY <3>2 DEF SentIsPosted
  <2>11. q.req # None /\ q.req.tool = "sendDraft" /\ q.accepted > 0 => posted' > 0
    BY <2>1, <2>5 DEF ToolInv, DraftInv
  <2>12. posted <= posted'
    BY <1>0, <2>1
  <2>13. QED
    BY <2>1, <2>2, <2>4, <2>5, <2>6, <2>7, <2>8, <2>10, <2>11, <2>12, OneCall
<1>7. QED
  BY <1>3, <1>4, <1>5, <1>6

(* Answers from the ledger, and those that Redis's failures leave. *)
LEMMA AnswerStep ==
  ASSUME ToolInv, NEW c \in Calls, ClaimFails(c) \/ Look(c) \/ StoreFails(c)
  PROVE  ToolInv'
<1>0. /\ CallOK(call[c]) /\ call[c] \in Calling
      /\ {"ok", "conflict", "provider_error", "outcome_unknown"} \subseteq Answers
  BY AtCall DEF Answers, Errors
<1>1. CASE ClaimFails(c)
  <2>1. /\ call[c].at \in {"claim", "look"} /\ Answered(c, "provider_error")
        /\ UNCHANGED <<ledger, epoch, draft, posted, deaths>>
        /\ failures' \in {failures, failures + 1}
    BY <1>1 DEF ClaimFails
  <2>2. QED
    BY <1>0, <2>1, AnsweredStep
<1>2. CASE Look(c)
  <2> DEFINE s == Slot(c)
             a == FromLedger(c, ledger[s])
  <2>1. /\ call[c].at = "look" /\ Answered(c, a)
        /\ UNCHANGED <<ledger, epoch, draft, posted, failures, deaths>>
    BY <1>2 DEF Look, Others
  <2>2. call[c].req \in Requests /\ call[c].req # None /\ call[c].req.key # None
    BY <1>0, <2>1 DEF CallOK, Named, Calling
  <2>3. s \in Slots /\ s = <<call[c].req.tool, call[c].req.key>>
    BY <2>2, SlotIsSlot DEF ToolInv, Keyed, Slot
  <2> HIDE DEF s
  <2>4. ledger[s] \in {None} \cup Entries
    BY <2>3 DEF ToolInv, Stored
  <2>5. a \in Answers
    BY <1>0, <2>4 DEF FromLedger, Entries
  <2>6. a = "ok" => /\ ledger[s] # None /\ ledger[s].parts = call[c].req.parts
                    /\ ledger[s].response = "ok"
    BY DEF FromLedger
  <2> HIDE DEF a
  <2>7. ASSUME a = "ok", Sends(call[c])
        PROVE  \E d \in Calls : call[d].req = call[c].req /\ Complete(call[d])
    <3> DEFINE d == ledger[s].owner
    <3>1. d \in Calls
      BY <2>4, <2>6, <2>7 DEF Entries
    <3>2. /\ call[d].req # None /\ <<call[d].req.tool, call[d].req.key>> = s
          /\ call[d].req.parts = ledger[s].parts
          /\ ledger[s].response = "ok" /\ Sends(call[d]) => Complete(call[d])
      BY <2>3, <2>6, <2>7 DEF ToolInv, LedgerInv, OwnerInv
    <3> HIDE DEF d
    <3>3. call[d].req \in Requests
      BY <3>1, <3>2, CallFacts DEF ToolInv
    <3>4. /\ call[d].req.tool = call[c].req.tool /\ call[d].req.key = call[c].req.key
          /\ call[d].req.parts = call[c].req.parts
      BY <2>3, <2>6, <2>7, <3>2
    <3>5. call[d].req = call[c].req
      BY <2>2, <3>3, <3>4, RequestFacts
    <3>6. Complete(call[d])
      BY <2>6, <2>7, <3>2, <3>5 DEF Sends
    <3>7. QED
      BY <3>1, <3>5, <3>6
  <2>8. failures' \in {failures, failures + 1}
    BY <2>1
  <2>9. QED
    BY <2>1, <2>5, <2>7, <2>8, AnsweredStep
<1>3. CASE StoreFails(c)
  <2> DEFINE a == IF call[c].response = "ok" THEN "outcome_unknown" ELSE call[c].response
  <2>1. /\ call[c].at = "store" /\ Answered(c, a)
        /\ UNCHANGED <<ledger, epoch, draft, posted, deaths>>
        /\ failures' \in {failures, failures + 1}
    BY <1>3 DEF StoreFails
  <2>2. a \in Answers /\ a # "ok" /\ a \in {call[c].response, "outcome_unknown"}
    BY <1>0, <2>1 DEF CallOK, Honest, Calling
  <2> HIDE DEF a
  <2>3. QED
    BY <2>1, <2>2, AnsweredStep
<1>4. QED
  BY <1>1, <1>2, <1>3

(* Within the life of a key its payload goes out through one call, and     *)
(* once; `ok` and SENT are said of what the connector accepted, and what   *)
(* was seen accepted is not denied: for every number of calls and of keys, *)
(* however Redis, the database and the server fail.                        *)
THEOREM ToolCallsCorrect == Spec => []ToolCallsInv
<1>1. Init => ToolInv
  <2> SUFFICES ASSUME Init PROVE ToolInv
    OBVIOUS
  <2>1. \A c \in Calls : call[c] = NotMade
    BY DEF Init
  <2>2. NotMade.req = None /\ NotMade.accepted = 0 /\ NotMade.at = "notMade"
        /\ NotMade \in Calling
    BY NotMadeOK DEF NotMade, CallOK
  <2>3. CallsInv
    BY <2>1, <2>2, NotMadeOK DEF Init, CallsInv
  <2>4. LedgerInv
    <3>1. \A s \in Slots : ledger[s] = None
      BY DEF Init
    <3>2. \A c \in Calls : ~Holds(c)
      BY <2>1, <2>2 DEF Holds, Busy, Executing
    <3>3. QED
      BY <2>1, <2>2, <3>1, <3>2 DEF LedgerInv, OwnerInv, HolderInv, OneHolder, OkInv
  <2>5. DraftInv
    BY <2>1, <2>2 DEF Init, DraftInv, SentIsPosted
  <2>6. Stored
    BY ToolBounds DEF Init, Stored
  <2>7. QED
    BY <2>3, <2>4, <2>5, <2>6 DEF ToolInv
<1>2. ToolInv /\ [Next]_vars => ToolInv'
  <2> SUFFICES ASSUME ToolInv, [Next]_vars PROVE ToolInv'
    OBVIOUS
  <2>1. CASE UNCHANGED vars
    BY <2>1 DEF vars, ToolInv, Stored, CallsInv, LedgerInv, OwnerInv, HolderInv, OneHolder,
                OkInv, DraftInv, SentIsPosted, Holds, Keyed, Slot
  <2>2. ASSUME NEW c \in Calls, Step(c) PROVE ToolInv'
    BY <2>2, ClaimStep, StoreStep, PostStep, DraftStep, AnswerStep DEF Step
  <2>3. QED
    BY <2>1, <2>2, BeginStep, ExpireStep, DieStep DEF Next
<1>3. ToolInv => ToolCallsInv
  <2> SUFFICES ASSUME ToolInv PROVE ToolCallsInv
    OBVIOUS
  <2>1. ASSUME NEW c \in Calls
        PROVE  /\ CallOK(call[c]) /\ call[c] \in Calling
               /\ call[c].req # None =>
                    call[c].req \in Requests /\ call[c].req.parts \in 1 .. 2
               /\ call[c].req = None =>
                    call[c].accepted = 0 /\ call[c].acked = 0 /\ call[c].at = "notMade"
                    /\ call[c].answer = None
    BY AtCall, CallFacts, RequestFacts DEF ToolInv, CallOK, Named, Counts, Honest
  <2>2. ToolTypeOK
    <3>1. ASSUME NEW c \in Calls PROVE call[c].accepted \in 0 .. 2 /\ call[c].acked \in 0 .. 2
      <4>1. call[c].accepted \in Nat /\ call[c].acked \in Nat /\ call[c].acked <= call[c].accepted
            /\ (call[c].req # None => call[c].accepted <= call[c].req.parts)
        BY <2>1 DEF Calling, CallOK, Counts
      <4>2. QED
        BY <2>1, <4>1
    <3>2. QED
      BY <2>1, <3>1 DEF ToolTypeOK, ToolInv, Stored, Calling, Places
  <2>3. SentOncePerKey
    <3>1. \A c \in Calls : call[c].req # None => call[c].accepted <= call[c].req.parts
      BY <2>1 DEF CallOK, Counts
    <3>2. ASSUME NEW c \in Calls, NEW d \in Calls, c # d, call[c].accepted > 0,
                 call[d].accepted > 0, Keyed(c), Keyed(d), Slot(c) = Slot(d)
          PROVE  call[c].epoch # call[d].epoch
      BY <3>2 DEF ToolInv, LedgerInv, OneHolder, Holds, Busy
    <3>3. QED
      BY <3>1, <3>2 DEF SentOncePerKey
  <2>4. OkIsDone
    <3> SUFFICES ASSUME NEW c \in Calls, call[c].answer = "ok", Posts(c)
                 PROVE  \E d \in Calls : call[d].req = call[c].req
                                         /\ call[d].accepted = call[d].req.parts
      BY DEF OkIsDone
    <3>1. call[c].req # None
      BY <2>1, NoneIsNothing DEF Answers
    <3>2. QED
      BY <3>1 DEF ToolInv, LedgerInv, OkInv, Complete, Sends, Posts
  <2>5. SeenIsNeverDenied
    <3> SUFFICES ASSUME NEW c \in Calls, call[c].at = "done", call[c].acked > 0,
                        call[c].req.tool = "sendMessage"
                 PROVE  call[c].answer \in {"ok", "outcome_unknown"}
      BY DEF SeenIsNeverDenied
    <3>1. call[c].req # None
      BY <2>1
    <3>2. QED
      BY <2>1, <3>1 DEF CallOK, Honest
  <2>6. SentIsPosted
    BY DEF ToolInv, DraftInv
  <2>7. QED
    BY <2>2, <2>3, <2>4, <2>5, <2>6 DEF ToolCallsInv
<1>4. QED
  BY <1>1, <1>2, <1>3, PTL DEF Spec

-----------------------------------------------------------------------------
(***************************************************************************)
(* ToolRouting.  What a call asks is settled when its plan is made: every  *)
(* place of the plan is of the account asked for, and of the source that   *)
(* the answer will name; the requests move places from the plan to what    *)
(* was done, whatever the registry does in between.                        *)
(***************************************************************************)
RoutePlaces == (Channels \cup {NoId}) \X (Ids \cup {NoId})
Visits == [at : {"provider", "index"}, account : RoutePlaces, act : {"read", "write"}, requests : 1 .. 2]

\* Is the place of an account that the caller named, or that its binding gives?
Allowed(named, caller, req, t) ==
  t.at = "provider" \/ t.act = "write" =>
    /\ named # NoId => t.account[2] = named
    /\ caller.bound = TRUE /\ HasAccount(req) => t.account[2] \in Range(caller.accounts)
    /\ t.act = "write" => named # NoId \/ caller.bound = TRUE

\* Is it of the source a read was told to ask, and says it asked?
Told(req, t) ==
  req.tool \notin Mutating =>
    /\ t.at = ReadSource(req)
    /\ t.at = (IF CanonicalMeta(req) = "providerQuery" THEN "provider" ELSE "index")
    /\ req.source # "auto" => t.at = req.source

Fits(named, caller, req, t) == t \in Visits /\ Allowed(named, caller, req, t) /\ Told(req, t)

\* The account a call goes on with, as its caller named or was given it.
Scoped(named, caller, req) ==
  /\ req \in Queries /\ caller \in Callers /\ named \in Ids \cup {NoId}
  /\ named # NoId => req.account = named
  /\ caller.bound = TRUE /\ HasAccount(req) => req.account \in Range(caller.accounts)
  /\ req.account # NoId => named # NoId \/ caller.bound = TRUE
  /\ req.tool = "listAccounts" => named = NoId /\ req.account = NoId

LEMMA CallerFacts ==
  ASSUME NEW caller \in Callers
  PROVE  /\ caller.bound \in BOOLEAN /\ Range(caller.accounts) \subseteq Ids
         /\ caller.accounts # <<>> => /\ Head(caller.accounts) \in Range(caller.accounts)
                                      /\ Head(caller.accounts) \in Ids
<1>1. PICK accounts \in {<<>>} \cup {<<a>> : a \in Ids} : caller.accounts = accounts
  BY DEF Callers
<1>2. caller.bound \in BOOLEAN
  BY DEF Callers
<1>3. CASE accounts = <<>>
  BY <1>1, <1>2, <1>3 DEF Range
<1>4. ASSUME NEW a \in Ids, accounts = <<a>> PROVE Range(accounts) = {a} /\ Head(accounts) = a
  BY <1>4 DEF Range
<1> QED
  BY <1>1, <1>2, <1>3, <1>4

LEMMA BindingScopes ==
  ASSUME NEW caller \in Callers, NEW asked \in Asked, ~Forbidden(caller, asked), NEW req,
         req = [asked EXCEPT !.account = BoundAccount(caller, asked)]
  PROVE  Scoped(asked.account, caller, req)
<1>1. asked \in Queries /\ (asked.tool = "listAccounts" => asked.account = NoId)
  BY DEF Asked
<1>2. asked.account \in Ids \cup {NoId}
  BY <1>1 DEF Queries
<1>3. /\ caller.bound \in BOOLEAN /\ Range(caller.accounts) \subseteq Ids
      /\ caller.accounts # <<>> => /\ Head(caller.accounts) \in Range(caller.accounts)
                                   /\ Head(caller.accounts) \in Ids
  BY CallerFacts
<1>4. BoundAccount(caller, asked) \in Ids \cup {NoId}
  BY <1>2, <1>3 DEF BoundAccount, Forbidden
<1>5. req \in Queries /\ req.tool = asked.tool /\ req.account = BoundAccount(caller, asked)
  BY <1>1, <1>4 DEF Queries
<1>6. asked.account # NoId => req.account = asked.account
  BY <1>5 DEF BoundAccount
<1>7. caller.bound = TRUE /\ HasAccount(req) => req.account \in Range(caller.accounts)
  BY <1>3, <1>5 DEF BoundAccount, Forbidden, HasAccount
<1>8. req.account # NoId => asked.account # NoId \/ caller.bound = TRUE
  BY <1>3, <1>5 DEF BoundAccount
<1>9. req.tool = "listAccounts" => asked.account = NoId /\ req.account = NoId
  BY <1>1, <1>5 DEF BoundAccount, HasAccount
<1> QED
  BY <1>2, <1>5, <1>6, <1>7, <1>8, <1>9 DEF Scoped

\* A place of the account a call goes on with is allowed.
LEMMA OwnIsAllowed ==
  ASSUME NEW named, NEW caller, NEW req, Scoped(named, caller, req), NEW t,
         t.account[2] = req.account, t.act = "write" => req.account # NoId
  PROVE  Allowed(named, caller, req, t)
BY DEF Scoped, Allowed

LEMMA TouchFacts ==
  ASSUME NEW at \in {"provider", "index"}, NEW account \in RoutePlaces, NEW act \in {"read", "write"},
         NEW n \in 1 .. 2
  PROVE  /\ Touches(n, at, account, act) \in Visits
         /\ Touches(n, at, account, act).at = at /\ Touches(n, at, account, act).account = account
         /\ Touches(n, at, account, act).act = act
BY DEF Touches, Visits

\* The accounts of a set in a sequence are those of the set.
LEMMA SequenceOfSet ==
  ASSUME NEW S, IsFiniteSet(S)
  PROVE  Cardinality(S) \in Nat /\ SetToSeq(S) \in [1 .. Cardinality(S) -> S]
<1>1. Cardinality(S) \in Nat /\ ExistsBijection(1 .. Cardinality(S), S)
  BY FS_CardinalityType
<1>2. PICK f : f \in Bijection(1 .. Cardinality(S), S)
  BY <1>1 DEF ExistsBijection
<1>3. f \in [1 .. Cardinality(S) -> S] /\ IsInjective(f)
  BY <1>2 DEF Bijection, Injection
<1> QED
  BY <1>1, <1>3 DEF SetToSeq

LEMMA ChannelsAreFinite == IsFiniteSet(Channels)
<1>1. IsFiniteSet({"whatsapp"}) /\ IsFiniteSet({"telegram"}) /\ IsFiniteSet({"instagram"})
  BY FS_Singleton
<1>2. IsFiniteSet({"whatsapp"} \cup {"telegram"})
  BY <1>1, FS_Union
<1>3. IsFiniteSet({"whatsapp"} \cup {"telegram"} \cup {"instagram"})
  BY <1>1, <1>2, FS_Union
<1>4. Channels = {"whatsapp"} \cup {"telegram"} \cup {"instagram"}
  BY DEF Channels
<1> QED
  BY <1>3, <1>4

LEMMA EnabledAreFinite ==
  ASSUME enabled \subseteq Accounts, NEW S, S \subseteq enabled
  PROVE  IsFiniteSet(S)
<1>1. IsFiniteSet(Accounts)
  BY ChannelsAreFinite, IdsAreFinite, FS_Product DEF Accounts
<1> QED
  BY <1>1, FS_Subset

\* What an answer says of its source is the source a handler takes.
LEMMA MetaNamesSource ==
  ASSUME NEW req \in Queries, req.tool \notin Mutating
  PROVE  /\ ReadSource(req) \in {"provider", "index"}
         /\ ReadSource(req) =
              (IF CanonicalMeta(req) = "providerQuery" THEN "provider" ELSE "index")
         /\ req.source # "auto" => ReadSource(req) = req.source
<1>1. req.source \in {"auto", "provider", "index"}
  BY DEF Queries, P, I
<1>2. CASE req.source # "auto"
  BY <1>1, <1>2 DEF ReadSource, CanonicalMeta
<1>3. CASE req.source = "auto" /\ req.tool \in {"searchMessages", "summarize", "listDrafts", "getDigest"}
  BY <1>3 DEF ReadSource, CanonicalMeta, Fallback
<1>4. CASE req.source = "auto" /\ req.tool = "listMessages"
  BY <1>4 DEF ReadSource, CanonicalMeta, Fallback
<1>5. CASE req.source = "auto" /\ req.tool = "resolveTarget"
  BY <1>5 DEF ReadSource, CanonicalMeta, Fallback
<1>6. CASE /\ req.source = "auto" /\ req.tool \notin {"listMessages", "resolveTarget"}
           /\ req.tool \notin {"searchMessages", "summarize", "listDrafts", "getDigest"}
  BY <1>6 DEF ReadSource, CanonicalMeta, Fallback
<1> QED
  BY <1>2, <1>3, <1>4, <1>5, <1>6

\* A read of the account a call goes on with, from the source it was told.
LEMMA ReadFits ==
  ASSUME NEW named, NEW caller, NEW req, Scoped(named, caller, req), req.tool \notin Mutating,
         NEW n \in 1 .. 2, NEW account \in RoutePlaces, account[2] = req.account
  PROVE  Fits(named, caller, req, Touches(n, ReadSource(req), account, "read"))
<1>1. req \in Queries
  BY DEF Scoped
<1>2. ReadSource(req) \in {"provider", "index"}
  BY <1>1, MetaNamesSource
<1> DEFINE t == Touches(n, ReadSource(req), account, "read")
<1>3. t \in Visits /\ t.at = ReadSource(req) /\ t.account = account /\ t.act = "read"
  BY <1>2, TouchFacts
<1> HIDE DEF t
<1>4. Allowed(named, caller, req, t)
  BY <1>3, OwnIsAllowed
<1>5. Told(req, t)
  BY <1>1, <1>3, MetaNamesSource DEF Told
<1> QED
  BY <1>3, <1>4, <1>5 DEF Fits, t

\* A step of a write, for the account it names.
LEMMA WriteFits ==
  ASSUME NEW named, NEW caller, NEW req, Scoped(named, caller, req), req.tool \in Mutating,
         req.account # NoId, NEW n \in 1 .. 2, NEW at \in {"provider", "index"},
         NEW act \in {"read", "write"}, NEW account \in RoutePlaces, account[2] = req.account
  PROVE  Fits(named, caller, req, Touches(n, at, account, act))
<1> DEFINE t == Touches(n, at, account, act)
<1>1. t \in Visits /\ t.account = account /\ t.act = act
  BY TouchFacts
<1> HIDE DEF t
<1>2. Allowed(named, caller, req, t)
  BY <1>1, OwnIsAllowed
<1> QED
  BY <1>1, <1>2 DEF Fits, Told, t

\* What a plan is made of.
Fitting(named, caller, req, plan) ==
  /\ plan \in Seq(Visits)
  /\ \A i \in 1 .. Len(plan) : Fits(named, caller, req, plan[i])

LEMMA OneFits ==
  ASSUME NEW named, NEW caller, NEW req, NEW s, Fits(named, caller, req, s)
  PROVE  Fitting(named, caller, req, <<s>>)
<1>1. s \in Visits
  BY DEF Fits
<1>2. <<s>> \in Seq(Visits) /\ Len(<<s>>) = 1 /\ <<s>>[1] = s
  BY <1>1
<1> QED
  BY <1>2 DEF Fitting

LEMMA TwoFit ==
  ASSUME NEW named, NEW caller, NEW req, NEW s, Fits(named, caller, req, s),
         NEW t, Fits(named, caller, req, t)
  PROVE  Fitting(named, caller, req, <<s, t>>)
<1>1. s \in Visits /\ t \in Visits
  BY DEF Fits
<1>2. <<s, t>> \in Seq(Visits) /\ Len(<<s, t>>) = 2 /\ <<s, t>>[1] = s /\ <<s, t>>[2] = t
  BY <1>1
<1>3. \A i \in 1 .. 2 : i = 1 \/ i = 2
  OBVIOUS
<1> QED
  BY <1>2, <1>3 DEF Fitting

LEMMA ThreeFit ==
  ASSUME NEW named, NEW caller, NEW req, NEW s, Fits(named, caller, req, s),
         NEW t, Fits(named, caller, req, t), NEW u, Fits(named, caller, req, u)
  PROVE  Fitting(named, caller, req, <<s, t, u>>)
<1>1. s \in Visits /\ t \in Visits /\ u \in Visits
  BY DEF Fits
<1>2. /\ <<s, t, u>> \in Seq(Visits) /\ Len(<<s, t, u>>) = 3
      /\ <<s, t, u>>[1] = s /\ <<s, t, u>>[2] = t /\ <<s, t, u>>[3] = u
  BY <1>1
<1>3. \A i \in 1 .. 3 : i = 1 \/ i = 2 \/ i = 3
  OBVIOUS
<1> QED
  BY <1>2, <1>3 DEF Fitting

\* A plan of so many places, each of which fits.
LEMMA AllFit ==
  ASSUME NEW named, NEW caller, NEW req, NEW n \in Nat, NEW p, p = [i \in 1 .. n |-> p[i]],
         \A i \in 1 .. n : Fits(named, caller, req, p[i])
  PROVE  Fitting(named, caller, req, p)
<1>1. \A i \in 1 .. n : p[i] \in Visits
  BY DEF Fits
<1>2. p \in [1 .. n -> Visits]
  BY <1>1
<1>3. p \in Seq(Visits) /\ Len(p) = n
  BY <1>2, SeqDef, LenProperties
<1> QED
  BY <1>3 DEF Fitting

\* The places of a call that is not refused are those of its account.
LEMMA NotRefused ==
  ASSUME NEW req \in Queries, Refusal(req) = NoId
  PROVE  /\ req.tool \in Mutating => req.channel # NoId /\ req.account # NoId
         /\ req.channel = NoId => req.tool \in {"listAccounts", "listConversations", "searchMessages"}
         /\ req.tool = "listAccounts" => req.source = "auto"
<1>1. NoId \notin Refusals
  BY NoneIsNoId
<1>2. ~Invalid(req)
  BY <1>1 DEF Refusal, Refusals
<1> QED
  BY <1>2 DEF Invalid, Schema

LEMMA PlaceOf ==
  ASSUME NEW req \in Queries
  PROVE  /\ <<req.channel, req.account>> \in RoutePlaces /\ <<req.channel, req.account>>[2] = req.account
         /\ req.tool \in SocialTools /\ req.space \in Ids \cup {NoId}
BY DEF Queries, RoutePlaces

LEMMA WritePlanFits ==
  ASSUME NEW named, NEW caller, NEW req, Scoped(named, caller, req), req.tool \in Mutating,
         Refusal(req) = NoId
  PROVE  Fitting(named, caller, req, Plan(req))
<1> DEFINE x == <<req.channel, req.account>>
           found == Touch("index", x, "read")
           asked == Touch("provider", x, "write")
           stored == Touch("index", x, "write")
           other == CHOOSE c \in {"whatsapp", "telegram"} : c # x[1]
           unread(channel) == Touch("provider", <<channel, x[2]>>, "read")
<1>1. req \in Queries /\ req.account # NoId /\ req.channel # NoId
  BY NotRefused DEF Scoped
<1>2. x \in RoutePlaces /\ x[2] = req.account
  BY <1>1, PlaceOf
<1>3. Plan(req) = WritePlan(req, x)
  BY DEF Plan
<1>4. 1 \in 1 .. 2 /\ 2 \in 1 .. 2
  OBVIOUS
<1>5. /\ Fits(named, caller, req, found) /\ Fits(named, caller, req, asked)
      /\ Fits(named, caller, req, stored)
  <2>1. \A at \in {"provider", "index"}, act \in {"read", "write"} :
           Fits(named, caller, req, Touches(1, at, x, act))
    BY <1>1, <1>2, <1>4, WriteFits
  <2> QED
    BY <2>1 DEF Touch
<1>6. CASE req.tool = "sendMessage"
  <2>1. PICK n \in 1 .. 2 : n = (IF req.wide /\ x[1] # "instagram" THEN 2 ELSE 1)
    BY <1>4
  <2>2. Fits(named, caller, req, Touches(n, "provider", x, "write"))
    BY <1>1, <1>2, <2>1, WriteFits
  <2>3. WritePlan(req, x) = <<Touches(n, "provider", x, "write")>>
    BY <1>6, <2>1 DEF WritePlan, SendPlan
  <2> QED
    BY <1>3, <2>2, <2>3, OneFits
<1>7. CASE req.tool = "startDigest"
  <2>1. other \in Channels
    BY DEF Channels
  <2>2. x[1] \in Channels
    BY <1>1 DEF Queries
  <2>3. ASSUME NEW channel \in Channels
        PROVE  Fits(named, caller, req, unread(channel))
    <3>1. <<channel, x[2]>> \in RoutePlaces /\ <<channel, x[2]>>[2] = req.account
      BY <1>2 DEF RoutePlaces
    <3> QED
      BY <1>1, <1>4, <3>1, WriteFits DEF Touch
  <2>4. /\ Fits(named, caller, req, unread(x[1]))
        /\ Fits(named, caller, req, unread(other))
    BY <2>1, <2>2, <2>3
  <2>5. WritePlan(req, x) = (IF req.wide THEN <<unread(x[1]), unread(other), stored>>
                             ELSE <<unread(x[1]), stored>>)
    BY <1>7 DEF WritePlan, DigestPlan
  <2> HIDE DEF unread, other, stored, x
  <2>6. CASE req.wide
    <3>1. Fitting(named, caller, req, <<unread(x[1]), unread(other), stored>>)
      BY <1>5, <2>4, ThreeFit
    <3> QED
      BY <1>3, <2>5, <2>6, <3>1
  <2>7. CASE ~req.wide
    <3>1. Fitting(named, caller, req, <<unread(x[1]), stored>>)
      BY <1>5, <2>4, TwoFit
    <3> QED
      BY <1>3, <2>5, <2>7, <3>1
  <2> QED
    BY <2>6, <2>7
<1>8. CASE req.tool = "deleteMessage" /\ req.channel = "telegram"
  <2>1. WritePlan(req, x) = <<asked, stored>>
    BY <1>8 DEF WritePlan
  <2> QED
    BY <1>3, <1>5, <2>1, TwoFit
<1>9. CASE req.tool \in {"createDraft", "approveDraft", "continueDigest"}
  <2>1. WritePlan(req, x) = <<found, stored>>
    BY <1>9 DEF WritePlan
  <2> QED
    BY <1>3, <1>5, <2>1, TwoFit
<1>10. CASE req.tool = "sendDraft"
  <2>1. WritePlan(req, x) = <<found, asked, stored>>
    BY <1>10 DEF WritePlan
  <2> QED
    BY <1>3, <1>5, <2>1, ThreeFit
<1>11. CASE /\ req.tool \notin {"sendMessage", "startDigest", "sendDraft"}
            /\ req.tool \notin {"createDraft", "approveDraft", "continueDigest"}
            /\ ~(req.tool = "deleteMessage" /\ req.channel = "telegram")
  <2>1. WritePlan(req, x) = <<asked>>
    BY <1>11 DEF WritePlan
  <2> QED
    BY <1>3, <1>5, <2>1, OneFits
<1> QED
  BY <1>6, <1>7, <1>8, <1>9, <1>10, <1>11

LEMMA ReadPlanFits ==
  ASSUME enabled \subseteq Accounts, NEW named, NEW caller, NEW req, Scoped(named, caller, req),
         req.tool \notin Mutating, Refusal(req) = NoId
  PROVE  Fitting(named, caller, req, Plan(req))
<1> DEFINE x == <<req.channel, req.account>>
           source == ReadSource(req)
<1>1. req \in Queries
  BY DEF Scoped
<1>2. x \in RoutePlaces /\ x[2] = req.account
  BY <1>1, PlaceOf
<1>3. Plan(req) = ReadPlan(req, x)
  BY DEF Plan
<1>4. 1 \in 1 .. 2 /\ 2 \in 1 .. 2
  OBVIOUS
<1>5. source \in {"provider", "index"}
  BY <1>1, MetaNamesSource
<1>6. CASE req.tool = "listAccounts"
  <2> DEFINE n == Cardinality(enabled)
             p == AccountsPlan
  <2>1. n \in Nat /\ \A i \in 1 .. n : SetToSeq(enabled)[i] \in enabled
    BY EnabledAreFinite, SequenceOfSet
  <2>2. p = [i \in 1 .. n |-> Touch("provider", SetToSeq(enabled)[i], "read")]
    BY DEF AccountsPlan
  <2>3. named = NoId /\ ~HasAccount(req) /\ req.source = "auto"
    BY <1>1, <1>6, NotRefused DEF Scoped, HasAccount
  <2>4. source = "provider"
    BY <1>6, <2>3 DEF ReadSource, Fallback
  <2>5. ASSUME NEW y \in Accounts
        PROVE  Fits(named, caller, req, Touch("provider", y, "read"))
    <3> DEFINE t == Touches(1, "provider", y, "read")
    <3>1. y \in RoutePlaces
      BY DEF Accounts, RoutePlaces
    <3>2. t \in Visits /\ t.at = "provider" /\ t.act = "read"
      BY <1>4, <3>1, TouchFacts
    <3> HIDE DEF t
    <3>3. Allowed(named, caller, req, t)
      BY <2>3, <3>2 DEF Allowed
    <3>4. Told(req, t)
      BY <1>1, <2>3, <2>4, <3>2, MetaNamesSource DEF Told
    <3> QED
      BY <3>2, <3>3, <3>4 DEF Fits, Touch, t
  <2> HIDE DEF n, p
  <2>6. p = [i \in 1 .. n |-> p[i]] /\ \A i \in 1 .. n : Fits(named, caller, req, p[i])
    BY <2>1, <2>2, <2>5
  <2>7. Fitting(named, caller, req, p)
    BY <2>1, <2>6, AllFit
  <2>8. ReadPlan(req, x) = p
    BY <1>6 DEF ReadPlan, p
  <2> QED
    BY <1>3, <2>7, <2>8
<1>7. CASE req.tool = "listConversations"
  <2> DEFINE S == Configured(req)
             n == Cardinality(S)
             p == ListPlan(req)
  <2>0. S \subseteq enabled
    BY DEF Configured
  <2>1. n \in Nat /\ \A i \in 1 .. n : SetToSeq(S)[i] \in S
    BY <2>0, EnabledAreFinite, SequenceOfSet
  <2>2. p = [i \in 1 .. n |-> ListTouch(req, SetToSeq(S)[i])]
    BY DEF ListPlan
  <2>3. ASSUME NEW y \in S
        PROVE  Fits(named, caller, req, ListTouch(req, y))
    <3>1. y \in Accounts /\ y \in RoutePlaces
      BY <2>0 DEF Accounts, RoutePlaces
    <3>2. req.account # NoId => y[2] = req.account
      BY DEF Configured
    <3>3. PICK k \in 1 .. 2 : k = (IF y[1] = "instagram" THEN 2 ELSE 1)
      BY <1>4
    <3> DEFINE t == Touches(k, source, y, "read")
    <3>4. CASE req.account # NoId
      <4>1. Fits(named, caller, req, t)
        BY <1>7, <3>1, <3>2, <3>4, ReadFits
      <4> QED
        BY <3>3, <4>1 DEF ListTouch
    <3>5. CASE req.account = NoId
      <4>1. caller \in Callers /\ named = NoId /\ HasAccount(req)
        BY <1>7, <3>5 DEF Scoped, HasAccount
      <4>2. caller.bound # TRUE
        <5>1. Range(caller.accounts) \subseteq Ids
          BY <4>1, CallerFacts
        <5>2. NoId \notin Ids
          BY NoneIsNoId
        <5> QED
          BY <3>5, <4>1, <5>1, <5>2 DEF Scoped
      <4>3. t \in Visits /\ t.at = source /\ t.act = "read"
        BY <1>5, <3>1, <3>3, TouchFacts
      <4> HIDE DEF t
      <4>4. Allowed(named, caller, req, t)
        BY <4>1, <4>2, <4>3 DEF Allowed
      <4>5. Told(req, t)
        BY <1>1, <4>3, MetaNamesSource DEF Told
      <4>6. Fits(named, caller, req, t)
        BY <4>3, <4>4, <4>5 DEF Fits
      <4> QED
        BY <3>3, <4>6 DEF ListTouch, t
    <3> QED
      BY <3>4, <3>5
  <2> HIDE DEF n, p, S
  <2>4. p = [i \in 1 .. n |-> p[i]] /\ \A i \in 1 .. n : Fits(named, caller, req, p[i])
    BY <2>1, <2>2, <2>3
  <2>5. Fitting(named, caller, req, p)
    BY <2>1, <2>4, AllFit
  <2>6. ReadPlan(req, x) = p
    BY <1>7 DEF ReadPlan, p
  <2> QED
    BY <1>3, <2>5, <2>6
<1>8. CASE req.tool = "resolveTarget" /\ req.channel = "instagram"
  <2>1. PICK k \in 1 .. 2 : k = (IF x[1] = "instagram" THEN 2 ELSE 1)
    BY <1>4
  <2>2. Fits(named, caller, req, Touches(k, source, x, "read"))
    BY <1>2, <2>1, ReadFits
  <2>3. ReadPlan(req, x) = <<Touches(k, source, x, "read")>>
    BY <1>8, <2>1 DEF ReadPlan, ListTouch
  <2> QED
    BY <1>3, <2>2, <2>3, OneFits
<1>9. CASE req.tool = "listMessages" /\ source = "index"
  <2> DEFINE y == RowAccount(req)
             t == Touches(1, "index", y, "read")
  <2>1. y \in RoutePlaces
    BY <1>1, PlaceOf DEF RowAccount, RoutePlaces, Queries
  <2>2. t \in Visits /\ t.at = "index" /\ t.act = "read"
    BY <1>4, <2>1, TouchFacts
  <2>3. ReadPlan(req, x) = <<t>>
    BY <1>9 DEF ReadPlan, Touch
  <2> HIDE DEF t
  <2>4. Allowed(named, caller, req, t)
    BY <2>2 DEF Allowed
  <2>5. Told(req, t)
    BY <1>1, <1>9, <2>2, MetaNamesSource DEF Told
  <2>6. Fits(named, caller, req, t)
    BY <2>2, <2>4, <2>5 DEF Fits
  <2> QED
    BY <1>3, <2>3, <2>6, OneFits
<1>10. CASE /\ req.tool \notin {"listAccounts", "listConversations"}
            /\ ~(req.tool = "resolveTarget" /\ req.channel = "instagram")
            /\ ~(req.tool = "listMessages" /\ source = "index")
  <2>1. Fits(named, caller, req, Touches(1, source, x, "read"))
    BY <1>2, <1>4, ReadFits
  <2>2. ReadPlan(req, x) = <<Touches(1, source, x, "read")>>
    BY <1>10 DEF ReadPlan, Touch
  <2> QED
    BY <1>3, <2>1, <2>2, OneFits
<1> QED
  BY <1>6, <1>7, <1>8, <1>9, <1>10

-----------------------------------------------------------------------------
(* The invariant *)

Asking ==
  [at : {"asking"}, req : Queries, caller : Callers, named : Ids \cup {NoId},
   plan : Seq(Visits), done : Seq(Visits), failed : SUBSET RoutePlaces]

\* What was planned and what was done are of the account asked for.
AskingFits(q) ==
  /\ q \in Asking /\ Scoped(q.named, q.caller, q.req)
  /\ Fitting(q.named, q.caller, q.req, q.plan)
  /\ Fitting(q.named, q.caller, q.req, q.done)

\* The answer is of the source that was asked.
TellsSource(q) ==
  q.code = "ok" /\ q.kind # NoId =>
    /\ q.req.tool \notin Mutating
    /\ q.kind = "providerQuery" <=> ReadSource(q.req) = "provider"

TellsPartial(q) ==
  q.req.tool = "listConversations" /\ q.code = "ok" =>
    /\ q.completeness = "complete" => q.failed = {}
    /\ \E t \in Range(q.done) : t.account \notin q.failed

TellsSent(q) ==
  q.req.tool = "sendMessage" /\ q.done # <<>> => q.code \in {"ok", "outcome_unknown"}

AnswerFits(q) ==
  /\ q.req \in Queries /\ q.caller \in Callers
  /\ Fitting(q.named, q.caller, q.req, q.done)
  /\ TellsSource(q) /\ TellsPartial(q) /\ TellsSent(q)

RouteIInv ==
  /\ enabled \subseteq Accounts
  /\ query.at \in {"idle", "asking", "answered"}
  /\ query.at = "asking" => AskingFits(query)
  /\ query.at = "answered" => AnswerFits(query)

LEMMA AnswerFacts ==
  ASSUME NEW c, NEW code, NEW kind, NEW completeness
  PROVE  /\ Answer(c, code, kind, completeness).at = "answered"
         /\ Answer(c, code, kind, completeness).req = c.req
         /\ Answer(c, code, kind, completeness).caller = c.caller
         /\ Answer(c, code, kind, completeness).named = c.named
         /\ Answer(c, code, kind, completeness).done = c.done
         /\ Answer(c, code, kind, completeness).failed = c.failed
         /\ Answer(c, code, kind, completeness).code = code
         /\ Answer(c, code, kind, completeness).kind = kind
         /\ Answer(c, code, kind, completeness).completeness = completeness
BY DEF Answer

LEMMA EmptyFits ==
  ASSUME NEW named, NEW caller, NEW req
  PROVE  Fitting(named, caller, req, <<>>)
<1>1. <<>> \in Seq(Visits) /\ Len(<<>>) = 0
  OBVIOUS
<1> QED
  BY <1>1 DEF Fitting

\* What Range gives is what stands at some place of the sequence.
LEMMA RangeFits ==
  ASSUME NEW named, NEW caller, NEW req, NEW p, Fitting(named, caller, req, p), NEW t \in Range(p)
  PROVE  Fits(named, caller, req, t)
<1>1. p \in Seq(Visits) /\ \A i \in 1 .. Len(p) : Fits(named, caller, req, p[i])
  BY DEF Fitting
<1>2. DOMAIN p = 1 .. Len(p)
  BY <1>1
<1>3. PICK i \in DOMAIN p : t = p[i]
  BY DEF Range
<1> QED
  BY <1>1, <1>2, <1>3

LEMMA HeadFits ==
  ASSUME NEW named, NEW caller, NEW req, NEW p, Fitting(named, caller, req, p), p # <<>>
  PROVE  /\ Fits(named, caller, req, Head(p)) /\ Head(p) \in Visits
         /\ Fitting(named, caller, req, Tail(p))
<1>1. p \in Seq(Visits) /\ \A i \in 1 .. Len(p) : Fits(named, caller, req, p[i])
  BY DEF Fitting
<1>2. Head(p) = p[1] /\ Len(p) \in Nat /\ Len(p) >= 1 /\ 1 \in 1 .. Len(p)
  BY <1>1
<1>3. Fits(named, caller, req, Head(p))
  BY <1>1, <1>2
<1>4. /\ Tail(p) \in Seq(Visits) /\ Len(Tail(p)) = Len(p) - 1
      /\ \A i \in 1 .. Len(Tail(p)) : Tail(p)[i] = p[i + 1]
  BY <1>1, HeadTailProperties
<1>5. \A i \in 1 .. Len(Tail(p)) : i + 1 \in 1 .. Len(p)
  BY <1>2, <1>4
<1>6. \A i \in 1 .. Len(Tail(p)) : Fits(named, caller, req, Tail(p)[i])
  BY <1>1, <1>4, <1>5
<1> QED
  BY <1>3, <1>4, <1>6 DEF Fitting, Fits

LEMMA AppendFits ==
  ASSUME NEW named, NEW caller, NEW req, NEW p, Fitting(named, caller, req, p),
         NEW t, Fits(named, caller, req, t)
  PROVE  Fitting(named, caller, req, Append(p, t))
<1>1. p \in Seq(Visits) /\ \A i \in 1 .. Len(p) : Fits(named, caller, req, p[i])
  BY DEF Fitting
<1>2. t \in Visits
  BY DEF Fits
<1>3. /\ Append(p, t) \in Seq(Visits) /\ Len(Append(p, t)) = Len(p) + 1
      /\ \A i \in 1 .. Len(p) : Append(p, t)[i] = p[i]
      /\ Append(p, t)[Len(p) + 1] = t
  BY <1>1, <1>2, AppendProperties
<1>4. Len(p) \in Nat
  BY <1>1
<1>5. \A i \in 1 .. Len(Append(p, t)) : i \in 1 .. Len(p) \/ i = Len(p) + 1
  BY <1>3, <1>4
<1>6. \A i \in 1 .. Len(Append(p, t)) : Fits(named, caller, req, Append(p, t)[i])
  BY <1>1, <1>3, <1>5
<1> QED
  BY <1>3, <1>6 DEF Fitting

\* One request less of the first place leaves a plan of the same places.
LEMMA RestFits ==
  ASSUME NEW named, NEW caller, NEW req, NEW p, Fitting(named, caller, req, p), p # <<>>
  PROVE  Fitting(named, caller, req, Rest(p))
<1>1. p \in Seq(Visits) /\ \A i \in 1 .. Len(p) : Fits(named, caller, req, p[i])
  BY DEF Fitting
<1>2. Head(p) = p[1] /\ Len(p) \in Nat /\ Len(p) >= 1
  BY <1>1
<1>3. Head(p) \in Visits /\ Fits(named, caller, req, Head(p)) /\ Fitting(named, caller, req, Tail(p))
  BY HeadFits
<1>4. CASE Head(p).requests > 1
  <2> DEFINE s == [p[1] EXCEPT !.requests = @ - 1]
  <2>1. p[1].requests \in 1 .. 2 /\ p[1].requests > 1
    BY <1>2, <1>3, <1>4 DEF Visits
  <2>2. p[1].requests - 1 \in 1 .. 2
    BY <2>1
  <2>3. s \in Visits /\ s.at = p[1].at /\ s.account = p[1].account /\ s.act = p[1].act
    BY <1>2, <1>3, <2>2 DEF Visits
  <2> HIDE DEF s
  <2>4. Fits(named, caller, req, s)
    BY <1>2, <1>3, <2>3 DEF Fits, Allowed, Told
  <2>5. Rest(p) = [p EXCEPT ![1] = s]
    BY <1>4 DEF Rest, s
  <2>6. [p EXCEPT ![1] = s] \in Seq(Visits) /\ Len([p EXCEPT ![1] = s]) = Len(p)
    BY <1>1, <1>2, <2>3
  <2>7. \A i \in 1 .. Len(p) : [p EXCEPT ![1] = s][i] = IF i = 1 THEN s ELSE p[i]
    BY <1>1
  <2>8. \A i \in 1 .. Len(p) : Fits(named, caller, req, [p EXCEPT ![1] = s][i])
    BY <1>1, <2>4, <2>7
  <2> QED
    BY <2>5, <2>6, <2>8 DEF Fitting
<1>5. CASE ~(Head(p).requests > 1)
  BY <1>3, <1>5 DEF Rest
<1> QED
  BY <1>4, <1>5

\* An error told of a call that is under way.
LEMMA ErrorFits ==
  ASSUME NEW c, c.req \in Queries, c.caller \in Callers,
         Fitting(c.named, c.caller, c.req, c.done), NEW code, code # "ok",
         c.req.tool = "sendMessage" /\ c.done # <<>> => code = "outcome_unknown"
  PROVE  Error(c, code).at = "answered" /\ AnswerFits(Error(c, code))
<1> DEFINE a == Error(c, code)
<1>1. /\ a.at = "answered" /\ a.req = c.req /\ a.caller = c.caller /\ a.named = c.named
      /\ a.done = c.done /\ a.code = code
  BY AnswerFacts DEF Error
<1> HIDE DEF a
<1>2. TellsSource(a) /\ TellsPartial(a)
  BY <1>1 DEF TellsSource, TellsPartial
<1>3. TellsSent(a)
  BY <1>1 DEF TellsSent
<1>4. AnswerFits(a)
  BY <1>1, <1>2, <1>3 DEF AnswerFits
<1> QED
  BY <1>1, <1>4 DEF a

LEMMA RouteInit == ASSUME RoutingInit PROVE RouteIInv
BY DEF RoutingInit, RouteIInv, Idle

LEMMA AskHolds == ASSUME RouteIInv, Ask PROVE RouteIInv'
<1>1. enabled \subseteq Accounts /\ enabled' = enabled
  BY DEF RouteIInv, Ask
<1>2. PICK caller \in Callers, asked \in Asked :
        LET forbidden == Forbidden(caller, asked)
            req == IF forbidden THEN asked
                   ELSE [asked EXCEPT !.account = BoundAccount(caller, asked)]
            refusal == IF forbidden THEN "forbidden" ELSE Refusal(req)
            c == [at |-> "asking", req |-> req, caller |-> caller, named |-> asked.account,
                  plan |-> IF refusal = NoId THEN Plan(req) ELSE <<>>,
                  done |-> <<>>, failed |-> {}]
        IN query' = IF refusal = NoId THEN c ELSE Error(c, refusal)
  BY DEF Ask
<1> DEFINE forbidden == Forbidden(caller, asked)
           req == IF forbidden THEN asked
                  ELSE [asked EXCEPT !.account = BoundAccount(caller, asked)]
           refusal == IF forbidden THEN "forbidden" ELSE Refusal(req)
           plan == IF refusal = NoId THEN Plan(req) ELSE <<>>
           c == [at |-> "asking", req |-> req, caller |-> caller, named |-> asked.account,
                 plan |-> plan, done |-> <<>>, failed |-> {}]
<1>3. query' = IF refusal = NoId THEN c ELSE Error(c, refusal)
  BY <1>2
<1>4. /\ c.at = "asking" /\ c.req = req /\ c.caller = caller /\ c.named = asked.account
      /\ c.plan = plan /\ c.done = <<>> /\ c.failed = {}
  OBVIOUS
<1>5. asked \in Queries /\ asked.account \in Ids \cup {NoId}
  BY DEF Asked, Queries
<1>6. ~forbidden => Scoped(asked.account, caller, req)
  BY BindingScopes
<1>7. req \in Queries
  BY <1>5, <1>6 DEF Scoped
<1>8. Refusals \cap {NoId} = {} /\ "forbidden" \in Refusals
  BY NoneIsNoId DEF Refusals
<1>9. refusal # NoId => refusal \in Refusals
  BY <1>8 DEF Refusal, Refusals
<1>10. Fitting(asked.account, caller, req, <<>>)
  BY EmptyFits
<1>11. CASE refusal = NoId
  <2>1. ~forbidden /\ Refusal(req) = NoId
    BY <1>8, <1>11
  <2>2. Scoped(asked.account, caller, req)
    BY <1>6, <2>1
  <2>3. Fitting(asked.account, caller, req, Plan(req))
    BY <1>1, <2>1, <2>2, ReadPlanFits, WritePlanFits
  <2>4. plan = Plan(req)
    BY <1>11
  <2> HIDE DEF plan, req, refusal, forbidden
  <2>5. plan \in Seq(Visits) /\ <<>> \in Seq(Visits)
    BY <2>3, <2>4 DEF Fitting
  <2>6. c \in Asking
    BY <1>5, <1>7, <2>5 DEF Asking
  <2> HIDE DEF c
  <2>7. AskingFits(c)
    BY <1>4, <1>10, <2>2, <2>3, <2>4, <2>6 DEF AskingFits
  <2> QED
    BY <1>1, <1>3, <1>4, <1>11, <2>7 DEF RouteIInv
<1>12. CASE refusal # NoId
  <2>1. refusal # "ok"
    BY <1>9, <1>12 DEF Refusals
  <2> HIDE DEF plan, req, refusal, forbidden, c
  <2>2. Fitting(c.named, c.caller, c.req, c.done)
    BY <1>4, <1>10
  <2>3. Error(c, refusal).at = "answered" /\ AnswerFits(Error(c, refusal))
    BY <1>4, <1>7, <2>1, <2>2, ErrorFits
  <2> QED
    BY <1>1, <1>3, <1>12, <2>3 DEF RouteIInv
<1> QED
  BY <1>11, <1>12

LEMMA TouchedHolds == ASSUME RouteIInv, Touched PROVE RouteIInv'
<1>1. /\ query.at = "asking" /\ query.plan # <<>> /\ enabled' = enabled
      /\ query' = [query EXCEPT !.done = Append(@, Head(query.plan)), !.plan = Rest(@)]
      /\ enabled \subseteq Accounts
  BY DEF Touched, RouteIInv
<1>2. AskingFits(query)
  BY <1>1 DEF RouteIInv
<1> DEFINE named == query.named
           caller == query.caller
           req == query.req
<1>3. query \in Asking /\ Scoped(named, caller, req)
  BY <1>2 DEF AskingFits
<1>4. /\ Fitting(named, caller, req, Rest(query.plan))
      /\ Fitting(named, caller, req, Append(query.done, Head(query.plan)))
  BY <1>1, <1>2, RestFits, HeadFits, AppendFits DEF AskingFits
<1>5. Rest(query.plan) \in Seq(Visits) /\ Append(query.done, Head(query.plan)) \in Seq(Visits)
  BY <1>4 DEF Fitting
<1>6. /\ query' \in Asking /\ query'.at = "asking" /\ query'.named = named
      /\ query'.caller = caller /\ query'.req = req /\ query'.plan = Rest(query.plan)
      /\ query'.done = Append(query.done, Head(query.plan))
  BY <1>1, <1>3, <1>5 DEF Asking
<1>7. AskingFits(query')
  BY <1>3, <1>4, <1>6 DEF AskingFits
<1> QED
  BY <1>1, <1>6, <1>7 DEF RouteIInv

LEMMA FailsHolds == ASSUME RouteIInv, Fails PROVE RouteIInv'
<1> DEFINE touch == Head(query.plan)
<1>1. PICK code \in {"provider_error", "unsupported_capability"} :
        query' = IF Tolerated(query.req, touch)
                 THEN [query EXCEPT !.failed = @ \cup {touch.account}, !.plan = Tail(@)]
                 ELSE Error(query, FailureCode(query, code))
  BY DEF Fails
<1>2. /\ query.at = "asking" /\ query.plan # <<>> /\ enabled' = enabled
      /\ enabled \subseteq Accounts
  BY DEF Fails, RouteIInv
<1>3. AskingFits(query)
  BY <1>2 DEF RouteIInv
<1> DEFINE named == query.named
           caller == query.caller
           req == query.req
<1>4. /\ query \in Asking /\ Scoped(named, caller, req) /\ req \in Queries /\ caller \in Callers
      /\ Fitting(named, caller, req, query.done)
  BY <1>3 DEF AskingFits, Asking
<1>5. Fitting(named, caller, req, Tail(query.plan)) /\ touch \in Visits
  BY <1>2, <1>3, HeadFits DEF AskingFits
<1>6. CASE Tolerated(query.req, touch)
  <2>1. Tail(query.plan) \in Seq(Visits) /\ touch.account \in RoutePlaces
    BY <1>5 DEF Fitting, Visits
  <2>2. /\ query' \in Asking /\ query'.at = "asking" /\ query'.named = named
        /\ query'.caller = caller /\ query'.req = req /\ query'.plan = Tail(query.plan)
        /\ query'.done = query.done
    BY <1>1, <1>4, <1>6, <2>1 DEF Asking
  <2>3. AskingFits(query')
    BY <1>4, <1>5, <2>2 DEF AskingFits
  <2> QED
    BY <1>2, <2>2, <2>3 DEF RouteIInv
<1>7. CASE ~Tolerated(query.req, touch)
  <2> DEFINE told == FailureCode(query, code)
  <2>1. told # "ok" /\ (req.tool = "sendMessage" /\ query.done # <<>> => told = "outcome_unknown")
    BY DEF FailureCode
  <2> HIDE DEF told
  <2>2. Error(query, told).at = "answered" /\ AnswerFits(Error(query, told))
    BY <1>4, <2>1, ErrorFits
  <2> QED
    BY <1>1, <1>2, <1>7, <2>2 DEF RouteIInv, told
<1> QED
  BY <1>6, <1>7

LEMMA NotItsHolds == ASSUME RouteIInv, NotIts PROVE RouteIInv'
<1>1. /\ query.at = "asking" /\ query.req.tool \in FoundLate /\ enabled' = enabled
      /\ query' = Error(query, "not_found") /\ enabled \subseteq Accounts
  BY DEF NotIts, RouteIInv
<1>2. AskingFits(query)
  BY <1>1 DEF RouteIInv
<1>3. /\ query.req \in Queries /\ query.caller \in Callers
      /\ Fitting(query.named, query.caller, query.req, query.done)
  BY <1>2 DEF AskingFits, Asking
<1>4. query.req.tool # "sendMessage"
  BY <1>1 DEF FoundLate
<1>5. Error(query, "not_found").at = "answered" /\ AnswerFits(Error(query, "not_found"))
  BY <1>3, <1>4, ErrorFits
<1> QED
  BY <1>1, <1>5 DEF RouteIInv

\* A call that every place was asked for is answered as it went.
LEMMA RepliesHolds == ASSUME RouteIInv, Replies PROVE RouteIInv'
<1>1. /\ query.at = "asking" /\ enabled' = enabled /\ enabled \subseteq Accounts
  BY DEF Replies, RouteIInv
<1>2. AskingFits(query)
  BY <1>1 DEF RouteIInv
<1> DEFINE req == query.req
<1>3. /\ req \in Queries /\ query.caller \in Callers
      /\ Fitting(query.named, query.caller, req, query.done)
  BY <1>2 DEF AskingFits, Asking
<1>4. CASE req.tool = "listConversations"
  <2>1. PICK code \in {"provider_error", "unsupported_capability"} : query' = ListAnswer(query, code)
    BY <1>4 DEF Replies
  <2>2. CASE \A t \in Range(query.done) : t.account \in query.failed
    <3>1. query' = Error(query, code)
      BY <2>1, <2>2 DEF ListAnswer
    <3>2. Error(query, code).at = "answered" /\ AnswerFits(Error(query, code))
      BY <1>3, <1>4, ErrorFits
    <3> QED
      BY <1>1, <3>1, <3>2 DEF RouteIInv
  <2>3. CASE ~ \A t \in Range(query.done) : t.account \in query.failed
    <3> DEFINE kind == IF ReadSource(req) = "provider" THEN "providerQuery" ELSE "localIndex"
               completeness == IF query.failed # {} THEN "partial" ELSE "complete"
    <3>1. query' = Answer(query, "ok", kind, completeness)
      BY <2>1, <2>3 DEF ListAnswer
    <3>2. /\ query'.at = "answered" /\ query'.req = req /\ query'.caller = query.caller
          /\ query'.named = query.named /\ query'.done = query.done
          /\ query'.failed = query.failed /\ query'.code = "ok" /\ query'.kind = kind
          /\ query'.completeness = completeness
      BY <3>1, AnswerFacts
    <3>3. kind = "providerQuery" <=> ReadSource(req) = "provider"
      OBVIOUS
    <3>4. completeness = "complete" => query.failed = {}
      OBVIOUS
    <3>5. req.tool \notin Mutating /\ req.tool # "sendMessage"
      BY <1>4 DEF Mutating, InternalWrites, MessageWrites, ProviderWrites
    <3> HIDE DEF kind, completeness, req
    <3>6. TellsSource(query')
      BY <3>2, <3>3, <3>5 DEF TellsSource
    <3>7. TellsPartial(query')
      BY <2>3, <3>2, <3>4 DEF TellsPartial
    <3>8. TellsSent(query')
      BY <3>2 DEF TellsSent
    <3>9. AnswerFits(query')
      BY <1>3, <3>2, <3>6, <3>7, <3>8 DEF AnswerFits
    <3> QED
      BY <1>1, <3>2, <3>9 DEF RouteIInv
  <2> QED
    BY <2>2, <2>3
<1>5. CASE req.tool # "listConversations"
  <2> DEFINE kind == IF req.tool \in Mutating THEN NoId ELSE CanonicalMeta(req)
  <2>1. query' = Answer(query, "ok", kind, "complete")
    BY <1>5 DEF Replies
  <2>2. /\ query'.at = "answered" /\ query'.req = req /\ query'.caller = query.caller
        /\ query'.named = query.named /\ query'.done = query.done
        /\ query'.code = "ok" /\ query'.kind = kind
    BY <2>1, AnswerFacts
  <2>3. kind # NoId => /\ req.tool \notin Mutating
                       /\ kind = "providerQuery" <=> ReadSource(req) = "provider"
    BY <1>3, MetaNamesSource
  <2> HIDE DEF kind, req
  <2>4. TellsSource(query')
    BY <2>2, <2>3 DEF TellsSource
  <2>5. TellsPartial(query')
    BY <1>5, <2>2 DEF TellsPartial
  <2>6. TellsSent(query')
    BY <2>2 DEF TellsSent
  <2>7. AnswerFits(query')
    BY <1>3, <2>2, <2>4, <2>5, <2>6 DEF AnswerFits
  <2> QED
    BY <1>1, <2>2, <2>7 DEF RouteIInv
<1> QED
  BY <1>4, <1>5

LEMMA ReturnedHolds == ASSUME RouteIInv, Returned PROVE RouteIInv'
BY DEF RouteIInv, Returned, Idle

LEMMA EditHolds == ASSUME RouteIInv, Edit PROVE RouteIInv'
<1>1. query' = query /\ enabled' \subseteq Accounts
  BY DEF Edit, RouteIInv
<1> QED
  BY <1>1 DEF RouteIInv

LEMMA RouteStep == ASSUME RouteIInv, [RoutingNext]_routingVars PROVE RouteIInv'
<1>1. CASE UNCHANGED routingVars
  BY <1>1 DEF routingVars, RouteIInv
<1> QED
  BY <1>1, AskHolds, TouchedHolds, FailsHolds, NotItsHolds, RepliesHolds, ReturnedHolds, EditHolds
  DEF RoutingNext

\* What fits was done only for the account asked for, and is told.
LEMMA RouteIsKept == ASSUME RouteIInv PROVE RoutingInv
<1>1. CASE query.at = "idle"
  BY <1>1 DEF RoutingInv, OnlyAskedAccount, AnswersTell, SourceAsTold, PartialIsTold,
              PartsSentAreTold, Made
<1>2. CASE query.at \in {"asking", "answered"}
  <2>1. /\ query.caller \in Callers /\ query.req \in Queries
        /\ Fitting(query.named, query.caller, query.req, query.done)
    BY <1>2 DEF RouteIInv, AskingFits, AnswerFits, Asking
  <2>2. Made = Range(query.done)
    BY <1>2 DEF Made
  <2>3. \A t \in Made : Fits(query.named, query.caller, query.req, t)
    BY <2>1, <2>2, RangeFits
  <2>4. query.caller.bound \in BOOLEAN
    BY <2>1, CallerFacts
  <2>5. OnlyAskedAccount
    BY <2>3, <2>4 DEF OnlyAskedAccount, Fits, Allowed
  <2>6. CASE query.at = "asking"
    BY <2>5, <2>6 DEF RoutingInv, AnswersTell, SourceAsTold, PartialIsTold, PartsSentAreTold
  <2>7. CASE query.at = "answered"
    <3>1. TellsSource(query) /\ TellsPartial(query) /\ TellsSent(query)
      BY <2>7 DEF RouteIInv, AnswerFits
    <3>2. SourceAsTold
      <4>1. SUFFICES ASSUME query.code = "ok", query.kind # NoId, NEW t \in Made
                     PROVE  /\ t.at = (IF query.kind = "providerQuery" THEN "provider" ELSE "index")
                            /\ query.req.source # "auto" => t.at = query.req.source
        BY DEF SourceAsTold
      <4>2. /\ query.req.tool \notin Mutating
            /\ query.kind = "providerQuery" <=> ReadSource(query.req) = "provider"
        BY <3>1, <4>1 DEF TellsSource
      <4>3. t.at = ReadSource(query.req) /\ (query.req.source # "auto" => t.at = query.req.source)
        BY <2>3, <4>2 DEF Fits, Told
      <4>4. ReadSource(query.req) \in {"provider", "index"}
        BY <2>1, <4>2, MetaNamesSource
      <4> QED
        BY <4>2, <4>3, <4>4
    <3>3. PartialIsTold
      BY <2>2, <3>1 DEF PartialIsTold, TellsPartial
    <3>4. PartsSentAreTold
      BY <3>1 DEF PartsSentAreTold, TellsSent
    <3> QED
      BY <2>5, <3>2, <3>3, <3>4 DEF RoutingInv, AnswersTell
  <2> QED
    BY <1>2, <2>6, <2>7
<1> QED
  BY <1>1, <1>2 DEF RouteIInv

\* Every call of a social tool acts on the account its caller named, or was
\* bound to, and on no other, however the registry changes between its
\* requests; and its answer names the source asked, the accounts missing and
\* that parts of a message went out (resolveAccount, canonicalMeta,
\* listConversationsFor, sendMessage of server.ts).
THEOREM RoutingHolds == RoutingSpec => []RoutingInv
<1>1. RoutingInit => RouteIInv
  BY RouteInit
<1>2. RouteIInv /\ [RoutingNext]_routingVars => RouteIInv'
  BY RouteStep
<1>3. RouteIInv => RoutingInv
  BY RouteIsKept
<1> QED
  BY <1>1, <1>2, <1>3, PTL DEF RoutingSpec
=============================================================================
