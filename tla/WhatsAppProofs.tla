----------------------------- MODULE WhatsAppProofs -----------------------------
(***************************************************************************)
(* Proofs about the WhatsApp connector: the ticks and receipts of a chat   *)
(* (WhatsAppReads), the copy kept for a retry receipt (WhatsAppRetry), the *)
(* outbound ledger (WhatsAppSend) and the pairing pool (PairingPool).      *)
(***************************************************************************)
EXTENDS WhatsAppReads, WhatsAppRetry, WhatsAppSend, PairingPool, FiniteSetTheorems,
        SequenceTheorems, TLAPS

(***************************************************************************)
(* WhatsAppReads.  No message is left behind the watermark because a read  *)
(* one settles those before it: it was in the list of a call of            *)
(* markAsRead(), whose older entries get a receipt with it, or were over   *)
(* the limit, or behind the watermark already; and a message whose key     *)
(* comes later than that of a newer one is excused.                        *)
(***************************************************************************)
Answered(m)   == m \in receipted \cup readThere \cup excused
Passed(m)    == \E n \in Rows : n > m /\ (~Inbound[n] \/ n \in readThere)
Accounted(m) == Answered(m) \/ Passed(m)

\* Every message of theirs before w is accounted for, or one of S.
OlderAccounted(w, S) ==
  \A m \in keyed : Inbound[m] /\ m < w => m \in S \/ Accounted(m)

\* A query that will write `read` is WhatsApp's own report.
QueriesTrue == \A q \in queries : q[2] = "read" => q[1] \in readThere

ReadSettles ==
  \A w \in Rows :
    Inbound[w] /\ tick[w] = "read" =>
      w \in readThere \/ (w \in keyed \cap receipted /\ OlderAccounted(w, {}))

ListsAccount ==
  \A c \in ReadCalls : \A k \in reader[c].keys :
    /\ reader[c].at = "loaded" => OlderAccounted(k, reader[c].keys)
    /\ reader[c].at = "sent" => k \in receipted /\ OlderAccounted(k, {})

ReadsIInv == ReadsTypeOK /\ QueriesTrue /\ ReadSettles /\ ListsAccount

-----------------------------------------------------------------------------
LEMMA TickNamesAre ==
  /\ TickNames = {"pending", "sent", "delivered", "read", "deleted", "failed"}
  /\ \A t \in TickNames : Rank[t] \in 0 .. 4
  /\ \A t \in Ranked : t \in TickNames /\ Rank[t] \in 2 .. 4
  /\ Rank["read"] = 4
  /\ \A t \in TickNames : Rank[t] = 0 => t \notin Ranked
  BY DEF TickNames, Rank, Ranked

LEMMA NewestAreSome == \A S : Newest(S) \subseteq S
  BY DEF Newest

LEMMA NumbersAreNat == \A m \in ChatMsgs : m \in Nat /\ Inbound[m] \in BOOLEAN
  BY ReadsAssumption DEF ChatMsgs

LEMMA ReadsInitIInv == ReadsInit => ReadsIInv
<1> SUFFICES ASSUME ReadsInit PROVE ReadsIInv
  OBVIOUS
<1> USE DEF ReadsInit
<1>1. Rows = {}
  BY DEF Rows
<1>2. reports \in 0 .. MaxReports
  BY ReadsAssumption
<1>3. reader \in [ReadCalls -> [at : {"idle", "loaded", "sent"}, keys : SUBSET keyed]]
  BY DEF Resting
<1>4. tick \in [ChatMsgs -> TickNames \cup {"none"}]
  OBVIOUS
<1>5. ReadsTypeOK
  BY <1>1, <1>2, <1>3, <1>4 DEF ReadsTypeOK
<1>6. QueriesTrue /\ ReadSettles
  BY <1>1 DEF QueriesTrue, ReadSettles
<1>7. ListsAccount
  BY DEF ListsAccount, Resting
<1> QED
  BY <1>5, <1>6, <1>7 DEF ReadsIInv

\* What is accounted for stays so, as long as rows, receipts and reports only grow.
LEMMA AccountsLast ==
  ASSUME Rows \subseteq Rows', receipted \subseteq receipted',
         readThere \subseteq readThere', excused \subseteq excused'
  PROVE  \A m : Accounted(m) => Accounted(m)'
BY DEF Accounted, Answered, Passed

\* A message whose key comes after that of a newer one is excused, so that the newer one
\* still has everything before it accounted for.
LEMMA OlderLast ==
  ASSUME ReadsTypeOK, NEW w \in keyed, NEW S, OlderAccounted(w, S),
         \A m : Accounted(m) => Accounted(m)',
         \A m \in keyed' \ keyed : w > m => m \in excused'
  PROVE  OlderAccounted(w, S)'
<1> SUFFICES ASSUME NEW m \in keyed', Inbound[m], m < w, m \notin S
             PROVE  Accounted(m)'
  BY DEF OlderAccounted
<1>1. CASE m \in keyed
  BY <1>1 DEF OlderAccounted
<1>2. CASE m \notin keyed
  BY <1>2 DEF Accounted, Answered
<1> QED
  BY <1>1, <1>2

\* The watermark leaves no message behind in any state of the invariant.
LEMMA NoneIsLeft == ReadsIInv => NoneLeftBehind
<1> SUFFICES ASSUME ReadsIInv, NEW m \in keyed, ~Answered(m), Inbound[m], m \notin Unread
             PROVE  Passed(m)
  BY DEF NoneLeftBehind, Answered, Passed
<1>1. m \in Rows /\ m \in ChatMsgs
  BY DEF ReadsIInv, ReadsTypeOK, Rows
<1>2. tick[m] # "read"
  BY <1>1 DEF ReadsIInv, ReadSettles, Answered
<1>3. PICK w \in Watermark : ~(m > w)
  BY <1>2 DEF Unread
<1>4. w \in Rows /\ w \in ChatMsgs /\ (~Inbound[w] \/ tick[w] = "read")
  BY <1>3 DEF Watermark, Rows
<1>5. w # m
  BY <1>2, <1>4
<1>6. w > m
  BY <1>1, <1>3, <1>4, <1>5, NumbersAreNat
<1>7. CASE ~Inbound[w] \/ w \in readThere
  BY <1>4, <1>6, <1>7 DEF Passed
<1>8. CASE Inbound[w] /\ w \notin readThere
  <2>1. OlderAccounted(w, {})
    BY <1>4, <1>8 DEF ReadsIInv, ReadSettles
  <2>2. m < w
    BY <1>1, <1>4, <1>6, NumbersAreNat
  <2> QED
    BY <2>1, <2>2 DEF OlderAccounted, Accounted
<1> QED
  BY <1>7, <1>8

-----------------------------------------------------------------------------
(* The steps: the types first. *)

\* A row's status is one it may have, and no step takes a row away.
LEMMA TickKept ==
  ASSUME ReadsTypeOK, ReadsNext
  PROVE  tick' \in [ChatMsgs -> TickNames \cup {"none"}] /\ Rows \subseteq Rows'
<1> USE TickNamesAre DEF ReadsTypeOK
<1>1. CASE UNCHANGED tick
  BY <1>1 DEF Rows
<1>2. ASSUME NEW m \in ChatMsgs, RowStored(m)
      PROVE  tick' \in [ChatMsgs -> TickNames \cup {"none"}] /\ Rows \subseteq Rows'
  BY <1>2 DEF RowStored, Rows
<1>3. ASSUME NEW q \in queries, StatusSet(q)
      PROVE  tick' \in [ChatMsgs -> TickNames \cup {"none"}] /\ Rows \subseteq Rows'
  <2>1. q[1] \in ChatMsgs /\ q[2] \in TickNames
    OBVIOUS
  <2>2. CASE q[1] \in Rows
    <3>1. Ticked(tick[q[1]], q[2]) \in TickNames
      BY <2>1, <2>2 DEF Ticked, Rows
    <3>2. tick' = [tick EXCEPT ![q[1]] = Ticked(tick[q[1]], q[2])]
      BY <1>3, <2>2 DEF StatusSet
    <3> HIDE TickNamesAre
    <3>3. "none" \notin TickNames
      BY TickNamesAre
    <3> QED
      BY <2>1, <3>1, <3>2, <3>3 DEF Rows
  <2>3. CASE q[1] \notin Rows
    BY <1>1, <1>3, <2>3 DEF StatusSet
  <2> QED
    BY <2>2, <2>3
<1>4. ASSUME NEW c \in ReadCalls, CallReturns(c)
      PROVE  tick' \in [ChatMsgs -> TickNames \cup {"none"}] /\ Rows \subseteq Rows'
  <2>1. tick' = tick \/ tick' = Marked(reader[c].keys)
    BY <1>4 DEF CallReturns
  <2> QED
    BY <1>1, <2>1 DEF Marked, Rows
<1> QED
  BY <1>1, <1>2, <1>3, <1>4 DEF ReadsNext, chatRows, chatTold, KeyStored, Reported, BadgeReported,
     StatusFails, LoadUnread, LatestAgain, ReceiptsSent, ReceiptsFail

\* What the calls and the reports have told only grows.
LEMMA ToldGrows ==
  ASSUME ReadsTypeOK, ReadsNext
  PROVE  /\ receipted \subseteq receipted' /\ readThere \subseteq readThere'
         /\ excused \subseteq excused' /\ keyed \subseteq keyed'
BY DEF ReadsNext, chatRows, chatTold, RowStored, KeyStored, Reported, BadgeReported, StatusSet,
     StatusFails, LoadUnread, LatestAgain, ReceiptsSent, ReceiptsFail, CallReturns

LEMMA QueriesKept ==
  ASSUME ReadsTypeOK, ReadsNext, QueriesTrue
  PROVE  queries' \subseteq ChatMsgs \X TickNames /\ reports' \in 0 .. MaxReports /\ QueriesTrue'
<1> USE DEF ReadsTypeOK, QueriesTrue
<1>1. ASSUME NEW m \in ChatMsgs, NEW s \in {"delivered", "read", "deleted"}, Reported(m, s)
      PROVE  queries' \subseteq ChatMsgs \X TickNames /\ reports' \in 0 .. MaxReports /\ QueriesTrue'
  <2>1. reports' \in 0 .. MaxReports
    BY <1>1, ReadsAssumption DEF Reported
  <2>2. s \in TickNames
    BY TickNamesAre
  <2>3. queries' = queries \cup {<<m, s>>}
    BY <1>1 DEF Reported
  <2>4. queries' \subseteq ChatMsgs \X TickNames
    BY <2>2, <2>3
  <2>5. readThere \subseteq readThere' /\ (s = "read" => m \in readThere')
    BY <1>1 DEF Reported
  <2>6. QueriesTrue'
    BY <2>3, <2>5
  <2> QED
    BY <2>1, <2>4, <2>6
<1>2. CASE queries' \subseteq queries /\ reports' = reports
  BY <1>2, ToldGrows
<1> QED
  BY <1>1, <1>2 DEF ReadsNext, chatRows, chatTold, RowStored, KeyStored, BadgeReported, StatusSet,
     StatusFails, LoadUnread, LatestAgain, ReceiptsSent, ReceiptsFail, CallReturns

LEMMA KeysKept ==
  ASSUME ReadsTypeOK, ReadsNext
  PROVE  keyed' \subseteq Rows' /\ badge' \in BOOLEAN
<1> USE DEF ReadsTypeOK
<1>1. keyed' \subseteq keyed \cup Rows
  BY DEF ReadsNext, chatRows, chatTold, RowStored, KeyStored, Reported, BadgeReported, StatusSet,
     StatusFails, LoadUnread, LatestAgain, ReceiptsSent, ReceiptsFail, CallReturns
<1>2. badge' \in BOOLEAN
  BY DEF ReadsNext, chatRows, chatTold, RowStored, KeyStored, Reported, BadgeReported, StatusSet,
     StatusFails, LoadUnread, LatestAgain, ReceiptsSent, ReceiptsFail, CallReturns
<1> QED
  BY <1>1, <1>2, TickKept

LEMMA ToldKept ==
  ASSUME ReadsTypeOK, ReadsNext
  PROVE  receipted' \subseteq Rows' /\ readThere' \subseteq ChatMsgs /\ excused' \subseteq Rows'
<1> USE DEF ReadsTypeOK
<1>1. receipted' \subseteq receipted \cup Rows \/ \E c \in ReadCalls : ReceiptsSent(c)
  BY DEF ReadsNext, chatRows, chatTold, RowStored, KeyStored, Reported, BadgeReported, StatusSet,
     StatusFails, LoadUnread, LatestAgain, ReceiptsFail, CallReturns
<1>2. ASSUME NEW c \in ReadCalls, ReceiptsSent(c) PROVE receipted' \subseteq Rows
  BY <1>2 DEF ReceiptsSent
<1>3. readThere' \subseteq ChatMsgs
  BY DEF ReadsNext, chatRows, chatTold, RowStored, KeyStored, Reported, BadgeReported, StatusSet,
     StatusFails, LoadUnread, LatestAgain, ReceiptsSent, ReceiptsFail, CallReturns
<1>4. excused' \subseteq excused \cup Rows
  BY DEF ReadsNext, chatRows, chatTold, RowStored, KeyStored, Reported, BadgeReported, StatusSet,
     StatusFails, LoadUnread, LatestAgain, ReceiptsSent, ReceiptsFail, CallReturns, Unread
<1> QED
  BY <1>1, <1>2, <1>3, <1>4, TickKept

\* One call of markAsRead() moves in a step.
Moves(c, at, keys) ==
  /\ c \in ReadCalls /\ reader' = [reader EXCEPT ![c] = [at |-> at, keys |-> keys]]

LEMMA ReaderSteps ==
  ASSUME ReadsTypeOK, ReadsNext
  PROVE  \/ reader' = reader
         \/ \E c \in ReadCalls :
              \/ Moves(c, "idle", {})
              \/ LoadUnread(c) /\ Moves(c, "loaded", Newest(Unread))
              \/ ReceiptsSent(c) /\ reader[c].at = "loaded" /\ Moves(c, "sent", reader[c].keys)
BY DEF ReadsNext, chatRows, chatTold, RowStored, KeyStored, Reported, BadgeReported, StatusSet,
     StatusFails, LoadUnread, LatestAgain, ReceiptsSent, ReceiptsFail, CallReturns, Moves, Reads

LEMMA ReaderKept ==
  ASSUME ReadsTypeOK, ReadsNext
  PROVE  reader' \in [ReadCalls -> [at : {"idle", "loaded", "sent"}, keys : SUBSET keyed']]
<1> DEFINE CallStates == [at : {"idle", "loaded", "sent"}, keys : SUBSET keyed']
<1>1. reader \in [ReadCalls -> CallStates]
  BY ToldGrows DEF ReadsTypeOK
<1>2. ASSUME NEW c \in ReadCalls, NEW at \in {"idle", "loaded", "sent"}, NEW keys \in SUBSET keyed,
             Moves(c, at, keys)
      PROVE  reader' \in [ReadCalls -> CallStates]
  BY <1>1, <1>2, ToldGrows DEF Moves
<1>3. Newest(Unread) \in SUBSET keyed /\ {} \in SUBSET keyed
  BY NewestAreSome DEF Unread
<1>4. \A c \in ReadCalls : reader[c].keys \in SUBSET keyed
  BY DEF ReadsTypeOK
<1> HIDE DEF CallStates
<1> QED
  BY <1>1, <1>2, <1>3, <1>4, ReaderSteps DEF CallStates

LEMMA ReadsTypeKept ==
  ASSUME ReadsTypeOK, QueriesTrue, ReadsNext
  PROVE  ReadsTypeOK'
BY TickKept, QueriesKept, KeysKept, ToldKept, ReaderKept DEF ReadsTypeOK

-----------------------------------------------------------------------------
(* The steps: what is accounted for. *)

\* A key that comes now is excused if the key of a newer message is there.
LEMMA LateIsExcused ==
  ASSUME ReadsTypeOK, ReadsNext, NEW m \in keyed' \ keyed, NEW w \in keyed, w > m
  PROVE  m \in excused'
<1>1. KeyStored(m)
  BY DEF ReadsNext, chatRows, chatTold, RowStored, KeyStored, Reported, BadgeReported, StatusSet,
     StatusFails, LoadUnread, LatestAgain, ReceiptsSent, ReceiptsFail, CallReturns
<1> QED
  BY <1>1 DEF KeyStored

LEMMA OlderStays ==
  ASSUME ReadsTypeOK, ReadsNext, NEW w \in keyed, NEW S, OlderAccounted(w, S)
  PROVE  OlderAccounted(w, S)'
<1>1. \A m : Accounted(m) => Accounted(m)'
  BY TickKept, ToldGrows, AccountsLast
<1> QED
  BY <1>1, LateIsExcused, OlderLast

\* The list of a call: what is unread and older is in it or over the limit, and the watermark
\* has passed the rest.
LEMMA ListIsWhole ==
  ASSUME ReadsIInv, NEW c \in ReadCalls, LoadUnread(c), NEW k \in Newest(Unread)
  PROVE  OlderAccounted(k, Newest(Unread))'
<1>1. keyed' = keyed /\ excused' = excused \cup (Unread \ Newest(Unread))
      /\ receipted' = receipted /\ readThere' = readThere /\ tick' = tick
  BY DEF LoadUnread, chatRows
<1>2. Rows' = Rows /\ Unread' = Unread /\ Newest(Unread)' = Newest(Unread)
  BY <1>1 DEF Rows, Unread, Watermark, Newest
<1> SUFFICES ASSUME NEW m \in keyed, Inbound[m], m < k, m \notin Newest(Unread)
             PROVE  Accounted(m)'
  BY <1>1, <1>2 DEF OlderAccounted
<1>3. CASE m \in Unread
  BY <1>1, <1>3 DEF Accounted, Answered
<1>4. CASE m \notin Unread
  <2>1. Accounted(m)
    BY <1>4, NoneIsLeft DEF NoneLeftBehind, Accounted, Answered, Passed
  <2> QED
    BY <1>1, <1>2, <2>1, AccountsLast
<1> QED
  BY <1>3, <1>4

LEMMA ListsKept ==
  ASSUME ReadsIInv, ReadsNext
  PROVE  ListsAccount'
<1> SUFFICES ASSUME NEW c \in ReadCalls, NEW k \in reader'[c].keys
             PROVE  /\ reader'[c].at = "loaded" => OlderAccounted(k, reader[c].keys)'
                    /\ reader'[c].at = "sent" => k \in receipted' /\ OlderAccounted(k, {})'
  BY DEF ListsAccount
<1> USE DEF ReadsIInv
<1>1. CASE reader'[c] = reader[c]
  <2>1. k \in keyed
    BY <1>1 DEF ReadsTypeOK
  <2>2. reader[c].at = "loaded" => OlderAccounted(k, reader[c].keys)
    BY <1>1 DEF ListsAccount
  <2>3. reader[c].at = "sent" => k \in receipted /\ OlderAccounted(k, {})
    BY <1>1 DEF ListsAccount
  <2>4. ASSUME NEW S, S = reader[c].keys, OlderAccounted(k, S) PROVE OlderAccounted(k, S)'
    BY <2>1, <2>4, OlderStays
  <2>5. OlderAccounted(k, {}) => OlderAccounted(k, {})'
    BY <2>1, OlderStays
  <2>6. OlderAccounted(k, reader[c].keys) => OlderAccounted(k, reader[c].keys)'
    BY <1>1, <2>4 DEF OlderAccounted
  <2> QED
    BY <1>1, <2>2, <2>3, <2>5, <2>6, ToldGrows
<1>2. CASE Moves(c, "idle", {})
  BY <1>2 DEF Moves, ReadsTypeOK
<1>3. CASE LoadUnread(c) /\ Moves(c, "loaded", Newest(Unread))
  <2>1. reader'[c].at = "loaded" /\ reader'[c].keys = Newest(Unread)
    BY <1>3 DEF Moves, ReadsTypeOK
  <2>2. Newest(Unread)' = Newest(Unread)
    BY <1>3 DEF LoadUnread, chatRows, Newest, Unread, Watermark, Rows
  <2>3. OlderAccounted(k, Newest(Unread))'
    BY <1>3, <2>1, ListIsWhole
  <2> QED
    BY <2>1, <2>2, <2>3 DEF OlderAccounted
<1>4. CASE ReceiptsSent(c) /\ reader[c].at = "loaded" /\ Moves(c, "sent", reader[c].keys)
  <2>1. reader'[c].at = "sent" /\ reader'[c].keys = reader[c].keys /\ k \in keyed
    BY <1>4 DEF Moves, ReadsTypeOK
  <2>2. receipted' = receipted \cup reader[c].keys
    BY <1>4 DEF ReceiptsSent
  <2>3. OlderAccounted(k, reader[c].keys)
    BY <1>4, <2>1 DEF ListsAccount
  <2>4. ASSUME NEW S, S = reader[c].keys, OlderAccounted(k, S) PROVE OlderAccounted(k, S)'
    BY <2>1, <2>4, OlderStays
  <2>5. OlderAccounted(k, {})'
    BY <2>1, <2>2, <2>3, <2>4 DEF OlderAccounted, Accounted, Answered
  <2> QED
    BY <2>1, <2>2, <2>5
<1>5. CASE reader'[c] # reader[c]
  <2>1. \A d \in ReadCalls : \A at, keys : Moves(d, at, keys) => d = c
    BY <1>5 DEF Moves, ReadsTypeOK
  <2> QED
    BY <1>2, <1>3, <1>4, <1>5, <2>1, ReaderSteps
<1> QED
  BY <1>1, <1>5

\* A message becomes read by WhatsApp's own report or by the mark of a call.
LEMMA WhoReads ==
  ASSUME ReadsTypeOK, ReadsNext, NEW w \in ChatMsgs, tick'[w] = "read", tick[w] # "read"
  PROVE  \/ \E q \in queries : q[1] = w /\ q[2] = "read"
         \/ \E c \in ReadCalls : reader[c].at = "sent" /\ w \in reader[c].keys
<1> USE DEF ReadsTypeOK
<1>1. CASE UNCHANGED tick
  BY <1>1
<1>2. ASSUME NEW m \in ChatMsgs, RowStored(m) PROVE FALSE
  BY <1>2 DEF RowStored
<1>3. ASSUME NEW q \in queries, StatusSet(q) PROVE q[1] = w /\ q[2] = "read"
  BY <1>3 DEF StatusSet, Ticked
<1>4. ASSUME NEW c \in ReadCalls, CallReturns(c) PROVE reader[c].at = "sent" /\ w \in reader[c].keys
  BY <1>4 DEF CallReturns, Marked
<1> QED
  BY <1>1, <1>2, <1>3, <1>4 DEF ReadsNext, chatRows, chatTold, KeyStored, Reported, BadgeReported,
     StatusFails, LoadUnread, LatestAgain, ReceiptsSent, ReceiptsFail

LEMMA ReadsSettle ==
  ASSUME ReadsIInv, ReadsNext
  PROVE  ReadSettles'
<1> SUFFICES ASSUME NEW w \in Rows', Inbound[w], tick'[w] = "read", w \notin readThere'
             PROVE  w \in keyed' \cap receipted' /\ OlderAccounted(w, {})'
  BY DEF ReadSettles
<1> USE DEF ReadsIInv
<1>1. w \in ChatMsgs /\ w \notin readThere
  BY ToldGrows DEF Rows
<1>2. w \in keyed /\ w \in receipted /\ OlderAccounted(w, {})
  <2>1. CASE tick[w] = "read"
    <3>1. w \in Rows
      BY <1>1, <2>1 DEF Rows
    <3> QED
      BY <1>1, <2>1, <3>1 DEF ReadSettles
  <2>2. CASE tick[w] # "read"
    <3>1. ~ \E q \in queries : q[1] = w /\ q[2] = "read"
      BY <1>1 DEF QueriesTrue
    <3>2. PICK c \in ReadCalls : reader[c].at = "sent" /\ w \in reader[c].keys
      BY <1>1, <2>2, <3>1, WhoReads
    <3>3. w \in keyed
      BY <3>2 DEF ReadsTypeOK
    <3> QED
      BY <3>2, <3>3 DEF ListsAccount
  <2> QED
    BY <2>1, <2>2
<1> QED
  BY <1>2, ToldGrows, OlderStays

-----------------------------------------------------------------------------
LEMMA ReadsStep == ReadsIInv /\ [ReadsNext]_readsVars => ReadsIInv'
<1> SUFFICES ASSUME ReadsIInv, [ReadsNext]_readsVars PROVE ReadsIInv'
  OBVIOUS
<1>1. CASE ReadsNext
  BY <1>1, ReadsTypeKept, QueriesKept, ReadsSettle, ListsKept DEF ReadsIInv
<1>2. CASE UNCHANGED readsVars
  BY <1>2 DEF ReadsIInv, ReadsTypeOK, QueriesTrue, ReadSettles, ListsAccount, OlderAccounted,
     Accounted, Answered, Passed, Rows, readsVars, chatRows, chatTold
<1> QED
  BY <1>1, <1>2

LEMMA ReadsIInvHolds == ReadsSpec => []ReadsIInv
<1> QED
  BY ReadsInitIInv, ReadsStep, PTL DEF ReadsSpec

\* Whatever comes between the listing of a call of markAsRead() and its mark, in whatever
\* order the queries run, the watermark leaves no unread message of theirs behind.
THEOREM ReadsInvariant == ReadsSpec => []ReadsInv
<1>1. ReadsIInv => ReadsInv
  BY NoneIsLeft DEF ReadsIInv, ReadsInv
<1> QED
  BY <1>1, ReadsIInvHolds, PTL

LEMMA TicksStep ==
  ASSUME ReadsTypeOK, ReadsNext, NEW m \in ChatMsgs, tick[m] \in Ranked, tick'[m] \in Ranked
  PROVE  Rank[tick'[m]] >= Rank[tick[m]]
<1> USE DEF ReadsTypeOK
<1>0. tick[m] \in TickNames /\ tick'[m] \in TickNames /\ Rank[tick[m]] \in 2 .. 4 /\ Rank[tick'[m]] \in 2 .. 4
  BY TickNamesAre
<1>1. CASE tick'[m] = tick[m]
  BY <1>0, <1>1
<1>2. ASSUME NEW n \in ChatMsgs, RowStored(n) PROVE tick'[m] = tick[m]
  BY <1>2 DEF RowStored, Ranked
<1>3. ASSUME NEW q \in queries, StatusSet(q), tick'[m] # tick[m] PROVE Rank[tick'[m]] >= Rank[tick[m]]
  <2>1. q[1] = m /\ tick'[m] = Ticked(tick[m], q[2]) /\ q[2] \in TickNames
    BY <1>3 DEF StatusSet
  <2>2. tick'[m] = q[2] /\ (Rank[q[2]] = 0 \/ Rank[q[2]] > Rank[tick[m]])
    BY <1>3, <2>1 DEF Ticked
  <2> QED
    BY <1>0, <2>1, <2>2
<1>4. ASSUME NEW c \in ReadCalls, CallReturns(c), tick'[m] # tick[m] PROVE Rank[tick'[m]] >= Rank[tick[m]]
  <2>1. tick'[m] = "read"
    BY <1>4 DEF CallReturns, Marked
  <2> QED
    BY <1>0, <2>1, TickNamesAre
<1> QED
  BY <1>1, <1>2, <1>3, <1>4 DEF ReadsNext, chatRows, chatTold, KeyStored, Reported, BadgeReported,
     StatusFails, LoadUnread, LatestAgain, ReceiptsSent, ReceiptsFail

\* setMessageStatus() and markMessagesRead(), run in any order, never lower a tick.
THEOREM TicksHold == ReadsSpec => TicksNeverFall
<1>1. ReadsIInv /\ [ReadsNext]_readsVars =>
        [\A m \in ChatMsgs :
           tick[m] \in Ranked /\ tick'[m] \in Ranked => Rank[tick'[m]] >= Rank[tick[m]]]_readsVars
  BY TicksStep DEF ReadsIInv
<1> QED
  BY <1>1, ReadsIInvHolds, PTL DEF ReadsSpec, TicksNeverFall

-----------------------------------------------------------------------------
(***************************************************************************)
(* WhatsAppRetry.  A text made of a row comes back to the caches under its *)
(* own message's keys only; and a copy a call could find is neither        *)
(* deleted nor hidden while the call runs, since a table that holds one is *)
(* there, and only a missing table blinds the store.                       *)
(***************************************************************************)
\* What a cache entry may be, by its message.
TrueEntries ==
  {e \in [key : {"id", "chat"} \X Notes, value : Worths] :
     e.value = "text" => KindOf[e.key[2]] = "text"}

Lookup == [at : {"copy", "row"}, note : Notes, use : Uses, kept : BOOLEAN]
Answer == [found : Worths \cup {"nothing"}, note : Notes, kept : BOOLEAN]

RetryTypes ==
  /\ cache \in Seq(TrueEntries) /\ Len(cache) <= CacheMax
  /\ keyCache \in Seq(Notes) /\ Len(keyCache) <= KeyCacheMax
  /\ handling \in [Notes -> {"nothing", "row", "copy"}]
  /\ rowOf \subseteq Notes /\ copyOf \subseteq Notes
  /\ migrated \in BOOLEAN /\ blind \in BOOLEAN
  /\ lookup \in [Lookups -> Lookup \cup {NoLookup}]
  /\ answer \in Answer \cup {NoAnswer}

\* There are copies in a table that is there only.
CopiesMigrated == copyOf # {} => migrated = TRUE

LookupsTrue ==
  \A l \in Lookups :
    /\ lookup[l].at = "copy" =>
         (lookup[l].kept = TRUE => lookup[l].note \in copyOf /\ blind = FALSE)
    /\ lookup[l].at = "row" => lookup[l].kept = FALSE

RetryIInv == RetryTypes /\ CopiesMigrated /\ LookupsTrue /\ NeverMadeUp /\ KeptIsFound

-----------------------------------------------------------------------------
(* The caches. *)

LEMMA FullMakesRoom ==
  ASSUME NEW S, NEW s \in Seq(S), NEW max \in Nat \ {0}, Len(s) <= max
  PROVE  /\ Full(s, max) \in Seq(S) /\ Len(Full(s, max)) < max
         /\ Len(Full(s, max)) \in Nat
<1>1. Len(s) \in Nat
  BY LenProperties
<1>2. CASE Len(s) >= max
  <2>1. s # <<>>
    BY <1>1, <1>2, EmptySeq
  <2>2. Tail(s) \in Seq(S) /\ Len(Tail(s)) = Len(s) - 1
    BY <2>1, HeadTailProperties
  <2>3. Full(s, max) = Tail(s)
    BY <1>2 DEF Full
  <2>4. Len(s) = max
    BY <1>1, <1>2
  <2> QED
    BY <1>1, <2>2, <2>3, <2>4
<1>3. CASE ~(Len(s) >= max)
  BY <1>1, <1>3 DEF Full
<1> QED
  BY <1>2, <1>3

LEMMA AppendKeeps ==
  ASSUME NEW S, NEW s \in Seq(S), NEW e \in S
  PROVE  Append(s, e) \in Seq(S) /\ Len(Append(s, e)) = Len(s) + 1
OBVIOUS

\* TtlCache.set() keeps the bound and adds nothing but the entry it is given.
LEMMA CacheSetKeeps ==
  ASSUME NEW S, NEW s \in Seq(S), Len(s) <= CacheMax,
         NEW key, NEW value, [key |-> key, value |-> value] \in S
  PROVE  CacheSet(s, key, value) \in Seq(S) /\ Len(CacheSet(s, key, value)) <= CacheMax
<1> DEFINE room == Full(s, CacheMax)
           new  == [key |-> key, value |-> value]
           put  == [i \in DOMAIN room |-> IF room[i].key = key THEN new ELSE room[i]]
<1>1. CacheMax \in Nat \ {0}
  BY RetryAssumption
<1>2. room \in Seq(S) /\ Len(room) < CacheMax /\ Len(room) \in Nat
  BY <1>1, FullMakesRoom
<1>3. CASE \E i \in DOMAIN room : room[i].key = key
  <2>1. CacheSet(s, key, value) = put
    BY <1>3 DEF CacheSet
  <2>2. DOMAIN room = 1 .. Len(room) /\ \A i \in 1 .. Len(room) : room[i] \in S
    BY <1>2, LenProperties, ElementOfSeq
  <2> HIDE DEF room
  <2>3. put \in [1 .. Len(room) -> S]
    BY <2>2
  <2>4. put \in Seq(S) /\ Len(put) = Len(room)
    BY <1>2, <2>3
  <2> QED
    BY <1>1, <1>2, <2>1, <2>4
<1>4. CASE ~ \E i \in DOMAIN room : room[i].key = key
  <2>1. CacheSet(s, key, value) = Append(room, new)
    BY <1>4 DEF CacheSet
  <2>2. Append(room, new) \in Seq(S) /\ Len(Append(room, new)) = Len(room) + 1
    BY <1>2, AppendKeeps
  <2> QED
    BY <1>1, <1>2, <2>1, <2>2
<1> QED
  BY <1>3, <1>4

LEMMA RememberKeeps ==
  ASSUME NEW s \in Seq(TrueEntries), Len(s) <= CacheMax, NEW n \in Notes, NEW withChat \in BOOLEAN,
         NEW value \in Worths, value = "text" => KindOf[n] = "text"
  PROVE  /\ Remember(s, n, withChat, value) \in Seq(TrueEntries)
         /\ Len(Remember(s, n, withChat, value)) <= CacheMax
<1> DEFINE byId == CacheSet(s, <<"id", n>>, value)
<1>1. [key |-> <<"id", n>>, value |-> value] \in TrueEntries
  BY DEF TrueEntries
<1>2. [key |-> <<"chat", n>>, value |-> value] \in TrueEntries
  BY DEF TrueEntries
<1>3. byId \in Seq(TrueEntries) /\ Len(byId) <= CacheMax
  BY <1>1, CacheSetKeeps
<1>4. Remember(s, n, withChat, value) = IF withChat THEN CacheSet(byId, <<"chat", n>>, value) ELSE byId
  BY DEF Remember
<1> HIDE DEF byId
<1>5. CacheSet(byId, <<"chat", n>>, value) \in Seq(TrueEntries)
      /\ Len(CacheSet(byId, <<"chat", n>>, value)) <= CacheMax
  BY <1>2, <1>3, CacheSetKeeps
<1> QED
  BY <1>3, <1>4, <1>5

LEMMA RememberKeyKeeps ==
  ASSUME RetryTypes, NEW n \in Notes
  PROVE  RememberKey(n) \in Seq(Notes) /\ Len(RememberKey(n)) <= KeyCacheMax
<1> DEFINE room == Full(keyCache, KeyCacheMax)
<1>1. KeyCacheMax \in Nat \ {0}
  BY RetryAssumption
<1>2. room \in Seq(Notes) /\ Len(room) < KeyCacheMax /\ Len(room) \in Nat
  BY <1>1, FullMakesRoom DEF RetryTypes
<1>3. Append(room, n) \in Seq(Notes) /\ Len(Append(room, n)) = Len(room) + 1
  BY <1>2, AppendKeeps
<1>4. RememberKey(n) = room \/ RememberKey(n) = Append(room, n)
  BY DEF RememberKey
<1> QED
  BY <1>1, <1>2, <1>3, <1>4

LEMMA RemoveAtKeeps ==
  ASSUME NEW S, NEW s \in Seq(S), NEW i \in 1 .. Len(s)
  PROVE  RemoveAt(s, i) \in Seq(S) /\ Len(RemoveAt(s, i)) <= Len(s)
<1> DEFINE before == SubSeq(s, 1, i - 1)
           after  == SubSeq(s, i + 1, Len(s))
<1>1. Len(s) \in Nat /\ \A j \in 1 .. Len(s) : s[j] \in S
  BY LenProperties, ElementOfSeq
<1>2. before \in Seq(S) /\ Len(before) <= i - 1 /\ Len(before) \in Nat
  <2>1. \A j \in 1 .. i - 1 : s[j] \in S
    BY <1>1
  <2>2. before \in Seq(S) /\ Len(before) = IF 1 <= i - 1 THEN (i - 1) - 1 + 1 ELSE 0
    BY <1>1, <2>1, SubSeqProperties
  <2> QED
    BY <1>1, <2>2
<1>3. after \in Seq(S) /\ Len(after) <= Len(s) - i /\ Len(after) \in Nat
  <2>1. \A j \in i + 1 .. Len(s) : s[j] \in S
    BY <1>1
  <2>2. after \in Seq(S) /\ Len(after) = IF i + 1 <= Len(s) THEN Len(s) - (i + 1) + 1 ELSE 0
    BY <1>1, <2>1, SubSeqProperties
  <2> QED
    BY <1>1, <2>2
<1>4. RemoveAt(s, i) = before \o after
  BY DEF RemoveAt
<1> HIDE DEF before, after
<1>5. before \o after \in Seq(S) /\ Len(before \o after) = Len(before) + Len(after)
  BY <1>2, <1>3, ConcatProperties
<1> QED
  BY <1>1, <1>2, <1>3, <1>4, <1>5

\* What a lookup finds in memory is what is kept of its own message.
LEMMA MemoryIsTrue ==
  ASSUME RetryTypes, NEW n \in Notes, NEW use \in Uses, NEW v \in InMemory(n, use)
  PROVE  v \in Worths /\ (v = "text" => KindOf[n] = "text")
<1>1. ASSUME NEW at \in {"id", "chat"}, v \in Cached(<<at, n>>)
      PROVE  v \in Worths /\ (v = "text" => KindOf[n] = "text")
  <2>1. PICK j \in DOMAIN cache : cache[j].key = <<at, n>> /\ v = cache[j].value
    BY <1>1 DEF Cached
  <2>2. cache[j] \in TrueEntries
    BY LenProperties, ElementOfSeq DEF RetryTypes
  <2> QED
    BY <2>1, <2>2 DEF TrueEntries
<1>2. v \in Cached(<<"id", n>>) \/ v \in Cached(<<"chat", n>>)
  BY DEF InMemory, Uses
<1> QED
  BY <1>1, <1>2

-----------------------------------------------------------------------------
LEMMA RetryInitIInv == RetryInit => RetryIInv
<1> SUFFICES ASSUME RetryInit PROVE RetryIInv
  OBVIOUS
<1> USE DEF RetryInit
<1>1. cache \in Seq(TrueEntries) /\ Len(cache) = 0 /\ keyCache \in Seq(Notes) /\ Len(keyCache) = 0
  BY EmptySeq
<1>2. 0 <= CacheMax /\ 0 <= KeyCacheMax
  BY RetryAssumption
<1>3. RetryTypes
  BY <1>1, <1>2 DEF RetryTypes
<1>4. CopiesMigrated /\ LookupsTrue /\ NeverMadeUp /\ KeptIsFound
  BY DEF CopiesMigrated, LookupsTrue, NeverMadeUp, KeptIsFound, NoLookup, NoAnswer
<1> QED
  BY <1>3, <1>4 DEF RetryIInv

\* A call that is under way has a message, a use and what it is to find.
LEMMA UnderWay ==
  ASSUME RetryTypes, NEW l \in Lookups, lookup[l].at # "idle"
  PROVE  lookup[l] \in Lookup /\ lookup[l].note \in Notes /\ lookup[l].kept \in BOOLEAN
<1>1. lookup[l] \in Lookup
  BY DEF RetryTypes, NoLookup
<1> QED
  BY <1>1 DEF Lookup

\* The caches after a step: nothing made up gets in, and the bounds hold.
CachesKept ==
  /\ cache' \in Seq(TrueEntries) /\ Len(cache') <= CacheMax
  /\ keyCache' \in Seq(Notes) /\ Len(keyCache') <= KeyCacheMax

LEMMA KeepsIsTrue ==
  ASSUME RetryTypes, NEW l \in Lookups, lookup[l].at # "idle", NEW value \in Worths,
         value = "text" => KindOf[lookup[l].note] = "text", Keeps(l, value)
  PROVE  cache' \in Seq(TrueEntries) /\ Len(cache') <= CacheMax
<1>1. lookup[l].note \in Notes
  BY UnderWay
<1>2. (lookup[l].use = "retry") \in BOOLEAN
  OBVIOUS
<1>3. cache \in Seq(TrueEntries) /\ Len(cache) <= CacheMax
  BY DEF RetryTypes
<1>4. /\ Remember(cache, lookup[l].note, lookup[l].use = "retry", value) \in Seq(TrueEntries)
      /\ Len(Remember(cache, lookup[l].note, lookup[l].use = "retry", value)) <= CacheMax
  BY <1>1, <1>2, <1>3, RememberKeeps
<1> QED
  BY <1>3, <1>4 DEF Keeps

LEMMA CachesAreKept ==
  ASSUME RetryTypes, RetryNext
  PROVE  CachesKept
<1>0. /\ cache \in Seq(TrueEntries) /\ Len(cache) <= CacheMax
      /\ keyCache \in Seq(Notes) /\ Len(keyCache) <= KeyCacheMax
  BY DEF RetryTypes
<1>1. ASSUME NEW n \in Notes, Comes(n) \/ GoesOut(n) PROVE CachesKept
  <2>1. "itself" \in Worths
    BY DEF Worths
  <2>2. /\ Remember(cache, n, TRUE, "itself") \in Seq(TrueEntries)
        /\ Len(Remember(cache, n, TRUE, "itself")) <= CacheMax
    BY <1>0, <2>1, RememberKeeps
  <2>3. RememberKey(n) \in Seq(Notes) /\ Len(RememberKey(n)) <= KeyCacheMax
    BY RememberKeyKeeps
  <2>4. cache' = Remember(cache, n, TRUE, "itself") /\ (keyCache' = keyCache \/ keyCache' = RememberKey(n))
    BY <1>1 DEF Comes, GoesOut
  <2> QED
    BY <1>0, <2>2, <2>3, <2>4 DEF CachesKept
<1>2. ASSUME NEW l \in Lookups, CopyFound(l) PROVE CachesKept
  <2>1. lookup[l].at # "idle" /\ Keeps(l, "copy") /\ keyCache' = keyCache
    BY <1>2 DEF CopyFound
  <2>2. "copy" \in Worths
    BY DEF Worths
  <2> QED
    BY <1>0, <2>1, <2>2, KeepsIsTrue DEF CachesKept
<1>3. ASSUME NEW l \in Lookups, RowFound(l) PROVE CachesKept
  <2>1. lookup[l].at # "idle" /\ Keeps(l, "text") /\ keyCache' = keyCache /\ KindOf[lookup[l].note] = "text"
    BY <1>3 DEF RowFound, MakesText
  <2>2. "text" \in Worths
    BY DEF Worths
  <2> QED
    BY <1>0, <2>1, <2>2, KeepsIsTrue DEF CachesKept
<1>4. ASSUME NEW i \in DOMAIN cache, Expires(i) PROVE CachesKept
  <2>1. i \in 1 .. Len(cache) /\ cache' = RemoveAt(cache, i) /\ keyCache' = keyCache
    BY <1>0, <1>4, LenProperties DEF Expires
  <2>2. RemoveAt(cache, i) \in Seq(TrueEntries) /\ Len(RemoveAt(cache, i)) <= Len(cache)
    BY <1>0, <2>1, RemoveAtKeeps
  <2>3. Len(cache) \in Nat /\ Len(RemoveAt(cache, i)) \in Nat /\ CacheMax \in Nat
    BY <1>0, <2>2, LenProperties, RetryAssumption
  <2> QED
    BY <1>0, <2>1, <2>2, <2>3 DEF CachesKept
<1>5. CASE Restarts
  <2>1. 0 <= CacheMax /\ 0 <= KeyCacheMax
    BY RetryAssumption
  <2>2. cache' = <<>> /\ keyCache' = <<>>
    BY <1>5 DEF Restarts
  <2> QED
    BY <2>1, <2>2, EmptySeq DEF CachesKept
<1>6. CASE cache' = cache /\ keyCache' = keyCache
  BY <1>0, <1>6 DEF CachesKept
<1> QED
  BY <1>1, <1>2, <1>3, <1>4, <1>5, <1>6 DEF RetryNext, retryMemory, retryRows, RowComes,
     RowDoesNotCome,
     CopyStored, CopyNotStored, LookUp, NoCopyFound, CopyFails, NoRowFound, Recheck, Migrated

\* The rows and the copies: they only come, the table stays once it is there, and while it
\* holds a copy the store is not blinded again.
StoreKept ==
  /\ handling' \in [Notes -> {"nothing", "row", "copy"}]
  /\ rowOf' \subseteq Notes /\ copyOf' \subseteq Notes /\ copyOf \subseteq copyOf'
  /\ migrated' \in BOOLEAN /\ blind' \in BOOLEAN
  /\ copyOf' # {} => migrated' = TRUE
  /\ copyOf # {} /\ blind = FALSE => blind' = FALSE

LEMMA StoreIsKept ==
  ASSUME RetryTypes, CopiesMigrated, RetryNext
  PROVE  StoreKept
<1> USE DEF RetryTypes, CopiesMigrated, StoreKept
<1>1. ASSUME NEW n \in Notes, Comes(n) \/ GoesOut(n) PROVE StoreKept
  BY <1>1 DEF Comes, GoesOut, retryRows
<1>2. ASSUME NEW n \in Notes, RowComes(n) \/ RowDoesNotCome(n) \/ CopyNotStored(n) PROVE StoreKept
  BY <1>2 DEF RowComes, RowDoesNotCome, CopyNotStored, retryRows, retryMemory
<1>3. ASSUME NEW n \in Notes, CopyStored(n) PROVE StoreKept
  BY <1>3 DEF CopyStored
<1>4. ASSUME NEW l \in Lookups, NoCopyFound(l) PROVE StoreKept
  BY <1>4 DEF NoCopyFound, retryRows
<1>5. CASE Recheck \/ Migrated \/ Restarts
  BY <1>5 DEF Recheck, Migrated, Restarts, retryRows, retryMemory
<1>6. CASE UNCHANGED <<handling, retryRows, blind>>
  BY <1>6 DEF retryRows
<1> QED
  BY <1>1, <1>2, <1>3, <1>4, <1>5, <1>6 DEF RetryNext, retryMemory, LookUp, CopyFound, CopyFails,
     RowFound, NoRowFound, Expires

\* The calls after a step.
CallsKept ==
  /\ lookup' \in [Lookups -> Lookup \cup {NoLookup}] /\ LookupsTrue'
  /\ answer' \in Answer \cup {NoAnswer} /\ NeverMadeUp' /\ KeptIsFound'

\* What is true of a call stays so while others move.
CallTrue(l) ==
  /\ lookup[l] \in Lookup \cup {NoLookup}
  /\ lookup[l].at = "copy" =>
       (lookup[l].kept = TRUE => lookup[l].note \in copyOf /\ blind = FALSE)
  /\ lookup[l].at = "row" => lookup[l].kept = FALSE

LEMMA CallStaysTrue ==
  ASSUME RetryTypes, LookupsTrue, StoreKept, NEW l \in Lookups, lookup'[l] = lookup[l]
  PROVE  CallTrue(l)'
<1>1. CallTrue(l)
  BY DEF RetryTypes, LookupsTrue, CallTrue
<1>2. \A n \in copyOf : n \in copyOf' /\ (blind = FALSE => blind' = FALSE)
  BY DEF StoreKept
<1> QED
  BY <1>1, <1>2 DEF CallTrue

LEMMA AllCallsTrue ==
  ASSUME RetryTypes, LookupsTrue, StoreKept, NEW l \in Lookups, NEW q,
         lookup' = [lookup EXCEPT ![l] = q], CallTrue(l)'
  PROVE  lookup' \in [Lookups -> Lookup \cup {NoLookup}] /\ LookupsTrue'
<1>1. lookup \in [Lookups -> Lookup \cup {NoLookup}]
  BY DEF RetryTypes
<1>2. \A k \in Lookups : k # l => lookup'[k] = lookup[k]
  BY <1>1
<1>3. \A k \in Lookups : CallTrue(k)'
  BY <1>2, CallStaysTrue
<1>4. DOMAIN lookup' = Lookups /\ lookup' = [k \in Lookups |-> lookup'[k]]
  BY <1>1
<1>5. \A k \in Lookups : lookup'[k] \in Lookup \cup {NoLookup}
  BY <1>3 DEF CallTrue
<1> QED
  BY <1>3, <1>4, <1>5 DEF CallTrue, LookupsTrue

LEMMA IdleIsTrue == \A q : q = NoLookup => q.at = "idle"
  BY DEF NoLookup

\* A call ends with an answer about its own message.
LEMMA FoundKeeps ==
  ASSUME RetryTypes, LookupsTrue, StoreKept, NEW l \in Lookups, lookup[l].at # "idle",
         NEW what \in Worths \cup {"nothing"}, NEW kept \in BOOLEAN, Found(l, what, kept),
         what = "text" => KindOf[lookup[l].note] = "text",
         what = "nothing" => kept = FALSE
  PROVE  CallsKept
<1>1. lookup' = [lookup EXCEPT ![l] = NoLookup]
      /\ answer' = [found |-> what, note |-> lookup[l].note, kept |-> kept]
  BY DEF Found
<1>2. lookup[l].note \in Notes
  BY UnderWay
<1>3. answer' \in Answer
  BY <1>1, <1>2 DEF Answer
<1>4. NeverMadeUp' /\ KeptIsFound'
  BY <1>1 DEF NeverMadeUp, KeptIsFound
<1>5. lookup'[l] = NoLookup
  BY <1>1 DEF RetryTypes
<1>6. CallTrue(l)'
  BY <1>5 DEF CallTrue, NoLookup
<1> QED
  BY <1>1, <1>3, <1>4, <1>6, AllCallsTrue DEF CallsKept

LEMMA AnswerStays ==
  ASSUME RetryIInv, answer' = answer
  PROVE  answer' \in Answer \cup {NoAnswer} /\ NeverMadeUp' /\ KeptIsFound'
BY DEF RetryIInv, RetryTypes, NeverMadeUp, KeptIsFound

\* A retry that has found no copy goes on to the row, with nothing left to miss.
LEMMA PassesKeeps ==
  ASSUME RetryIInv, StoreKept, NEW l \in Lookups, lookup[l].at = "copy", Passes(l, FALSE)
  PROVE  CallsKept
<1> USE DEF RetryIInv
<1>1. lookup[l] \in Lookup
  BY UnderWay
<1>2. CASE ForRetry(lookup[l].use)
  <2>1. lookup' = [lookup EXCEPT ![l].at = "row", ![l].kept = FALSE] /\ answer' = answer
    BY <1>2 DEF Passes
  <2> DEFINE q == [lookup[l] EXCEPT !.at = "row", !.kept = FALSE]
  <2>2. lookup' = [lookup EXCEPT ![l] = q]
    BY <2>1 DEF RetryTypes
  <2>3. q \in Lookup /\ q.at = "row" /\ q.kept = FALSE
    BY <1>1 DEF Lookup
  <2> HIDE DEF q
  <2>4. lookup'[l] = q
    BY <2>2 DEF RetryTypes
  <2>5. CallTrue(l)'
    BY <2>3, <2>4 DEF CallTrue
  <2>6. lookup' \in [Lookups -> Lookup \cup {NoLookup}] /\ LookupsTrue'
    BY <2>2, <2>5, AllCallsTrue
  <2> QED
    BY <2>1, <2>6, AnswerStays DEF CallsKept
<1>3. CASE ~ForRetry(lookup[l].use)
  <2>1. Found(l, "nothing", FALSE)
    BY <1>3 DEF Passes
  <2> QED
    BY <2>1, FoundKeeps
<1> QED
  BY <1>2, <1>3

LEMMA LookUpKeeps ==
  ASSUME RetryIInv, StoreKept, NEW l \in Lookups, NEW n \in Notes, NEW use \in Uses, LookUp(l, n, use)
  PROVE  CallsKept
<1> USE DEF RetryIInv
<1> DEFINE kept == n \in copyOf /\ ~blind
           v    == CHOOSE w \in InMemory(n, use) : TRUE
           q    == [at |-> "copy", note |-> n, use |-> use, kept |-> kept]
<1>0. copyOf' = copyOf /\ blind' = blind
  BY DEF LookUp, retryRows, retryMemory
<1>1. CASE InMemory(n, use) # {}
  <2>1. v \in InMemory(n, use)
    BY <1>1
  <2>2. v \in Worths /\ (v = "text" => KindOf[n] = "text")
    BY <2>1, MemoryIsTrue
  <2>3. answer' = [found |-> v, note |-> n, kept |-> kept] /\ lookup' = lookup
    BY <1>1 DEF LookUp
  <2> HIDE DEF v
  <2>4. answer' \in Answer
    BY <2>2, <2>3 DEF Answer
  <2>5. NeverMadeUp' /\ KeptIsFound'
    BY <2>2, <2>3 DEF NeverMadeUp, KeptIsFound, Worths
  <2>6. lookup' \in [Lookups -> Lookup \cup {NoLookup}] /\ LookupsTrue'
    BY <1>0, <2>3 DEF RetryTypes, LookupsTrue
  <2> QED
    BY <2>4, <2>5, <2>6 DEF CallsKept
<1>2. CASE InMemory(n, use) = {}
  <2>1. lookup' = [lookup EXCEPT ![l] = q] /\ answer' = answer
    BY <1>2 DEF LookUp, LooksOn
  <2>2. kept \in BOOLEAN
    OBVIOUS
  <2>3. q \in Lookup /\ q.at = "copy" /\ q.kept = kept /\ q.note = n
    BY DEF Lookup
  <2>4. kept = TRUE => n \in copyOf /\ blind = FALSE
    BY DEF RetryTypes
  <2> HIDE DEF q, kept
  <2>5. lookup'[l] = q
    BY <2>1 DEF RetryTypes
  <2>6. CallTrue(l)'
    BY <1>0, <2>3, <2>4, <2>5 DEF CallTrue
  <2>7. lookup' \in [Lookups -> Lookup \cup {NoLookup}] /\ LookupsTrue'
    BY <2>1, <2>6, AllCallsTrue
  <2> QED
    BY <2>1, <2>7, AnswerStays DEF CallsKept
<1> QED
  BY <1>1, <1>2

LEMMA CallsAreKept ==
  ASSUME RetryIInv, RetryNext
  PROVE  CallsKept
<1> USE DEF RetryIInv
<1>0. StoreKept
  BY StoreIsKept
<1>1. ASSUME NEW l \in Lookups, CopyFound(l) PROVE CallsKept
  BY <1>0, <1>1, FoundKeeps DEF CopyFound, Worths
<1>2. ASSUME NEW l \in Lookups, NoCopyFound(l) PROVE CallsKept
  <2>1. lookup[l].at = "copy" /\ (blind \/ lookup[l].note \notin copyOf) /\ Passes(l, lookup[l].kept)
    BY <1>2 DEF NoCopyFound
  <2>2. lookup[l].kept \in BOOLEAN
    BY <2>1, UnderWay
  <2>3. lookup[l].kept = FALSE
    BY <2>1, <2>2 DEF LookupsTrue
  <2> QED
    BY <1>0, <2>1, <2>3, PassesKeeps
<1>3. ASSUME NEW l \in Lookups, CopyFails(l) PROVE CallsKept
  BY <1>0, <1>3, PassesKeeps DEF CopyFails
<1>4. ASSUME NEW l \in Lookups, RowFound(l) PROVE CallsKept
  <2>1. lookup[l].at = "row" /\ KindOf[lookup[l].note] = "text" /\ Found(l, "text", lookup[l].kept)
    BY <1>4 DEF RowFound, MakesText
  <2>2. lookup[l].kept \in BOOLEAN /\ "text" \in Worths
    BY <2>1, UnderWay DEF Worths
  <2> QED
    BY <1>0, <2>1, <2>2, FoundKeeps
<1>5. ASSUME NEW l \in Lookups, NoRowFound(l) PROVE CallsKept
  <2>1. lookup[l].at = "row" /\ Found(l, "nothing", lookup[l].kept)
    BY <1>5 DEF NoRowFound
  <2>2. lookup[l].kept = FALSE
    BY <2>1 DEF LookupsTrue
  <2> QED
    BY <1>0, <2>1, <2>2, FoundKeeps
<1>6. CASE Restarts
  <2>1. lookup' = [l \in Lookups |-> NoLookup] /\ answer' = answer
    BY <1>6 DEF Restarts
  <2>2. lookup' \in [Lookups -> Lookup \cup {NoLookup}] /\ LookupsTrue'
    BY <2>1 DEF LookupsTrue, NoLookup
  <2> QED
    BY <2>1, <2>2, AnswerStays DEF CallsKept
<1>7. CASE lookup' = lookup /\ answer' = answer
  <2>1. \A l \in Lookups : CallTrue(l)'
    BY <1>0, <1>7, CallStaysTrue
  <2>2. lookup' \in [Lookups -> Lookup \cup {NoLookup}] /\ LookupsTrue'
    BY <1>7, <2>1 DEF CallTrue, LookupsTrue, RetryTypes
  <2> QED
    BY <1>7, <2>2, AnswerStays DEF CallsKept
<1> QED
  BY <1>0, <1>1, <1>2, <1>3, <1>4, <1>5, <1>6, <1>7, LookUpKeeps DEF RetryNext, retryMemory,
     retryRows,
     Comes, GoesOut, RowComes, RowDoesNotCome, CopyStored, CopyNotStored, Expires, Recheck, Migrated

LEMMA RetryStep == RetryIInv /\ [RetryNext]_retryVars => RetryIInv'
<1> SUFFICES ASSUME RetryIInv, [RetryNext]_retryVars PROVE RetryIInv'
  OBVIOUS
<1>1. CASE RetryNext
  <2>1. CachesKept
    BY <1>1, CachesAreKept DEF RetryIInv
  <2>2. StoreKept
    BY <1>1, StoreIsKept DEF RetryIInv
  <2>3. CallsKept
    BY <1>1, CallsAreKept
  <2> QED
    BY <2>1, <2>2, <2>3 DEF RetryIInv, RetryTypes, CopiesMigrated, CachesKept, StoreKept, CallsKept
<1>2. CASE UNCHANGED retryVars
  BY <1>2 DEF RetryIInv, RetryTypes, CopiesMigrated, LookupsTrue, NeverMadeUp, KeptIsFound,
     retryVars, retryMemory, retryRows
<1> QED
  BY <1>1, <1>2

\* Whatever the caches drop, the store fails or a restart loses: a call finds what was kept when
\* it began, unless its own query fails, and only a text message is ever made of its row.
THEOREM RetryInvariant == RetrySpec => []RetryInv
<1>1. RetryIInv => RetryInv
  <2> SUFFICES ASSUME RetryIInv PROVE RetryInv
    OBVIOUS
  <2>1. RetryTypes
    BY DEF RetryIInv
  <2>2. cache \in Seq([key : {"id", "chat"} \X Notes, value : Worths])
    <3>1. TrueEntries \subseteq [key : {"id", "chat"} \X Notes, value : Worths]
      BY DEF TrueEntries
    <3> QED
      BY <2>1, <3>1, SeqMonotonic DEF RetryTypes
  <2>3. \A l \in Lookups : lookup[l].at \in {"idle", "copy", "row"}
    BY <2>1 DEF RetryTypes, Lookup, NoLookup
  <2>4. RetryTypeOK
    BY <2>1, <2>2, <2>3 DEF RetryTypes, RetryTypeOK
  <2> QED
    BY <2>4 DEF RetryIInv, RetryInv
<1> QED
  BY <1>1, RetryInitIInv, RetryStep, PTL DEF RetrySpec

-----------------------------------------------------------------------------
(***************************************************************************)
(* WhatsAppSend.  A call's state tells what its messages may have become.  *)
(* A click is paid for by an ask: the request holds one while it waits for *)
(* a worker, and hands it to the worker that claims it, who gives it back, *)
(* loses it, or spends it on the button.                                   *)
(***************************************************************************)
CallRecord ==
  [at : {"notMade", "prepare", "sending", "ackWait", "repair", "repaired", "queue", "done"},
   kind : Kinds \cup {None}, attempt : 0 .. 2,
   answer : Classes \cup {"ok", None}, refusal : Classes \cup {None}]

\* A call q whose two messages are w1 and w2, the first with a kept error ack r1.
SendTrue(q, w1, w2, r1) ==
  /\ q.attempt = 0 => w1 = "none" /\ q.refusal = None
  /\ q.attempt # 2 => w2 = "none"
  /\ q.attempt = 2 => q.kind = "group"
  /\ q.at \in {"notMade", "prepare"} => q.attempt = 0
  /\ q.at = "sending" => q.attempt # 0
  /\ q.at = "sending" /\ q.attempt = 1 /\ q.refusal # None => r1 # None
  /\ q.at = "ackWait" => q.attempt = 1 /\ Text(q.kind) /\ q.refusal = None
  /\ q.at \in {"repair", "repaired"} => q.kind = "group" /\ q.attempt = 1
  /\ q.at = "queue" => w1 \in {"none", "refused"}
  /\ q.answer = "ok" => q.at = "done" /\ (Text(q.kind) /\ q.attempt = 1 => q.refusal = None)

SendsTrue ==
  \A c \in Calls : SendTrue(call[c], wire[<<c, 1>>], wire[<<c, 2>>], recent[<<c, 1>>])

\* An error ack is kept of a message WhatsApp has refused.
AcksTrue == \A m \in Messages : recent[m] # None => wire[m] = "refused"

\* The workers that may still press the button, or give the request back; and whether the
\* request waits for another.
Holding  == {w \in Workers : worker[w] \in {"open", "click", "relogin"}}
RowHolds ==
  \/ row.status = "pending"
  \/ row.status = "processing" /\ (row.owner = None \/ worker[row.owner] \notin {"open", "relogin"})

Owed == Cardinality(Holding) + (IF RowHolds THEN 1 ELSE 0)

AsksSuffice == IsFiniteSet(Holding) /\ clicked + Owed <= asked

SendIInv == SendTypeOK /\ SendsTrue /\ AcksTrue /\ AsksSuffice

-----------------------------------------------------------------------------
LEMMA SendInitIInv == Init => SendIInv
<1> SUFFICES ASSUME Init PROVE SendIInv
  OBVIOUS
<1> USE DEF Init
<1>1. SendTypeOK
  <2>1. call \in [Calls -> CallRecord]
    BY DEF CallRecord
  <2>2. asked \in 0 .. MaxAsks /\ clicked \in Nat /\ faults \in 0 .. MaxFaults
    BY BoundsAreNat
  <2>3. row \in [status : Statuses \cup {"none"}, owner : Workers \cup {None}]
    OBVIOUS
  <2>4. wire \in [Messages -> {"none", "prepared", "written", "refused"}]
        /\ recent \in [Messages -> Classes \cup {None}]
    OBVIOUS
  <2>5. worker \in [Workers -> {"idle", "claim", "open", "click", "settle", "failing", "relogin", "down"}]
    OBVIOUS
  <2> HIDE DEF Init
  <2> QED
    BY <2>1, <2>2, <2>3, <2>4, <2>5 DEF SendTypeOK, CallRecord
<1>2. SendsTrue
  BY NoneIsNone DEF SendsTrue, SendTrue, Messages
<1>3. AcksTrue
  BY DEF AcksTrue
<1>4. AsksSuffice
  <2>1. Holding = {} /\ ~RowHolds
    BY DEF Holding, RowHolds
  <2> QED
    BY <2>1, FS_EmptySet DEF AsksSuffice, Owed
<1> QED
  BY <1>1, <1>2, <1>3, <1>4 DEF SendIInv

-----------------------------------------------------------------------------
(* The calls. *)

\* The calls, their messages and their acks after a step.
SendsKept ==
  /\ call' \in [Calls -> CallRecord]
  /\ wire' \in [Messages -> {"none", "prepared", "written", "refused"}]
  /\ recent' \in [Messages -> Classes \cup {None}]
  /\ SendsTrue' /\ AcksTrue'

LEMMA MessageOf ==
  \A c \in Calls : <<c, 1>> \in Messages /\ <<c, 2>> \in Messages
BY DEF Messages

\* A step of one call that leaves the messages and the acks of the others alone.
LEMMA OneSends ==
  ASSUME SendIInv, NEW c \in Calls, NEW q \in CallRecord, call' = [call EXCEPT ![c] = q],
         wire' \in [Messages -> {"none", "prepared", "written", "refused"}],
         recent' \in [Messages -> Classes \cup {None}],
         \A m \in Messages : m[1] # c => wire'[m] = wire[m] /\ recent'[m] = recent[m],
         \A m \in Messages : m[1] = c /\ recent'[m] # None => wire'[m] = "refused",
         SendTrue(q, wire'[<<c, 1>>], wire'[<<c, 2>>], recent'[<<c, 1>>])
  PROVE  SendsKept
<1>1. call \in [Calls -> CallRecord]
  BY DEF SendIInv, SendTypeOK, CallRecord
<1>2. call' \in [Calls -> CallRecord] /\ call'[c] = q /\ \A d \in Calls : d # c => call'[d] = call[d]
  BY <1>1
<1>3. SendsTrue'
  <2> SUFFICES ASSUME NEW d \in Calls
               PROVE  SendTrue(call'[d], wire'[<<d, 1>>], wire'[<<d, 2>>], recent'[<<d, 1>>])
    BY DEF SendsTrue
  <2>1. CASE d = c
    BY <1>2, <2>1
  <2>2. CASE d # c
    <3>1. <<d, 1>>[1] # c /\ <<d, 2>>[1] # c
      BY <2>2
    <3>2. SendTrue(call[d], wire[<<d, 1>>], wire[<<d, 2>>], recent[<<d, 1>>])
      BY DEF SendIInv, SendsTrue
    <3> QED
      BY <1>2, <2>2, <3>1, <3>2, MessageOf
  <2> QED
    BY <2>1, <2>2
<1>4. AcksTrue'
  BY DEF AcksTrue, SendIInv
<1> QED
  BY <1>2, <1>3, <1>4 DEF SendsKept

\* Neither the messages nor the acks change.
LEMMA OneMoves ==
  ASSUME SendIInv, NEW c \in Calls, NEW q \in CallRecord, call' = [call EXCEPT ![c] = q],
         UNCHANGED <<wire, recent>>,
         SendTrue(q, wire[<<c, 1>>], wire[<<c, 2>>], recent[<<c, 1>>])
  PROVE  SendsKept
<1>1. wire' = wire /\ recent' = recent
  OBVIOUS
<1>2. wire' \in [Messages -> {"none", "prepared", "written", "refused"}]
      /\ recent' \in [Messages -> Classes \cup {None}]
  BY <1>1 DEF SendIInv, SendTypeOK
<1>3. \A m \in Messages : recent'[m] # None => wire'[m] = "refused"
  BY <1>1 DEF SendIInv, AcksTrue
<1> QED
  BY <1>1, <1>2, <1>3, OneSends

\* What is known of a call and of its messages.
LEMMA CallKnown ==
  ASSUME SendIInv, NEW c \in Calls
  PROVE  /\ call \in [Calls -> CallRecord] /\ call[c] \in CallRecord
         /\ SendTrue(call[c], wire[<<c, 1>>], wire[<<c, 2>>], recent[<<c, 1>>])
BY DEF SendIInv, SendTypeOK, CallRecord, SendsTrue

\* A call that fails is done, or a direct text is queued after a refusal.
LEMMA FailsTrue ==
  ASSUME SendIInv, NEW c \in Calls, NEW class \in Classes, Fails(c, class),
         call[c].at \in {"prepare", "sending", "ackWait", "repair"},
         NEW w1, NEW w2, NEW r1,
         call[c].attempt = 0 => w1 = "none", call[c].attempt # 2 => w2 = "none",
         Queues(call[c].kind, class) => w1 \in {"none", "refused"}
  PROVE  \E q \in CallRecord : call' = [call EXCEPT ![c] = q] /\ SendTrue(q, w1, w2, r1)
<1> DEFINE at == IF Queues(call[c].kind, class) THEN "queue" ELSE "done"
           q  == [call[c] EXCEPT !.at = at, !.answer = class]
<1>1. call \in [Calls -> CallRecord] /\ call[c] \in CallRecord
      /\ SendTrue(call[c], wire[<<c, 1>>], wire[<<c, 2>>], recent[<<c, 1>>])
  BY CallKnown
<1>2. call' = [call EXCEPT ![c] = q]
  BY <1>1 DEF Fails
<1>3. q \in CallRecord /\ q.at = at /\ q.answer = class /\ q.attempt = call[c].attempt
      /\ q.kind = call[c].kind /\ q.refusal = call[c].refusal
  BY <1>1 DEF CallRecord
<1>4. class # "ok"
  BY DEF Classes
<1>5. at \in {"queue", "done"} /\ (at = "queue" => w1 \in {"none", "refused"})
  OBVIOUS
<1> HIDE DEF q, at
<1>6. SendTrue(q, w1, w2, r1)
  BY <1>1, <1>3, <1>4, <1>5 DEF SendTrue
<1> QED
  BY <1>2, <1>3, <1>6

\* A group's first attempt that fails is repaired.
LEMMA AttemptFailsTrue ==
  ASSUME SendIInv, NEW c \in Calls, NEW class \in Classes, AttemptFails(c, class),
         call[c].at \in {"sending", "ackWait"},
         NEW w1, NEW w2, NEW r1, call[c].attempt # 2 => w2 = "none",
         Queues(call[c].kind, class) => w1 \in {"none", "refused"}
  PROVE  \E q \in CallRecord : call' = [call EXCEPT ![c] = q] /\ SendTrue(q, w1, w2, r1)
<1>1. call \in [Calls -> CallRecord] /\ call[c] \in CallRecord
      /\ SendTrue(call[c], wire[<<c, 1>>], wire[<<c, 2>>], recent[<<c, 1>>])
  BY CallKnown
<1>2. call[c].attempt # 0
  BY <1>1 DEF SendTrue
<1>3. CASE Retries(c, class)
  <2> DEFINE q == [call[c] EXCEPT !.at = "repair"]
  <2>1. call' = [call EXCEPT ![c] = q]
    BY <1>1, <1>3 DEF AttemptFails, Goes
  <2>2. q \in CallRecord /\ q.at = "repair" /\ q.answer = call[c].answer /\ q.attempt = call[c].attempt
        /\ q.kind = call[c].kind /\ q.refusal = call[c].refusal
    BY <1>1 DEF CallRecord
  <2>3. call[c].kind = "group" /\ call[c].attempt = 1
    BY <1>3 DEF Retries
  <2> HIDE DEF q
  <2>4. SendTrue(q, w1, w2, r1)
    BY <1>1, <2>2, <2>3 DEF SendTrue
  <2> QED
    BY <2>1, <2>2, <2>4
<1>4. CASE ~Retries(c, class)
  <2>1. Fails(c, class)
    BY <1>4 DEF AttemptFails
  <2> QED
    BY <1>2, <2>1, FailsTrue
<1> QED
  BY <1>3, <1>4

LEMMA BeginKeeps == ASSUME SendIInv, NEW c \in Calls, Begin(c) PROVE SendsKept
<1>1. PICK kind \in Kinds, connected \in BOOLEAN :
        call' = [call EXCEPT ![c] =
            [at |-> IF connected THEN "prepare" ELSE "done", kind |-> kind, attempt |-> 0,
             answer |-> IF connected THEN None ELSE "disconnected", refusal |-> None]]
  BY DEF Begin
<1> DEFINE q == [at |-> IF connected THEN "prepare" ELSE "done", kind |-> kind, attempt |-> 0,
                 answer |-> IF connected THEN None ELSE "disconnected", refusal |-> None]
<1>2. q \in CallRecord
  BY DEF CallRecord, Classes
<1>3. call[c].at = "notMade" /\ UNCHANGED <<wire, recent>>
  BY DEF Begin
<1>4. wire[<<c, 1>>] = "none" /\ wire[<<c, 2>>] = "none"
  BY <1>3, CallKnown DEF SendTrue
<1>5. SendTrue(q, wire[<<c, 1>>], wire[<<c, 2>>], recent[<<c, 1>>])
  BY <1>4, NoneIsNone DEF SendTrue
<1> HIDE DEF q
<1> QED
  BY <1>1, <1>2, <1>3, <1>5, OneMoves DEF q

LEMMA PrepareFailsKeeps == ASSUME SendIInv, NEW c \in Calls, PrepareFails(c) PROVE SendsKept
<1>1. call[c].at = "prepare" /\ UNCHANGED <<wire, recent>>
  BY DEF PrepareFails
<1>2. PICK class \in PrepareFailures(call[c].kind) : Fails(c, class)
  BY DEF PrepareFails
<1>3. class \in Classes
  BY DEF PrepareFailures, Classes
<1>4. wire[<<c, 1>>] = "none" /\ wire[<<c, 2>>] = "none"
  BY <1>1, CallKnown DEF SendTrue
<1>5. \E q \in CallRecord : /\ call' = [call EXCEPT ![c] = q]
                            /\ SendTrue(q, wire[<<c, 1>>], wire[<<c, 2>>], recent[<<c, 1>>])
  BY <1>1, <1>2, <1>3, <1>4, FailsTrue
<1> QED
  BY <1>1, <1>5, OneMoves

AnswersWell(c) == call' = [call EXCEPT ![c].at = "done", ![c].answer = "ok"]

\* A call that answers `ok` is done, and had no refusal if it waited for one.
LEMMA AnswersOk ==
  ASSUME SendIInv, NEW c \in Calls, NEW w1, NEW w2, NEW r1, AnswersWell(c),
         call[c].attempt = 0 => w1 = "none", call[c].attempt # 2 => w2 = "none",
         Text(call[c].kind) /\ call[c].attempt = 1 => call[c].refusal = None
  PROVE  \E q \in CallRecord : call' = [call EXCEPT ![c] = q] /\ SendTrue(q, w1, w2, r1)
<1> DEFINE q == [call[c] EXCEPT !.at = "done", !.answer = "ok"]
<1>1. call \in [Calls -> CallRecord] /\ call[c] \in CallRecord
      /\ SendTrue(call[c], wire[<<c, 1>>], wire[<<c, 2>>], recent[<<c, 1>>])
  BY CallKnown
<1>2. call' = [call EXCEPT ![c] = q]
  BY <1>1 DEF AnswersWell
<1>3. q \in CallRecord /\ q.at = "done" /\ q.answer = "ok" /\ q.attempt = call[c].attempt
      /\ q.kind = call[c].kind /\ q.refusal = call[c].refusal
  BY <1>1 DEF CallRecord
<1> HIDE DEF q
<1>4. SendTrue(q, w1, w2, r1)
  BY <1>1, <1>3 DEF SendTrue
<1> QED
  BY <1>2, <1>3, <1>4

\* A call that goes on, to a place where its attempt and its refusal may be what they are.
LEMMA GoesTrue ==
  ASSUME SendIInv, NEW c \in Calls, call[c].at \notin {"notMade", "prepare", "queue", "done"},
         NEW to \in {"ackWait", "repair", "repaired", "done"}, Goes(c, to),
         to = "ackWait" => call[c].attempt = 1 /\ Text(call[c].kind) /\ call[c].refusal = None,
         to \in {"repair", "repaired"} => call[c].kind = "group" /\ call[c].attempt = 1
  PROVE  \E q \in CallRecord : /\ call' = [call EXCEPT ![c] = q]
                               /\ SendTrue(q, wire[<<c, 1>>], wire[<<c, 2>>], recent[<<c, 1>>])
<1> DEFINE q == [call[c] EXCEPT !.at = to]
<1>1. call \in [Calls -> CallRecord] /\ call[c] \in CallRecord
      /\ SendTrue(call[c], wire[<<c, 1>>], wire[<<c, 2>>], recent[<<c, 1>>])
  BY CallKnown
<1>2. call' = [call EXCEPT ![c] = q]
  BY <1>1 DEF Goes
<1>3. q \in CallRecord /\ q.at = to /\ q.answer = call[c].answer /\ q.attempt = call[c].attempt
      /\ q.kind = call[c].kind /\ q.refusal = call[c].refusal
  BY <1>1 DEF CallRecord
<1> HIDE DEF q
<1>4. SendTrue(q, wire[<<c, 1>>], wire[<<c, 2>>], recent[<<c, 1>>])
  BY <1>1, <1>3 DEF SendTrue
<1> QED
  BY <1>2, <1>3, <1>4

LEMMA ReactsKeeps == ASSUME SendIInv, NEW c \in Calls, ReactsToNothing(c) PROVE SendsKept
<1>1. /\ call[c].at = "prepare" /\ call[c].kind = "react" /\ UNCHANGED <<wire, recent>>
      /\ AnswersWell(c)
  BY DEF AnswersWell, ReactsToNothing
<1>2. SendTrue(call[c], wire[<<c, 1>>], wire[<<c, 2>>], recent[<<c, 1>>])
  BY CallKnown
<1>3. call[c].attempt = 0 /\ wire[<<c, 1>>] = "none" /\ wire[<<c, 2>>] = "none"
  BY <1>1, <1>2 DEF SendTrue
<1>4. \E q \in CallRecord : /\ call' = [call EXCEPT ![c] = q]
                            /\ SendTrue(q, wire[<<c, 1>>], wire[<<c, 2>>], recent[<<c, 1>>])
  BY <1>1, <1>3, AnswersOk
<1> QED
  BY <1>1, <1>4, OneMoves

LEMMA NoRefusalKeeps == ASSUME SendIInv, NEW c \in Calls, NoRefusal(c) PROVE SendsKept
<1>1. /\ call[c].at = "ackWait" /\ UNCHANGED <<wire, recent>>
      /\ AnswersWell(c)
  BY DEF AnswersWell, NoRefusal
<1>2. SendTrue(call[c], wire[<<c, 1>>], wire[<<c, 2>>], recent[<<c, 1>>])
  BY CallKnown
<1>3. call[c].attempt = 1 /\ call[c].refusal = None /\ wire[<<c, 2>>] = "none"
  BY <1>1, <1>2 DEF SendTrue
<1>4. \E q \in CallRecord : /\ call' = [call EXCEPT ![c] = q]
                            /\ SendTrue(q, wire[<<c, 1>>], wire[<<c, 2>>], recent[<<c, 1>>])
  BY <1>1, <1>3, AnswersOk
<1> QED
  BY <1>1, <1>4, OneMoves

LEMMA RepairKeeps == ASSUME SendIInv, NEW c \in Calls, Repair(c) PROVE SendsKept
<1>1. call[c].at = "repair" /\ UNCHANGED <<wire, recent>>
  BY DEF Repair
<1>2. SendTrue(call[c], wire[<<c, 1>>], wire[<<c, 2>>], recent[<<c, 1>>])
  BY CallKnown
<1>3. call[c].kind = "group" /\ call[c].attempt = 1 /\ wire[<<c, 2>>] = "none"
  BY <1>1, <1>2 DEF SendTrue
<1>4. CASE Goes(c, "repaired")
  <2>1. \E q \in CallRecord : /\ call' = [call EXCEPT ![c] = q]
                              /\ SendTrue(q, wire[<<c, 1>>], wire[<<c, 2>>], recent[<<c, 1>>])
    BY <1>1, <1>3, <1>4, GoesTrue
  <2> QED
    BY <1>1, <2>1, OneMoves
<1>5. ASSUME NEW class \in {"timeout", "disconnected", "unknown"}, Fails(c, class) PROVE SendsKept
  <2>0. class \in Classes
    BY DEF Classes
  <2>1. ~Queues(call[c].kind, class)
    BY <1>3 DEF Queues
  <2>2. \E q \in CallRecord : /\ call' = [call EXCEPT ![c] = q]
                              /\ SendTrue(q, wire[<<c, 1>>], wire[<<c, 2>>], recent[<<c, 1>>])
    BY <1>1, <1>3, <1>5, <2>0, <2>1, FailsTrue
  <2> QED
    BY <1>1, <2>2, OneMoves
<1> QED
  BY <1>4, <1>5 DEF Repair

LEMMA TimesOutKeeps == ASSUME SendIInv, NEW c \in Calls, TimesOut(c) PROVE SendsKept
<1>1. call[c].at = "sending" /\ AttemptFails(c, "timeout") /\ UNCHANGED <<wire, recent>>
  BY DEF TimesOut
<1>2. "timeout" \in Classes /\ ~Queues(call[c].kind, "timeout")
  BY DEF Classes, Queues
<1>3. call[c].attempt # 2 => wire[<<c, 2>>] = "none"
  BY CallKnown DEF SendTrue
<1>4. \E q \in CallRecord : /\ call' = [call EXCEPT ![c] = q]
                            /\ SendTrue(q, wire[<<c, 1>>], wire[<<c, 2>>], recent[<<c, 1>>])
  BY <1>1, <1>2, <1>3, AttemptFailsTrue
<1> QED
  BY <1>1, <1>4, OneMoves

\* The message of a call that is sending is its first or, for a group, its second.
LEMMA WhichMessage ==
  ASSUME SendIInv, NEW c \in Calls, call[c].at = "sending"
  PROVE  /\ Message(c) \in Messages /\ Message(c)[1] = c
         /\ \/ Message(c) = <<c, 1>> /\ call[c].attempt = 1
            \/ Message(c) = <<c, 2>> /\ call[c].attempt = 2 /\ call[c].kind = "group"
<1>1. call[c] \in CallRecord /\ SendTrue(call[c], wire[<<c, 1>>], wire[<<c, 2>>], recent[<<c, 1>>])
  BY CallKnown
<1>2. call[c].attempt \in {1, 2}
  BY <1>1 DEF CallRecord, SendTrue
<1> QED
  BY <1>1, <1>2 DEF SendTrue, Message, Messages

LEMMA SendKeeps == ASSUME SendIInv, NEW c \in Calls, Send(c) PROVE SendsKept
<1> DEFINE n == call[c].attempt + 1
           q == [call[c] EXCEPT !.at = "sending", !.attempt = n]
<1>1. call \in [Calls -> CallRecord] /\ call[c] \in CallRecord
      /\ SendTrue(call[c], wire[<<c, 1>>], wire[<<c, 2>>], recent[<<c, 1>>])
  BY CallKnown
<1>2. /\ call[c].at \in {"prepare", "repaired"} /\ recent' = recent
      /\ call' = [call EXCEPT ![c].at = "sending", ![c].attempt = n]
      /\ wire' = [wire EXCEPT ![<<c, n>>] = "prepared"]
  BY <1>1 DEF Send, CallRecord
<1>3. \/ call[c].attempt = 0 /\ n = 1
      \/ call[c].attempt = 1 /\ n = 2 /\ call[c].kind = "group"
  BY <1>1, <1>2 DEF SendTrue
<1>3a. n \in 0 .. 2
  BY <1>3
<1> HIDE DEF n
<1>4. call' = [call EXCEPT ![c] = q]
  BY <1>1, <1>2
<1>5. q \in CallRecord /\ q.at = "sending" /\ q.answer = call[c].answer /\ q.attempt = n
      /\ q.kind = call[c].kind /\ q.refusal = call[c].refusal
  BY <1>1, <1>3a DEF CallRecord
<1>6. wire \in [Messages -> {"none", "prepared", "written", "refused"}]
      /\ recent \in [Messages -> Classes \cup {None}]
  BY DEF SendIInv, SendTypeOK
<1>7. wire' \in [Messages -> {"none", "prepared", "written", "refused"}]
      /\ recent' \in [Messages -> Classes \cup {None}]
  BY <1>2, <1>6
<1>8. \A m \in Messages : m # <<c, n>> => wire'[m] = wire[m]
  BY <1>2, <1>6
<1>9. wire[<<c, n>>] = "none" /\ <<c, n>> \in Messages
  BY <1>1, <1>3, MessageOf DEF SendTrue
<1>10. \A m \in Messages : m[1] # c => wire'[m] = wire[m] /\ recent'[m] = recent[m]
  BY <1>2, <1>8
<1>11. \A m \in Messages : m[1] = c /\ recent'[m] # None => wire'[m] = "refused"
  BY <1>2, <1>8, <1>9 DEF SendIInv, AcksTrue
<1>12. n = 1 => wire'[<<c, 2>>] = wire[<<c, 2>>]
  <2>1. n = 1 => <<c, 2>> # <<c, n>>
    OBVIOUS
  <2> QED
    BY <1>8, <2>1, MessageOf
<1> HIDE DEF q
<1>13. SendTrue(q, wire'[<<c, 1>>], wire'[<<c, 2>>], recent'[<<c, 1>>])
  BY <1>1, <1>2, <1>3, <1>5, <1>12 DEF SendTrue
<1> QED
  BY <1>4, <1>5, <1>7, <1>10, <1>11, <1>13, OneSends

LEMMA ThrowsKeeps == ASSUME SendIInv, NEW c \in Calls, Throws(c) PROVE SendsKept
<1>1. call[c].at = "sending" /\ wire[Message(c)] = "prepared" /\ recent' = recent
      /\ wire' = [wire EXCEPT ![Message(c)] = "none"]
  BY DEF Throws
<1>2. PICK class \in {"missing_session", "disconnected", "unknown"} : AttemptFails(c, class)
  BY DEF Throws
<1>3. class \in Classes /\ ~Queues(call[c].kind, class)
  BY DEF Classes, Queues
<1>4. wire \in [Messages -> {"none", "prepared", "written", "refused"}]
      /\ recent \in [Messages -> Classes \cup {None}]
  BY DEF SendIInv, SendTypeOK
<1>5. /\ Message(c) \in Messages /\ Message(c)[1] = c
      /\ \/ Message(c) = <<c, 1>> /\ call[c].attempt = 1
         \/ Message(c) = <<c, 2>> /\ call[c].attempt = 2 /\ call[c].kind = "group"
  BY <1>1, WhichMessage
<1>6. wire' \in [Messages -> {"none", "prepared", "written", "refused"}]
      /\ recent' \in [Messages -> Classes \cup {None}]
  BY <1>1, <1>4
<1>7. \A m \in Messages : m # Message(c) => wire'[m] = wire[m]
  BY <1>1, <1>4
<1>8. \A m \in Messages : m[1] # c => wire'[m] = wire[m] /\ recent'[m] = recent[m]
  BY <1>1, <1>5, <1>7
<1>9. \A m \in Messages : m[1] = c /\ recent'[m] # None => wire'[m] = "refused"
  BY <1>1, <1>7 DEF SendIInv, AcksTrue
<1>10. call[c].attempt # 2 => wire'[<<c, 2>>] = "none"
  <2>1. call[c].attempt # 2 => wire[<<c, 2>>] = "none"
    BY CallKnown DEF SendTrue
  <2> QED
    BY <1>1, <1>4, <1>5, <2>1, MessageOf
<1>11. \E q \in CallRecord : /\ call' = [call EXCEPT ![c] = q]
                             /\ SendTrue(q, wire'[<<c, 1>>], wire'[<<c, 2>>], recent'[<<c, 1>>])
  BY <1>1, <1>2, <1>3, <1>10, AttemptFailsTrue
<1> QED
  BY <1>6, <1>8, <1>9, <1>11, OneSends

LEMMA ResolvesKeeps == ASSUME SendIInv, NEW c \in Calls, Resolves(c) PROVE SendsKept
<1>1. call[c].at = "sending" /\ wire[Message(c)] \in {"written", "refused"} /\ wire' = wire
  BY DEF Resolves
<1>2. call[c] \in CallRecord /\ SendTrue(call[c], wire[<<c, 1>>], wire[<<c, 2>>], recent[<<c, 1>>])
  BY CallKnown
<1>3. /\ Message(c) \in Messages /\ Message(c)[1] = c
      /\ \/ Message(c) = <<c, 1>> /\ call[c].attempt = 1
         \/ Message(c) = <<c, 2>> /\ call[c].attempt = 2 /\ call[c].kind = "group"
  BY <1>1, WhichMessage
<1>4. wire \in [Messages -> {"none", "prepared", "written", "refused"}]
      /\ recent \in [Messages -> Classes \cup {None}]
  BY DEF SendIInv, SendTypeOK
<1>5. CASE ~Text(call[c].kind) \/ call[c].attempt = 2
  <2>1. AnswersWell(c) /\ recent' = recent
    BY <1>5 DEF Resolves, AnswersWell
  <2>2. \E q \in CallRecord : /\ call' = [call EXCEPT ![c] = q]
                              /\ SendTrue(q, wire[<<c, 1>>], wire[<<c, 2>>], recent[<<c, 1>>])
    BY <1>2, <1>3, <1>5, <2>1, AnswersOk DEF SendTrue
  <2> QED
    BY <1>1, <2>1, <2>2, OneMoves
<1>6. CASE ~(~Text(call[c].kind) \/ call[c].attempt = 2) /\ recent[Message(c)] # None
  <2>1. AttemptFails(c, recent[Message(c)]) /\ recent' = [recent EXCEPT ![Message(c)] = None]
    BY <1>6 DEF Resolves
  <2>2. recent[Message(c)] \in Classes
    BY <1>3, <1>4, <1>6
  <2>3. call[c].attempt = 1 /\ Message(c) = <<c, 1>> /\ wire[<<c, 2>>] = "none"
    BY <1>2, <1>3, <1>6 DEF SendTrue
  <2>4. wire[<<c, 1>>] = "refused"
    BY <1>3, <1>6, <2>3 DEF SendIInv, AcksTrue
  <2>5. recent' \in [Messages -> Classes \cup {None}]
    BY <1>4, <2>1
  <2>6. \A m \in Messages : (m # Message(c) => recent'[m] = recent[m]) /\ recent'[Message(c)] = None
    BY <1>3, <1>4, <2>1
  <2>7. \A m \in Messages : m[1] # c => wire'[m] = wire[m] /\ recent'[m] = recent[m]
    BY <1>1, <1>3, <2>6
  <2>8. \A m \in Messages : m[1] = c /\ recent'[m] # None => wire'[m] = "refused"
    BY <1>1, <2>6 DEF SendIInv, AcksTrue
  <2>9. \E q \in CallRecord : /\ call' = [call EXCEPT ![c] = q]
                              /\ SendTrue(q, wire'[<<c, 1>>], wire'[<<c, 2>>], recent'[<<c, 1>>])
    BY <1>1, <2>1, <2>2, <2>3, <2>4, AttemptFailsTrue
  <2> QED
    BY <1>1, <1>4, <2>5, <2>7, <2>8, <2>9, OneSends
<1>7. CASE ~(~Text(call[c].kind) \/ call[c].attempt = 2) /\ recent[Message(c)] = None
  <2>1. Goes(c, "ackWait") /\ recent' = recent
    BY <1>7 DEF Resolves
  <2>2. call[c].attempt = 1 /\ Text(call[c].kind) /\ Message(c) = <<c, 1>>
    BY <1>3, <1>7
  <2>3. call[c].refusal = None
    BY <1>1, <1>2, <1>7, <2>2 DEF SendTrue
  <2>4. \E q \in CallRecord : /\ call' = [call EXCEPT ![c] = q]
                              /\ SendTrue(q, wire[<<c, 1>>], wire[<<c, 2>>], recent[<<c, 1>>])
    BY <1>1, <2>1, <2>2, <2>3, GoesTrue
  <2> QED
    BY <1>1, <2>1, <2>4, OneMoves
<1> QED
  BY <1>5, <1>6, <1>7

LEMMA EnqueueKeeps == ASSUME SendIInv, NEW c \in Calls, Enqueue(c) PROVE SendsKept
<1>1. call[c].at = "queue" /\ Goes(c, "done") /\ UNCHANGED <<wire, recent>>
  BY DEF Enqueue
<1> DEFINE q == [call[c] EXCEPT !.at = "done"]
<1>2. call \in [Calls -> CallRecord] /\ call[c] \in CallRecord
      /\ SendTrue(call[c], wire[<<c, 1>>], wire[<<c, 2>>], recent[<<c, 1>>])
  BY CallKnown
<1>3. call' = [call EXCEPT ![c] = q]
  BY <1>1, <1>2 DEF Goes
<1>4. q \in CallRecord /\ q.at = "done" /\ q.answer = call[c].answer /\ q.attempt = call[c].attempt
      /\ q.kind = call[c].kind /\ q.refusal = call[c].refusal
  BY <1>2 DEF CallRecord
<1> HIDE DEF q
<1>5. SendTrue(q, wire[<<c, 1>>], wire[<<c, 2>>], recent[<<c, 1>>])
  BY <1>1, <1>2, <1>4 DEF SendTrue
<1> QED
  BY <1>1, <1>3, <1>4, <1>5, OneMoves

\* A call's own record, written back as it is.
LEMMA SameRecord == \A c \in Calls : SendIInv /\ call' = call => call' = [call EXCEPT ![c] = call[c]]
  BY DEF SendIInv, SendTypeOK

LEMMA OfACall ==
  \A m \in Messages : m[1] \in Calls /\ (m = <<m[1], 1>> \/ m = <<m[1], 2>>)
BY DEF Messages

LEMMA WrittenKeeps == ASSUME SendIInv, NEW m \in Messages, Written(m) PROVE SendsKept
<1>1. wire[m] = "prepared" /\ wire' = [wire EXCEPT ![m] = "written"] /\ call' = call /\ recent' = recent
  BY DEF Written
<1> DEFINE c == m[1]
<1>2. c \in Calls /\ (m = <<c, 1>> \/ m = <<c, 2>>)
  BY OfACall
<1> HIDE DEF c
<1>3. call[c] \in CallRecord /\ SendTrue(call[c], wire[<<c, 1>>], wire[<<c, 2>>], recent[<<c, 1>>])
  BY <1>2, CallKnown
<1>4. wire \in [Messages -> {"none", "prepared", "written", "refused"}]
      /\ recent \in [Messages -> Classes \cup {None}]
  BY DEF SendIInv, SendTypeOK
<1>5. wire' \in [Messages -> {"none", "prepared", "written", "refused"}]
      /\ recent' \in [Messages -> Classes \cup {None}]
  BY <1>1, <1>4
<1>6. \A k \in Messages : (k # m => wire'[k] = wire[k]) /\ wire'[m] = "written"
  BY <1>1, <1>4
<1>7. \A k \in Messages : k[1] # c => wire'[k] = wire[k] /\ recent'[k] = recent[k]
  BY <1>1, <1>6 DEF c
<1>8. \A k \in Messages : k[1] = c /\ recent'[k] # None => wire'[k] = "refused"
  BY <1>1, <1>6 DEF SendIInv, AcksTrue
<1>9. SendTrue(call[c], wire'[<<c, 1>>], wire'[<<c, 2>>], recent'[<<c, 1>>])
  <2>1. CASE m = <<c, 1>>
    <3>1. wire'[<<c, 1>>] = "written" /\ wire'[<<c, 2>>] = wire[<<c, 2>>] /\ wire[<<c, 1>>] = "prepared"
      BY <1>1, <1>2, <1>6, <2>1, MessageOf
    <3> QED
      BY <1>1, <1>3, <3>1 DEF SendTrue
  <2>2. CASE m = <<c, 2>>
    <3>1. wire'[<<c, 2>>] = "written" /\ wire'[<<c, 1>>] = wire[<<c, 1>>] /\ wire[<<c, 2>>] = "prepared"
      BY <1>1, <1>2, <1>6, <2>2, MessageOf
    <3> QED
      BY <1>1, <1>3, <3>1 DEF SendTrue
  <2> QED
    BY <1>2, <2>1, <2>2
<1>10. call' = [call EXCEPT ![c] = call[c]]
  BY <1>1, <1>2, SameRecord
<1> QED
  BY <1>2, <1>3, <1>5, <1>7, <1>8, <1>9, <1>10, OneSends

LEMMA ForgetKeeps == ASSUME SendIInv, NEW m \in Messages, Forget(m) PROVE SendsKept
<1>1. /\ call[m[1]].at # "sending" \/ Message(m[1]) # m
      /\ recent' = [recent EXCEPT ![m] = None] /\ call' = call /\ wire' = wire
  BY DEF Forget
<1> DEFINE c == m[1]
<1>2. c \in Calls /\ (m = <<c, 1>> \/ m = <<c, 2>>)
  BY OfACall
<1>2a. call[c].at # "sending" \/ Message(c) # m
  BY <1>1
<1> HIDE DEF c
<1>3. call[c] \in CallRecord /\ SendTrue(call[c], wire[<<c, 1>>], wire[<<c, 2>>], recent[<<c, 1>>])
  BY <1>2, CallKnown
<1>4. wire \in [Messages -> {"none", "prepared", "written", "refused"}]
      /\ recent \in [Messages -> Classes \cup {None}]
  BY DEF SendIInv, SendTypeOK
<1>5. wire' \in [Messages -> {"none", "prepared", "written", "refused"}]
      /\ recent' \in [Messages -> Classes \cup {None}]
  BY <1>1, <1>4
<1>6. \A k \in Messages : (k # m => recent'[k] = recent[k]) /\ recent'[m] = None
  BY <1>1, <1>4
<1>7. \A k \in Messages : k[1] # c => wire'[k] = wire[k] /\ recent'[k] = recent[k]
  BY <1>1, <1>6 DEF c
<1>8. \A k \in Messages : k[1] = c /\ recent'[k] # None => wire'[k] = "refused"
  BY <1>1, <1>6 DEF SendIInv, AcksTrue
<1>9. SendTrue(call[c], wire'[<<c, 1>>], wire'[<<c, 2>>], recent'[<<c, 1>>])
  <2>1. CASE m = <<c, 1>>
    <3>1. ~(call[c].at = "sending" /\ call[c].attempt = 1)
      BY <1>2, <1>2a, <2>1 DEF Message
    <3> QED
      BY <1>1, <1>3, <3>1 DEF SendTrue
  <2>2. CASE m = <<c, 2>>
    <3>1. recent'[<<c, 1>>] = recent[<<c, 1>>]
      BY <1>2, <1>6, <2>2, MessageOf
    <3> QED
      BY <1>1, <1>3, <3>1 DEF SendTrue
  <2> QED
    BY <1>2, <2>1, <2>2
<1>10. call' = [call EXCEPT ![c] = call[c]]
  BY <1>1, <1>2, SameRecord
<1> QED
  BY <1>2, <1>3, <1>5, <1>7, <1>8, <1>9, <1>10, OneSends

LEMMA RefusedKeeps == ASSUME SendIInv, NEW m \in Messages, Refused(m) PROVE SendsKept
<1> DEFINE c == m[1]
<1>1. wire[m] = "written" /\ wire' = [wire EXCEPT ![m] = "refused"]
  BY DEF Refused
<1>2. PICK class \in {"account_restricted", "unknown"} :
         IF call[c].at = "ackWait" /\ Message(c) = m
         THEN AttemptFails(c, class) /\ UNCHANGED recent
         ELSE /\ RefusalOf(m, class)
              /\ recent' = [recent EXCEPT ![m] = class]
  BY DEF Refused
<1>3. c \in Calls /\ (m = <<c, 1>> \/ m = <<c, 2>>)
  BY OfACall
<1>4. class \in Classes /\ class # None
  BY NoneIsNone DEF Classes
<1>5. wire \in [Messages -> {"none", "prepared", "written", "refused"}]
      /\ recent \in [Messages -> Classes \cup {None}]
  BY DEF SendIInv, SendTypeOK
<1>6. wire' \in [Messages -> {"none", "prepared", "written", "refused"}]
  BY <1>1, <1>5
<1>7. \A k \in Messages : (k # m => wire'[k] = wire[k]) /\ wire'[m] = "refused"
  BY <1>1, <1>5
<1>8. \A k \in Messages : k[1] # c => wire'[k] = wire[k]
  BY <1>7
<1>9. \A k \in Messages : recent[k] # None => wire'[k] = "refused"
  BY <1>7 DEF SendIInv, AcksTrue
<1>10. RefusalOf(m, class) =>
         call' = [call EXCEPT ![c].refusal =
                    IF call[c].at # "done" /\ call[c].attempt = m[2] THEN class ELSE @]
  BY DEF RefusalOf
<1>11. \A k \in Messages : k[1] # c => k # m
  OBVIOUS
<1> HIDE DEF c
<1>12. /\ call \in [Calls -> CallRecord] /\ call[c] \in CallRecord
       /\ SendTrue(call[c], wire[<<c, 1>>], wire[<<c, 2>>], recent[<<c, 1>>])
  BY <1>3, CallKnown
<1>13. CASE call[c].at = "ackWait" /\ Message(c) = m
  <2>1. AttemptFails(c, class) /\ recent' = recent
    BY <1>2, <1>13
  <2>2. call[c].attempt = 1 /\ m = <<c, 1>>
    BY <1>3, <1>12, <1>13 DEF SendTrue, Message
  <2>3. wire'[<<c, 1>>] = "refused" /\ wire'[<<c, 2>>] = "none"
    BY <1>3, <1>7, <1>12, <2>2, MessageOf DEF SendTrue
  <2>4. \E q \in CallRecord : /\ call' = [call EXCEPT ![c] = q]
                              /\ SendTrue(q, wire'[<<c, 1>>], wire'[<<c, 2>>], recent'[<<c, 1>>])
    BY <1>3, <1>4, <1>13, <2>1, <2>3, AttemptFailsTrue
  <2> QED
    <3>1. recent' \in [Messages -> Classes \cup {None}]
      BY <1>5, <2>1
    <3>2. \A k \in Messages : k[1] # c => wire'[k] = wire[k] /\ recent'[k] = recent[k]
      BY <1>8, <2>1
    <3>3. \A k \in Messages : k[1] = c /\ recent'[k] # None => wire'[k] = "refused"
      BY <1>9, <2>1
    <3> QED
      BY <1>3, <1>6, <2>4, <3>1, <3>2, <3>3, OneSends
<1>14. CASE ~(call[c].at = "ackWait" /\ Message(c) = m)
  <2>1. RefusalOf(m, class) /\ recent' = [recent EXCEPT ![m] = class]
    BY <1>2, <1>14
  <2> DEFINE r == IF call[c].at # "done" /\ call[c].attempt = m[2] THEN class ELSE call[c].refusal
             q == [call[c] EXCEPT !.refusal = r]
  <2>2. call' = [call EXCEPT ![c] = q]
    BY <1>10, <1>12, <2>1
  <2>3. r \in Classes \cup {None}
    BY <1>4, <1>12 DEF CallRecord
  <2>4. r # call[c].refusal => call[c].at # "done" /\ call[c].attempt = m[2]
    OBVIOUS
  <2> HIDE DEF r
  <2>5. q \in CallRecord /\ q.at = call[c].at /\ q.answer = call[c].answer /\ q.attempt = call[c].attempt
        /\ q.kind = call[c].kind /\ q.refusal = r
    BY <1>12, <2>3 DEF CallRecord
  <2> HIDE DEF q
  <2>6. recent' \in [Messages -> Classes \cup {None}]
    BY <1>4, <1>5, <2>1
  <2>7. \A k \in Messages : (k # m => recent'[k] = recent[k]) /\ recent'[m] = class
    BY <1>5, <2>1
  <2>8. \A k \in Messages : k[1] # c => wire'[k] = wire[k] /\ recent'[k] = recent[k]
    BY <1>8, <1>11, <2>7
  <2>9. \A k \in Messages : k[1] = c /\ recent'[k] # None => wire'[k] = "refused"
    BY <1>7, <1>9, <2>7
  <2>10. SendTrue(q, wire'[<<c, 1>>], wire'[<<c, 2>>], recent'[<<c, 1>>])
    <3>1. CASE m = <<c, 1>>
      <4>1. /\ wire'[<<c, 2>>] = wire[<<c, 2>>] /\ wire'[<<c, 1>>] = "refused"
            /\ wire[<<c, 1>>] = "written" /\ recent'[<<c, 1>>] = class /\ m[2] = 1
        BY <1>1, <1>3, <1>7, <2>7, <3>1, MessageOf
      <4>2. call[c].attempt = 1 => Message(c) = m
        BY <3>1 DEF Message
      <4> QED
        BY <1>4, <1>12, <1>14, <2>4, <2>5, <4>1, <4>2 DEF SendTrue
    <3>2. CASE m = <<c, 2>>
      <4>1. /\ wire'[<<c, 1>>] = wire[<<c, 1>>] /\ recent'[<<c, 1>>] = recent[<<c, 1>>]
            /\ wire[<<c, 2>>] = "written" /\ m[2] = 2
        BY <1>1, <1>3, <1>7, <2>7, <3>2, MessageOf
      <4>2. call[c].attempt = 2
        BY <1>12, <4>1 DEF SendTrue
      <4> QED
        BY <1>12, <2>4, <2>5, <4>1, <4>2 DEF SendTrue
    <3> QED
      BY <1>3, <3>1, <3>2
  <2> QED
    BY <1>3, <1>6, <2>2, <2>5, <2>6, <2>8, <2>9, <2>10, OneSends
<1> QED
  BY <1>13, <1>14

LEMMA SendsStay == ASSUME SendIInv, UNCHANGED sends PROVE SendsKept
BY DEF SendsKept, sends, SendIInv, SendTypeOK, SendsTrue, AcksTrue, CallRecord

LEMMA SendsAreKept == ASSUME SendIInv, Next PROVE SendsKept
<1>1. ASSUME NEW c \in Calls, CallStep(c) PROVE SendsKept
  BY <1>1, BeginKeeps, PrepareFailsKeeps, ReactsKeeps, SendKeeps, ThrowsKeeps, TimesOutKeeps,
     RepairKeeps,
     ResolvesKeeps, NoRefusalKeeps, EnqueueKeeps DEF CallStep
<1>2. ASSUME NEW m \in Messages, Written(m) \/ Refused(m) \/ Forget(m) PROVE SendsKept
  BY <1>2, WrittenKeeps, RefusedKeeps, ForgetKeeps
<1>3. ASSUME NEW w \in Workers, WorkerStep(w) PROVE UNCHANGED sends
  BY <1>3 DEF WorkerStep, Loop, ResetStaleProcessing, ClaimNextRequest, Opened, Click, Sent, Failed,
     LoginRequired, Restart, PageFails, QueryFails, Die, Updates
<1>4. ASSUME NEW status \in Statuses, Patch(status) PROVE UNCHANGED sends
  BY <1>4 DEF Patch
<1> QED
  BY <1>1, <1>2, <1>3, <1>4, SendsStay DEF Next

-----------------------------------------------------------------------------
(* The queue. *)

QueueKept ==
  /\ row' \in [status : Statuses \cup {"none"}, owner : Workers \cup {None}]
  /\ worker' \in [Workers -> {"idle", "claim", "open", "click", "settle", "failing", "relogin", "down"}]
  /\ asked' \in 0 .. MaxAsks /\ clicked' \in Nat /\ faults' \in 0 .. MaxFaults
  /\ AsksSuffice'

HoldingPlaces == {"open", "click", "relogin"}

\* What a worker that turns adds to those that hold an ask, or takes from them.
LEMMA TurnCounts ==
  ASSUME SendTypeOK, IsFiniteSet(Holding), NEW w \in Workers,
         NEW to \in {"idle", "claim", "open", "click", "settle", "failing", "relogin", "down"},
         Turns(w, to)
  PROVE  /\ worker' \in [Workers -> {"idle", "claim", "open", "click", "settle", "failing", "relogin", "down"}]
         /\ IsFiniteSet(Holding') /\ Cardinality(Holding') \in Nat /\ Cardinality(Holding) \in Nat
         /\ (worker[w] \in HoldingPlaces <=> to \in HoldingPlaces) =>
               Cardinality(Holding') = Cardinality(Holding)
         /\ worker[w] \in HoldingPlaces /\ to \notin HoldingPlaces =>
               Cardinality(Holding') = Cardinality(Holding) - 1
         /\ worker[w] \notin HoldingPlaces /\ to \in HoldingPlaces =>
               Cardinality(Holding') = Cardinality(Holding) + 1
<1>1. worker \in [Workers -> {"idle", "claim", "open", "click", "settle", "failing", "relogin", "down"}]
  BY DEF SendTypeOK
<1>2. worker' = [worker EXCEPT ![w] = to]
  BY DEF Turns
<1>3. /\ worker' \in [Workers -> {"idle", "claim", "open", "click", "settle", "failing", "relogin", "down"}]
      /\ worker'[w] = to /\ \A v \in Workers : v # w => worker'[v] = worker[v]
  BY <1>1, <1>2
<1>4. w \in Holding <=> worker[w] \in HoldingPlaces
  BY DEF Holding, HoldingPlaces
<1>5. to \in HoldingPlaces => Holding' = Holding \cup {w}
  BY <1>3 DEF Holding, HoldingPlaces
<1>6. to \notin HoldingPlaces => Holding' = Holding \ {w}
  BY <1>3 DEF Holding, HoldingPlaces
<1>7. /\ IsFiniteSet(Holding \cup {w}) /\ IsFiniteSet(Holding \ {w})
      /\ Cardinality(Holding) \in Nat
      /\ w \in Holding => Holding \cup {w} = Holding /\ Cardinality(Holding \ {w}) = Cardinality(Holding) - 1
      /\ w \notin Holding => Holding \ {w} = Holding /\ Cardinality(Holding \cup {w}) = Cardinality(Holding) + 1
  BY FS_AddElement, FS_RemoveElement, FS_CardinalityType
<1>8. IsFiniteSet(Holding')
  BY <1>5, <1>6, <1>7
<1>9. Cardinality(Holding') \in Nat
  BY <1>8, FS_CardinalityType
<1> QED
  BY <1>3, <1>4, <1>5, <1>6, <1>7, <1>8, <1>9

Due(holds) == IF holds THEN 1 ELSE 0

LEMMA OwedIs ==
  /\ Owed = Cardinality(Holding) + Due(RowHolds)
  /\ Owed' = Cardinality(Holding') + Due(RowHolds')
  /\ Due(TRUE) = 1 /\ Due(FALSE) = 0
BY DEF Owed, Due

\* The request as it is, a worker that lets go: what is owed does not grow, and a click
\* is one off it.
LEMMA LetsGo ==
  ASSUME SendIInv, NEW w \in Workers, row' = row,
         NEW to \in {"idle", "claim", "settle", "failing", "down"}, Turns(w, to)
  PROVE  /\ IsFiniteSet(Holding') /\ Owed' \in Nat /\ Owed \in Nat
         /\ worker' \in [Workers -> {"idle", "claim", "open", "click", "settle", "failing", "relogin", "down"}]
         /\ Owed' <= Owed
         /\ worker[w] = "click" => Owed' + 1 <= Owed
<1> USE DEF SendIInv, AsksSuffice
<1>1. to \notin HoldingPlaces
  BY DEF HoldingPlaces
<1>2. /\ worker' \in [Workers -> {"idle", "claim", "open", "click", "settle", "failing", "relogin", "down"}]
      /\ IsFiniteSet(Holding') /\ Cardinality(Holding') \in Nat /\ Cardinality(Holding) \in Nat
      /\ worker[w] \notin HoldingPlaces => Cardinality(Holding') = Cardinality(Holding)
      /\ worker[w] \in HoldingPlaces => Cardinality(Holding') = Cardinality(Holding) - 1
  BY <1>1, TurnCounts
<1>3. worker[w] \notin {"open", "relogin"} => RowHolds' = RowHolds
  BY NoneIsNone DEF RowHolds, Turns, SendTypeOK
<1>4. CASE worker[w] \in {"open", "relogin"}
  <2>1. worker[w] \in HoldingPlaces /\ worker[w] # "click"
    BY <1>4 DEF HoldingPlaces
  <2>2. Due(RowHolds) \in {0, 1} /\ Due(RowHolds') \in {0, 1}
    BY DEF Due
  <2> QED
    BY <1>2, <2>1, <2>2, OwedIs
<1>5. CASE worker[w] \notin {"open", "relogin"}
  <2>1. Due(RowHolds') = Due(RowHolds) /\ Due(RowHolds) \in {0, 1}
    BY <1>3, <1>5 DEF Due
  <2>2. worker[w] = "click" => worker[w] \in HoldingPlaces
    BY DEF HoldingPlaces
  <2> QED
    BY <1>2, <2>1, <2>2, OwedIs
<1> QED
  BY <1>4, <1>5

\* The numbers of the queue, and what is known of it.
LEMMA QueueKnown ==
  ASSUME SendIInv
  PROVE  /\ row \in [status : Statuses \cup {"none"}, owner : Workers \cup {None}]
         /\ worker \in [Workers -> {"idle", "claim", "open", "click", "settle", "failing", "relogin", "down"}]
         /\ asked \in 0 .. MaxAsks /\ asked \in Nat /\ clicked \in Nat /\ faults \in 0 .. MaxFaults
         /\ IsFiniteSet(Holding) /\ Cardinality(Holding) \in Nat /\ Owed \in Nat
         /\ clicked + Owed <= asked
<1>1. asked \in Nat
  BY BoundsAreNat DEF SendIInv, SendTypeOK
<1>2. IsFiniteSet(Holding) /\ Cardinality(Holding) \in Nat
  BY FS_CardinalityType DEF SendIInv, AsksSuffice
<1>3. Owed \in Nat
  BY <1>2 DEF Owed
<1> QED
  BY <1>1, <1>2, <1>3 DEF SendIInv, SendTypeOK, AsksSuffice

\* A worker turns, and neither the request nor the counts of asks and clicks change.
LEMMA TurnKeeps ==
  ASSUME SendIInv, NEW w \in Workers, row' = row, asked' = asked, clicked' = clicked,
         faults' \in 0 .. MaxFaults,
         NEW to \in {"idle", "claim", "settle", "failing", "down"}, Turns(w, to)
  PROVE  QueueKept
<1>1. /\ IsFiniteSet(Holding') /\ Owed' \in Nat /\ Owed \in Nat /\ Owed' <= Owed
      /\ worker' \in [Workers -> {"idle", "claim", "open", "click", "settle", "failing", "relogin", "down"}]
  BY LetsGo
<1>2. clicked' + Owed' <= asked'
  BY <1>1, QueueKnown
<1> QED
  BY <1>1, <1>2, QueueKnown DEF QueueKept, AsksSuffice

\* A worker updates the request and turns: what it holds after, with the request, is no more
\* than before.
LEMMA SetsAndTurns ==
  ASSUME SendIInv, NEW w \in Workers, NEW status \in Statuses, NEW by \in Workers \cup {None},
         Sets(status, by), asked' = asked, clicked' = clicked, faults' = faults,
         NEW to \in {"idle", "claim", "open", "click", "settle", "failing", "relogin", "down"},
         Turns(w, to),
         \/ to \notin HoldingPlaces /\ (RowHolds \/ ~RowHolds' \/ worker[w] \in HoldingPlaces)
         \/ to \in HoldingPlaces /\ ~RowHolds' /\ (RowHolds \/ worker[w] \in HoldingPlaces)
  PROVE  QueueKept
<1>1. /\ worker' \in [Workers -> {"idle", "claim", "open", "click", "settle", "failing", "relogin", "down"}]
      /\ IsFiniteSet(Holding') /\ Cardinality(Holding') \in Nat /\ Cardinality(Holding) \in Nat
      /\ (worker[w] \in HoldingPlaces <=> to \in HoldingPlaces) =>
            Cardinality(Holding') = Cardinality(Holding)
      /\ worker[w] \in HoldingPlaces /\ to \notin HoldingPlaces =>
            Cardinality(Holding') = Cardinality(Holding) - 1
      /\ worker[w] \notin HoldingPlaces /\ to \in HoldingPlaces =>
            Cardinality(Holding') = Cardinality(Holding) + 1
  BY TurnCounts, QueueKnown DEF SendIInv
<1>2. row' \in [status : Statuses \cup {"none"}, owner : Workers \cup {None}]
  BY DEF Sets
<1>3. /\ Due(RowHolds) \in {0, 1} /\ Due(RowHolds') \in {0, 1}
      /\ (RowHolds => Due(RowHolds) = 1) /\ (~RowHolds' => Due(RowHolds') = 0)
  BY DEF Due
<1>4. \/ Cardinality(Holding') = Cardinality(Holding) /\ Due(RowHolds) = 1
      \/ Cardinality(Holding') = Cardinality(Holding) /\ Due(RowHolds') = 0
      \/ Cardinality(Holding') = Cardinality(Holding) - 1
      \/ Cardinality(Holding') = Cardinality(Holding) + 1 /\ Due(RowHolds') = 0 /\ Due(RowHolds) = 1
  BY <1>1, <1>3, Zenon
<1>5. Cardinality(Holding') + Due(RowHolds') <= Cardinality(Holding) + Due(RowHolds)
  BY <1>1, <1>3, <1>4
<1>6. Owed' <= Owed /\ Owed' \in Nat
  BY <1>1, <1>3, <1>5, OwedIs
<1>7. clicked' + Owed' <= asked'
  BY <1>6, QueueKnown
<1> QED
  BY <1>1, <1>2, <1>7, QueueKnown DEF QueueKept, AsksSuffice

LEMMA DueIs == Due(TRUE) = 1 /\ Due(FALSE) = 0 /\ \A b : Due(b) \in {0, 1}
  BY DEF Due

\* A request that is taken up again was waiting in any case.
LEMMA ResetKeeps == ASSUME SendIInv, NEW w \in Workers, ResetStaleProcessing(w) PROVE QueueKept
<1>1. worker[w] = "idle" /\ Turns(w, "claim") /\ asked' = asked /\ clicked' = clicked /\ faults' = faults
  BY DEF ResetStaleProcessing
<1>2. CASE ~Stale
  BY <1>1, <1>2, TurnKeeps, QueueKnown DEF ResetStaleProcessing
<1>3. CASE Stale
  <2>1. Sets("pending", None)
    BY <1>3 DEF ResetStaleProcessing
  <2>2. RowHolds = TRUE
    BY <1>3 DEF Stale, RowHolds
  <2>3. ("claim" \in HoldingPlaces) = FALSE /\ (worker[w] \in HoldingPlaces) = FALSE
    BY <1>1 DEF HoldingPlaces
  <2>4. "pending" \in Statuses
    BY DEF Statuses
  <2> QED
    BY <1>1, <2>1, <2>2, <2>3, <2>4, SetsAndTurns
<1> QED
  BY <1>2, <1>3

\* The worker that claims has from now what the request held.
LEMMA ClaimKeeps == ASSUME SendIInv, NEW w \in Workers, ClaimNextRequest(w) PROVE QueueKept
<1>1. worker[w] = "claim" /\ asked' = asked /\ clicked' = clicked /\ faults' = faults
  BY DEF ClaimNextRequest
<1>2. CASE row.status # "pending"
  BY <1>1, <1>2, TurnKeeps, QueueKnown DEF ClaimNextRequest
<1>3. CASE row.status = "pending"
  <2>1. Sets("processing", w) /\ Turns(w, "open")
    BY <1>3 DEF ClaimNextRequest
  <2>2. RowHolds = TRUE
    BY <1>3 DEF RowHolds
  <2>3. ("open" \in HoldingPlaces) = TRUE /\ (worker[w] \in HoldingPlaces) = FALSE
    BY <1>1 DEF HoldingPlaces
  <2>4. row'.status = "processing" /\ row'.owner = w /\ w # None /\ worker'[w] = "open"
    BY <2>1, NoneIsNone, QueueKnown DEF Sets, Turns
  <2>5. RowHolds' = FALSE
    BY <2>4 DEF RowHolds
  <2>6. "processing" \in Statuses
    BY DEF Statuses
  <2> QED
    BY <1>1, <2>1, <2>2, <2>3, <2>5, <2>6, SetsAndTurns
<1> QED
  BY <1>2, <1>3

\* An update to a status that waits for nobody.
LEMMA UpdatesKeeps ==
  ASSUME SendIInv, NEW w \in Workers, Opened(w) \/ Sent(w) \/ Failed(w) \/ LoginRequired(w)
  PROVE  QueueKept
<1>0. {"opened", "sent", "failed", "pending"} \subseteq Statuses
  BY DEF Statuses
<1>1. CASE Opened(w)
  <2>1. worker[w] = "open" /\ Sets("opened", w) /\ Turns(w, "click")
        /\ asked' = asked /\ clicked' = clicked /\ faults' = faults
    BY <1>1 DEF Opened, Updates
  <2>2. RowHolds' = FALSE
    BY <2>1 DEF Sets, RowHolds
  <2>3. ("click" \in HoldingPlaces) = TRUE /\ (worker[w] \in HoldingPlaces) = TRUE
    BY <2>1 DEF HoldingPlaces
  <2> QED
    BY <1>0, <2>1, <2>2, <2>3, SetsAndTurns
<1>2. CASE Sent(w)
  <2>1. worker[w] = "settle" /\ Sets("sent", w) /\ Turns(w, "idle")
        /\ asked' = asked /\ clicked' = clicked /\ faults' = faults
    BY <1>2 DEF Sent, Updates
  <2>2. RowHolds' = FALSE
    BY <2>1 DEF Sets, RowHolds
  <2>3. ("idle" \in HoldingPlaces) = FALSE
    BY DEF HoldingPlaces
  <2> QED
    BY <1>0, <2>1, <2>2, <2>3, SetsAndTurns
<1>3. CASE Failed(w)
  <2>1. worker[w] = "failing" /\ Sets("failed", w) /\ Turns(w, "idle")
        /\ asked' = asked /\ clicked' = clicked /\ faults' = faults
    BY <1>3 DEF Failed, Updates
  <2>2. RowHolds' = FALSE
    BY <2>1 DEF Sets, RowHolds
  <2>3. ("idle" \in HoldingPlaces) = FALSE
    BY DEF HoldingPlaces
  <2> QED
    BY <1>0, <2>1, <2>2, <2>3, SetsAndTurns
<1>4. CASE LoginRequired(w)
  <2>1. worker[w] = "relogin" /\ Sets("pending", w) /\ Turns(w, "idle")
        /\ asked' = asked /\ clicked' = clicked /\ faults' = faults
    BY <1>4 DEF LoginRequired, Updates
  <2>2. ("idle" \in HoldingPlaces) = FALSE /\ (worker[w] \in HoldingPlaces) = TRUE
    BY <2>1 DEF HoldingPlaces
  <2> QED
    BY <1>0, <2>1, <2>2, SetsAndTurns
<1> QED
  BY <1>1, <1>2, <1>3, <1>4

\* The click is paid for by what the worker held.
LEMMA ClickKeeps == ASSUME SendIInv, NEW w \in Workers, Click(w) PROVE QueueKept
<1>1. /\ worker[w] = "click" /\ Turns(w, "settle") /\ clicked' = clicked + 1
      /\ row' = row /\ asked' = asked /\ faults' = faults
  BY DEF Click
<1>2. /\ IsFiniteSet(Holding') /\ Owed' \in Nat /\ Owed \in Nat /\ Owed' + 1 <= Owed
      /\ worker' \in [Workers -> {"idle", "claim", "open", "click", "settle", "failing", "relogin", "down"}]
  BY <1>1, LetsGo
<1>3. clicked' \in Nat /\ clicked' + Owed' <= asked'
  <2>1. clicked \in Nat /\ asked \in Nat /\ clicked + Owed <= asked
    BY QueueKnown
  <2>2. Owed' \in Nat /\ Owed \in Nat /\ Owed' + 1 <= Owed
    BY <1>2
  <2>3. clicked' = clicked + 1 /\ asked' = asked /\ clicked' \in Nat /\ asked' \in Nat
    BY <1>1, <2>1
  <2>4. \A k, o, p, n \in Nat : k + o <= n /\ p + 1 <= o => (k + 1) + p <= n
    OBVIOUS
  <2>5. (clicked + 1) + Owed' <= asked
    BY <2>1, <2>2, <2>4
  <2> QED
    BY <2>3, <2>5
<1> QED
  BY <1>1, <1>2, <1>3, QueueKnown DEF QueueKept, AsksSuffice

LEMMA PageFailsKeeps == ASSUME SendIInv, NEW w \in Workers, PageFails(w) PROVE QueueKept
<1>1. row' = row /\ asked' = asked /\ clicked' = clicked /\ faults' = faults
  BY DEF PageFails
<1>2. CASE Turns(w, "failing")
  BY <1>1, <1>2, TurnKeeps, QueueKnown
<1>3. CASE worker[w] = "open" /\ Turns(w, "relogin")
  <2>1. worker[w] \in HoldingPlaces /\ "relogin" \in HoldingPlaces
    BY <1>3 DEF HoldingPlaces
  <2>2. /\ worker' \in [Workers -> {"idle", "claim", "open", "click", "settle", "failing", "relogin", "down"}]
        /\ IsFiniteSet(Holding') /\ Cardinality(Holding') \in Nat
        /\ Cardinality(Holding') = Cardinality(Holding)
    BY <1>3, <2>1, TurnCounts, QueueKnown DEF SendIInv
  <2>3. RowHolds' = RowHolds
    BY <1>1, <1>3, NoneIsNone, QueueKnown DEF RowHolds, Turns
  <2>4. Owed' = Owed
    BY <2>2, <2>3, OwedIs
  <2>5. clicked' + Owed' <= asked'
    BY <1>1, <2>4, QueueKnown
  <2> QED
    BY <1>1, <2>2, <2>5, QueueKnown DEF QueueKept, AsksSuffice
<1> QED
  BY <1>2, <1>3 DEF PageFails

LEMMA FaultsKeep ==
  ASSUME SendIInv, NEW w \in Workers, QueryFails(w) \/ Die(w) \/ Restart(w)
  PROVE  QueueKept
<1>1. row' = row /\ asked' = asked /\ clicked' = clicked
  BY DEF QueryFails, Die, Restart
<1>2. faults' \in 0 .. MaxFaults
  BY QueueKnown, BoundsAreNat DEF QueryFails, Die, Restart
<1>3. Turns(w, "failing") \/ Turns(w, "down") \/ Turns(w, "idle")
  BY DEF QueryFails, Die, Restart
<1> QED
  BY <1>1, <1>2, <1>3, TurnKeeps

\* The request is asked for once more, or set to what waits for nobody.
LEMMA AsksKeep ==
  ASSUME SendIInv, worker' = worker, clicked' = clicked, faults' = faults,
         NEW status \in Statuses, Sets(status, None),
         \/ asked < MaxAsks /\ asked' = asked + 1
         \/ asked' = asked /\ status \notin {"pending", "processing"}
  PROVE  QueueKept
<1>1. Holding' = Holding
  BY DEF Holding
<1>2. row' \in [status : Statuses \cup {"none"}, owner : Workers \cup {None}] /\ row'.status = status
  BY DEF Sets
<1>3. status \notin {"pending", "processing"} => RowHolds' = FALSE
  BY <1>2 DEF RowHolds
<1>4. /\ Due(RowHolds) \in {0, 1} /\ Due(RowHolds') \in {0, 1} /\ (RowHolds' = FALSE => Due(RowHolds') = 0)
      /\ Owed = Cardinality(Holding) + Due(RowHolds) /\ Owed' = Cardinality(Holding') + Due(RowHolds')
  BY DueIs, OwedIs
<1>5. Owed' <= Owed + (asked' - asked) /\ Owed' \in Nat
  BY <1>1, <1>3, <1>4, QueueKnown
<1>6. asked' \in 0 .. MaxAsks
  BY QueueKnown, BoundsAreNat
<1>7. clicked' + Owed' <= asked'
  BY <1>5, <1>6, QueueKnown
<1> QED
  BY <1>1, <1>2, <1>6, <1>7, QueueKnown DEF QueueKept, AsksSuffice

LEMMA QueueStays == ASSUME SendIInv, UNCHANGED queue PROVE QueueKept
BY QueueKnown DEF SendIInv, QueueKept, queue, AsksSuffice, Owed, Holding, RowHolds

LEMMA QueueIsKept == ASSUME SendIInv, Next PROVE QueueKept
<1>1. ASSUME NEW c \in Calls, Enqueue(c) PROVE QueueKept
  <2>1. worker' = worker /\ clicked' = clicked /\ faults' = faults
    BY <1>1 DEF Enqueue
  <2>2. "pending" \in Statuses
    BY DEF Statuses
  <2> QED
    BY <1>1, <2>1, <2>2, AsksKeep, QueueStays DEF Enqueue, Upserted, queue
<1>2. ASSUME NEW status \in Statuses, Patch(status) PROVE QueueKept
  BY <1>2, AsksKeep DEF Patch
<1>3. ASSUME NEW c \in Calls, CallStep(c), ~Enqueue(c) PROVE UNCHANGED queue
  BY <1>3 DEF CallStep, Begin, PrepareFails, ReactsToNothing, Send, Throws, TimesOut, Repair,
     Resolves, NoRefusal
<1>4. ASSUME NEW m \in Messages, Written(m) \/ Refused(m) \/ Forget(m) PROVE UNCHANGED queue
  BY <1>4 DEF Written, Refused, Forget
<1>5. ASSUME NEW w \in Workers, WorkerStep(w) PROVE QueueKept
  BY <1>5, ResetKeeps, ClaimKeeps, UpdatesKeeps, ClickKeeps, PageFailsKeeps,
     FaultsKeep DEF WorkerStep, Loop
<1> QED
  BY <1>1, <1>2, <1>3, <1>4, <1>5, QueueStays DEF Next

-----------------------------------------------------------------------------
LEMMA SendStep == SendIInv /\ [Next]_vars => SendIInv'
<1> SUFFICES ASSUME SendIInv, [Next]_vars PROVE SendIInv'
  OBVIOUS
<1>1. CASE Next
  <2>1. SendsKept /\ QueueKept
    BY <1>1, SendsAreKept, QueueIsKept
  <2> QED
    BY <2>1 DEF SendsKept, QueueKept, SendIInv, SendTypeOK, CallRecord
<1>2. CASE UNCHANGED vars
  BY <1>2 DEF SendIInv, SendTypeOK, SendsTrue, AcksTrue, AsksSuffice, Owed, Holding, RowHolds, vars
<1> QED
  BY <1>1, <1>2

\* A text reaches WhatsApp once, by whichever way: no call but a group's sends twice, a text is
\* queued only if WhatsApp has refused it or never had it, the open worker clicks no more often
\* than it was asked to, and a refusal that came in time is heard.
THEOREM SendInvariant == Spec => []SendInv
<1>1. SendIInv => SendInv
  <2> SUFFICES ASSUME SendIInv PROVE SendInv
    OBVIOUS
  <2>1. SentOnce
    BY CallKnown DEF SentOnce, SendTrue
  <2>2. QueuedIsNotTaken
    BY CallKnown DEF QueuedIsNotTaken, SendTrue
  <2>3. RefusalIsHeard
    BY CallKnown DEF RefusalIsHeard, SendTrue
  <2>4. ClickedAsAsked
    BY QueueKnown DEF ClickedAsAsked
  <2> QED
    BY <2>1, <2>2, <2>3, <2>4 DEF SendInv, SendIInv
<1> QED
  BY <1>1, SendInitIInv, SendStep, PTL DEF Spec

(***************************************************************************)
(* PairingPool.  A sub's login is in four places: its client, its auth     *)
(* directory, its row, and a write that is due; they agree because one     *)
(* entry of the sub at most has a client or a write, the one that is       *)
(* listed or inside its drop, and while an entry loads there is none.      *)
(***************************************************************************)
Holds(s, x)  == sessions[s] = x \/ x \in leaving
Begins(x)    == live[x].step \in {"loading", "connecting"}

\* What an entry says of itself, whatever met it: until its start has ended it has neither
\* opened nor been touched; what has expired is closed; an invalidated one is in its hook, has
\* expired, or stays for a failure; its codes are within the budget.
Sound(x) ==
  /\ live[x].step # "done" =>
       /\ live[x].opened = FALSE /\ live[x].invalidated = FALSE /\ live[x].state = "starting"
       /\ x \notin idle /\ x \notin armed /\ x \notin leaving /\ x \notin hook
  /\ live[x].step \in {"evicting", "loading"} => live[x].client = "off"
  /\ live[x].step = "connecting" => live[x].client = "connecting"
  /\ live[x].opened = TRUE => live[x].state \in {"paired", "expired"}
  /\ x \in leaving => sessions[SubOf(x)] # x /\ live[x].opened = TRUE
  /\ x \in armed => live[x].opened = TRUE /\ (live[x].invalidated = FALSE \/ x \in hook)
  /\ live[x].state = "expired" =>
       live[x].client = "off" /\ sessions[SubOf(x)] # x /\ x \notin hook /\ x \notin armed
  /\ live[x].invalidated = TRUE => x \in hook \/ live[x].state = "expired" \/ failures > 0
  /\ x \in hook =>
       /\ live[x].client \in {"waiting", "off"} /\ live[x].invalidated = TRUE
       /\ live[x].login \in dead[SubOf(x)]
  /\ sessions[SubOf(x)] = x \/ live[x].step \in {"evicting", "loading"} => live[x].qrs <= MaxQr

\* Of its sub s: a start under way is the only one, in the minute no other may begin; one that
\* waits for a place found none listed; a drop under way is the only one.
StartsAlone(s, x) ==
  /\ Begins(x) =>
       /\ s \in cooling /\ s \notin exhausted
       /\ sessions[s] = (IF live[x].step = "loading" THEN Nothing ELSE x)
       /\ \A y \in Entries : SubOf(y) = s /\ Begins(y) => y = x
  /\ live[x].step = "evicting" /\ s \notin cooling => sessions[s] = Nothing

LeavesAlone(s, x) ==
  x \in leaving =>
    /\ sessions[s] = Nothing
    /\ \A y \in Entries : SubOf(y) = s => ~Begins(y) /\ (y \in leaving => y = x)

\* A client and a write are of the entry that is listed or leaving, and the directory has its
\* login, or was emptied because the login has ended.
HasPlace(s, x) ==
  live[x].client # "off" \/ x \in armed => Holds(s, x)

HasDirectory(s, x) ==
  /\ live[x].client \in {"connecting", "on", "open"} => dir[s] = live[x].login
  /\ live[x].client = "waiting" =>
       dir[s] = live[x].login \/ (live[x].invalidated = TRUE /\ dir[s] = Missing)
  /\ x \in armed => dir[s] = live[x].login \/ (dir[s] = Missing /\ x \in hook)

\* What a paired entry says of its login and its row; no other entry is about to delete that row.
SaysTrue(s, x) ==
  /\ Holds(s, x) /\ live[x].state = "paired" =>
       live[x].login \notin dead[s] \/ x \in hook \/ failures > 0
  /\ sessions[s] = x /\ live[x].state = "paired" /\ x \notin armed /\ x \notin hook =>
       stored[s] = live[x].login \/ failures > 0

HooksAlone(s, x) ==
  sessions[s] = x /\ live[x].state = "paired" => \A y \in hook : SubOf(y) = s => y = x

Agrees(s, x) ==
  /\ StartsAlone(s, x) /\ LeavesAlone(s, x) /\ HasPlace(s, x) /\ HasDirectory(s, x)
  /\ SaysTrue(s, x) /\ HooksAlone(s, x)

RowGoes(s)   == stored[s] \in dead[s] => failures > 0 \/ \E x \in hook : SubOf(x) = s
Unlisted(s)  == s \in exhausted => sessions[s] = Nothing

Whole(s) == RowGoes(s) /\ Unlisted(s) /\ \A x \in Entries : SubOf(x) = s => Agrees(s, x)

\* The types of the entries and of all else, and the listing of entries under their own subs.
EntriesOK == live \in Seq(EntryType) /\ Len(live) <= MaxStarts

MarksOK ==
  /\ sessions \in [Subs -> 0..MaxStarts]
  /\ expired \subseteq Subs /\ exhausted \subseteq Subs /\ cooling \subseteq Subs
  /\ idle \subseteq Entries /\ armed \subseteq Entries /\ leaving \subseteq Entries
  /\ hook \subseteq Entries
  /\ dir \in [Subs -> Contents] /\ stored \in [Subs -> Contents]
  /\ dead \in [Subs -> SUBSET Logins] /\ failures \in 0..MaxFailures
  /\ met \subseteq Subs

ListedOK ==
  \A s \in Subs : sessions[s] # Nothing =>
    /\ sessions[s] \in Entries /\ SubOf(sessions[s]) = s
    /\ live[sessions[s]].step \in {"connecting", "done"}

AllSound == \A x \in Entries : Sound(x)
AllWhole == \A s \in Subs : s \notin met => Whole(s)

PoolIInv == EntriesOK /\ MarksOK /\ ListedOK /\ AllSound /\ AllWhole

-----------------------------------------------------------------------------
LEMMA PoolEntries ==
  ASSUME EntriesOK
  PROVE  /\ Len(live) \in Nat /\ Len(live) <= MaxStarts /\ Entries = 1 .. Len(live)
         /\ live \in [Entries -> EntryType] /\ Entries \subseteq 1 .. MaxStarts
         /\ Nothing \notin Entries
<1>1. live \in Seq(EntryType) /\ Len(live) <= MaxStarts
  BY DEF EntriesOK
<1>2. Len(live) \in Nat /\ live \in [1 .. Len(live) -> EntryType]
  BY <1>1
<1>3. MaxStarts \in Nat
  BY PoolAssumption
<1> QED
  BY <1>1, <1>2, <1>3 DEF Entries, Nothing

LEMMA PoolListed ==
  ASSUME NEW n \in Nat, n <= MaxStarts, live' \in [1 .. n -> EntryType]
  PROVE  EntriesOK' /\ Len(live') = n /\ Entries' = 1 .. n
<1>1. live' \in Seq(EntryType)
  BY SeqDef
<1>2. DOMAIN live' = 1 .. n
  OBVIOUS
<1>3. Len(live') = n
  BY <1>1, <1>2, LenProperties
<1> QED
  BY <1>1, <1>2, <1>3 DEF Entries, EntriesOK

\* A step of entry x leaves the other entries, and the maps of the other subs, as they are.
Only(x) ==
  /\ live' \in [Entries -> EntryType]
  /\ \A y \in Entries : y # x => live'[y] = live[y]
  /\ live'[x].sub = live[x].sub

Flags(x) ==
  \A y \in Entries : y # x =>
    /\ (y \in armed' <=> y \in armed) /\ (y \in leaving' <=> y \in leaving)
    /\ (y \in hook' <=> y \in hook) /\ (y \in idle' => y \in idle)

SameAt(t) ==
  /\ sessions'[t] = sessions[t] /\ dir'[t] = dir[t] /\ stored'[t] = stored[t]
  /\ dead'[t] = dead[t] /\ (t \in cooling' <=> t \in cooling)
  /\ (t \in exhausted' <=> t \in exhausted)

Around(x) ==
  /\ Flags(x)
  /\ \A t \in Subs : t # SubOf(x) => SameAt(t)
  /\ sessions'[SubOf(x)] \in {sessions[SubOf(x)], Nothing, x}
  /\ dead[SubOf(x)] \subseteq dead'[SubOf(x)]
  /\ failures <= failures' /\ met \subseteq met'

LEMMA OnlyLists ==
  ASSUME EntriesOK, NEW x \in Entries, Only(x)
  PROVE  EntriesOK' /\ Entries' = Entries
<1>1. Len(live) \in Nat /\ Len(live) <= MaxStarts /\ Entries = 1 .. Len(live)
  BY PoolEntries
<1>2. live' \in [1 .. Len(live) -> EntryType]
  BY <1>1 DEF Only
<1> QED
  BY <1>1, <1>2, PoolListed

\* The others stay sound, whatever is their sub.
LEMMA OthersSound ==
  ASSUME PoolIInv, MarksOK', NEW x \in Entries, Only(x), Around(x),
         NEW y \in Entries, y # x
  PROVE  Sound(y)'
<1>1. Sound(y) /\ live \in [Entries -> EntryType] /\ Nothing \notin Entries
  BY PoolEntries DEF PoolIInv, AllSound
<1>2. /\ live'[y] = live[y] /\ (y \in armed' <=> y \in armed)
      /\ (y \in leaving' <=> y \in leaving) /\ (y \in hook' <=> y \in hook)
      /\ (y \in idle' => y \in idle)
  BY DEF Only, Around, Flags
<1>3. live[y].sub \in Subs /\ live[x].sub \in Subs /\ live[y].qrs \in Nat /\ MaxQr \in Nat
  BY <1>1, PoolAssumption DEF EntryType
<1>4. failures \in Nat /\ failures' \in Nat /\ failures <= failures'
  BY PoolAssumption DEF PoolIInv, MarksOK, Around
<1>5. failures > 0 => failures' > 0
  BY <1>4
<1>6. sessions'[live[y].sub] = y => sessions[live[y].sub] = y
  <2>1. CASE live[y].sub = live[x].sub
    BY <1>1, <2>1 DEF Around, SubOf
  <2>2. CASE live[y].sub # live[x].sub
    BY <1>3, <2>2 DEF Around, SubOf, SameAt
  <2> QED
    BY <2>1, <2>2
<1>7. dead[live[y].sub] \subseteq dead'[live[y].sub]
  <2>1. CASE live[y].sub = live[x].sub
    BY <2>1 DEF Around, SubOf
  <2>2. CASE live[y].sub # live[x].sub
    BY <1>3, <2>2 DEF Around, SubOf, SameAt
  <2> QED
    BY <2>1, <2>2
<1> QED
  BY <1>1, <1>2, <1>5, <1>6, <1>7 DEF Sound, SubOf

-----------------------------------------------------------------------------
\* A step that does not touch what is known of sub t, whatever it adds of others.
Stays(y) ==
  /\ y \in Entries /\ live'[y] = live[y]
  /\ (y \in armed' <=> y \in armed) /\ (y \in leaving' <=> y \in leaving)
  /\ (y \in hook' <=> y \in hook)

Rests(t) ==
  /\ SameAt(t)
  /\ \A y \in Entries' : live'[y].sub = t => Stays(y)
  /\ \A y \in Entries : live[y].sub = t => y \in Entries' /\ Stays(y)
  /\ failures <= failures'

LEMMA FailuresGrow ==
  ASSUME MarksOK, MarksOK', failures <= failures'
  PROVE  failures > 0 => failures' > 0
BY PoolAssumption DEF MarksOK

LEMMA RestsWhole ==
  ASSUME MarksOK, MarksOK', NEW t \in Subs, Whole(t), Rests(t)
  PROVE  Whole(t)'
<1>1. failures > 0 => failures' > 0
  BY FailuresGrow DEF Rests
<1>2. SameAt(t) /\ hook \subseteq Entries /\ hook' \subseteq Entries'
  BY DEF Rests, MarksOK
<1>3. RowGoes(t)'
  <2>1. RowGoes(t)
    BY DEF Whole
  <2>2. ASSUME NEW y \in hook, SubOf(y) = t PROVE y \in hook' /\ live'[y].sub = t
    BY <1>2, <2>2 DEF Rests, Stays, SubOf
  <2> QED
    BY <1>1, <1>2, <2>1, <2>2 DEF RowGoes, SameAt, SubOf
<1>4. Unlisted(t)'
  BY <1>2 DEF Whole, Unlisted, SameAt
<1>5. ASSUME NEW y \in Entries', live'[y].sub = t PROVE Agrees(t, y)'
  <2>1. Stays(y) /\ live[y].sub = t
    BY <1>5 DEF Rests, Stays
  <2>2. Agrees(t, y)
    BY <2>1 DEF Whole, SubOf, Stays
  <2>3. \A z \in Entries' : live'[z].sub = t => Stays(z) /\ live[z].sub = t
    BY DEF Rests, Stays
  <2>4. StartsAlone(t, y)'
    BY <1>2, <2>1, <2>2, <2>3 DEF Agrees, StartsAlone, Begins, SubOf, Stays, SameAt
  <2>5. LeavesAlone(t, y)'
    BY <1>2, <2>1, <2>2, <2>3 DEF Agrees, LeavesAlone, Begins, SubOf, Stays, SameAt
  <2>6. HasPlace(t, y)' /\ HasDirectory(t, y)'
    BY <1>2, <2>1, <2>2 DEF Agrees, HasPlace, HasDirectory, Holds, Stays, SameAt
  <2>7. SaysTrue(t, y)'
    BY <1>1, <1>2, <2>1, <2>2 DEF Agrees, SaysTrue, Holds, Stays, SameAt
  <2>8. HooksAlone(t, y)'
    BY <1>2, <2>1, <2>2, <2>3 DEF Agrees, HooksAlone, SubOf, Stays, SameAt
  <2> QED
    BY <2>4, <2>5, <2>6, <2>7, <2>8 DEF Agrees
<1> QED
  BY <1>3, <1>4, <1>5 DEF Whole, SubOf

LEMMA OthersWhole ==
  ASSUME PoolIInv, MarksOK', NEW x \in Entries, Only(x), Around(x),
         NEW t \in Subs, t # SubOf(x), t \notin met'
  PROVE  Whole(t)'
<1>1. Whole(t)
  BY DEF Around, PoolIInv, AllWhole
<1>2. Entries' = Entries
  BY OnlyLists DEF PoolIInv
<1>3. ASSUME NEW y \in Entries, live'[y].sub = t \/ live[y].sub = t PROVE Stays(y)
  <2>1. y # x
    BY <1>3 DEF Only, SubOf
  <2> QED
    BY <2>1 DEF Stays, Only, Around, Flags
<1>4. Rests(t)
  BY <1>2, <1>3 DEF Rests, Around
<1> QED
  BY <1>1, <1>4, RestsWhole DEF PoolIInv

\* The listing stays one of entries past their load.
LEMMA StillListed ==
  ASSUME PoolIInv, MarksOK', NEW x \in Entries, Only(x), Around(x),
         live'[x].step \in {"connecting", "done"}
           \/ (live[x].step \in {"evicting", "loading"} /\ sessions'[SubOf(x)] # x)
  PROVE  ListedOK'
<1>1. Entries' = Entries /\ live \in [Entries -> EntryType] /\ Nothing \notin Entries
  BY OnlyLists, PoolEntries DEF PoolIInv
<1>2. SUFFICES ASSUME NEW s \in Subs, sessions'[s] # Nothing
               PROVE  /\ sessions'[s] \in Entries /\ live'[sessions'[s]].sub = s
                      /\ live'[sessions'[s]].step \in {"connecting", "done"}
  BY <1>1 DEF ListedOK, SubOf
<1>3. CASE sessions'[s] = sessions[s]
  <2>1. /\ sessions[s] \in Entries /\ live[sessions[s]].sub = s
        /\ live[sessions[s]].step \in {"connecting", "done"}
    BY <1>2, <1>3 DEF PoolIInv, ListedOK, SubOf
  <2>2. CASE sessions[s] = x
    <3>1. live'[x].sub = s
      BY <2>1, <2>2 DEF Only
    <3>2. live'[x].step \in {"connecting", "done"}
      BY <1>3, <2>1, <2>2 DEF SubOf
    <3> QED
      BY <1>3, <2>2, <3>1, <3>2
  <2>3. CASE sessions[s] # x
    BY <1>3, <2>1, <2>3 DEF Only
  <2> QED
    BY <2>2, <2>3
<1>4. CASE sessions'[s] # sessions[s]
  <2>1. s = SubOf(x)
    BY <1>4 DEF Around, SameAt
  <2>2. sessions'[s] = x
    BY <1>2, <1>4, <2>1 DEF Around
  <2>3. live'[x].sub = s
    BY <2>1 DEF Only, SubOf
  <2>4. live'[x].step \in {"connecting", "done"}
    BY <2>1, <2>2
  <2> QED
    BY <2>2, <2>3, <2>4
<1> QED
  BY <1>3, <1>4

\* What has to be shown of a step of entry x.
LEMMA StepOf ==
  ASSUME PoolIInv, MarksOK', NEW x \in Entries, Only(x), Around(x),
         live'[x].step \in {"connecting", "done"}
           \/ (live[x].step \in {"evicting", "loading"} /\ sessions'[SubOf(x)] # x),
         Sound(x)', NEW s \in Subs, SubOf(x) = s, s \notin met' => Whole(s)'
  PROVE  PoolIInv'
<1>1. EntriesOK' /\ Entries' = Entries
  BY OnlyLists DEF PoolIInv
<1>2. ListedOK'
  BY StillListed
<1>3. AllSound'
  BY <1>1, OthersSound DEF AllSound
<1>4. AllWhole'
  <2>1. SUFFICES ASSUME NEW t \in Subs, t \notin met' PROVE Whole(t)'
    BY DEF AllWhole
  <2>2. CASE t = s
    BY <2>1, <2>2
  <2>3. CASE t # s
    BY <2>1, <2>3, OthersWhole
  <2> QED
    BY <2>2, <2>3
<1> QED
  BY <1>1, <1>2, <1>3, <1>4 DEF PoolIInv

-----------------------------------------------------------------------------
\* The entry that holds its sub's place is alone with it: the others of the sub are closed, have
\* nothing to write, and are past their start or wait for a place.
LEMMA HolderAlone ==
  ASSUME PoolIInv, NEW s \in Subs, s \notin met, NEW x \in Entries, SubOf(x) = s, Holds(s, x),
         NEW y \in Entries, SubOf(y) = s, y # x
  PROVE  /\ live[y].client = "off" /\ y \notin armed /\ y \notin leaving /\ ~Begins(y)
         /\ sessions[s] # y
<1>1. Agrees(s, x) /\ Agrees(s, y) /\ Nothing \notin Entries
  BY PoolEntries DEF PoolIInv, AllWhole, Whole
<1>2. CASE sessions[s] = x
  <2>1. y \notin leaving /\ sessions[s] # y
    BY <1>1, <1>2 DEF Agrees, LeavesAlone
  <2>2. ~Begins(y)
    BY <1>1, <1>2, <2>1 DEF Agrees, StartsAlone
  <2> QED
    BY <1>1, <2>1, <2>2 DEF Agrees, HasPlace, Holds
<1>3. CASE x \in leaving
  <2>1. sessions[s] = Nothing /\ y \notin leaving /\ ~Begins(y)
    BY <1>1, <1>3 DEF Agrees, LeavesAlone
  <2>2. sessions[s] # y
    BY <1>1, <2>1
  <2> QED
    BY <1>1, <2>1, <2>2 DEF Agrees, HasPlace, Holds
<1> QED
  BY <1>2, <1>3 DEF Holds

LEMMA HolderWhole ==
  ASSUME PoolIInv, MarksOK', NEW x \in Entries, Only(x), Around(x),
         NEW s \in Subs, s \notin met, SubOf(x) = s, Holds(s, x),
         live'[x].step = "done", sessions'[s] \in {sessions[s], Nothing},
         x \in leaving' => sessions'[s] = Nothing,
         sessions'[s] = x /\ live'[x].state = "paired" =>
           (sessions[s] = x /\ live[x].state = "paired") \/ \A y \in hook : SubOf(y) = s => y = x,
         s \in cooling' <=> s \in cooling,
         RowGoes(s)', Unlisted(s)', HasPlace(s, x)', HasDirectory(s, x)', SaysTrue(s, x)'
  PROVE  Whole(s)'
<1>1. /\ Entries' = Entries /\ Nothing \notin Entries /\ hook \subseteq Entries
      /\ hook' \subseteq Entries' /\ Agrees(s, x)
  BY OnlyLists, PoolEntries DEF PoolIInv, AllWhole, Whole, MarksOK
<1>2. ASSUME NEW y \in Entries, live'[y].sub = s, y # x
      PROVE  /\ live'[y] = live[y] /\ SubOf(y) = s /\ live[y].client = "off" /\ ~Begins(y)
             /\ y \notin armed' /\ y \notin leaving' /\ sessions'[s] # y /\ sessions[s] # y
             /\ (y \in hook' <=> y \in hook)
  <2>1. live'[y] = live[y] /\ SubOf(y) = s
    BY <1>2 DEF Only, SubOf
  <2>2. /\ live[y].client = "off" /\ y \notin armed /\ y \notin leaving /\ ~Begins(y)
        /\ sessions[s] # y
    BY <1>2, <2>1, HolderAlone
  <2>3. /\ (y \in armed' <=> y \in armed) /\ (y \in leaving' <=> y \in leaving)
        /\ (y \in hook' <=> y \in hook)
    BY <1>2 DEF Around, Flags
  <2> QED
    BY <1>1, <2>1, <2>2, <2>3
<1>3. ASSUME NEW y \in Entries, live'[y].sub = s, y # x PROVE Agrees(s, y)'
  <2>1. /\ live'[y] = live[y] /\ SubOf(y) = s /\ live[y].client = "off" /\ ~Begins(y)
        /\ y \notin armed' /\ y \notin leaving' /\ sessions'[s] # y
    BY <1>2, <1>3
  <2>2. Agrees(s, y)
    BY <2>1 DEF PoolIInv, AllWhole, Whole
  <2>3. StartsAlone(s, y)'
    BY <2>1, <2>2 DEF Agrees, StartsAlone, Begins
  <2>4. HasPlace(s, y)' /\ HasDirectory(s, y)' /\ LeavesAlone(s, y)'
        /\ SaysTrue(s, y)' /\ HooksAlone(s, y)'
    BY <2>1 DEF HasPlace, HasDirectory, LeavesAlone, SaysTrue, HooksAlone, Holds
  <2> QED
    BY <2>3, <2>4 DEF Agrees
<1>4. StartsAlone(s, x)'
  BY DEF StartsAlone, Begins
<1>5. LeavesAlone(s, x)'
  <2>1. ASSUME NEW y \in Entries, live'[y].sub = s PROVE ~Begins(y)' /\ (y \in leaving' => y = x)
    BY <1>2, <2>1 DEF Begins
  <2> QED
    BY <1>1, <2>1 DEF LeavesAlone, SubOf
<1>6. HooksAlone(s, x)'
  <2>1. SUFFICES ASSUME sessions'[s] = x, live'[x].state = "paired",
                        NEW y \in hook', live'[y].sub = s, y # x
                 PROVE  FALSE
    BY DEF HooksAlone, SubOf
  <2>2. y \in Entries /\ y \in hook /\ SubOf(y) = s
    BY <1>1, <1>2, <2>1
  <2>3. \A z \in hook : SubOf(z) = s => z = x
    BY <1>1, <2>1 DEF Agrees, HooksAlone
  <2> QED
    BY <2>1, <2>2, <2>3
<1>7. Agrees(s, x)'
  BY <1>4, <1>5, <1>6 DEF Agrees
<1> QED
  BY <1>1, <1>3, <1>7 DEF Whole, SubOf

\* A start past its guards: no entry of the sub has its place, and only the new one loads.
LEMMA LoadingWhole ==
  ASSUME MarksOK', NEW s \in Subs, NEW n \in Entries', live'[n].sub = s,
         live'[n].step = "loading", live'[n].client = "off", live'[n].state = "starting",
         n \notin armed', n \notin leaving',
         s \in cooling', s \notin exhausted', sessions'[s] = Nothing, Nothing \notin Entries',
         RowGoes(s)',
         \A y \in Entries' : live'[y].sub = s /\ y # n =>
           live'[y].client = "off" /\ y \notin armed' /\ y \notin leaving' /\ ~Begins(y)'
  PROVE  Whole(s)'
<1>1. ASSUME NEW y \in Entries', live'[y].sub = s PROVE Agrees(s, y)'
  <2>1. live'[y].client = "off" /\ y \notin armed' /\ y \notin leaving' /\ sessions'[s] # y
    BY <1>1
  <2>2. StartsAlone(s, y)'
    <3>1. CASE y = n
      BY <3>1 DEF StartsAlone, Begins, SubOf
    <3>2. CASE y # n
      BY <1>1, <3>2 DEF StartsAlone, Begins, SubOf
    <3> QED
      BY <3>1, <3>2
  <2>3. HasPlace(s, y)' /\ HasDirectory(s, y)' /\ LeavesAlone(s, y)'
        /\ SaysTrue(s, y)' /\ HooksAlone(s, y)'
    BY <2>1 DEF HasPlace, HasDirectory, LeavesAlone, SaysTrue, HooksAlone, Holds
  <2> QED
    BY <2>2, <2>3 DEF Agrees
<1>2. Unlisted(s)'
  BY DEF Unlisted
<1> QED
  BY <1>1, <1>2 DEF Whole, SubOf

\* A drop of the listed entry: its flush has a write to await, or its client goes.
LEMMA DropWhole ==
  ASSUME PoolIInv, MarksOK', NEW s \in Subs, s \notin met, NEW x \in Entries, SubOf(x) = s,
         sessions[s] = x, live[x].step = "done", x \in Entries',
         sessions'[s] = Nothing, dir'[s] = dir[s], stored'[s] = stored[s], dead'[s] = dead[s],
         s \in cooling' <=> s \in cooling, s \in exhausted' <=> s \in exhausted,
         failures <= failures',
         \A y \in Entries' : live'[y].sub = s /\ y # x => Stays(y),
         \A y \in Entries : SubOf(y) = s /\ y # x => Stays(y),
         live'[x].sub = s, live'[x].step = "done", live'[x].state = live[x].state,
         live'[x].login = live[x].login, live'[x].invalidated = live[x].invalidated,
         x \in hook' <=> x \in hook, x \in armed' <=> x \in armed,
         x \in armed => x \in leaving' /\ live'[x].client = live[x].client,
         x \notin armed => x \notin leaving' /\ live'[x].client = "off"
  PROVE  Whole(s)'
<1>1. /\ Nothing \notin Entries /\ hook \subseteq Entries
      /\ hook' \subseteq Entries' /\ Agrees(s, x) /\ RowGoes(s)
  BY PoolEntries DEF PoolIInv, AllWhole, Whole, MarksOK
<1>2. failures > 0 => failures' > 0
  BY FailuresGrow DEF PoolIInv
<1>3. ASSUME NEW y \in Entries', live'[y].sub = s, y # x
      PROVE  /\ y \in Entries /\ live'[y] = live[y] /\ SubOf(y) = s
             /\ live[y].client = "off" /\ ~Begins(y)
             /\ y \notin armed' /\ y \notin leaving' /\ (y \in hook' <=> y \in hook)
  <2>1. Stays(y) /\ SubOf(y) = s
    BY <1>3 DEF Stays, SubOf
  <2>2. y \in Entries /\ Holds(s, x)
    BY <2>1 DEF Stays, Holds
  <2>3. live[y].client = "off" /\ y \notin armed /\ y \notin leaving /\ ~Begins(y)
    BY <1>3, <2>1, <2>2, HolderAlone
  <2> QED
    BY <2>1, <2>3 DEF Stays
<1>4. ASSUME NEW y \in Entries', live'[y].sub = s, y # x PROVE Agrees(s, y)'
  <2>1. /\ live'[y].client = "off" /\ ~Begins(y)' /\ y \notin armed' /\ y \notin leaving'
    BY <1>3, <1>4 DEF Begins
  <2>2. y \in Entries' /\ sessions'[s] # y
    BY <1>1, <1>3, <1>4
  <2>3. StartsAlone(s, y)'
    BY <2>1 DEF StartsAlone
  <2>4. HasPlace(s, y)' /\ HasDirectory(s, y)' /\ LeavesAlone(s, y)'
        /\ SaysTrue(s, y)' /\ HooksAlone(s, y)'
    BY <2>1, <2>2 DEF HasPlace, HasDirectory, LeavesAlone, SaysTrue, HooksAlone, Holds
  <2> QED
    BY <2>3, <2>4 DEF Agrees
<1>5. Nothing # x
  BY <1>1
<1>6. StartsAlone(s, x)'
  BY DEF StartsAlone, Begins
<1>7. LeavesAlone(s, x)'
  <2>1. ASSUME NEW y \in Entries', live'[y].sub = s PROVE ~Begins(y)' /\ (y \in leaving' => y = x)
    BY <1>3, <2>1 DEF Begins
  <2> QED
    BY <2>1 DEF LeavesAlone, SubOf
<1>8. HooksAlone(s, x)'
  BY <1>5 DEF HooksAlone
<1>9. HasPlace(s, x)' /\ HasDirectory(s, x)' /\ SaysTrue(s, x)'
  <2>1. HasDirectory(s, x) /\ SaysTrue(s, x) /\ Holds(s, x)
    BY <1>1 DEF Agrees, Holds
  <2>2. CASE x \in armed
    <3>1. HasPlace(s, x)'
      BY <2>2 DEF HasPlace, Holds
    <3>2. HasDirectory(s, x)'
      BY <2>1, <2>2 DEF HasDirectory
    <3>3. SaysTrue(s, x)'
      BY <1>2, <1>5, <2>1, <2>2 DEF SaysTrue, Holds
    <3> QED
      BY <3>1, <3>2, <3>3
  <2>3. CASE x \notin armed
    BY <1>5, <2>3 DEF HasPlace, HasDirectory, SaysTrue, Holds
  <2> QED
    BY <2>2, <2>3
<1>10. Agrees(s, x)'
  BY <1>6, <1>7, <1>8, <1>9 DEF Agrees
<1>11. RowGoes(s)'
  <2>1. ASSUME NEW y \in hook, SubOf(y) = s PROVE y \in hook' /\ live'[y].sub = s
    <3>1. CASE y = x
      BY <2>1, <3>1
    <3>2. CASE y # x
      BY <1>1, <2>1, <3>2 DEF Stays, SubOf
    <3> QED
      BY <3>1, <3>2
  <2> QED
    BY <1>1, <1>2, <2>1 DEF RowGoes, SubOf
<1>12. Unlisted(s)'
  BY DEF Unlisted
<1> QED
  BY <1>4, <1>10, <1>11, <1>12 DEF Whole, SubOf

-----------------------------------------------------------------------------
\* What becomes of entry x in a step of its own.
Turned(x, step, state, client, login, opened, invalidated, qrs) ==
  /\ Only(x)
  /\ live'[x].step = step /\ live'[x].state = state /\ live'[x].client = client
  /\ live'[x].login = login /\ live'[x].opened = opened
  /\ live'[x].invalidated = invalidated /\ live'[x].qrs = qrs

LEMMA EntryFacts ==
  ASSUME PoolIInv, NEW x \in Entries
  PROVE  /\ live \in [Entries -> EntryType] /\ live[x] \in EntryType /\ SubOf(x) \in Subs
         /\ Nothing \notin Entries /\ x # Nothing /\ x \in 1 .. MaxStarts /\ Sound(x)
<1>1. /\ live \in [Entries -> EntryType] /\ Nothing \notin Entries /\ Entries \subseteq 1 .. MaxStarts
  BY PoolEntries DEF PoolIInv
<1>2. live[x] \in EntryType
  BY <1>1
<1>3. SubOf(x) \in Subs
  BY <1>2 DEF SubOf, EntryType
<1> QED
  BY <1>1, <1>2, <1>3 DEF PoolIInv, AllSound

LEMMA SubFacts ==
  ASSUME PoolIInv, NEW x \in Entries, NEW s \in Subs, SubOf(x) = s, s \notin met
  PROVE  /\ Agrees(s, x) /\ RowGoes(s) /\ Unlisted(s)
         /\ (live[x].client # "off" \/ x \in armed => Holds(s, x))
BY DEF PoolIInv, AllWhole, Whole, Agrees, HasPlace

LEMMA SocketMadeStep ==
  ASSUME PoolIInv, MarksOK', NEW x \in Entries, SocketMade(x)
  PROVE  PoolIInv'
<1>1. /\ live \in [Entries -> EntryType] /\ live[x] \in EntryType /\ SubOf(x) \in Subs
      /\ Sound(x) /\ x # Nothing
  BY EntryFacts
<1>2. Turned(x, "done", live[x].state, "on", live[x].login, live[x].opened,
             live[x].invalidated, live[x].qrs)
  <2>1. live' = [live EXCEPT ![x].client = "on", ![x].step = "done"]
    BY DEF SocketMade
  <2>2. Only(x)
    BY <1>1, <2>1 DEF EntryType, Only, Steps, Clients
  <2>3. /\ live'[x].step = "done" /\ live'[x].state = live[x].state /\ live'[x].client = "on"
        /\ live'[x].login = live[x].login /\ live'[x].opened = live[x].opened
        /\ live'[x].invalidated = live[x].invalidated /\ live'[x].qrs = live[x].qrs
    BY <1>1, <2>1 DEF EntryType
  <2> QED
    BY <2>2, <2>3 DEF Turned
<1>3. /\ live[x].client = "connecting"
      /\ UNCHANGED <<sessions, expired, exhausted, cooling, idle, armed, leaving, hook, dir, stored,
                     dead, failures, met>>
  BY DEF SocketMade, marks, drops, creds
<1>4. Around(x)
  BY <1>1, <1>3, PoolAssumption DEF Around, Flags, SameAt, PoolIInv, MarksOK
<1>5. PICK s \in Subs : SubOf(x) = s
  BY <1>1
<1>6. Sound(x)'
  BY <1>1, <1>2, <1>3, <1>5 DEF Sound, Turned, Only, SubOf
<1>7. ASSUME s \notin met' PROVE Whole(s)'
  <2>1. s \notin met
    BY <1>3, <1>7
  <2>2. Agrees(s, x) /\ RowGoes(s) /\ Unlisted(s) /\ Holds(s, x)
    BY <1>3, <1>5, <2>1, SubFacts
  <2>3. Only(x) /\ live'[x].step = "done" /\ live'[x].state = live[x].state
    BY <1>2 DEF Turned
  <2>4. x \in leaving' => sessions'[s] = Nothing
    BY <1>3, <2>2 DEF Agrees, LeavesAlone
  <2>5. RowGoes(s)'
    <3>1. \A y \in hook : SubOf(y) = s => live'[y].sub = s
      BY <1>1, <2>3 DEF Only, SubOf, PoolIInv, MarksOK
    <3> QED
      BY <1>3, <2>2, <3>1 DEF RowGoes, SubOf
  <2>6. Unlisted(s)'
    BY <1>3, <2>2 DEF Unlisted
  <2>7. HasPlace(s, x)' /\ HasDirectory(s, x)' /\ SaysTrue(s, x)'
    BY <1>2, <1>3, <2>2 DEF Agrees, HasPlace, HasDirectory, SaysTrue, Holds, Turned
  <2> QED
    BY <1>3, <1>4, <1>5, <2>1, <2>2, <2>3, <2>4, <2>5, <2>6, <2>7, HolderWhole
<1> QED
  BY <1>2, <1>4, <1>5, <1>6, <1>7, StepOf DEF Turned

LEMMA SocketClosesStep ==
  ASSUME PoolIInv, MarksOK', NEW x \in Entries, SocketCloses(x)
  PROVE  PoolIInv'
<1>1. /\ live \in [Entries -> EntryType] /\ live[x] \in EntryType /\ SubOf(x) \in Subs
      /\ Sound(x) /\ x # Nothing /\ x \in 1 .. MaxStarts
  BY EntryFacts
<1>2. Turned(x, live[x].step, live[x].state, "waiting", live[x].login, live[x].opened,
             live[x].invalidated, live[x].qrs)
  <2>1. live' = [live EXCEPT ![x].client = "waiting"]
    BY DEF SocketCloses
  <2>2. Only(x)
    BY <1>1, <2>1 DEF EntryType, Only, Clients
  <2>3. /\ live'[x].step = live[x].step /\ live'[x].state = live[x].state
        /\ live'[x].client = "waiting" /\ live'[x].login = live[x].login
        /\ live'[x].opened = live[x].opened /\ live'[x].invalidated = live[x].invalidated
        /\ live'[x].qrs = live[x].qrs
    BY <1>1, <2>1 DEF EntryType
  <2> QED
    BY <2>2, <2>3 DEF Turned
<1>3. /\ live[x].client \in {"on", "open"}
      /\ UNCHANGED <<sessions, expired, exhausted, cooling, idle, armed, leaving, hook, dir,
                     stored, dead, failures, met>>
  BY DEF SocketCloses, marks, drops, creds
<1>d. live[x].step = "done"
  BY <1>1, <1>3 DEF Sound, EntryType, Steps
<1>4. Around(x)
  BY <1>1, <1>3, PoolAssumption DEF Around, Flags, SameAt, PoolIInv, MarksOK
<1>5. PICK s \in Subs : SubOf(x) = s
  BY <1>1
<1>6. Sound(x)'
  BY <1>1, <1>2, <1>3, <1>5, <1>d DEF Sound, Turned, Only, SubOf
<1>7. ASSUME s \notin met' PROVE Whole(s)'
  <2>1. s \notin met
    BY <1>3, <1>7
  <2>2. Agrees(s, x) /\ RowGoes(s) /\ Unlisted(s) /\ Holds(s, x)
    BY <1>3, <1>5, <2>1, SubFacts
  <2>3. Only(x) /\ live'[x].step = "done" /\ live'[x].state = live[x].state
    BY <1>2, <1>d DEF Turned
  <2>4. x \in leaving' => sessions'[s] = Nothing
    BY <1>3, <2>2 DEF Agrees, LeavesAlone
  <2>5. RowGoes(s)'
    <3>1. \A y \in hook : SubOf(y) = s => live'[y].sub = s
      BY <1>1, <2>3 DEF Only, SubOf, PoolIInv, MarksOK
    <3> QED
      BY <1>3, <2>2, <3>1 DEF RowGoes, SubOf
  <2>6. Unlisted(s)'
    BY <1>3, <2>2 DEF Unlisted
  <2>7. HasPlace(s, x)' /\ HasDirectory(s, x)' /\ SaysTrue(s, x)'
    BY <1>2, <1>3, <2>2 DEF Agrees, HasPlace, HasDirectory, SaysTrue, Holds, Turned
  <2> QED
    BY <1>3, <1>4, <1>5, <2>1, <2>2, <2>3, <2>4, <2>5, <2>6, <2>7, HolderWhole
<1> QED
  BY <1>2, <1>4, <1>5, <1>6, <1>7, <1>d, StepOf DEF Turned

LEMMA ReconnectStep ==
  ASSUME PoolIInv, MarksOK', NEW x \in Entries, Reconnect(x)
  PROVE  PoolIInv'
<1>1. /\ live \in [Entries -> EntryType] /\ live[x] \in EntryType /\ SubOf(x) \in Subs
      /\ Sound(x) /\ x # Nothing /\ x \in 1 .. MaxStarts
  BY EntryFacts
<1>2. Turned(x, live[x].step, live[x].state, "connecting", dir'[SubOf(x)], live[x].opened,
             live[x].invalidated, live[x].qrs)
  <2>1. live' = [live EXCEPT ![x].client = "connecting", ![x].login = dir'[SubOf(x)],
                          ![x].step = IF @ = "loading" THEN "connecting" ELSE @]
    BY DEF Reconnect, Connecting
  <2>0. dir'[SubOf(x)] \in {Nothing} \cup Logins
    BY <1>1 DEF Reconnect, Connecting, PoolIInv, MarksOK, Contents
  <2>2. Only(x)
    BY <1>1, <2>0, <2>1 DEF EntryType, Only, Steps, Clients
  <2>3. /\ live'[x].step = live[x].step /\ live'[x].state = live[x].state
        /\ live'[x].client = "connecting" /\ live'[x].login = dir'[SubOf(x)]
        /\ live'[x].opened = live[x].opened /\ live'[x].invalidated = live[x].invalidated
        /\ live'[x].qrs = live[x].qrs
    BY <1>1, <2>1 DEF EntryType
  <2> QED
    BY <2>2, <2>3 DEF Turned
<1>3. /\ live[x].client = "waiting" /\ x \notin hook
      /\ dir' = [dir EXCEPT ![SubOf(x)] = IF dir[SubOf(x)] = Missing THEN Nothing ELSE dir[SubOf(x)]]
      /\ UNCHANGED <<sessions, expired, exhausted, cooling, idle, armed, leaving, hook,
                     stored, dead, failures, met>>
  BY DEF Reconnect, marks, drops, creds, Settled, Connecting
<1>d. live[x].step = "done"
  BY <1>1, <1>3 DEF Sound, EntryType, Steps
<1>4. Around(x)
  BY <1>1, <1>3, PoolAssumption DEF Around, Flags, SameAt, PoolIInv, MarksOK
<1>5. PICK s \in Subs : SubOf(x) = s
  BY <1>1
<1>6. Sound(x)'
  BY <1>1, <1>2, <1>3, <1>5, <1>d DEF Sound, Turned, Only, SubOf
<1>7. ASSUME s \notin met' PROVE Whole(s)'
  <2>1. s \notin met
    BY <1>3, <1>7
  <2>2. Agrees(s, x) /\ RowGoes(s) /\ Unlisted(s) /\ Holds(s, x)
    BY <1>3, <1>5, <2>1, SubFacts
  <2>3. Only(x) /\ live'[x].step = "done" /\ live'[x].state = live[x].state
    BY <1>2, <1>d DEF Turned
  <2>4. x \in leaving' => sessions'[s] = Nothing
    BY <1>3, <2>2 DEF Agrees, LeavesAlone
  <2>5. RowGoes(s)'
    <3>1. \A y \in hook : SubOf(y) = s => live'[y].sub = s
      BY <1>1, <2>3 DEF Only, SubOf, PoolIInv, MarksOK
    <3> QED
      BY <1>3, <2>2, <3>1 DEF RowGoes, SubOf
  <2>6. Unlisted(s)'
    BY <1>3, <2>2 DEF Unlisted
  <2>m. live[x].login # Missing
    BY <1>1 DEF EntryType, Logins, Missing, Nothing
  <2>n. /\ live'[x].login = dir'[s]
        /\ dir[s] = live[x].login => live'[x].login = live[x].login
    BY <1>2, <1>3, <1>5, <2>m DEF Turned, PoolIInv, MarksOK
  <2>o. live[x].invalidated = TRUE => live[x].state = "expired" \/ failures > 0
    BY <1>1, <1>3 DEF Sound
  <2>7. HasPlace(s, x)' /\ HasDirectory(s, x)'
    BY <1>2, <1>3, <2>2, <2>n DEF Agrees, HasPlace, HasDirectory, Holds, Turned
  <2>8. SaysTrue(s, x)'
    BY <1>2, <1>3, <2>2, <2>n, <2>o DEF Agrees, HasDirectory, SaysTrue, Holds, Turned
  <2> QED
    BY <1>3, <1>4, <1>5, <2>1, <2>2, <2>3, <2>4, <2>5, <2>6, <2>7, <2>8, HolderWhole
<1> QED
  BY <1>2, <1>4, <1>5, <1>6, <1>7, <1>d, StepOf DEF Turned

LEMMA RowStillGoes ==
  ASSUME PoolIInv, MarksOK', NEW x \in Entries, Only(x), NEW s \in Subs, RowGoes(s),
         stored'[s] = stored[s], dead'[s] = dead[s], hook \subseteq hook', failures <= failures'
  PROVE  RowGoes(s)'
<1>1. \A y \in hook : SubOf(y) = s => y \in hook' /\ live'[y].sub = s
  BY DEF Only, SubOf, PoolIInv, MarksOK
<1>2. failures > 0 => failures' > 0
  BY FailuresGrow DEF PoolIInv
<1> QED
  BY <1>1, <1>2 DEF RowGoes, SubOf

LEMMA ConnectFailsStep ==
  ASSUME PoolIInv, MarksOK', NEW x \in Entries, ConnectFails(x)
  PROVE  PoolIInv'
<1>1. /\ live \in [Entries -> EntryType] /\ live[x] \in EntryType /\ SubOf(x) \in Subs
      /\ Sound(x) /\ x # Nothing
  BY EntryFacts
<1>2. Turned(x, "done", live[x].state, "off", live[x].login, live[x].opened,
             live[x].invalidated, live[x].qrs)
  <2>1. live' = [live EXCEPT ![x].client = "off", ![x].step = "done"]
    BY DEF ConnectFails
  <2>2. Only(x)
    BY <1>1, <2>1 DEF EntryType, Only, Steps, Clients
  <2>3. /\ live'[x].step = "done" /\ live'[x].state = live[x].state /\ live'[x].client = "off"
        /\ live'[x].login = live[x].login /\ live'[x].opened = live[x].opened
        /\ live'[x].invalidated = live[x].invalidated /\ live'[x].qrs = live[x].qrs
    BY <1>1, <2>1 DEF EntryType
  <2> QED
    BY <2>2, <2>3 DEF Turned
<1>3. /\ live[x].client = "connecting" /\ failures' = failures + 1
      /\ sessions' = IF live[x].step = "connecting"
                     THEN [sessions EXCEPT ![SubOf(x)] = Nothing] ELSE sessions
      /\ UNCHANGED <<expired, exhausted, cooling, idle, armed, leaving, hook, dir, stored, dead, met>>
  BY DEF ConnectFails, marks, drops, creds
<1>4. PICK s \in Subs : SubOf(x) = s
  BY <1>1
<1>5. /\ sessions \in [Subs -> 0..MaxStarts] /\ failures \in Nat /\ failures <= failures'
      /\ failures' > 0 /\ met = met'
  BY <1>3, PoolAssumption DEF PoolIInv, MarksOK
<1>6. /\ sessions'[s] \in {sessions[s], Nothing} /\ \A t \in Subs : t # s => sessions'[t] = sessions[t]
  BY <1>3, <1>4, <1>5
<1>7. Around(x)
  BY <1>3, <1>4, <1>5, <1>6 DEF Around, Flags, SameAt
<1>8. Sound(x)'
  BY <1>1, <1>2, <1>3, <1>4, <1>5, <1>6 DEF Sound, Turned, Only, SubOf
<1>9. ASSUME s \notin met' PROVE Whole(s)'
  <2>1. s \notin met
    BY <1>5, <1>9
  <2>2. Agrees(s, x) /\ RowGoes(s) /\ Unlisted(s) /\ Holds(s, x)
    BY <1>3, <1>4, <2>1, SubFacts
  <2>3. Only(x) /\ live'[x].step = "done" /\ live'[x].state = live[x].state
    BY <1>2 DEF Turned
  <2>4. x \in leaving' => sessions'[s] = Nothing
    BY <1>3, <1>6, <2>2 DEF Agrees, LeavesAlone
  <2>5. RowGoes(s)'
    BY <1>3, <1>5, <2>2, <2>3, RowStillGoes
  <2>6. Unlisted(s)'
    BY <1>3, <1>6, <2>2 DEF Unlisted
  <2>8. x \in armed => live[x].step = "done"
    BY <1>1 DEF Sound, EntryType, Steps
  <2>9. HasPlace(s, x)' /\ HasDirectory(s, x)' /\ SaysTrue(s, x)'
    <3>1. x \in armed => sessions'[s] = sessions[s]
      BY <1>3, <2>8
    <3> QED
      BY <1>2, <1>3, <1>5, <2>2, <3>1 DEF Agrees, HasPlace, HasDirectory, SaysTrue, Holds, Turned
  <2>10. sessions'[s] = x => sessions[s] = x
    BY <1>1, <1>6
  <2> QED
    BY <1>3, <1>4, <1>6, <1>7, <2>1, <2>2, <2>3, <2>4, <2>5, <2>6, <2>9, <2>10, HolderWhole
<1> QED
  BY <1>2, <1>4, <1>7, <1>8, <1>9, StepOf DEF Turned

\* The client of an entry that is on, open or waiting is past connect(), and that of one in its
\* hook waits.
LEMMA ClientFacts ==
  ASSUME PoolIInv, NEW x \in Entries, live[x].client \in {"on", "open", "waiting"} \/ x \in armed
  PROVE  /\ live[x].step = "done" /\ live[x].state # "expired"
         /\ live[x].client \in {"on", "open"} => x \notin hook
<1>1. live[x] \in EntryType /\ Sound(x)
  BY EntryFacts
<1>2. live[x].step \in {"evicting", "loading", "connecting", "done"}
  BY <1>1 DEF EntryType, Steps
<1> QED
  BY <1>1, <1>2 DEF Sound

LEMMA ScannedStep ==
  ASSUME PoolIInv, MarksOK', NEW x \in Entries, Scanned(x)
  PROVE  PoolIInv'
<1>1. /\ live \in [Entries -> EntryType] /\ live[x] \in EntryType /\ SubOf(x) \in Subs
      /\ Sound(x) /\ x # Nothing /\ x \in 1 .. MaxStarts
  BY EntryFacts
<1>2. Turned(x, live[x].step, live[x].state, "waiting", x, live[x].opened,
             live[x].invalidated, live[x].qrs)
  <2>1. live' = [live EXCEPT ![x].client = "waiting", ![x].login = x]
    BY DEF Scanned
  <2>2. x \in {Nothing} \cup Logins
    BY <1>1, PoolAssumption DEF Logins, Old
  <2>3. Only(x)
    BY <1>1, <2>1, <2>2 DEF EntryType, Only, Clients
  <2>4. /\ live'[x].step = live[x].step /\ live'[x].state = live[x].state
        /\ live'[x].client = "waiting" /\ live'[x].login = x /\ live'[x].opened = live[x].opened
        /\ live'[x].invalidated = live[x].invalidated /\ live'[x].qrs = live[x].qrs
    BY <1>1, <2>1 DEF EntryType
  <2> QED
    BY <2>3, <2>4 DEF Turned
<1>3. /\ live[x].client = "on" /\ live[x].login = Nothing /\ live[x].state = "qr"
      /\ dir' = [dir EXCEPT ![SubOf(x)] = IF @ = Missing THEN @ ELSE x]
      /\ armed' = (IF live[x].opened /\ ~live[x].invalidated THEN armed \cup {x} ELSE armed)
      /\ UNCHANGED <<sessions, expired, exhausted, cooling, idle, leaving, hook, stored, dead,
                     failures, met>>
  BY DEF Scanned, CredsSaved, Mirrors, marks
<1>4. live[x].step = "done" /\ armed' = armed /\ x \notin armed
  <2>1. live[x].opened # TRUE /\ x \notin armed
    BY <1>1, <1>3 DEF Sound
  <2> QED
    BY <1>3, <2>1, ClientFacts
<1>5. PICK s \in Subs : SubOf(x) = s
  BY <1>1
<1>6. Around(x)
  BY <1>1, <1>3, <1>4, PoolAssumption DEF Around, Flags, SameAt, PoolIInv, MarksOK
<1>7. Sound(x)'
  BY <1>1, <1>2, <1>3, <1>4, <1>5 DEF Sound, Turned, Only, SubOf
<1>8. ASSUME s \notin met' PROVE Whole(s)'
  <2>1. s \notin met
    BY <1>3, <1>8
  <2>2. Agrees(s, x) /\ RowGoes(s) /\ Unlisted(s) /\ Holds(s, x)
    BY <1>3, <1>5, <2>1, SubFacts
  <2>3. Only(x) /\ live'[x].step = "done" /\ live'[x].state = "qr"
    BY <1>2, <1>3, <1>4 DEF Turned
  <2>4. x \in leaving' => sessions'[s] = Nothing
    BY <1>3, <2>2 DEF Agrees, LeavesAlone
  <2>5. RowGoes(s)'
    BY <1>3, <1>6, <2>2, <2>3, RowStillGoes DEF Around
  <2>6. Unlisted(s)'
    BY <1>3, <2>2 DEF Unlisted
  <2>7. dir[s] = Nothing /\ Nothing # Missing
    BY <1>3, <2>2 DEF Agrees, HasDirectory, Nothing, Missing
  <2>8. dir'[s] = x
    BY <1>3, <1>5, <2>7 DEF PoolIInv, MarksOK
  <2>9. HasPlace(s, x)' /\ HasDirectory(s, x)' /\ SaysTrue(s, x)'
    BY <1>2, <1>3, <1>4, <2>2, <2>3, <2>8 DEF HasPlace, HasDirectory, SaysTrue, Holds, Turned
  <2> QED
    BY <1>3, <1>5, <1>6, <2>1, <2>2, <2>3, <2>4, <2>5, <2>6, <2>9, HolderWhole
<1> QED
  BY <1>2, <1>4, <1>5, <1>6, <1>7, <1>8, StepOf DEF Turned

LEMMA OpenStep ==
  ASSUME PoolIInv, MarksOK', NEW x \in Entries, Open(x)
  PROVE  PoolIInv'
<1> DEFINE first == live[x].opened = FALSE /\ live[x].invalidated = FALSE
           opens == IF first THEN TRUE ELSE live[x].opened
<1>1. /\ live \in [Entries -> EntryType] /\ live[x] \in EntryType /\ SubOf(x) \in Subs
      /\ Sound(x) /\ x # Nothing
  BY EntryFacts
<1>2. live[x].opened \in BOOLEAN /\ live[x].invalidated \in BOOLEAN
  BY <1>1 DEF EntryType
<1>3. /\ live[x].client = "on" /\ live[x].login \notin dead[SubOf(x)] /\ Alone(x)
      /\ armed' = (IF first THEN armed \cup {x} ELSE armed)
      /\ UNCHANGED <<sessions, expired, exhausted, cooling, idle, leaving, hook, dir, stored, dead,
                     failures, met>>
  BY <1>2 DEF Open, FirstOpen, marks, creds
<1>4. /\ live[x].step = "done" /\ live[x].state # "expired" /\ x \notin hook
  BY <1>3, ClientFacts
<1>5. Turned(x, live[x].step, "paired", "open", live[x].login, opens,
             live[x].invalidated, live[x].qrs)
  <2>1. live' = [live EXCEPT ![x].client = "open", ![x].opened = @ \/ FirstOpen(x),
                             ![x].state = IF @ = "expired" THEN @ ELSE "paired"]
    BY DEF Open
  <2>2. (live[x].opened \/ FirstOpen(x)) = opens
    BY <1>2 DEF FirstOpen
  <2>3. (IF live[x].state = "expired" THEN live[x].state ELSE "paired") = "paired"
    BY <1>4
  <2>4. opens \in BOOLEAN
    BY <1>2
  <2> HIDE DEF opens
  <2>5. live' = [live EXCEPT ![x].client = "open", ![x].opened = opens, ![x].state = "paired"]
    BY <1>1, <2>1, <2>2, <2>3
  <2>6. Only(x)
    BY <1>1, <2>4, <2>5 DEF EntryType, Only, Clients, States
  <2>7. /\ live'[x].step = live[x].step /\ live'[x].state = "paired"
        /\ live'[x].client = "open" /\ live'[x].login = live[x].login
        /\ live'[x].opened = opens
        /\ live'[x].invalidated = live[x].invalidated /\ live'[x].qrs = live[x].qrs
    BY <1>1, <2>5 DEF EntryType
  <2> QED
    BY <2>6, <2>7 DEF Turned
<1>6. PICK s \in Subs : SubOf(x) = s
  BY <1>1
<1>7. Around(x)
  BY <1>1, <1>3, PoolAssumption DEF Around, Flags, SameAt, PoolIInv, MarksOK
<1>8. live[x].invalidated = TRUE => failures > 0
  BY <1>1, <1>4 DEF Sound
<1>9. live[x].opened = TRUE => live[x].state = "paired"
  BY <1>1, <1>4 DEF Sound
<1>10. opens = TRUE \/ live[x].invalidated = TRUE
  BY <1>2
<1>11. Sound(x)'
  <2>1. x \in armed' => opens = TRUE /\ live[x].invalidated = FALSE
    BY <1>1, <1>2, <1>3, <1>4 DEF Sound
  <2>2. x \in leaving => opens = TRUE
    BY <1>1 DEF Sound
  <2> HIDE DEF opens, first
  <2> QED
    BY <1>1, <1>3, <1>4, <1>5, <1>6, <1>8, <2>1, <2>2 DEF Sound, Turned, Only, SubOf
<1>12. ASSUME s \notin met' PROVE Whole(s)'
  <2>1. s \notin met
    BY <1>3, <1>12
  <2>2. Agrees(s, x) /\ RowGoes(s) /\ Unlisted(s) /\ Holds(s, x)
    BY <1>3, <1>6, <2>1, SubFacts
  <2>3. Only(x) /\ live'[x].step = "done" /\ live'[x].state = "paired"
    BY <1>4, <1>5 DEF Turned
  <2>4. x \in leaving' => sessions'[s] = Nothing
    BY <1>3, <2>2 DEF Agrees, LeavesAlone
  <2>5. RowGoes(s)'
    BY <1>3, <1>7, <2>2, <2>3, RowStillGoes DEF Around
  <2>6. Unlisted(s)'
    BY <1>3, <2>2 DEF Unlisted
  <2>7. HasPlace(s, x)' /\ HasDirectory(s, x)'
    BY <1>3, <1>5, <2>2 DEF Agrees, HasPlace, HasDirectory, Holds, Turned
  <2>8. SaysTrue(s, x)'
    <3>1. sessions[s] = x /\ x \notin armed' => stored[s] = live[x].login \/ failures > 0
      <4>1. ASSUME sessions[s] = x, x \notin armed', ~(failures > 0) PROVE stored[s] = live[x].login
        <5>1. x \notin armed /\ live[x].opened = TRUE
          BY <1>2, <1>3, <1>8, <4>1
        <5> QED
          BY <1>4, <1>9, <2>2, <4>1, <5>1 DEF Agrees, SaysTrue
      <4> QED
        BY <4>1
    <3> QED
      BY <1>3, <1>5, <1>6, <3>1 DEF SaysTrue, Turned
  <2>9. \A y \in hook : SubOf(y) = s => y = x
    BY <1>3, <1>6 DEF Alone
  <2> QED
    BY <1>3, <1>6, <1>7, <2>1, <2>2, <2>3, <2>4, <2>5, <2>6, <2>7, <2>8, <2>9, HolderWhole
<1> QED
  BY <1>4, <1>5, <1>6, <1>7, <1>11, <1>12, StepOf DEF Turned

LEMMA LoggedOutStep ==
  ASSUME PoolIInv, MarksOK', NEW x \in Entries, LoggedOut(x)
  PROVE  PoolIInv'
<1>1. /\ live \in [Entries -> EntryType] /\ live[x] \in EntryType /\ SubOf(x) \in Subs
      /\ Sound(x) /\ x # Nothing
  BY EntryFacts
<1>2. Turned(x, live[x].step, live[x].state, "waiting", live[x].login, live[x].opened, TRUE,
             live[x].qrs)
  <2>1. live' = [live EXCEPT ![x].client = "waiting", ![x].invalidated = TRUE]
    BY DEF LoggedOut
  <2>2. Only(x)
    BY <1>1, <2>1 DEF EntryType, Only, Clients
  <2>3. /\ live'[x].step = live[x].step /\ live'[x].state = live[x].state
        /\ live'[x].client = "waiting" /\ live'[x].login = live[x].login
        /\ live'[x].opened = live[x].opened /\ live'[x].invalidated = TRUE
        /\ live'[x].qrs = live[x].qrs
    BY <1>1, <2>1 DEF EntryType
  <2> QED
    BY <2>2, <2>3 DEF Turned
<1>3. /\ live[x].client \in {"on", "open"} /\ hook' = hook \cup {x}
      /\ dead' = [dead EXCEPT ![SubOf(x)] = @ \cup {live[x].login}]
      /\ dir' = [dir EXCEPT ![SubOf(x)] = Missing]
      /\ UNCHANGED <<sessions, expired, exhausted, cooling, idle, armed, leaving, stored, failures,
                     met>>
  BY DEF LoggedOut, Hooked, marks
<1>4. live[x].step = "done" /\ live[x].state # "expired"
  BY <1>3, ClientFacts
<1>5. PICK s \in Subs : SubOf(x) = s
  BY <1>1
<1>6. /\ dir'[s] = Missing /\ dead'[s] = dead[s] \cup {live[x].login}
      /\ \A t \in Subs : t # s => dir'[t] = dir[t] /\ dead'[t] = dead[t]
  BY <1>3, <1>5 DEF PoolIInv, MarksOK
<1>7. Around(x)
  BY <1>1, <1>3, <1>5, <1>6, PoolAssumption DEF Around, Flags, SameAt, PoolIInv, MarksOK
<1>8. Sound(x)'
  BY <1>1, <1>2, <1>3, <1>4, <1>5, <1>6 DEF Sound, Turned, Only, SubOf
<1>9. ASSUME s \notin met' PROVE Whole(s)'
  <2>1. s \notin met
    BY <1>3, <1>9
  <2>2. Agrees(s, x) /\ RowGoes(s) /\ Unlisted(s) /\ Holds(s, x)
    BY <1>3, <1>5, <2>1, SubFacts
  <2>3. Only(x) /\ live'[x].step = "done" /\ live'[x].state = live[x].state /\ live'[x].sub = s
    BY <1>2, <1>4, <1>5 DEF Turned, Only, SubOf
  <2>4. x \in leaving' => sessions'[s] = Nothing
    BY <1>3, <2>2 DEF Agrees, LeavesAlone
  <2>5. RowGoes(s)'
    BY <1>3, <2>3 DEF RowGoes, SubOf
  <2>6. Unlisted(s)'
    BY <1>3, <2>2 DEF Unlisted
  <2>7. HasPlace(s, x)' /\ HasDirectory(s, x)' /\ SaysTrue(s, x)'
    BY <1>2, <1>3, <1>6, <2>2 DEF Agrees, HasPlace, HasDirectory, SaysTrue, Holds, Turned
  <2> QED
    BY <1>3, <1>5, <1>7, <2>1, <2>2, <2>3, <2>4, <2>5, <2>6, <2>7, HolderWhole
<1> QED
  BY <1>2, <1>4, <1>5, <1>7, <1>8, <1>9, StepOf DEF Turned

LEMMA QrStep ==
  ASSUME PoolIInv, MarksOK', NEW x \in Entries, Qr(x)
  PROVE  PoolIInv'
<1>1. /\ live \in [Entries -> EntryType] /\ live[x] \in EntryType /\ SubOf(x) \in Subs
      /\ Sound(x) /\ x # Nothing
  BY EntryFacts
<1>2. /\ live[x].client = "on" /\ live[x].state # "expired" /\ live[x].state # "paired"
      /\ sessions[SubOf(x)] = x
      /\ UNCHANGED <<expired, cooling, idle, armed, leaving, hook, dir, stored, dead, failures, met>>
  BY DEF Qr, Listed, drops, creds
<1>3. live[x].step = "done" /\ x \notin hook
  BY <1>2, ClientFacts
<1>4. live[x].opened # TRUE /\ x \notin armed /\ x \notin leaving
  BY <1>1, <1>2 DEF Sound
<1>5. /\ live[x].qrs \in Nat /\ MaxQr \in Nat /\ live[x].qrs <= MaxQr
      /\ live[x].qrs + 1 \in 0 .. (MaxQr + 1)
  <2>1. live[x].qrs \in Nat /\ MaxQr \in Nat
    BY <1>1, PoolAssumption DEF EntryType
  <2>2. live[x].qrs <= MaxQr
    BY <1>1, <1>2 DEF Sound
  <2> QED
    BY <2>1, <2>2
<1>6. PICK s \in Subs : SubOf(x) = s
  BY <1>1
<1>7. CASE ~QrSpent(x)
  <2>1. Turned(x, live[x].step, "qr", "on", live[x].login, live[x].opened, live[x].invalidated,
               live[x].qrs + 1)
    <3>1. live' = [live EXCEPT ![x].qrs = @ + 1, ![x].state = "qr"]
      BY <1>7 DEF Qr
    <3>2. Only(x)
      BY <1>1, <1>5, <3>1 DEF EntryType, Only, States
    <3>3. /\ live'[x].step = live[x].step /\ live'[x].state = "qr"
          /\ live'[x].client = live[x].client /\ live'[x].login = live[x].login
          /\ live'[x].opened = live[x].opened /\ live'[x].invalidated = live[x].invalidated
          /\ live'[x].qrs = live[x].qrs + 1
      BY <1>1, <3>1 DEF EntryType
    <3> QED
      BY <1>2, <3>2, <3>3 DEF Turned
  <2>2. UNCHANGED <<sessions, exhausted>> /\ live[x].qrs + 1 <= MaxQr
    BY <1>5, <1>7 DEF Qr, QrSpent
  <2>3. Around(x)
    BY <1>2, <2>2, PoolAssumption DEF Around, Flags, SameAt, PoolIInv, MarksOK
  <2>4. Sound(x)'
    BY <1>1, <1>2, <1>3, <1>4, <1>6, <2>1, <2>2 DEF Sound, Turned, Only, SubOf
  <2>5. ASSUME s \notin met' PROVE Whole(s)'
    <3>1. s \notin met
      BY <1>2, <2>5
    <3>2. Agrees(s, x) /\ RowGoes(s) /\ Unlisted(s) /\ Holds(s, x)
      BY <1>2, <1>6, <3>1, SubFacts
    <3>3. Only(x) /\ live'[x].step = "done" /\ live'[x].state = "qr"
      BY <1>3, <2>1 DEF Turned
    <3>4. x \notin leaving'
      BY <1>2, <1>4
    <3>5. RowGoes(s)'
      BY <1>2, <2>3, <3>2, <3>3, RowStillGoes DEF Around
    <3>6. Unlisted(s)'
      BY <2>2, <3>2 DEF Unlisted
    <3>7. HasPlace(s, x)' /\ HasDirectory(s, x)' /\ SaysTrue(s, x)'
      BY <1>2, <1>4, <2>1, <2>2, <3>2, <3>3
      DEF Agrees, HasPlace, HasDirectory, SaysTrue, Holds, Turned
    <3> QED
      BY <1>2, <1>6, <2>2, <2>3, <3>1, <3>2, <3>3, <3>4, <3>5, <3>6, <3>7, HolderWhole
  <2> QED
    BY <1>3, <1>6, <2>1, <2>3, <2>4, <2>5, StepOf DEF Turned
<1>8. CASE QrSpent(x)
  <2>1. Turned(x, live[x].step, live[x].state, "off", live[x].login, live[x].opened,
               live[x].invalidated, live[x].qrs + 1)
    <3>1. live' = [live EXCEPT ![x].client = "off", ![x].qrs = @ + 1]
      BY <1>1, <1>2, <1>8 DEF Qr, Closed, Stopped
    <3>2. Only(x)
      BY <1>1, <1>5, <3>1 DEF EntryType, Only, Clients
    <3>3. /\ live'[x].step = live[x].step /\ live'[x].state = live[x].state
          /\ live'[x].client = "off" /\ live'[x].login = live[x].login
          /\ live'[x].opened = live[x].opened /\ live'[x].invalidated = live[x].invalidated
          /\ live'[x].qrs = live[x].qrs + 1
      BY <1>1, <3>1 DEF EntryType
    <3> QED
      BY <3>2, <3>3 DEF Turned
  <2>2. /\ sessions' = [sessions EXCEPT ![s] = Nothing] /\ exhausted' = exhausted \cup {s}
        /\ sessions \in [Subs -> 0..MaxStarts]
    BY <1>6, <1>8 DEF Qr, PoolIInv, MarksOK
  <2>3. sessions'[s] = Nothing /\ \A t \in Subs : t # s => sessions'[t] = sessions[t]
    BY <2>2
  <2>4. Around(x)
    BY <1>2, <1>6, <2>2, <2>3, PoolAssumption DEF Around, Flags, SameAt, PoolIInv, MarksOK
  <2>5. Sound(x)'
    BY <1>1, <1>2, <1>3, <1>4, <1>6, <2>1, <2>3 DEF Sound, Turned, Only, SubOf
  <2>6. ASSUME s \notin met' PROVE Whole(s)'
    <3>1. s \notin met
      BY <1>2, <2>6
    <3>2. Agrees(s, x) /\ RowGoes(s) /\ Unlisted(s) /\ Holds(s, x)
      BY <1>2, <1>6, <3>1, SubFacts
    <3>3. Only(x) /\ live'[x].step = "done" /\ live'[x].state # "paired"
      BY <1>2, <1>3, <2>1 DEF Turned
    <3>4. x \notin leaving' /\ x \notin armed'
      BY <1>2, <1>4
    <3>5. RowGoes(s)'
      BY <1>2, <2>4, <3>2, <3>3, RowStillGoes DEF Around
    <3>6. Unlisted(s)'
      BY <2>3 DEF Unlisted
    <3>7. HasPlace(s, x)' /\ HasDirectory(s, x)' /\ SaysTrue(s, x)'
      BY <2>1, <3>3, <3>4 DEF HasPlace, HasDirectory, SaysTrue, Holds, Turned
    <3> QED
      BY <1>2, <1>6, <2>3, <2>4, <3>1, <3>2, <3>3, <3>4, <3>5, <3>6, <3>7, HolderWhole
  <2> QED
    BY <1>3, <1>6, <2>1, <2>4, <2>5, <2>6, StepOf DEF Turned
<1> QED
  BY <1>7, <1>8

\* The entries stay as they are.
LEMMA StaysTurned ==
  ASSUME PoolIInv, NEW x \in Entries, live' = live
  PROVE  Turned(x, live[x].step, live[x].state, live[x].client, live[x].login, live[x].opened,
                live[x].invalidated, live[x].qrs)
BY EntryFacts DEF Turned, Only

LEMMA SavedStep ==
  ASSUME PoolIInv, MarksOK', NEW x \in Entries, Saved(x)
  PROVE  PoolIInv'
<1>1. /\ live \in [Entries -> EntryType] /\ live[x] \in EntryType /\ SubOf(x) \in Subs
      /\ Sound(x) /\ x # Nothing
  BY EntryFacts
<1>2. live[x].opened \in BOOLEAN /\ live[x].invalidated \in BOOLEAN
  BY <1>1 DEF EntryType
<1>3. /\ live[x].client = "open" /\ dir' = [dir EXCEPT ![SubOf(x)] = live[x].login]
      /\ armed' = (IF live[x].opened = TRUE /\ live[x].invalidated = FALSE
                   THEN armed \cup {x} ELSE armed)
      /\ UNCHANGED <<live, sessions, expired, exhausted, cooling, idle, leaving, hook, stored, dead,
                     failures, met>>
  BY <1>2 DEF Saved, CredsSaved, Mirrors, marks
<1>4. live[x].step = "done" /\ live[x].state # "expired"
  BY <1>3, ClientFacts
<1>5. Turned(x, live[x].step, live[x].state, live[x].client, live[x].login, live[x].opened,
             live[x].invalidated, live[x].qrs)
  BY <1>3, StaysTurned
<1>6. PICK s \in Subs : SubOf(x) = s
  BY <1>1
<1>7. dir'[s] = live[x].login /\ \A t \in Subs : t # s => dir'[t] = dir[t]
  BY <1>3, <1>6 DEF PoolIInv, MarksOK
<1>8. Around(x)
  BY <1>1, <1>3, <1>6, <1>7, PoolAssumption DEF Around, Flags, SameAt, PoolIInv, MarksOK
<1>9. Sound(x)'
  BY <1>1, <1>3, <1>4, <1>5, <1>6 DEF Sound, Turned, Only, SubOf
<1>10. ASSUME s \notin met' PROVE Whole(s)'
  <2>1. s \notin met
    BY <1>3, <1>10
  <2>2. Agrees(s, x) /\ RowGoes(s) /\ Unlisted(s) /\ Holds(s, x)
    BY <1>3, <1>6, <2>1, SubFacts
  <2>3. Only(x) /\ live'[x].step = "done" /\ live'[x].state = live[x].state
    BY <1>4, <1>5 DEF Turned
  <2>4. x \in leaving' => sessions'[s] = Nothing
    BY <1>3, <2>2 DEF Agrees, LeavesAlone
  <2>5. RowGoes(s)'
    BY <1>3, <1>8, <2>2, <2>3, RowStillGoes DEF Around
  <2>6. Unlisted(s)'
    BY <1>3, <2>2 DEF Unlisted
  <2>7. HasPlace(s, x)' /\ HasDirectory(s, x)' /\ SaysTrue(s, x)'
    BY <1>3, <1>7, <2>2 DEF Agrees, HasPlace, HasDirectory, SaysTrue, Holds
  <2> QED
    BY <1>3, <1>6, <1>8, <2>1, <2>2, <2>3, <2>4, <2>5, <2>6, <2>7, HolderWhole
<1> QED
  BY <1>4, <1>5, <1>6, <1>8, <1>9, <1>10, StepOf DEF Turned

\* What a write puts in the row is the login of its entry, unless the directory was emptied.
LEMMA WriteFacts ==
  ASSUME PoolIInv, NEW x \in Entries, NEW s \in Subs, SubOf(x) = s, s \notin met, x \in armed
  PROVE  /\ Holds(s, x) /\ live[x].state = "paired" /\ live[x].opened = TRUE
         /\ dir[s] = live[x].login \/ (dir[s] = Missing /\ x \in hook)
         /\ live[x].login \notin dead[s] \/ x \in hook \/ failures > 0
         /\ live[x].login # Missing
<1>1. live[x] \in EntryType /\ Sound(x) /\ Agrees(s, x) /\ Holds(s, x)
  BY EntryFacts, SubFacts
<1>2. live[x].state = "paired" /\ live[x].opened = TRUE
  BY <1>1 DEF Sound
<1>3. live[x].login # Missing
  BY <1>1 DEF EntryType, Logins, Missing, Nothing
<1> QED
  BY <1>1, <1>2, <1>3 DEF Agrees, HasDirectory, SaysTrue

LEMMA WriteStep ==
  ASSUME PoolIInv, MarksOK', NEW x \in Entries, Write(x)
  PROVE  PoolIInv'
<1>1. /\ live \in [Entries -> EntryType] /\ live[x] \in EntryType /\ SubOf(x) \in Subs
      /\ Sound(x) /\ x # Nothing
  BY EntryFacts
<1>2. /\ x \in armed /\ armed' = armed \ {x}
      /\ UNCHANGED <<live, sessions, expired, exhausted, cooling, idle, leaving, hook, dir, dead, met>>
  BY DEF Write, marks
<1>3. live[x].step = "done"
  BY <1>2, ClientFacts
<1>4. Turned(x, live[x].step, live[x].state, live[x].client, live[x].login, live[x].opened,
             live[x].invalidated, live[x].qrs)
  BY <1>2, StaysTurned
<1>5. PICK s \in Subs : SubOf(x) = s
  BY <1>1
<1>6. /\ \A t \in Subs : t # s => stored'[t] = stored[t]
      /\ failures \in Nat /\ failures <= failures'
      /\ \/ dir[s] # Missing /\ stored'[s] = dir[s] /\ failures' = failures
         \/ dir[s] = Missing /\ stored' = stored /\ failures' = failures
         \/ stored' = stored /\ failures' > 0
  BY <1>5, PoolAssumption DEF Write, PoolIInv, MarksOK
<1>7. Around(x)
  BY <1>1, <1>2, <1>5, <1>6 DEF Around, Flags, SameAt
<1>8. Sound(x)'
  <2>1. failures > 0 => failures' > 0
    BY <1>7, FailuresGrow DEF PoolIInv, Around
  <2> QED
    BY <1>1, <1>2, <1>3, <1>4, <1>5, <2>1 DEF Sound, Turned, Only, SubOf
<1>9. ASSUME s \notin met' PROVE Whole(s)'
  <2>1. s \notin met
    BY <1>2, <1>9
  <2>2. Agrees(s, x) /\ RowGoes(s) /\ Unlisted(s)
    BY <1>2, <1>5, <2>1, SubFacts
  <2>3. /\ Holds(s, x) /\ live[x].state = "paired"
        /\ dir[s] = live[x].login \/ (dir[s] = Missing /\ x \in hook)
        /\ live[x].login \notin dead[s] \/ x \in hook \/ failures > 0
        /\ live[x].login # Missing
    BY <1>2, <1>5, <2>1, WriteFacts
  <2>4. Only(x) /\ live'[x].step = "done" /\ live'[x].state = live[x].state /\ live'[x].sub = s
    BY <1>3, <1>4, <1>5 DEF Turned, Only, SubOf
  <2>5. x \in leaving' => sessions'[s] = Nothing
    BY <1>2, <2>2 DEF Agrees, LeavesAlone
  <2>f. failures > 0 => failures' > 0
    BY <1>7, FailuresGrow DEF PoolIInv, Around
  <2>6. RowGoes(s)'
    <3>1. CASE dir[s] # Missing /\ stored'[s] = dir[s] /\ failures' = failures
      <4>1. stored'[s] = live[x].login
        BY <2>3, <3>1
      <4>2. CASE x \in hook
        BY <1>2, <2>4, <4>2 DEF RowGoes, SubOf
      <4>3. CASE live[x].login \notin dead[s] \/ failures > 0
        BY <1>2, <2>f, <4>1, <4>3 DEF RowGoes
      <4> QED
        BY <2>3, <4>2, <4>3
    <3>2. CASE stored' = stored
      BY <1>2, <1>7, <2>2, <2>4, <3>2, RowStillGoes DEF Around
    <3> QED
      BY <1>6, <3>1, <3>2
  <2>7. Unlisted(s)'
    BY <1>2, <2>2 DEF Unlisted
  <2>8. HasPlace(s, x)' /\ HasDirectory(s, x)'
    BY <1>2, <2>2, <2>3 DEF Agrees, HasPlace, HasDirectory, Holds
  <2>9. SaysTrue(s, x)'
    <3>1. x \notin hook => stored'[s] = live[x].login \/ failures' > 0
      BY <1>6, <2>3
    <3> QED
      BY <1>2, <2>2, <2>f, <3>1 DEF Agrees, SaysTrue, Holds
  <2> QED
    BY <1>2, <1>5, <1>7, <2>1, <2>2, <2>3, <2>4, <2>5, <2>6, <2>7, <2>8, <2>9, HolderWhole
<1> QED
  BY <1>3, <1>4, <1>5, <1>7, <1>8, <1>9, StepOf DEF Turned

-----------------------------------------------------------------------------
\* A drop that ends closes the client, unless it met it inside connect().
LEMMA ClosedTurned ==
  ASSUME PoolIInv, NEW x \in Entries, live' = Closed(x)
  PROVE  /\ Turned(x, live[x].step, live[x].state, Stopped(live[x].client), live[x].login,
                   live[x].opened, live[x].invalidated, live[x].qrs)
         /\ Stopped(live[x].client) \in {"off", "connecting"}
         /\ Stopped(live[x].client) # "off" => live[x].client = "connecting"
<1> DEFINE c == Stopped(live[x].client)
<1>1. live \in [Entries -> EntryType] /\ live[x] \in EntryType
  BY EntryFacts
<1>2. c \in {"off", "connecting"} /\ (c # "off" => live[x].client = "connecting") /\ c \in Clients
  BY DEF Stopped, Clients
<1>3. live' = [live EXCEPT ![x].client = c]
  BY <1>1 DEF Closed
<1> HIDE DEF c
<1>4. Only(x)
  BY <1>1, <1>2, <1>3 DEF EntryType, Only
<1>5. /\ live'[x].step = live[x].step /\ live'[x].state = live[x].state
      /\ live'[x].client = c /\ live'[x].login = live[x].login
      /\ live'[x].opened = live[x].opened /\ live'[x].invalidated = live[x].invalidated
      /\ live'[x].qrs = live[x].qrs
  BY <1>1, <1>3 DEF EntryType
<1> QED
  BY <1>2, <1>4, <1>5 DEF Turned, c

LEMMA LeftStep ==
  ASSUME PoolIInv, MarksOK', NEW x \in Entries, Left(x)
  PROVE  PoolIInv'
<1>1. /\ live \in [Entries -> EntryType] /\ live[x] \in EntryType /\ SubOf(x) \in Subs
      /\ Sound(x) /\ x # Nothing
  BY EntryFacts
<1>2. /\ x \in leaving /\ x \notin armed /\ leaving' = leaving \ {x}
      /\ live' = Closed(x) /\ met' = met \cup Connectings({x})
      /\ UNCHANGED <<sessions, expired, exhausted, cooling, idle, armed, hook, dir, stored, dead,
                     failures>>
  BY DEF Left, marks, creds
<1> DEFINE c == Stopped(live[x].client)
<1>3. /\ Turned(x, live[x].step, live[x].state, c, live[x].login, live[x].opened,
                live[x].invalidated, live[x].qrs)
      /\ c \in {"off", "connecting"} /\ (c # "off" => live[x].client = "connecting")
  BY <1>2, ClosedTurned
<1> HIDE DEF c
<1>4. PICK s \in Subs : SubOf(x) = s
  BY <1>1
<1>5. live[x].step = "done"
  BY <1>1, <1>2 DEF Sound, EntryType, Steps
<1>6. Around(x)
  BY <1>1, <1>2, PoolAssumption DEF Around, Flags, SameAt, PoolIInv, MarksOK
<1>7. Sound(x)'
  BY <1>1, <1>2, <1>3, <1>4, <1>5 DEF Sound, Turned, Only, SubOf
<1>8. ASSUME s \notin met' PROVE Whole(s)'
  <2>1. s \notin met /\ live[x].client # "connecting"
    BY <1>2, <1>4, <1>8 DEF Connectings
  <2>2. Agrees(s, x) /\ RowGoes(s) /\ Unlisted(s) /\ Holds(s, x)
    BY <1>2, <1>4, <2>1, SubFacts DEF Holds
  <2>3. Only(x) /\ live'[x].step = "done" /\ live'[x].state = live[x].state /\ live'[x].client = "off"
    BY <1>3, <1>5, <2>1 DEF Turned
  <2>4. x \notin leaving' /\ x \notin armed'
    BY <1>2
  <2>5. RowGoes(s)'
    BY <1>2, <1>6, <2>2, <2>3, RowStillGoes DEF Around
  <2>6. Unlisted(s)'
    BY <1>2, <2>2 DEF Unlisted
  <2>7. sessions'[s] = Nothing
    BY <1>2, <2>2 DEF Agrees, LeavesAlone
  <2>8. HasPlace(s, x)' /\ HasDirectory(s, x)' /\ SaysTrue(s, x)'
    BY <1>1, <2>3, <2>4, <2>7 DEF HasPlace, HasDirectory, SaysTrue, Holds
  <2> QED
    BY <1>1, <1>2, <1>4, <1>6, <2>1, <2>2, <2>3, <2>4, <2>5, <2>6, <2>7, <2>8, HolderWhole
<1> QED
  BY <1>3, <1>4, <1>5, <1>6, <1>7, <1>8, StepOf DEF Turned

LEMMA EvictStep ==
  ASSUME PoolIInv, MarksOK', NEW x \in Entries, Evict(x)
  PROVE  PoolIInv'
<1>1. /\ live \in [Entries -> EntryType] /\ live[x] \in EntryType /\ SubOf(x) \in Subs
      /\ Sound(x) /\ x # Nothing
  BY EntryFacts
<1>2. /\ sessions[SubOf(x)] = x /\ x \in idle
      /\ sessions' = [sessions EXCEPT ![SubOf(x)] = Nothing]
      /\ \/ x \in armed /\ leaving' = leaving \cup {x} /\ live' = live /\ met' = met
         \/ x \notin armed /\ leaving' = leaving /\ live' = Closed(x)
            /\ met' = met \cup Connectings({x})
      /\ UNCHANGED <<expired, exhausted, cooling, idle, armed, hook, dir, stored, dead, failures>>
  BY DEF Evict, Listed, Flushing, marks, creds
<1>3. PICK c \in {"off", "connecting", live[x].client} :
        /\ Turned(x, live[x].step, live[x].state, c, live[x].login, live[x].opened,
                  live[x].invalidated, live[x].qrs)
        /\ x \in armed => c = live[x].client
        /\ x \notin armed /\ c # "off" => live[x].client = "connecting"
  BY <1>2, ClosedTurned, StaysTurned
<1>4. PICK s \in Subs : SubOf(x) = s
  BY <1>1
<1>5. /\ live[x].step = "done" /\ live[x].state # "expired" /\ x \notin leaving
  BY <1>1, <1>2 DEF Sound, EntryType, Steps
<1>6. sessions'[s] = Nothing /\ \A t \in Subs : t # s => sessions'[t] = sessions[t]
  BY <1>2, <1>4 DEF PoolIInv, MarksOK
<1>7. Around(x)
  BY <1>1, <1>2, <1>4, <1>6, PoolAssumption DEF Around, Flags, SameAt, PoolIInv, MarksOK
<1>8. Sound(x)'
  BY <1>1, <1>2, <1>3, <1>4, <1>5, <1>6 DEF Sound, Turned, Only, SubOf
<1>9. Only(x) /\ live'[x].step = "done" /\ live'[x].sub = s /\ Entries' = Entries
  BY <1>3, <1>4, <1>5, OnlyLists DEF Turned, Only, SubOf, PoolIInv
<1>10. ASSUME s \notin met' PROVE Whole(s)'
  <2>1. s \notin met /\ (x \notin armed => live[x].client # "connecting")
    BY <1>2, <1>4, <1>10 DEF Connectings
  <2>2. /\ live'[x].state = live[x].state /\ live'[x].login = live[x].login
        /\ live'[x].invalidated = live[x].invalidated
        /\ x \in armed => live'[x].client = live[x].client
        /\ x \notin armed => live'[x].client = "off"
    BY <1>3, <2>1 DEF Turned
  <2>3. \A y \in Entries : y # x => Stays(y)
    BY <1>7, <1>9 DEF Stays, Only, Around, Flags
  <2>4. /\ x \in hook' <=> x \in hook
        /\ x \in armed' <=> x \in armed
        /\ x \in armed => x \in leaving'
        /\ x \notin armed => x \notin leaving'
        /\ dir'[s] = dir[s] /\ stored'[s] = stored[s] /\ dead'[s] = dead[s]
        /\ s \in cooling' <=> s \in cooling
        /\ s \in exhausted' <=> s \in exhausted
    BY <1>2, <1>5
  <2>5. failures <= failures' /\ sessions[s] = x
    BY <1>2, <1>4, <1>7 DEF Around
  <2> QED
    BY <1>4, <1>5, <1>6, <1>9, <2>1, <2>2, <2>3, <2>4, <2>5, DropWhole
<1> QED
  BY <1>4, <1>7, <1>8, <1>9, <1>10, StepOf

-----------------------------------------------------------------------------
\* The other entries of the sub, in a step of one that need not hold its place: it may give the
\* place up, leave its hook, or delete the row.
LEMMA OtherKeeps ==
  ASSUME PoolIInv, MarksOK', NEW x \in Entries, Only(x), Around(x),
         NEW s \in Subs, SubOf(x) = s, s \notin met,
         Begins(x)' => Begins(x), x \in leaving' => x \in leaving, x \in hook' => x \in hook,
         sessions'[s] = sessions[s] \/ (sessions[s] = x /\ sessions'[s] = Nothing),
         stored'[s] = stored[s] \/ x \in hook, dir'[s] = dir[s], dead'[s] = dead[s],
         s \in cooling' <=> s \in cooling, s \in exhausted' <=> s \in exhausted,
         NEW y \in Entries, SubOf(y) = s, y # x
  PROVE  Agrees(s, y)'
<1>1. /\ Agrees(s, y) /\ Nothing \notin Entries /\ hook \subseteq Entries /\ hook' \subseteq Entries'
      /\ Entries' = Entries
  BY PoolEntries, OnlyLists DEF PoolIInv, AllWhole, Whole, MarksOK
<1>2. /\ live'[y] = live[y] /\ (y \in armed' <=> y \in armed)
      /\ (y \in leaving' <=> y \in leaving) /\ (y \in hook' <=> y \in hook)
  BY DEF Only, Around, Flags
<1>3. ASSUME NEW z \in Entries, live'[z].sub = s
      PROVE  /\ SubOf(z) = s /\ (Begins(z)' => Begins(z)) /\ (z \in leaving' => z \in leaving)
             /\ (z \in hook' => z \in hook)
  <2>1. CASE z = x
    BY <2>1
  <2>2. CASE z # x
    BY <1>3, <2>2 DEF Only, Around, Flags, SubOf, Begins
  <2> QED
    BY <2>1, <2>2
<1>4. failures > 0 => failures' > 0
  BY FailuresGrow DEF PoolIInv, Around
<1>5. sessions'[s] = y => sessions[s] = y
  BY <1>1
<1>6. sessions[s] = y => sessions'[s] = y
  OBVIOUS
<1>7. StartsAlone(s, y)'
  <2>1. ASSUME Begins(y)'
        PROVE  /\ s \in cooling' /\ s \notin exhausted'
               /\ sessions'[s] = (IF live'[y].step = "loading" THEN Nothing ELSE y)
               /\ \A z \in Entries : live'[z].sub = s /\ Begins(z)' => z = y
    <3>1. Begins(y)
      BY <1>2, <2>1 DEF Begins
    <3>2. /\ s \in cooling /\ s \notin exhausted
          /\ sessions[s] = (IF live[y].step = "loading" THEN Nothing ELSE y)
          /\ \A z \in Entries : SubOf(z) = s /\ Begins(z) => z = y
      BY <1>1, <3>1 DEF Agrees, StartsAlone
    <3>3. sessions'[s] = sessions[s]
      BY <1>1, <3>2
    <3> QED
      BY <1>2, <1>3, <3>2, <3>3
  <2>2. live'[y].step = "evicting" /\ s \notin cooling' => sessions'[s] = Nothing
    BY <1>1, <1>2 DEF Agrees, StartsAlone
  <2> QED
    BY <1>1, <2>1, <2>2 DEF StartsAlone, SubOf
<1>8. LeavesAlone(s, y)'
  <2>1. ASSUME y \in leaving'
        PROVE  /\ sessions'[s] = Nothing
               /\ \A z \in Entries : live'[z].sub = s => ~Begins(z)' /\ (z \in leaving' => z = y)
    <3>1. /\ sessions[s] = Nothing
          /\ \A z \in Entries : SubOf(z) = s => ~Begins(z) /\ (z \in leaving => z = y)
      BY <1>1, <1>2, <2>1 DEF Agrees, LeavesAlone
    <3> QED
      BY <1>3, <3>1
  <2> QED
    BY <1>1, <2>1 DEF LeavesAlone, SubOf
<1>9. HasPlace(s, y)' /\ HasDirectory(s, y)'
  BY <1>1, <1>2, <1>6 DEF Agrees, HasPlace, HasDirectory, Holds
<1>10. HooksAlone(s, y)'
  <2>1. ASSUME sessions'[s] = y, live'[y].state = "paired", NEW z \in hook', live'[z].sub = s
        PROVE  z = y
    BY <1>1, <1>2, <1>3, <1>5, <2>1 DEF Agrees, HooksAlone
  <2> QED
    BY <2>1 DEF HooksAlone, SubOf
<1>11. SaysTrue(s, y)'
  <2>1. sessions[s] = y /\ live[y].state = "paired" => stored'[s] = stored[s]
    BY <1>1 DEF Agrees, HooksAlone
  <2> QED
    BY <1>1, <1>2, <1>4, <1>5, <2>1 DEF Agrees, SaysTrue, Holds
<1> QED
  BY <1>7, <1>8, <1>9, <1>10, <1>11 DEF Agrees

\* Such a step keeps the sub whole, if it does so for the entry and the row.
LEMMA AsideWhole ==
  ASSUME PoolIInv, MarksOK', NEW x \in Entries, Only(x), Around(x),
         NEW s \in Subs, SubOf(x) = s, s \notin met,
         live'[x].step = "done", x \in leaving' => x \in leaving, x \in hook' => x \in hook,
         sessions'[s] = sessions[s] \/ (sessions[s] = x /\ sessions'[s] = Nothing),
         stored'[s] = stored[s] \/ x \in hook, dir'[s] = dir[s], dead'[s] = dead[s],
         s \in cooling' <=> s \in cooling, s \in exhausted' <=> s \in exhausted,
         RowGoes(s)', HasPlace(s, x)', HasDirectory(s, x)', SaysTrue(s, x)', HooksAlone(s, x)'
  PROVE  Whole(s)'
<1>1. Entries' = Entries /\ Agrees(s, x) /\ Unlisted(s)
  BY OnlyLists DEF PoolIInv, AllWhole, Whole
<1>2. ~Begins(x)'
  BY DEF Begins
<1>3. ASSUME NEW y \in Entries, live'[y].sub = s, y # x PROVE Agrees(s, y)'
  <2>1. SubOf(y) = s
    BY <1>3 DEF Only, SubOf
  <2> QED
    BY <1>2, <1>3, <2>1, OtherKeeps
<1>4. StartsAlone(s, x)'
  BY DEF StartsAlone, Begins
<1>5. LeavesAlone(s, x)'
  <2>1. ASSUME x \in leaving', NEW y \in Entries, live'[y].sub = s, y # x
        PROVE  ~Begins(y)' /\ y \notin leaving'
    <3>1. live'[y] = live[y] /\ SubOf(y) = s /\ (y \in leaving' <=> y \in leaving)
      BY <2>1 DEF Only, SubOf, Around, Flags
    <3> QED
      BY <1>1, <2>1, <3>1 DEF Agrees, LeavesAlone, Begins
  <2>2. x \in leaving' => sessions'[s] = Nothing
    BY <1>1 DEF Agrees, LeavesAlone
  <2> QED
    BY <1>1, <1>2, <2>1, <2>2 DEF LeavesAlone, SubOf
<1>6. Unlisted(s)'
  BY <1>1 DEF Unlisted
<1> QED
  BY <1>1, <1>3, <1>4, <1>5, <1>6 DEF Whole, Agrees, SubOf

LEMMA LoadFailsStep ==
  ASSUME PoolIInv, MarksOK', NEW x \in Entries, LoadFails(x)
  PROVE  PoolIInv'
<1>1. /\ live \in [Entries -> EntryType] /\ live[x] \in EntryType /\ SubOf(x) \in Subs
      /\ Sound(x) /\ x # Nothing
  BY EntryFacts
<1>2. Turned(x, "done", live[x].state, live[x].client, live[x].login, live[x].opened,
             live[x].invalidated, live[x].qrs)
  <2>1. live' = [live EXCEPT ![x].step = "done"]
    BY DEF LoadFails
  <2>2. Only(x)
    BY <1>1, <2>1 DEF EntryType, Only, Steps
  <2>3. /\ live'[x].step = "done" /\ live'[x].state = live[x].state
        /\ live'[x].client = live[x].client /\ live'[x].login = live[x].login
        /\ live'[x].opened = live[x].opened /\ live'[x].invalidated = live[x].invalidated
        /\ live'[x].qrs = live[x].qrs
    BY <1>1, <2>1 DEF EntryType
  <2> QED
    BY <2>2, <2>3 DEF Turned
<1>3. /\ live[x].step = "loading" /\ failures' = failures + 1
      /\ UNCHANGED <<sessions, expired, exhausted, cooling, idle, armed, leaving, hook, dir, stored,
                     dead, met>>
  BY DEF LoadFails, marks, drops, creds
<1>4. /\ live[x].client = "off" /\ live[x].state = "starting" /\ live[x].opened = FALSE
      /\ live[x].invalidated = FALSE
      /\ x \notin idle /\ x \notin armed /\ x \notin leaving /\ x \notin hook
  BY <1>1, <1>3 DEF Sound
<1>5. PICK s \in Subs : SubOf(x) = s
  BY <1>1
<1>6. failures \in Nat /\ failures <= failures' /\ failures' > 0
  BY <1>3, PoolAssumption DEF PoolIInv, MarksOK
<1>7. Around(x)
  BY <1>1, <1>3, <1>6 DEF Around, Flags, SameAt
<1>8. sessions[s] # x
  BY <1>1, <1>3, <1>5 DEF PoolIInv, ListedOK
<1>9. Sound(x)'
  BY <1>2, <1>3, <1>4, <1>5, <1>8 DEF Sound, Turned, Only, SubOf
<1>10. ASSUME s \notin met' PROVE Whole(s)'
  <2>1. s \notin met
    BY <1>3, <1>10
  <2>2. Agrees(s, x) /\ RowGoes(s)
    BY <1>5, <2>1, SubFacts
  <2>3. Only(x) /\ live'[x].step = "done" /\ live'[x].state = "starting" /\ live'[x].client = "off"
    BY <1>2, <1>4 DEF Turned
  <2>4. RowGoes(s)'
    BY <1>3, <1>6, <2>2, <2>3, RowStillGoes
  <2>5. HasPlace(s, x)' /\ HasDirectory(s, x)' /\ SaysTrue(s, x)' /\ HooksAlone(s, x)'
    BY <1>3, <1>4, <2>3 DEF HasPlace, HasDirectory, SaysTrue, HooksAlone
  <2> QED
    BY <1>3, <1>5, <1>7, <2>1, <2>3, <2>4, <2>5, AsideWhole
<1> QED
  BY <1>2, <1>5, <1>7, <1>9, <1>10, StepOf DEF Turned

LEMMA DeleteFailsStep ==
  ASSUME PoolIInv, MarksOK', NEW x \in Entries, DeleteFails(x)
  PROVE  PoolIInv'
<1>1. /\ live \in [Entries -> EntryType] /\ live[x] \in EntryType /\ SubOf(x) \in Subs
      /\ Sound(x) /\ x # Nothing
  BY EntryFacts
<1>2. /\ x \in hook /\ x \notin armed /\ hook' = hook \ {x} /\ failures' = failures + 1
      /\ UNCHANGED <<live, sessions, expired, exhausted, cooling, idle, armed, leaving, dir, stored,
                     dead, met>>
  BY DEF DeleteFails, marks, creds
<1>3. /\ live[x].step = "done" /\ live[x].client \in {"waiting", "off"}
  BY <1>1, <1>2 DEF Sound, EntryType, Steps
<1>4. Turned(x, live[x].step, live[x].state, live[x].client, live[x].login, live[x].opened,
             live[x].invalidated, live[x].qrs)
  BY <1>2, StaysTurned
<1>5. PICK s \in Subs : SubOf(x) = s
  BY <1>1
<1>6. failures \in Nat /\ failures <= failures' /\ failures' > 0
  BY <1>2, PoolAssumption DEF PoolIInv, MarksOK
<1>7. Around(x)
  BY <1>1, <1>2, <1>6 DEF Around, Flags, SameAt
<1>8. Sound(x)'
  BY <1>1, <1>2, <1>3, <1>4, <1>5, <1>6 DEF Sound, Turned, Only, SubOf
<1>9. ASSUME s \notin met' PROVE Whole(s)'
  <2>1. s \notin met
    BY <1>2, <1>9
  <2>2. Agrees(s, x)
    BY <1>5, <2>1, SubFacts
  <2>3. Only(x) /\ live'[x].step = "done"
    BY <1>3, <1>4 DEF Turned
  <2>4. RowGoes(s)'
    BY <1>6 DEF RowGoes
  <2>5. HasPlace(s, x)' /\ HasDirectory(s, x)' /\ SaysTrue(s, x)'
    BY <1>2, <1>6, <2>2 DEF Agrees, HasPlace, HasDirectory, SaysTrue, Holds
  <2>6. HooksAlone(s, x)'
    BY <1>2, <2>2 DEF Agrees, HooksAlone, SubOf
  <2> QED
    BY <1>2, <1>5, <1>7, <2>1, <2>3, <2>4, <2>5, <2>6, AsideWhole
<1> QED
  BY <1>3, <1>4, <1>5, <1>7, <1>8, <1>9, StepOf DEF Turned

LEMMA RowDeletedStep ==
  ASSUME PoolIInv, MarksOK', NEW x \in Entries, RowDeleted(x)
  PROVE  PoolIInv'
<1>1. /\ live \in [Entries -> EntryType] /\ live[x] \in EntryType /\ SubOf(x) \in Subs
      /\ Sound(x) /\ x # Nothing
  BY EntryFacts
<1>2. /\ x \in hook /\ x \notin armed /\ hook' = hook \ {x}
      /\ stored' = [stored EXCEPT ![SubOf(x)] = Missing]
      /\ sessions' = IF sessions[SubOf(x)] = x
                     THEN [sessions EXCEPT ![SubOf(x)] = Nothing] ELSE sessions
      /\ UNCHANGED <<exhausted, cooling, idle, armed, leaving, dir, dead, failures, met>>
  BY DEF RowDeleted, MarkExpired, Listed
<1>3. live[x].step = "done" /\ live[x].client \in {"waiting", "off"}
  BY <1>1, <1>2 DEF Sound, EntryType, Steps
<1>4. Turned(x, live[x].step, "expired", "off", live[x].login, live[x].opened,
             live[x].invalidated, live[x].qrs)
  <2>1. live' = [live EXCEPT ![x].client = "off", ![x].state = "expired"]
    BY <1>1, <1>3 DEF RowDeleted, MarkExpired, Closed, Stopped
  <2>2. Only(x)
    BY <1>1, <2>1 DEF EntryType, Only, Clients, States
  <2>3. /\ live'[x].step = live[x].step /\ live'[x].state = "expired"
        /\ live'[x].client = "off" /\ live'[x].login = live[x].login
        /\ live'[x].opened = live[x].opened /\ live'[x].invalidated = live[x].invalidated
        /\ live'[x].qrs = live[x].qrs
    BY <1>1, <2>1 DEF EntryType
  <2> QED
    BY <2>2, <2>3 DEF Turned
<1>5. PICK s \in Subs : SubOf(x) = s
  BY <1>1
<1>6. /\ stored'[s] = Missing /\ \A t \in Subs : t # s => stored'[t] = stored[t]
      /\ \A t \in Subs : t # s => sessions'[t] = sessions[t]
      /\ sessions'[s] = (IF sessions[s] = x THEN Nothing ELSE sessions[s])
  BY <1>2, <1>5 DEF PoolIInv, MarksOK
<1>7. Around(x)
  BY <1>1, <1>2, <1>5, <1>6, PoolAssumption DEF Around, Flags, SameAt, PoolIInv, MarksOK
<1>8. Sound(x)'
  BY <1>1, <1>2, <1>3, <1>4, <1>5, <1>6 DEF Sound, Turned, Only, SubOf
<1>9. ASSUME s \notin met' PROVE Whole(s)'
  <2>1. s \notin met
    BY <1>2, <1>9
  <2>2. Only(x) /\ live'[x].step = "done" /\ live'[x].state = "expired" /\ live'[x].client = "off"
    BY <1>3, <1>4 DEF Turned
  <2>3. RowGoes(s)'
    <3>1. Missing \notin dead'[s]
      BY PoolAssumption DEF MarksOK, Logins, Old, Missing
    <3> QED
      BY <1>6, <3>1 DEF RowGoes
  <2>4. HasPlace(s, x)' /\ HasDirectory(s, x)' /\ SaysTrue(s, x)' /\ HooksAlone(s, x)'
    BY <1>2, <2>2 DEF HasPlace, HasDirectory, SaysTrue, HooksAlone
  <2>5. sessions'[s] = sessions[s] \/ (sessions[s] = x /\ sessions'[s] = Nothing)
    BY <1>6
  <2> QED
    BY <1>2, <1>5, <1>7, <2>1, <2>2, <2>3, <2>4, <2>5, AsideWhole
<1> QED
  BY <1>3, <1>4, <1>5, <1>7, <1>8, <1>9, StepOf DEF Turned

LEMMA LoadedStep ==
  ASSUME PoolIInv, MarksOK', NEW x \in Entries, Loaded(x)
  PROVE  PoolIInv'
<1>1. /\ live \in [Entries -> EntryType] /\ live[x] \in EntryType /\ SubOf(x) \in Subs
      /\ Sound(x) /\ x # Nothing
  BY EntryFacts
<1>2. PICK s \in Subs : SubOf(x) = s
  BY <1>1
<1>3. /\ live[x].step = "loading" /\ dir'[s] \in {Nothing} \cup Logins
      /\ \A t \in Subs : t # s => dir'[t] = dir[t]
      /\ sessions' = [sessions EXCEPT ![s] = x]
      /\ UNCHANGED <<expired, exhausted, cooling, idle, armed, leaving, hook, stored, dead, failures,
                     met>>
  <2>1. PICK content \in Contents :
          dir' = [dir EXCEPT ![s] = IF content = Missing THEN Nothing ELSE content]
    BY <1>2 DEF Loaded, Connecting, PoolIInv, MarksOK
  <2>2. dir'[s] \in {Nothing} \cup Logins /\ \A t \in Subs : t # s => dir'[t] = dir[t]
    BY <2>1 DEF Contents, PoolIInv, MarksOK
  <2> QED
    BY <1>2, <2>2 DEF Loaded, marks, drops
<1>4. /\ live[x].client = "off" /\ live[x].state = "starting" /\ live[x].opened = FALSE
      /\ live[x].invalidated = FALSE /\ live[x].qrs <= MaxQr
      /\ x \notin idle /\ x \notin armed /\ x \notin leaving /\ x \notin hook
  BY <1>1, <1>3 DEF Sound
<1>5. Turned(x, "connecting", live[x].state, "connecting", dir'[s], live[x].opened,
             live[x].invalidated, live[x].qrs)
  <2>1. live' = [live EXCEPT ![x].client = "connecting", ![x].login = dir'[s],
                             ![x].step = IF @ = "loading" THEN "connecting" ELSE @]
    BY <1>2 DEF Loaded, Connecting
  <2>2. live' = [live EXCEPT ![x].client = "connecting", ![x].login = dir'[s],
                             ![x].step = "connecting"]
    BY <1>1, <1>3, <2>1
  <2>3. Only(x)
    BY <1>1, <1>3, <2>2 DEF EntryType, Only, Clients, Steps
  <2>4. /\ live'[x].step = "connecting" /\ live'[x].state = live[x].state
        /\ live'[x].client = "connecting" /\ live'[x].login = dir'[s]
        /\ live'[x].opened = live[x].opened /\ live'[x].invalidated = live[x].invalidated
        /\ live'[x].qrs = live[x].qrs
    BY <1>1, <2>2 DEF EntryType
  <2> QED
    BY <2>3, <2>4 DEF Turned
<1>6. sessions'[s] = x /\ \A t \in Subs : t # s => sessions'[t] = sessions[t]
  BY <1>3 DEF PoolIInv, MarksOK
<1>7. Around(x)
  BY <1>1, <1>2, <1>3, <1>6, PoolAssumption DEF Around, Flags, SameAt, PoolIInv, MarksOK
<1>8. Sound(x)'
  BY <1>2, <1>3, <1>4, <1>5, <1>6 DEF Sound, Turned, Only, SubOf
<1>9. Only(x) /\ Entries' = Entries /\ live'[x].step = "connecting" /\ live'[x].sub = s
  BY <1>2, <1>5, OnlyLists DEF Turned, Only, SubOf, PoolIInv
<1>10. ASSUME s \notin met' PROVE Whole(s)'
  <2>1. s \notin met
    BY <1>3, <1>10
  <2>2. /\ Agrees(s, x) /\ RowGoes(s) /\ Begins(x) /\ s \in cooling /\ s \notin exhausted
        /\ sessions[s] = Nothing
    BY <1>2, <1>3, <2>1, SubFacts DEF Agrees, StartsAlone, Begins
  <2>3. ASSUME NEW y \in Entries, live'[y].sub = s, y # x
        PROVE  /\ live'[y].client = "off" /\ y \notin armed' /\ y \notin leaving' /\ ~Begins(y)'
    <3>1. live'[y] = live[y] /\ SubOf(y) = s
      BY <1>9, <2>3 DEF Only, SubOf
    <3>2. Agrees(s, y) /\ (live[y].client # "off" \/ y \in armed => Holds(s, y)) /\ y # Nothing
      BY <2>1, <3>1, SubFacts, EntryFacts
    <3>3. y \notin leaving
      BY <1>2, <2>2, <3>2 DEF Agrees, LeavesAlone
    <3>4. ~Begins(y)
      BY <2>2, <2>3, <3>1 DEF Agrees, StartsAlone
    <3> QED
      BY <1>3, <2>2, <3>1, <3>2, <3>3, <3>4 DEF Holds, Begins
  <2>4. ASSUME NEW y \in Entries, live'[y].sub = s, y # x PROVE Agrees(s, y)'
    <3>1. /\ live'[y].client = "off" /\ y \notin armed' /\ y \notin leaving' /\ ~Begins(y)'
          /\ sessions'[s] # y
      BY <1>6, <2>3, <2>4
    <3>2. StartsAlone(s, y)'
      BY <1>3, <2>2, <3>1 DEF StartsAlone
    <3> QED
      BY <3>1, <3>2 DEF Agrees, HasPlace, HasDirectory, LeavesAlone, SaysTrue, HooksAlone, Holds
  <2>5. StartsAlone(s, x)'
    BY <1>3, <1>6, <1>9, <2>2, <2>3 DEF StartsAlone, SubOf
  <2>6. LeavesAlone(s, x)' /\ HasPlace(s, x)'
    BY <1>3, <1>4, <1>6 DEF LeavesAlone, HasPlace, Holds
  <2>7. HasDirectory(s, x)' /\ SaysTrue(s, x)' /\ HooksAlone(s, x)'
    BY <1>3, <1>4, <1>5 DEF HasDirectory, SaysTrue, HooksAlone, Turned
  <2>8. Agrees(s, x)'
    BY <2>5, <2>6, <2>7 DEF Agrees
  <2>9. RowGoes(s)'
    BY <1>3, <1>7, <1>9, <2>2, RowStillGoes DEF Around
  <2>10. Unlisted(s)'
    BY <1>3, <2>2 DEF Unlisted
  <2> QED
    BY <1>9, <2>4, <2>8, <2>9, <2>10 DEF Whole, SubOf
<1> QED
  BY <1>2, <1>7, <1>8, <1>9, <1>10, StepOf

\* Of a sub in whose minute no other start is under way, and without a drop that flushes, nobody
\* has a client or a write, if nobody is listed.
LEMMA NobodyThere ==
  ASSUME PoolIInv, NEW s \in Subs, s \notin met, s \notin cooling,
         \A y \in leaving : SubOf(y) # s, NEW y \in Entries, SubOf(y) = s, sessions[s] # y
  PROVE  live[y].client = "off" /\ y \notin armed /\ y \notin leaving /\ ~Begins(y)
<1>1. Agrees(s, y) /\ (live[y].client # "off" \/ y \in armed => Holds(s, y))
  BY SubFacts
<1>2. y \notin leaving
  OBVIOUS
<1>3. ~Begins(y)
  BY <1>1 DEF Agrees, StartsAlone
<1> QED
  BY <1>1, <1>2, <1>3 DEF Holds

LEMMA EvictedStep ==
  ASSUME PoolIInv, MarksOK', NEW x \in Entries, Evicted(x)
  PROVE  PoolIInv'
<1>1. /\ live \in [Entries -> EntryType] /\ live[x] \in EntryType /\ SubOf(x) \in Subs
      /\ Sound(x) /\ x # Nothing
  BY EntryFacts
<1>2. PICK s \in Subs : SubOf(x) = s
  BY <1>1
<1>3. /\ live[x].step = "evicting"
      /\ UNCHANGED <<sessions, idle, armed, leaving, hook, stored, dead, failures>>
  BY DEF Evicted, drops
<1>4. /\ live[x].client = "off" /\ live[x].state = "starting" /\ live[x].opened = FALSE
      /\ live[x].invalidated = FALSE /\ live[x].qrs <= MaxQr
      /\ x \notin idle /\ x \notin armed /\ x \notin leaving /\ x \notin hook
  BY <1>1, <1>3 DEF Sound
<1>5. sessions[s] # x
  BY <1>1, <1>2, <1>3 DEF PoolIInv, ListedOK
<1>6. CASE Size >= MaxSessions
  <2>1. Turned(x, "done", live[x].state, live[x].client, live[x].login, live[x].opened,
               live[x].invalidated, live[x].qrs)
    <3>1. live' = [live EXCEPT ![x].step = "done"]
      BY <1>6 DEF Evicted
    <3>2. Only(x)
      BY <1>1, <3>1 DEF EntryType, Only, Steps
    <3>3. /\ live'[x].step = "done" /\ live'[x].state = live[x].state
          /\ live'[x].client = live[x].client /\ live'[x].login = live[x].login
          /\ live'[x].opened = live[x].opened /\ live'[x].invalidated = live[x].invalidated
          /\ live'[x].qrs = live[x].qrs
      BY <1>1, <3>1 DEF EntryType
    <3> QED
      BY <3>2, <3>3 DEF Turned
  <2>2. UNCHANGED <<expired, exhausted, cooling, dir, met>>
    BY <1>6 DEF Evicted, marks
  <2>3. Around(x)
    BY <1>1, <1>3, <2>2, PoolAssumption DEF Around, Flags, SameAt, PoolIInv, MarksOK
  <2>4. Sound(x)'
    BY <1>2, <1>3, <1>4, <1>5, <2>1 DEF Sound, Turned, Only, SubOf
  <2>5. ASSUME s \notin met' PROVE Whole(s)'
    <3>1. s \notin met
      BY <2>2, <2>5
    <3>2. Agrees(s, x) /\ RowGoes(s)
      BY <1>2, <3>1, SubFacts
    <3>3. Only(x) /\ live'[x].step = "done" /\ live'[x].state = "starting" /\ live'[x].client = "off"
      BY <1>4, <2>1 DEF Turned
    <3>4. RowGoes(s)'
      BY <1>3, <2>3, <3>2, <3>3, RowStillGoes DEF Around
    <3>5. HasPlace(s, x)' /\ HasDirectory(s, x)' /\ SaysTrue(s, x)' /\ HooksAlone(s, x)'
      BY <1>3, <1>4, <3>3 DEF HasPlace, HasDirectory, SaysTrue, HooksAlone
    <3> QED
      BY <1>2, <1>3, <2>2, <2>3, <3>1, <3>3, <3>4, <3>5, AsideWhole
  <2> QED
    BY <1>2, <2>1, <2>3, <2>4, <2>5, StepOf DEF Turned
<1>7. CASE ~(Size >= MaxSessions)
  <2>1. Turned(x, "loading", live[x].state, live[x].client, live[x].login, live[x].opened,
               live[x].invalidated, live[x].qrs)
    <3>1. live' = [live EXCEPT ![x].step = "loading"]
      BY <1>7 DEF Evicted
    <3>2. Only(x)
      BY <1>1, <3>1 DEF EntryType, Only, Steps
    <3>3. /\ live'[x].step = "loading" /\ live'[x].state = live[x].state
          /\ live'[x].client = live[x].client /\ live'[x].login = live[x].login
          /\ live'[x].opened = live[x].opened /\ live'[x].invalidated = live[x].invalidated
          /\ live'[x].qrs = live[x].qrs
      BY <1>1, <3>1 DEF EntryType
    <3> QED
      BY <3>2, <3>3 DEF Turned
  <2>2. /\ cooling' = cooling \cup {s} /\ exhausted' = exhausted \ {s}
        /\ dir' = [dir EXCEPT ![s] = Missing]
        /\ met' = met \cup Flushings(s) \cup ({s} \cap cooling)
    BY <1>2, <1>7 DEF Evicted, Record
  <2>3. \A t \in Subs : t # s => dir'[t] = dir[t]
    BY <2>2 DEF PoolIInv, MarksOK
  <2>4. Around(x)
    BY <1>1, <1>2, <1>3, <2>2, <2>3, PoolAssumption DEF Around, Flags, SameAt, PoolIInv, MarksOK
  <2>5. Sound(x)'
    BY <1>2, <1>3, <1>4, <1>5, <2>1 DEF Sound, Turned, Only, SubOf
  <2>6. /\ Only(x) /\ Entries' = Entries /\ live'[x].step = "loading" /\ live'[x].sub = s
        /\ live'[x].client = "off" /\ live'[x].state = "starting"
    BY <1>2, <1>4, <2>1, OnlyLists DEF Turned, Only, SubOf, PoolIInv
  <2>7. ASSUME s \notin met' PROVE Whole(s)'
    <3>1. s \notin met /\ s \notin cooling /\ \A y \in leaving : SubOf(y) # s
      BY <2>2, <2>7 DEF Flushings
    <3>2. Agrees(s, x) /\ RowGoes(s) /\ Nothing \notin Entries
      BY <1>2, <3>1, SubFacts, EntryFacts
    <3>3. sessions[s] = Nothing
      BY <1>3, <3>1, <3>2 DEF Agrees, StartsAlone
    <3>4. ASSUME NEW y \in Entries, live'[y].sub = s, y # x
          PROVE  live'[y].client = "off" /\ y \notin armed' /\ y \notin leaving' /\ ~Begins(y)'
      <4>1. live'[y] = live[y] /\ SubOf(y) = s
        BY <2>6, <3>4 DEF Only, SubOf
      <4>2. live[y].client = "off" /\ y \notin armed /\ y \notin leaving /\ ~Begins(y)
        BY <3>1, <3>2, <3>3, <4>1, NobodyThere
      <4> QED
        BY <1>3, <4>1, <4>2 DEF Begins
    <3>5. RowGoes(s)'
      BY <1>3, <2>4, <2>6, <3>2, RowStillGoes DEF Around
    <3> QED
      BY <1>3, <1>4, <2>2, <2>6, <3>2, <3>3, <3>4, <3>5, LoadingWhole
  <2> QED
    BY <1>2, <1>3, <1>5, <2>4, <2>5, <2>6, <2>7, StepOf
<1> QED
  BY <1>6, <1>7

-----------------------------------------------------------------------------
\* A step that only touches or ages an entry, or counts the minute and the day of sub s.
LEMMA QuietStep ==
  ASSUME PoolIInv, MarksOK', NEW s \in Subs,
         UNCHANGED <<live, sessions, armed, leaving, hook, dir, stored, dead, failures, met>>,
         \A x \in Entries : x \in idle' /\ x \notin idle => live[x].step = "done",
         \A t \in Subs : t # s => (t \in cooling' <=> t \in cooling)
                                  /\ (t \in exhausted' <=> t \in exhausted),
         s \in exhausted' => s \in exhausted,
         s \in cooling /\ s \notin cooling' =>
           \A x \in Entries : SubOf(x) = s => live[x].step = "done"
  PROVE  PoolIInv'
<1>1. EntriesOK' /\ Entries' = Entries /\ ListedOK'
  BY DEF PoolIInv, EntriesOK, Entries, ListedOK, SubOf
<1>2. ASSUME NEW x \in Entries PROVE Sound(x)'
  <2>1. Sound(x) /\ (x \in idle' /\ x \notin idle => live[x].step = "done")
    BY DEF PoolIInv, AllSound
  <2> QED
    BY <2>1 DEF Sound, SubOf
<1>3. ASSUME NEW t \in Subs, t \notin met' PROVE Whole(t)'
  <2>1. Whole(t)
    BY <1>3 DEF PoolIInv, AllWhole
  <2>2. CASE t # s
    <3>1. Rests(t)
      BY <1>1, <2>2, PoolAssumption DEF Rests, SameAt, Stays, PoolIInv, MarksOK
    <3> QED
      BY <2>1, <3>1, RestsWhole DEF PoolIInv
  <2>3. CASE t = s
    <3>1. RowGoes(s)' /\ Unlisted(s)'
      BY <2>1, <2>3 DEF Whole, RowGoes, Unlisted, SubOf
    <3>2. ASSUME NEW x \in Entries, SubOf(x) = s PROVE Agrees(s, x)'
      <4>1. Agrees(s, x)
        BY <2>1, <2>3, <3>2 DEF Whole
      <4>2. StartsAlone(s, x)'
        <5>1. s \in cooling /\ s \notin cooling' => live[x].step = "done"
          BY <3>2
        <5> QED
          BY <1>1, <4>1, <5>1 DEF Agrees, StartsAlone, Begins, SubOf
      <4>3. LeavesAlone(s, x)' /\ HasPlace(s, x)' /\ HasDirectory(s, x)' /\ SaysTrue(s, x)'
            /\ HooksAlone(s, x)'
        BY <1>1, <4>1 DEF Agrees, LeavesAlone, HasPlace, HasDirectory, SaysTrue, HooksAlone, Holds,
             Begins, SubOf
      <4> QED
        BY <4>2, <4>3 DEF Agrees
    <3> QED
      BY <1>1, <2>3, <3>1, <3>2 DEF Whole, SubOf
  <2> QED
    BY <2>2, <2>3
<1> QED
  BY <1>1, <1>2, <1>3 DEF PoolIInv, AllSound, AllWhole

LEMMA StartPairedStep ==
  ASSUME PoolIInv, MarksOK', NEW s \in Subs, StartPaired(s)
  PROVE  PoolIInv'
<1>1. /\ UNCHANGED <<live, sessions, armed, leaving, hook, dir, stored, dead, failures, met>>
      /\ exhausted' = exhausted /\ cooling' = cooling \cup {s} /\ idle' = idle \ {sessions[s]}
  BY DEF StartPaired, drops, creds
<1> QED
  BY <1>1, QuietStep

LEMMA MeStep ==
  ASSUME PoolIInv, MarksOK', NEW s \in Subs, Me(s)
  PROVE  PoolIInv'
<1>1. /\ UNCHANGED <<live, sessions, armed, leaving, hook, dir, stored, dead, failures, met>>
      /\ exhausted' = exhausted /\ cooling' = cooling /\ idle' = idle \ {sessions[s]}
  BY DEF Me, drops, creds, marks
<1> QED
  BY <1>1, QuietStep

LEMMA GoIdleStep ==
  ASSUME PoolIInv, MarksOK', NEW x \in Entries, GoIdle(x)
  PROVE  PoolIInv'
<1>1. /\ UNCHANGED <<live, sessions, armed, leaving, hook, dir, stored, dead, failures, met>>
      /\ exhausted' = exhausted /\ cooling' = cooling /\ idle' = idle \cup {x}
      /\ live[x].step = "done" /\ SubOf(x) \in Subs
  BY EntryFacts DEF GoIdle, drops, creds, marks, Settled
<1>2. PICK s \in Subs : SubOf(x) = s
  BY <1>1
<1> QED
  BY <1>1, <1>2, QuietStep

LEMMA CoolDownStep ==
  ASSUME PoolIInv, MarksOK', NEW s \in Subs, CoolDown(s)
  PROVE  PoolIInv'
<1>1. /\ UNCHANGED <<live, sessions, armed, leaving, hook, dir, stored, dead, failures, met>>
      /\ exhausted' = exhausted /\ cooling' = cooling \ {s} /\ idle' = idle
      /\ \A x \in Entries : SubOf(x) = s => live[x].step = "done"
  BY DEF CoolDown, drops, creds
<1> QED
  BY <1>1, QuietStep

LEMMA PruneStep ==
  ASSUME PoolIInv, MarksOK', NEW s \in Subs, Prune(s)
  PROVE  PoolIInv'
<1>1. /\ UNCHANGED <<live, sessions, armed, leaving, hook, dir, stored, dead, failures, met>>
      /\ exhausted' = exhausted \ {s} /\ cooling' = cooling /\ idle' = idle
  BY DEF Prune, drops, creds
<1> QED
  BY <1>1, QuietStep

-----------------------------------------------------------------------------
\* A start adds entry n of sub s; of the others it may close the client, and a drop may begin.
Fades(y) ==
  /\ live'[y].sub = live[y].sub /\ live'[y].step = live[y].step /\ live'[y].state = live[y].state
  /\ live'[y].login = live[y].login /\ live'[y].opened = live[y].opened
  /\ live'[y].invalidated = live[y].invalidated /\ live'[y].qrs = live[y].qrs
  /\ live'[y].client \in {live[y].client, Stopped(live[y].client)}

Adds(n, s, step) ==
  /\ EntriesOK' /\ n \notin Entries /\ Entries' = Entries \cup {n}
  /\ live'[n].sub = s /\ live'[n].step = step /\ live'[n].state = "starting"
  /\ live'[n].client = "off" /\ live'[n].opened = FALSE /\ live'[n].invalidated = FALSE
  /\ live'[n].qrs = 0
  /\ \A y \in Entries : Fades(y)
  /\ UNCHANGED <<idle, armed, hook, stored, dead, failures>>
  /\ leaving \subseteq leaving' /\ leaving' \subseteq Entries
  /\ \A t \in Subs : sessions'[t] \in {sessions[t], Nothing}

LEMMA StartOf ==
  ASSUME PoolIInv, MarksOK', NEW s \in Subs, NEW n, NEW step \in {"evicting", "loading"},
         Adds(n, s, step),
         \A y \in leaving' : y \in leaving
                             \/ (live[y].opened = TRUE /\ sessions'[live[y].sub] = Nothing),
         \A t \in Subs : t \notin met' => Whole(t)'
  PROVE  PoolIInv'
<1>1. /\ EntriesOK' /\ n \notin Entries /\ Entries' = Entries \cup {n} /\ Nothing \notin Entries
      /\ live \in [Entries -> EntryType]
  BY PoolEntries DEF Adds, PoolIInv
<1>2. ListedOK'
  <2>1. SUFFICES ASSUME NEW t \in Subs, sessions'[t] # Nothing
                 PROVE  /\ sessions'[t] \in Entries' /\ live'[sessions'[t]].sub = t
                        /\ live'[sessions'[t]].step \in {"connecting", "done"}
    BY DEF ListedOK, SubOf
  <2>2. sessions'[t] = sessions[t]
    BY <2>1 DEF Adds
  <2>3. /\ sessions[t] \in Entries /\ live[sessions[t]].sub = t
        /\ live[sessions[t]].step \in {"connecting", "done"}
    BY <2>1, <2>2 DEF PoolIInv, ListedOK, SubOf
  <2>4. Fades(sessions[t])
    BY <2>3 DEF Adds
  <2> QED
    BY <1>1, <2>2, <2>3, <2>4 DEF Fades
<1>3. ASSUME NEW y \in Entries PROVE Sound(y)'
  <2>1. Sound(y) /\ Fades(y) /\ live[y].sub \in Subs /\ y # Nothing
    BY <1>1 DEF PoolIInv, AllSound, Adds, EntryType
  <2>2. sessions'[live[y].sub] = y => sessions[live[y].sub] = y
    BY <2>1 DEF Adds
  <2>3. y \in leaving' => sessions'[live[y].sub] # y /\ live[y].opened = TRUE
    BY <2>1, <2>2 DEF Sound, SubOf
  <2>4. /\ live[y].client = "off" => live'[y].client = "off"
        /\ live[y].client = "connecting" => live'[y].client = "connecting"
        /\ live[y].client = "waiting" => live'[y].client \in {"waiting", "off"}
    BY <2>1 DEF Fades, Stopped
  <2>5. live[y].step # "done" => y \notin leaving'
    BY <2>1, <2>3 DEF Sound
  <2>6. UNCHANGED <<idle, armed, hook, stored, dead, failures>>
    BY DEF Adds
  <2> QED
    BY <2>1, <2>2, <2>3, <2>4, <2>5, <2>6 DEF Sound, SubOf, Fades
<1>4. Sound(n)'
  <2>1. n \notin idle' /\ n \notin armed' /\ n \notin leaving' /\ n \notin hook'
    BY <1>1 DEF Adds, PoolIInv, MarksOK
  <2>2. 0 <= MaxQr
    BY PoolAssumption
  <2> QED
    BY <2>1, <2>2 DEF Sound, SubOf, Adds
<1>5. AllSound'
  BY <1>1, <1>3, <1>4 DEF AllSound
<1> QED
  BY <1>1, <1>2, <1>5 DEF PoolIInv, AllWhole

\* The sub of an entry that starts at once: whoever was listed is closed and has no write.
LEMMA StartLoads ==
  ASSUME PoolIInv, MarksOK', NEW s \in Subs, NEW n, Adds(n, s, "loading"), n # Nothing,
         s \notin met, s \notin cooling, \A y \in leaving : SubOf(y) # s, leaving' = leaving,
         s \in cooling', s \notin exhausted', sessions'[s] = Nothing,
         \A y \in Entries : live[y].sub = s /\ sessions[s] = y =>
           live'[y].client = "off" /\ y \notin armed /\ live[y].step = "done",
         \A y \in Entries : live[y].sub = s /\ sessions[s] # y => live'[y] = live[y]
  PROVE  Whole(s)'
<1>1. /\ Entries' = Entries \cup {n} /\ Nothing \notin Entries /\ n \notin Entries
      /\ hook \subseteq Entries /\ UNCHANGED <<idle, armed, hook, stored, dead, failures>>
      /\ armed \subseteq Entries /\ leaving \subseteq Entries
  BY PoolEntries DEF Adds, PoolIInv, MarksOK
<1>2. /\ live'[n].sub = s /\ live'[n].step = "loading" /\ live'[n].client = "off"
      /\ live'[n].state = "starting" /\ n \notin armed' /\ n \notin leaving'
  BY <1>1 DEF Adds
<1>3. \A y \in Entries : live'[y].sub = live[y].sub /\ live'[y].step = live[y].step
  BY DEF Adds, Fades
<1>4. RowGoes(s)'
  <2>1. RowGoes(s)
    BY DEF PoolIInv, AllWhole, Whole
  <2> QED
    BY <1>1, <1>3, <2>1 DEF RowGoes, SubOf
<1>5. ASSUME NEW y \in Entries', live'[y].sub = s, y # n
      PROVE  live'[y].client = "off" /\ y \notin armed' /\ y \notin leaving' /\ ~Begins(y)'
  <2>1. y \in Entries /\ live[y].sub = s /\ live'[y].step = live[y].step
    BY <1>1, <1>3, <1>5
  <2>2. CASE sessions[s] = y
    BY <1>1, <2>1, <2>2 DEF Begins, SubOf
  <2>3. CASE sessions[s] # y
    <3>1. live[y].client = "off" /\ y \notin armed /\ y \notin leaving /\ ~Begins(y)
      BY <2>1, <2>3, NobodyThere DEF SubOf
    <3> QED
      BY <1>1, <2>1, <2>3, <3>1 DEF Begins
  <2> QED
    BY <2>2, <2>3
<1>6. Nothing \notin Entries' /\ n \in Entries'
  BY <1>1
<1> QED
  BY <1>2, <1>4, <1>5, <1>6, LoadingWhole

\* The sub of an entry that waits for a place.
LEMMA StartWaits ==
  ASSUME PoolIInv, MarksOK', NEW s \in Subs, NEW n, Adds(n, s, "evicting"),
         s \notin met, sessions[s] = Nothing,
         \A y \in Entries : live[y].sub = s => live'[y] = live[y] /\ (y \in leaving' => y \in leaving),
         dir'[s] = dir[s], s \in cooling' <=> s \in cooling, s \in exhausted' <=> s \in exhausted
  PROVE  Whole(s)'
<1>1. /\ Entries' = Entries \cup {n} /\ n \notin Entries /\ hook \subseteq Entries
      /\ UNCHANGED <<idle, armed, hook, stored, dead, failures>> /\ armed \subseteq Entries
      /\ leaving' \subseteq Entries /\ leaving \subseteq leaving' /\ sessions'[s] = sessions[s]
  BY DEF Adds, PoolIInv, MarksOK
<1>2. /\ live'[n].sub = s /\ live'[n].step = "evicting" /\ live'[n].client = "off"
      /\ live'[n].state = "starting" /\ n \notin armed' /\ n \notin leaving' /\ n \notin hook'
  BY <1>1 DEF Adds
<1>3. \A y \in Entries : live'[y].sub = live[y].sub
  BY DEF Adds, Fades
<1>4. RowGoes(s)' /\ Unlisted(s)'
  <2>1. RowGoes(s) /\ Unlisted(s)
    BY DEF PoolIInv, AllWhole, Whole
  <2> QED
    BY <1>1, <1>3, <2>1 DEF RowGoes, Unlisted, SubOf
<1>5. ASSUME NEW y \in Entries, live[y].sub = s PROVE Agrees(s, y)'
  <2>1. Agrees(s, y) /\ live'[y] = live[y] /\ (y \in leaving' <=> y \in leaving)
    BY <1>1, <1>5 DEF PoolIInv, AllWhole, Whole, SubOf
  <2>2. ASSUME NEW z \in Entries', live'[z].sub = s
        PROVE  (z = n /\ ~Begins(z)' /\ z \notin leaving' /\ z \notin hook')
               \/ (z \in Entries /\ live[z].sub = s /\ live'[z] = live[z]
                   /\ (z \in leaving' <=> z \in leaving))
    <3>1. CASE z = n
      BY <1>2, <3>1 DEF Begins
    <3>2. CASE z # n
      BY <1>1, <1>3, <2>2, <3>2
    <3> QED
      BY <3>1, <3>2
  <2>3. StartsAlone(s, y)'
    BY <1>1, <2>1, <2>2 DEF Agrees, StartsAlone, Begins, SubOf
  <2>4. LeavesAlone(s, y)'
    BY <1>1, <2>1, <2>2 DEF Agrees, LeavesAlone, Begins, SubOf
  <2>5. HasPlace(s, y)' /\ HasDirectory(s, y)' /\ SaysTrue(s, y)'
    BY <1>1, <2>1 DEF Agrees, HasPlace, HasDirectory, SaysTrue, Holds
  <2>6. HooksAlone(s, y)'
    BY <1>1, <1>3, <2>1 DEF Agrees, HooksAlone, SubOf
  <2> QED
    BY <2>3, <2>4, <2>5, <2>6 DEF Agrees
<1>6. Agrees(s, n)'
  <2>1. StartsAlone(s, n)'
    BY <1>1, <1>2 DEF StartsAlone, Begins
  <2>2. LeavesAlone(s, n)' /\ HasPlace(s, n)' /\ HasDirectory(s, n)' /\ SaysTrue(s, n)'
        /\ HooksAlone(s, n)'
    BY <1>2 DEF LeavesAlone, HasPlace, HasDirectory, SaysTrue, HooksAlone, Holds
  <2> QED
    BY <2>1, <2>2 DEF Agrees
<1> QED
  BY <1>1, <1>3, <1>4, <1>5, <1>6 DEF Whole, SubOf

-----------------------------------------------------------------------------
LEMMA EntryJoins ==
  ASSUME EntriesOK, Len(live) < MaxStarts, NEW old, NEW e \in EntryType,
         old \in [Entries -> EntryType], live' = Append(old, e)
  PROVE  /\ EntriesOK' /\ Entries' = Entries \cup {Len(live) + 1}
         /\ Len(live) + 1 \notin Entries /\ Len(live) + 1 # Nothing
         /\ live'[Len(live) + 1] = e /\ \A y \in Entries : live'[y] = old[y]
<1>1. Len(live) \in Nat /\ Entries = 1 .. Len(live) /\ MaxStarts \in Nat
  BY PoolEntries, PoolAssumption
<1>2. old \in Seq(EntryType) /\ DOMAIN old = 1 .. Len(live)
  BY <1>1, SeqDef
<1>3. Len(old) = Len(live)
  BY <1>1, <1>2, LenProperties
<1>4. /\ Append(old, e) \in Seq(EntryType) /\ Len(Append(old, e)) = Len(live) + 1
      /\ Append(old, e)[Len(live) + 1] = e
      /\ \A y \in 1 .. Len(live) : Append(old, e)[y] = old[y]
  BY <1>2, <1>3, AppendProperties
<1>5. live' \in [1 .. (Len(live) + 1) -> EntryType]
  BY <1>4, LenProperties
<1>6. Len(live) + 1 \in Nat /\ Len(live) + 1 <= MaxStarts
  BY <1>1
<1>7. EntriesOK' /\ Entries' = 1 .. (Len(live) + 1)
  BY <1>5, <1>6, PoolListed
<1>8. 1 .. (Len(live) + 1) = 1 .. Len(live) \cup {Len(live) + 1}
  BY <1>1
<1> QED
  BY <1>1, <1>4, <1>7, <1>8 DEF Nothing

LEMMA NewEntryTyped ==
  ASSUME NEW s \in Subs, NEW step \in {"evicting", "loading"}, NEW sweep \in SUBSET (1 .. MaxStarts)
  PROVE  /\ NewEntry(s, step, sweep) \in EntryType
         /\ NewEntry(s, step, sweep).sub = s /\ NewEntry(s, step, sweep).step = step
         /\ NewEntry(s, step, sweep).state = "starting" /\ NewEntry(s, step, sweep).client = "off"
         /\ NewEntry(s, step, sweep).qrs = 0
<1>1. 0 \in 0 .. (MaxQr + 1)
  BY PoolAssumption
<1> QED
  BY <1>1 DEF NewEntry, EntryType, Steps, States, Clients

\* An entry that no step touches, and one whose client is disconnected, fade.
LEMMA Faded ==
  ASSUME NEW y, live'[y] = live[y] \/ (live[y] \in EntryType
                                       /\ live'[y] = [live[y] EXCEPT !.client = Stopped(@)])
  PROVE  Fades(y) /\ (live'[y].client = live[y].client \/ live'[y].client = Stopped(live[y].client))
<1>1. CASE live'[y] = live[y]
  BY <1>1 DEF Fades
<1>2. CASE live[y] \in EntryType /\ live'[y] = [live[y] EXCEPT !.client = Stopped(@)]
  BY <1>2 DEF Fades, EntryType
<1> QED
  BY <1>1, <1>2

LEMMA StoppedTyped ==
  ASSUME NEW e \in EntryType
  PROVE  [e EXCEPT !.client = Stopped(@)] \in EntryType
<1>1. Stopped(e.client) \in Clients
  BY DEF EntryType, Stopped, Clients
<1> QED
  BY <1>1 DEF EntryType

LEMMA StartAwaitsStep ==
  ASSUME PoolIInv, MarksOK', NEW s \in Subs, StartAwaits(s)
  PROVE  PoolIInv'
<1> DEFINE n == Len(live) + 1
           e == NewEntry(s, "evicting", Sweep)
<1>1. /\ live \in [Entries -> EntryType] /\ Nothing \notin Entries /\ Entries \subseteq 1 .. MaxStarts
      /\ Sweep \subseteq Entries /\ EntriesOK
  BY PoolEntries DEF PoolIInv, MarksOK, Sweep
<1>2. PICK x \in Sweep \cap armed : /\ sessions' = [sessions EXCEPT ![SubOf(x)] = Nothing]
                                    /\ leaving' = leaving \cup {x}
  BY DEF StartAwaits
<1>3. /\ sessions[s] = Nothing /\ Len(live) < MaxStarts /\ live' = Append(live, e)
      /\ UNCHANGED <<expired, exhausted, cooling, idle, armed, hook, dir, stored, dead, failures, met>>
  BY DEF StartAwaits, marks, creds
<1>4. /\ e \in EntryType /\ e.sub = s /\ e.step = "evicting" /\ e.state = "starting"
      /\ e.client = "off" /\ e.opened = FALSE /\ e.invalidated = FALSE /\ e.qrs = 0
  <2>1. Sweep \in SUBSET (1 .. MaxStarts)
    BY <1>1
  <2>2. e.opened = FALSE /\ e.invalidated = FALSE
    BY DEF NewEntry
  <2>3. /\ e \in EntryType /\ e.sub = s /\ e.step = "evicting" /\ e.state = "starting"
        /\ e.client = "off" /\ e.qrs = 0
    BY <2>1, NewEntryTyped
  <2> QED
    BY <2>2, <2>3
<1>5. x \in Entries /\ SubOf(x) \in Subs /\ sessions[SubOf(x)] = x /\ x \in armed /\ x # Nothing
  BY <1>1, <1>2, EntryFacts DEF Sweep, Listed
<1>6. live[x].step = "done" /\ live[x].opened = TRUE
  BY <1>5, EntryFacts, ClientFacts DEF Sound
<1> HIDE DEF e
<1>7. /\ EntriesOK' /\ Entries' = Entries \cup {n} /\ n \notin Entries /\ n # Nothing
      /\ live'[n] = e /\ \A y \in Entries : live'[y] = live[y]
  BY <1>1, <1>3, <1>4, EntryJoins
<1> HIDE DEF n
<1>8. PICK t \in Subs : SubOf(x) = t
  BY <1>5
<1>9. /\ t # s /\ sessions'[t] = Nothing /\ \A z \in Subs : z # t => sessions'[z] = sessions[z]
  BY <1>2, <1>3, <1>5, <1>8 DEF PoolIInv, MarksOK
<1>10. Adds(n, s, "evicting")
  <2>1. \A y \in Entries : Fades(y)
    BY <1>7, Faded
  <2>2. leaving \subseteq leaving' /\ leaving' \subseteq Entries
    BY <1>2, <1>5 DEF PoolIInv, MarksOK
  <2>3. \A z \in Subs : sessions'[z] \in {sessions[z], Nothing}
    BY <1>9
  <2> QED
    BY <1>3, <1>4, <1>7, <2>1, <2>2, <2>3 DEF Adds
<1>11. ASSUME NEW z \in Subs, z \notin met' PROVE Whole(z)'
  <2>1. z \notin met
    BY <1>3, <1>11
  <2>2. CASE z = s
    <3>1. \A y \in Entries : live[y].sub = s => live'[y] = live[y] /\ (y \in leaving' => y \in leaving)
      BY <1>2, <1>7, <1>8, <1>9 DEF SubOf
    <3> QED
      BY <1>3, <1>10, <2>1, <2>2, <3>1, StartWaits
  <2>3. CASE z = t
    <3>1. \A y \in Entries' : live'[y].sub = t /\ y # x => Stays(y)
      BY <1>2, <1>3, <1>4, <1>7, <1>9 DEF Stays
    <3>2. \A y \in Entries : SubOf(y) = t /\ y # x => Stays(y)
      BY <1>2, <1>3, <1>7 DEF Stays
    <3>3. /\ live'[x].sub = t /\ live'[x].step = "done" /\ live'[x].state = live[x].state
          /\ live'[x].login = live[x].login /\ live'[x].invalidated = live[x].invalidated
          /\ live'[x].client = live[x].client /\ x \in leaving' /\ x \in Entries'
      BY <1>2, <1>5, <1>6, <1>7, <1>8 DEF SubOf
    <3>4. failures <= failures'
      BY <1>3, PoolAssumption DEF PoolIInv, MarksOK
    <3>5. t \notin met /\ (t \in cooling' <=> t \in cooling) /\ (t \in exhausted' <=> t \in exhausted)
      BY <1>3, <2>1, <2>3
    <3>6. /\ dir'[t] = dir[t] /\ stored'[t] = stored[t] /\ dead'[t] = dead[t]
          /\ (x \in hook' <=> x \in hook) /\ (x \in armed' <=> x \in armed)
      BY <1>3
    <3>7. SubOf(x) = t /\ sessions[t] = x /\ sessions'[t] = Nothing
      BY <1>5, <1>8, <1>9
    <3>8. Whole(t)'
      BY <1>5, <1>6, <3>1, <3>2, <3>3, <3>4, <3>5, <3>6, <3>7, DropWhole
    <3> QED
      BY <2>3, <3>8
  <2>4. CASE z # s /\ z # t
    <3>1. failures <= failures'
      BY <1>3, PoolAssumption DEF PoolIInv, MarksOK
    <3>2. SameAt(z)
      BY <1>3, <1>9, <2>4 DEF SameAt
    <3>3. \A y \in Entries : live[y].sub = z => y \in Entries' /\ Stays(y)
      BY <1>2, <1>3, <1>7, <1>8, <2>4 DEF Stays, SubOf
    <3>4. \A y \in Entries' : live'[y].sub = z => Stays(y)
      <4>1. ASSUME NEW y \in Entries', live'[y].sub = z PROVE Stays(y)
        <5>1. y \in Entries /\ live[y].sub = z
          BY <1>4, <1>7, <2>4, <4>1
        <5> QED
          BY <3>3, <5>1
      <4> QED
        BY <4>1
    <3>5. Rests(z)
      BY <3>1, <3>2, <3>3, <3>4 DEF Rests
    <3>6. Whole(z)
      BY <2>1 DEF PoolIInv, AllWhole
    <3> QED
      BY <3>5, <3>6, RestsWhole DEF PoolIInv
  <2> QED
    BY <2>2, <2>3, <2>4
<1>12. \A y \in leaving' : y \in leaving \/ (live[y].opened = TRUE /\ sessions'[live[y].sub] = Nothing)
  BY <1>2, <1>6, <1>8, <1>9 DEF SubOf
<1> QED
  BY <1>10, <1>11, <1>12, StartOf

LEMMA StartEvictsStep ==
  ASSUME PoolIInv, MarksOK', NEW s \in Subs, StartEvicts(s)
  PROVE  PoolIInv'
<1> DEFINE n == Len(live) + 1
           e == NewEntry(s, "loading", {})
           old == [x \in Entries |->
                    IF x \in Sweep THEN [live[x] EXCEPT !.client = Stopped(@)] ELSE live[x]]
<1>1. /\ live \in [Entries -> EntryType] /\ Nothing \notin Entries /\ EntriesOK
      /\ Sweep \subseteq Entries
  BY PoolEntries DEF PoolIInv, MarksOK, Sweep
<1>2. /\ sessions[s] = Nothing /\ Len(live) < MaxStarts /\ live' = Append(old, e)
      /\ s \notin cooling /\ Sweep \cap armed = {}
      /\ sessions' = [z \in Subs |-> IF sessions[z] \in Sweep THEN Nothing ELSE sessions[z]]
      /\ cooling' = cooling \cup {s} /\ exhausted' = exhausted \ {s}
      /\ dir' = [dir EXCEPT ![s] = Missing]
      /\ met' = met \cup Connectings(Sweep) \cup Flushings(s)
      /\ UNCHANGED <<idle, armed, leaving, hook, stored, dead, failures>>
  BY DEF StartEvicts, Record, drops
<1>3. e.opened = FALSE /\ e.invalidated = FALSE
  BY DEF NewEntry
<1>4. /\ e \in EntryType /\ e.sub = s /\ e.step = "loading" /\ e.state = "starting"
      /\ e.client = "off" /\ e.qrs = 0
  <2>1. {} \in SUBSET (1 .. MaxStarts)
    OBVIOUS
  <2> QED
    BY <2>1, NewEntryTyped
<1> HIDE DEF e
<1>5. old \in [Entries -> EntryType]
  <2>1. ASSUME NEW y \in Entries
        PROVE  (IF y \in Sweep THEN [live[y] EXCEPT !.client = Stopped(@)] ELSE live[y]) \in EntryType
    <3>1. live[y] \in EntryType
      BY <1>1
    <3> QED
      BY <3>1, StoppedTyped
  <2> QED
    BY <2>1
<1>6. \A y \in Entries : old[y] = IF y \in Sweep THEN [live[y] EXCEPT !.client = Stopped(@)] ELSE live[y]
  OBVIOUS
<1> HIDE DEF old
<1>7. /\ EntriesOK' /\ Entries' = Entries \cup {n} /\ n \notin Entries /\ n # Nothing
      /\ live'[n] = e /\ \A y \in Entries : live'[y] = old[y]
  BY <1>1, <1>2, <1>4, <1>5, EntryJoins
<1> HIDE DEF n
<1>8. /\ \A y \in Entries : y \notin Sweep => live'[y] = live[y]
      /\ \A y \in Sweep : live'[y] = [live[y] EXCEPT !.client = Stopped(@)]
  BY <1>1, <1>6, <1>7
<1>9. \A z \in Subs : sessions'[z] = IF sessions[z] \in Sweep THEN Nothing ELSE sessions[z]
  BY <1>2
<1>10. Adds(n, s, "loading")
  <2>1. ASSUME NEW y \in Entries PROVE Fades(y)
    <3>1. live[y] \in EntryType
      BY <1>1
    <3> QED
      BY <1>8, <3>1, Faded
  <2>2. leaving \subseteq leaving' /\ leaving' \subseteq Entries
    BY <1>2 DEF PoolIInv, MarksOK
  <2>3. \A z \in Subs : sessions'[z] \in {sessions[z], Nothing}
    BY <1>9
  <2> QED
    BY <1>2, <1>3, <1>4, <1>7, <2>1, <2>2, <2>3 DEF Adds
<1>11. ASSUME NEW z \in Subs, z \notin met' PROVE Whole(z)'
  <2>1. z \notin met /\ z \notin Connectings(Sweep)
    BY <1>2, <1>11
  <2>2. CASE z = s
    <3>1. \A y \in leaving : SubOf(y) # s
      BY <1>2, <1>11, <2>2 DEF Flushings
    <3>2. sessions'[s] = Nothing
      BY <1>2, <1>9
    <3>3. \A y \in Entries : live[y].sub = s => sessions[s] # y /\ live'[y] = live[y]
      BY <1>1, <1>2, <1>8 DEF Sweep, Listed, SubOf
    <3>4. s \notin met /\ s \in cooling' /\ s \notin exhausted' /\ leaving' = leaving
      BY <1>2, <2>1, <2>2
    <3>5. Whole(s)'
      BY <1>2, <1>7, <1>10, <3>1, <3>2, <3>3, <3>4, StartLoads
    <3> QED
      BY <2>2, <3>5
  <2>d. CASE z # s
    <3>1. /\ dir'[z] = dir[z] /\ stored'[z] = stored[z] /\ dead'[z] = dead[z]
          /\ (z \in cooling' <=> z \in cooling) /\ (z \in exhausted' <=> z \in exhausted)
          /\ failures <= failures'
      BY <1>2, <2>d, PoolAssumption DEF PoolIInv, MarksOK
    <3>2. \A y \in Entries' : live'[y].sub = z => y \in Entries /\ live[y].sub = z
      BY <1>4, <1>7, <1>10, <2>d DEF Adds, Fades
    <3>3. \A y \in Entries : y \notin Sweep => Stays(y)
      BY <1>2, <1>8 DEF Stays
    <3>4. CASE sessions[z] \in Sweep
      <4>1. PICK x \in Entries : x = sessions[z]
        BY <1>1, <3>4
      <4>2. x \in Sweep /\ SubOf(x) = z /\ x # Nothing /\ sessions'[z] = Nothing /\ sessions[z] = x
        BY <1>1, <1>9, <3>4, <4>1 DEF PoolIInv, ListedOK
      <4>3. live[x].client # "connecting" /\ x \notin armed /\ live[x] \in EntryType
        BY <1>1, <1>2, <2>1, <4>2 DEF Connectings
      <4>4. x \notin leaving /\ live[x].step = "done"
        <5>1. live[x].step \in {"connecting", "done"}
          BY <4>2 DEF PoolIInv, ListedOK
        <5>2. Sound(x)
          BY EntryFacts
        <5> QED
          BY <4>2, <4>3, <5>1, <5>2 DEF Sound
      <4>5. live'[x].client = "off"
        <5>1. live'[x].client = Stopped(live[x].client)
          BY <1>8, <4>2, <4>3 DEF EntryType
        <5> QED
          BY <4>3, <5>1 DEF Stopped
      <4>6. Fades(x)
        BY <1>10 DEF Adds
      <4>7. \A y \in Entries : SubOf(y) = z /\ y # x => Stays(y)
        BY <3>3, <4>2 DEF Sweep, Listed
      <4>8. \A y \in Entries' : live'[y].sub = z /\ y # x => Stays(y)
        BY <3>2, <4>7 DEF SubOf
      <4>9. /\ live'[x].sub = z /\ live'[x].step = "done" /\ live'[x].state = live[x].state
            /\ live'[x].login = live[x].login /\ live'[x].invalidated = live[x].invalidated
            /\ x \in Entries' /\ (x \in hook' <=> x \in hook) /\ (x \in armed' <=> x \in armed)
            /\ x \notin leaving'
        BY <1>2, <1>7, <4>2, <4>4, <4>6 DEF Fades, SubOf
      <4> QED
        BY <2>1, <3>1, <4>2, <4>3, <4>4, <4>5, <4>7, <4>8, <4>9, DropWhole
    <3>5. CASE sessions[z] \notin Sweep
      <4>1. SameAt(z)
        BY <1>9, <3>1, <3>5 DEF SameAt
      <4>2. \A y \in Entries : live[y].sub = z => Stays(y)
        BY <3>3, <3>5 DEF Sweep, Listed, SubOf
      <4>3. Rests(z)
        BY <1>7, <3>1, <3>2, <4>1, <4>2 DEF Rests
      <4>4. Whole(z)
        BY <2>1 DEF PoolIInv, AllWhole
      <4> QED
        BY <4>3, <4>4, RestsWhole DEF PoolIInv
    <3> QED
      BY <3>4, <3>5
  <2> QED
    BY <2>2, <2>d
<1> QED
  BY <1>2, <1>10, <1>11, StartOf

LEMMA StartFreshStep ==
  ASSUME PoolIInv, MarksOK', NEW s \in Subs, StartFresh(s)
  PROVE  PoolIInv'
<1> DEFINE n == Len(live) + 1
           e == NewEntry(s, "loading", {})
           x == sessions[s]
           old == IF x = Nothing THEN live ELSE Closed(x)
<1>1. live \in [Entries -> EntryType] /\ Nothing \notin Entries /\ EntriesOK
  BY PoolEntries DEF PoolIInv
<1>2. /\ Len(live) < MaxStarts /\ live' = Append(old, e) /\ s \notin cooling
      /\ x # Nothing => live[x].state # "paired"
      /\ sessions' = [sessions EXCEPT ![s] = Nothing]
      /\ cooling' = cooling \cup {s} /\ exhausted' = exhausted \ {s}
      /\ dir' = [dir EXCEPT ![s] = Missing]
      /\ met' = met \cup Connectings({x} \cap Entries) \cup Flushings(s)
      /\ UNCHANGED <<idle, armed, leaving, hook, stored, dead, failures>>
  BY DEF StartFresh, Record, drops, PoolIInv, MarksOK
<1>3. e.opened = FALSE /\ e.invalidated = FALSE
  BY DEF NewEntry
<1>4. /\ e \in EntryType /\ e.sub = s /\ e.step = "loading" /\ e.state = "starting"
      /\ e.client = "off" /\ e.qrs = 0
  <2>1. {} \in SUBSET (1 .. MaxStarts)
    OBVIOUS
  <2> QED
    BY <2>1, NewEntryTyped
<1> HIDE DEF e
<1>5. x # Nothing => /\ x \in Entries /\ live[x].sub = s /\ live[x] \in EntryType
                     /\ old = [live EXCEPT ![x] = [live[x] EXCEPT !.client = Stopped(@)]]
  BY <1>1 DEF PoolIInv, ListedOK, SubOf, Closed
<1>6. /\ old \in [Entries -> EntryType]
      /\ \A y \in Entries : y # x => old[y] = live[y]
      /\ x # Nothing => old[x] = [live[x] EXCEPT !.client = Stopped(@)]
  <2>1. CASE x = Nothing
    BY <1>1, <2>1
  <2>2. CASE x # Nothing
    <3>1. [live[x] EXCEPT !.client = Stopped(@)] \in EntryType
      BY <1>5, <2>2, StoppedTyped
    <3> HIDE DEF old, x
    <3> QED
      BY <1>1, <1>5, <2>2, <3>1
  <2> QED
    BY <2>1, <2>2
<1> HIDE DEF old
<1>7. /\ EntriesOK' /\ Entries' = Entries \cup {n} /\ n \notin Entries /\ n # Nothing
      /\ live'[n] = e /\ \A y \in Entries : live'[y] = old[y]
  BY <1>1, <1>2, <1>4, <1>6, EntryJoins
<1> HIDE DEF n
<1>8. /\ \A y \in Entries : y # x => live'[y] = live[y]
      /\ x # Nothing => live'[x] = [live[x] EXCEPT !.client = Stopped(@)]
  BY <1>5, <1>6, <1>7
<1>9. sessions'[s] = Nothing /\ \A z \in Subs : z # s => sessions'[z] = sessions[z]
  BY <1>2 DEF PoolIInv, MarksOK
<1>10. Adds(n, s, "loading")
  <2>1. ASSUME NEW y \in Entries PROVE Fades(y)
    <3>1. live[y] \in EntryType /\ y # Nothing
      BY <1>1
    <3>2. live'[y] = live[y] \/ live'[y] = [live[y] EXCEPT !.client = Stopped(@)]
      BY <1>8, <3>1
    <3> QED
      BY <3>1, <3>2, Faded
  <2>2. leaving \subseteq leaving' /\ leaving' \subseteq Entries
    BY <1>2 DEF PoolIInv, MarksOK
  <2>3. \A z \in Subs : sessions'[z] \in {sessions[z], Nothing}
    BY <1>9
  <2> QED
    BY <1>2, <1>3, <1>4, <1>7, <2>1, <2>2, <2>3 DEF Adds
<1>11. ASSUME NEW z \in Subs, z \notin met' PROVE Whole(z)'
  <2>1. z \notin met
    BY <1>2, <1>11
  <2>2. CASE z = s
    <3>1. \A y \in leaving : SubOf(y) # s
      BY <1>2, <1>11, <2>2 DEF Flushings
    <3>2. ASSUME NEW y \in Entries, live[y].sub = s, sessions[s] = y
          PROVE  live'[y].client = "off" /\ y \notin armed /\ live[y].step = "done"
      <4>1. y = x /\ x # Nothing /\ live[y].state # "paired" /\ live[y] \in EntryType
        BY <1>1, <1>2, <3>2
      <4>2. live[y].client # "connecting"
        BY <1>2, <1>11, <2>2, <3>2, <4>1 DEF Connectings, SubOf
      <4>3. Sound(y) /\ SubOf(y) = s
        BY <3>2, EntryFacts DEF SubOf
      <4>4. live[y].step = "done"
        <5>1. live[y].step \in {"connecting", "done"}
          BY <3>2, <4>1 DEF PoolIInv, ListedOK
        <5> QED
          BY <4>2, <4>3, <5>1 DEF Sound
      <4>5. y \notin armed
        BY <3>2, <4>1, <4>3 DEF Sound
      <4>6. live'[y].client = Stopped(live[y].client)
        BY <1>8, <4>1 DEF EntryType
      <4> QED
        BY <4>2, <4>4, <4>5, <4>6 DEF Stopped
    <3>3. \A y \in Entries : live[y].sub = s /\ sessions[s] # y => live'[y] = live[y]
      BY <1>8
    <3>4. s \notin met /\ s \in cooling' /\ s \notin exhausted' /\ leaving' = leaving
      BY <1>2, <2>1, <2>2
    <3>5. Whole(s)'
      BY <1>2, <1>7, <1>9, <1>10, <3>1, <3>2, <3>3, <3>4, StartLoads
    <3> QED
      BY <2>2, <3>5
  <2>3. CASE z # s
    <3>1. SameAt(z) /\ failures <= failures'
      BY <1>2, <1>9, <2>3, PoolAssumption DEF SameAt, PoolIInv, MarksOK
    <3>2. ASSUME NEW y \in Entries, live[y].sub = z PROVE Stays(y)
      <4>1. y # x
        BY <1>1, <1>5, <2>3, <3>2
      <4> QED
        BY <1>2, <1>8, <4>1 DEF Stays
    <3>3. \A y \in Entries' : live'[y].sub = z => y \in Entries /\ live[y].sub = z
      BY <1>4, <1>7, <1>10, <2>3 DEF Adds, Fades
    <3>4. Rests(z)
      BY <1>7, <3>1, <3>2, <3>3 DEF Rests
    <3>5. Whole(z)
      BY <2>1 DEF PoolIInv, AllWhole
    <3> QED
      BY <3>4, <3>5, RestsWhole DEF PoolIInv
  <2> QED
    BY <2>2, <2>3
<1> QED
  BY <1>2, <1>10, <1>11, StartOf

-----------------------------------------------------------------------------
\* The types that are not the entries' are kept by every action.
LEMMA MarksKept ==
  ASSUME PoolIInv, NEW x \in Entries,
         \/ SocketMade(x) \/ SocketCloses(x) \/ Reconnect(x) \/ ConnectFails(x) \/ Scanned(x)
         \/ Open(x) \/ LoggedOut(x) \/ Qr(x) \/ Saved(x) \/ Write(x) \/ Left(x) \/ Evict(x)
         \/ LoadFails(x) \/ DeleteFails(x) \/ RowDeleted(x) \/ Loaded(x) \/ Evicted(x) \/ GoIdle(x)
  PROVE  MarksOK'
<1>1. /\ SubOf(x) \in Subs /\ x \in 0 .. MaxStarts /\ x \in Logins /\ Nothing \in 0 .. MaxStarts
      /\ live[x].login \in {Nothing} \cup Logins
  <2>1. live[x] \in EntryType /\ x \in 1 .. MaxStarts /\ SubOf(x) \in Subs
    BY EntryFacts
  <2>2. live[x].login \in {Nothing} \cup Logins
    BY <2>1 DEF EntryType
  <2> QED
    BY <2>1, <2>2, PoolAssumption DEF Logins, Old, Nothing
<1>2. failures < MaxFailures => failures + 1 \in 0 .. MaxFailures
  BY PoolAssumption DEF PoolIInv, MarksOK
<1>3. MarksOK
  BY DEF PoolIInv
<1>4. /\ Missing \in Contents /\ Nothing \in Contents /\ Logins \subseteq Contents
      /\ \A X : Connectings(X) \subseteq {SubOf(y) : y \in X}
  BY DEF Contents, Connectings
<1>5. Entries \subseteq {y \in Entries : SubOf(y) \in Subs}
  BY EntryFacts
<1>6. CASE SocketMade(x)
  <2>1. Entries' = Entries
    BY <1>6 DEF SocketMade, Entries
  <2> QED
    BY <1>1, <1>2, <1>3, <1>4, <1>6, <2>1 DEF SocketMade, MarksOK, marks, drops, creds
<1>7. CASE SocketCloses(x)
  <2>1. Entries' = Entries
    BY <1>7 DEF SocketCloses, Entries
  <2> QED
    BY <1>1, <1>2, <1>3, <1>4, <1>7, <2>1 DEF SocketCloses, MarksOK, marks, drops, creds
<1>8. CASE Reconnect(x)
  <2>1. Entries' = Entries
    BY <1>8 DEF Reconnect, Connecting, Entries
  <2> QED
    BY <1>1, <1>2, <1>3, <1>4, <1>8, <2>1 DEF Reconnect, Connecting, MarksOK, marks, drops, creds
<1>9. CASE ConnectFails(x)
  <2>1. Entries' = Entries
    BY <1>9 DEF ConnectFails, Entries
  <2> QED
    BY <1>1, <1>2, <1>3, <1>4, <1>9, <2>1 DEF ConnectFails, MarksOK, marks, drops, creds
<1>10. CASE Scanned(x)
  <2>1. Entries' = Entries
    BY <1>10 DEF Scanned, CredsSaved, Mirrors, Entries
  <2> QED
    BY <1>1, <1>2, <1>3, <1>4, <1>10, <2>1 DEF Scanned, CredsSaved, Mirrors, MarksOK, marks, drops,
       creds
<1>11. CASE Open(x)
  <2>1. Entries' = Entries
    BY <1>11 DEF Open, FirstOpen, Entries
  <2> QED
    BY <1>1, <1>2, <1>3, <1>4, <1>11, <2>1 DEF Open, FirstOpen, MarksOK, marks, drops, creds
<1>12. CASE LoggedOut(x)
  <2>1. Entries' = Entries
    BY <1>12 DEF LoggedOut, Hooked, Entries
  <2> QED
    BY <1>1, <1>2, <1>3, <1>4, <1>12, <2>1 DEF LoggedOut, Hooked, MarksOK, marks, drops, creds
<1>13. CASE Qr(x)
  <2>1. Entries' = Entries
    BY <1>13 DEF Qr, Closed, Entries
  <2> QED
    BY <1>1, <1>2, <1>3, <1>4, <1>13, <2>1 DEF Qr, Closed, MarksOK, marks, drops, creds
<1>14. CASE Saved(x)
  <2>1. Entries' = Entries
    BY <1>14 DEF Saved, CredsSaved, Mirrors, Entries
  <2> QED
    BY <1>1, <1>2, <1>3, <1>4, <1>14, <2>1 DEF Saved, CredsSaved, Mirrors, MarksOK, marks, drops,
       creds
<1>15. CASE Write(x)
  <2>1. Entries' = Entries
    BY <1>15 DEF Write, Entries
  <2> QED
    BY <1>1, <1>2, <1>3, <1>4, <1>15, <2>1 DEF Write, MarksOK, marks, drops, creds
<1>16. CASE Left(x)
  <2>1. Entries' = Entries
    BY <1>16 DEF Left, Closed, Entries
  <2> QED
    BY <1>1, <1>2, <1>3, <1>4, <1>16, <2>1 DEF Left, Closed, MarksOK, marks, drops, creds
<1>17. CASE Evict(x)
  <2>1. Entries' = Entries
    BY <1>17 DEF Evict, Closed, Flushing, Entries
  <2> QED
    BY <1>1, <1>2, <1>3, <1>4, <1>17, <2>1 DEF Evict, Closed, Flushing, MarksOK, marks, drops, creds
<1>18. CASE LoadFails(x)
  <2>1. Entries' = Entries
    BY <1>18 DEF LoadFails, Entries
  <2> QED
    BY <1>1, <1>2, <1>3, <1>4, <1>18, <2>1 DEF LoadFails, MarksOK, marks, drops, creds
<1>19. CASE DeleteFails(x)
  <2>1. Entries' = Entries
    BY <1>19 DEF DeleteFails, Entries
  <2> QED
    BY <1>1, <1>2, <1>3, <1>4, <1>19, <2>1 DEF DeleteFails, MarksOK, marks, drops, creds
<1>20. CASE RowDeleted(x)
  <2>1. Entries' = Entries
    BY <1>20 DEF RowDeleted, MarkExpired, Closed, Entries
  <2> QED
    BY <1>1, <1>2, <1>3, <1>4, <1>20, <2>1 DEF RowDeleted, MarkExpired, Closed, MarksOK, marks,
       drops, creds
<1>21. CASE Loaded(x)
  <2>1. Entries' = Entries
    BY <1>21 DEF Loaded, Connecting, Entries
  <2> QED
    BY <1>1, <1>2, <1>3, <1>4, <1>21, <2>1 DEF Loaded, Connecting, MarksOK, marks, drops, creds
<1>22. CASE Evicted(x)
  <2>1. Entries' = Entries
    BY <1>22 DEF Evicted, Record, Entries
  <2>2. UNCHANGED <<sessions, idle, armed, leaving, hook, stored, dead, failures>>
    BY <1>22 DEF Evicted, drops
  <2>3. /\ cooling' \subseteq cooling \cup {SubOf(x)} /\ expired' \subseteq expired
        /\ exhausted' \subseteq exhausted /\ met' \subseteq met \cup {SubOf(x)}
        /\ dir' = dir \/ dir' = [dir EXCEPT ![SubOf(x)] = Missing]
    BY <1>22 DEF Evicted, Record, marks, Flushings
  <2> QED
    BY <1>1, <1>3, <1>4, <2>1, <2>2, <2>3 DEF MarksOK
<1>23. CASE GoIdle(x)
  <2>1. Entries' = Entries
    BY <1>23 DEF GoIdle, Entries
  <2> QED
    BY <1>1, <1>2, <1>3, <1>4, <1>23, <2>1 DEF GoIdle, MarksOK, marks, drops, creds
<1> QED
  BY <1>6, <1>7, <1>8, <1>9, <1>10, <1>11, <1>12, <1>13, <1>14, <1>15, <1>16, <1>17, <1>18, <1>19,
     <1>20, <1>21, <1>22, <1>23

LEMMA MarksKeptByStart ==
  ASSUME PoolIInv, NEW s \in Subs,
         \/ StartPaired(s) \/ StartAwaits(s) \/ StartEvicts(s) \/ StartFresh(s) \/ Me(s)
         \/ CoolDown(s) \/ Prune(s)
  PROVE  MarksOK'
<1>1. MarksOK /\ EntriesOK /\ live \in [Entries -> EntryType]
  BY PoolEntries DEF PoolIInv
<1>2. \A X : X \subseteq Entries => Connectings(X) \subseteq Subs
  BY EntryFacts DEF Connectings
<1>3. Flushings(s) \subseteq Subs /\ Sweep \subseteq Entries
  BY <1>1 DEF Flushings, Sweep, MarksOK
<1>4. Nothing \in 0 .. MaxStarts /\ Missing \in Contents
  BY PoolAssumption DEF Nothing, Contents
<1>5. CASE StartPaired(s)
  BY <1>1, <1>5 DEF StartPaired, drops, creds, MarksOK, Entries
<1>6. CASE Me(s)
  BY <1>1, <1>6 DEF Me, marks, drops, creds, MarksOK, Entries
<1>7. CASE CoolDown(s)
  BY <1>1, <1>7 DEF CoolDown, drops, creds, MarksOK, Entries
<1>8. CASE Prune(s)
  BY <1>1, <1>8 DEF Prune, drops, creds, MarksOK, Entries
<1>9. ASSUME Len(live) < MaxStarts, NEW old \in [Entries -> EntryType], NEW step \in {"evicting", "loading"},
             NEW sweep \in SUBSET (1 .. MaxStarts), live' = Append(old, NewEntry(s, step, sweep))
      PROVE  Entries \subseteq Entries'
  <2>1. NewEntry(s, step, sweep) \in EntryType
    BY NewEntryTyped
  <2> QED
    BY <1>1, <1>9, <2>1, EntryJoins
<1>10. CASE StartAwaits(s)
  <2>1. /\ Len(live) < MaxStarts /\ live' = Append(live, NewEntry(s, "evicting", Sweep))
        /\ UNCHANGED <<expired, exhausted, cooling, idle, armed, hook, dir, stored, dead, failures, met>>
    BY <1>10 DEF StartAwaits, marks, creds
  <2>2. Sweep \in SUBSET (1 .. MaxStarts)
    BY <1>1, <1>3, PoolEntries
  <2>3. Entries \subseteq Entries'
    BY <1>1, <1>9, <2>1, <2>2
  <2>4. leaving' \subseteq Entries /\ sessions' \in [Subs -> 0 .. MaxStarts]
    BY <1>1, <1>3, <1>4, <1>10 DEF StartAwaits, MarksOK
  <2>5. /\ idle' \subseteq Entries' /\ armed' \subseteq Entries' /\ leaving' \subseteq Entries'
        /\ hook' \subseteq Entries'
    BY <1>1, <2>1, <2>3, <2>4 DEF MarksOK
  <2>6. /\ expired' \subseteq Subs /\ exhausted' \subseteq Subs /\ cooling' \subseteq Subs
        /\ dir' \in [Subs -> Contents] /\ stored' \in [Subs -> Contents]
        /\ dead' \in [Subs -> SUBSET Logins] /\ failures' \in 0 .. MaxFailures /\ met' \subseteq Subs
    BY <1>1, <2>1 DEF MarksOK
  <2> QED
    BY <2>4, <2>5, <2>6 DEF MarksOK
<1>11. ASSUME NEW old \in [Entries -> EntryType], Len(live) < MaxStarts,
              live' = Append(old, NewEntry(s, "loading", {})), NEW X \in SUBSET Entries, Record(s),
              sessions' \in [Subs -> 0 .. MaxStarts], met' = met \cup Connectings(X) \cup Flushings(s),
              UNCHANGED <<idle, drops, stored, dead, failures>>
       PROVE  MarksOK'
  <2>1. Entries \subseteq Entries'
    BY <1>9, <1>11
  <2>2. met' \subseteq Subs
    BY <1>1, <1>2, <1>3, <1>11 DEF MarksOK
  <2>3. /\ cooling' = cooling \cup {s} /\ expired' = expired \ {s} /\ exhausted' = exhausted \ {s}
        /\ dir' = [dir EXCEPT ![s] = Missing]
        /\ UNCHANGED <<idle, armed, leaving, hook, stored, dead, failures>>
    BY <1>11 DEF Record, drops
  <2>4. dir' \in [Subs -> Contents]
    BY <1>1, <1>4, <2>3 DEF MarksOK
  <2>5. sessions' \in [Subs -> 0 .. MaxStarts]
    BY <1>11
  <2> QED
    BY <1>1, <2>1, <2>2, <2>3, <2>4, <2>5 DEF MarksOK
<1>12. CASE StartEvicts(s)
  <2> DEFINE old == [x \in Entries |->
                      IF x \in Sweep THEN [live[x] EXCEPT !.client = Stopped(@)] ELSE live[x]]
  <2>1. old \in [Entries -> EntryType]
    <3>1. ASSUME NEW y \in Entries
          PROVE  (IF y \in Sweep THEN [live[y] EXCEPT !.client = Stopped(@)] ELSE live[y]) \in EntryType
      <4>1. live[y] \in EntryType
        BY <1>1
      <4> QED
        BY <4>1, StoppedTyped
    <3> QED
      BY <3>1
  <2>2. /\ Len(live) < MaxStarts /\ live' = Append(old, NewEntry(s, "loading", {})) /\ Record(s)
        /\ met' = met \cup Connectings(Sweep) \cup Flushings(s)
        /\ UNCHANGED <<idle, drops, stored, dead, failures>>
    BY <1>12 DEF StartEvicts
  <2>3. sessions' \in [Subs -> 0 .. MaxStarts]
    BY <1>1, <1>4, <1>12 DEF StartEvicts, MarksOK
  <2> HIDE DEF old
  <2> QED
    BY <1>3, <1>11, <2>1, <2>2, <2>3
<1>13. CASE StartFresh(s)
  <2> DEFINE x == sessions[s]
             old == IF x = Nothing THEN live ELSE Closed(x)
  <2>1. old \in [Entries -> EntryType]
    <3>1. CASE x = Nothing
      BY <1>1, <3>1
    <3>2. CASE x # Nothing
      <4>1. x \in Entries /\ live[x] \in EntryType
        BY <1>1, <3>2 DEF PoolIInv, ListedOK
      <4>2. [live[x] EXCEPT !.client = Stopped(@)] \in EntryType
        BY <4>1, StoppedTyped
      <4>3. old = [live EXCEPT ![x] = [live[x] EXCEPT !.client = Stopped(@)]]
        BY <1>1, <3>2, <4>1 DEF Closed
      <4> HIDE DEF old, x
      <4> QED
        BY <1>1, <4>1, <4>2, <4>3
    <3> QED
      BY <3>1, <3>2
  <2>2. /\ Len(live) < MaxStarts /\ live' = Append(old, NewEntry(s, "loading", {})) /\ Record(s)
        /\ met' = met \cup Connectings({x} \cap Entries) \cup Flushings(s)
        /\ UNCHANGED <<idle, drops, stored, dead, failures>>
    BY <1>13 DEF StartFresh
  <2>3. sessions' \in [Subs -> 0 .. MaxStarts]
    BY <1>1, <1>4, <1>13 DEF StartFresh, MarksOK
  <2> HIDE DEF old
  <2> QED
    BY <1>11, <2>1, <2>2, <2>3
<1> QED
  BY <1>5, <1>6, <1>7, <1>8, <1>10, <1>12, <1>13

-----------------------------------------------------------------------------
LEMMA PoolStart == PoolInit => PoolIInv
<1> SUFFICES ASSUME PoolInit PROVE PoolIInv
  OBVIOUS
<1>1. live = <<>> /\ EntriesOK /\ Entries = {}
  BY PoolAssumption DEF PoolInit, EntriesOK, Entries
<1>2. MarksOK
  <2>1. 0 \in 0 .. MaxStarts /\ 0 \in 0 .. MaxFailures /\ Old \in Logins
    BY PoolAssumption DEF Old, Logins
  <2>2. stored \in [Subs -> Contents] /\ dir \in [Subs -> Contents]
    BY <2>1 DEF PoolInit, Contents
  <2>3. dead \in [Subs -> SUBSET Logins] /\ sessions \in [Subs -> 0 .. MaxStarts]
    BY <2>1 DEF PoolInit, Nothing
  <2> QED
    BY <2>1, <2>2, <2>3 DEF PoolInit, MarksOK
<1>3. ListedOK
  BY DEF PoolInit, ListedOK
<1>4. ASSUME NEW s \in Subs PROVE Whole(s)
  <2>1. RowGoes(s) /\ Unlisted(s)
    BY <1>4 DEF PoolInit, RowGoes, Unlisted
  <2> QED
    BY <1>1, <2>1 DEF Whole
<1> QED
  BY <1>1, <1>2, <1>3, <1>4 DEF PoolIInv, AllSound, AllWhole

LEMMA PoolKept == PoolIInv /\ [PoolNext]_poolVars => PoolIInv'
<1> SUFFICES ASSUME PoolIInv, [PoolNext]_poolVars PROVE PoolIInv'
  OBVIOUS
<1>1. ASSUME NEW s \in Subs,
             \/ StartPaired(s) \/ StartAwaits(s) \/ StartEvicts(s) \/ StartFresh(s) \/ Me(s)
             \/ CoolDown(s) \/ Prune(s)
      PROVE  PoolIInv'
  <2>1. MarksOK'
    BY <1>1, MarksKeptByStart
  <2> QED
    BY <1>1, <2>1, StartPairedStep, StartAwaitsStep, StartEvictsStep, StartFreshStep, MeStep,
       CoolDownStep, PruneStep
<1>2. ASSUME NEW x \in Entries,
             \/ SocketMade(x) \/ SocketCloses(x) \/ Reconnect(x) \/ ConnectFails(x) \/ Scanned(x)
             \/ Open(x) \/ LoggedOut(x) \/ Qr(x) \/ Saved(x) \/ Write(x) \/ Left(x) \/ Evict(x)
             \/ LoadFails(x) \/ DeleteFails(x) \/ RowDeleted(x) \/ Loaded(x) \/ Evicted(x)
             \/ GoIdle(x)
      PROVE  PoolIInv'
  <2>1. MarksOK'
    BY <1>2, MarksKept
  <2> QED
    BY <1>2, <2>1, SocketMadeStep, SocketClosesStep, ReconnectStep, ConnectFailsStep, ScannedStep,
       OpenStep, LoggedOutStep, QrStep, SavedStep, WriteStep, LeftStep, EvictStep, LoadFailsStep,
       DeleteFailsStep, RowDeletedStep, LoadedStep, EvictedStep, GoIdleStep
<1>3. CASE UNCHANGED poolVars
  BY <1>3 DEF poolVars, PoolIInv, EntriesOK, MarksOK, ListedOK, AllSound, AllWhole, Sound, Whole,
       Agrees, StartsAlone, LeavesAlone, HasPlace, HasDirectory, SaysTrue, HooksAlone, RowGoes,
       Unlisted, Holds, Begins, SubOf, Entries
<1> QED
  BY <1>1, <1>2, <1>3 DEF PoolNext

LEMMA PoolSays == PoolIInv => PoolInv
<1> SUFFICES ASSUME PoolIInv PROVE PoolInv
  OBVIOUS
<1>1. ASSUME NEW x \in Entries, SubOf(x) \notin met
      PROVE  SubOf(x) \in Subs /\ Agrees(SubOf(x), x) /\ Unlisted(SubOf(x)) /\ x # Nothing
  BY <1>1, EntryFacts DEF PoolIInv, AllWhole, Whole
<1>2. PoolTypeOK
  BY DEF PoolIInv, EntriesOK, MarksOK, ListedOK, PoolTypeOK
<1>3. NoOrphan
  BY <1>1 DEF NoOrphan, Agrees, HasPlace, Holds, Listed
<1>4. PairedIsAlive
  BY <1>1 DEF PairedIsAlive, Agrees, SaysTrue, Holds, Listed
<1>5. PairedIsStored
  BY <1>1 DEF PairedIsStored, Agrees, SaysTrue, Listed
<1>6. DeadRowGoes
  BY DEF DeadRowGoes, PoolIInv, AllWhole, Whole, RowGoes
<1>7. ExhaustedIsClosed
  <2>1. SUFFICES ASSUME NEW x \in Entries, SubOf(x) \in exhausted, SubOf(x) \notin met,
                        live[x].client # "off"
                 PROVE  x \in leaving
    BY DEF ExhaustedIsClosed
  <2>2. sessions[SubOf(x)] = Nothing /\ x # Nothing
    BY <1>1, <2>1 DEF Unlisted
  <2> QED
    BY <1>1, <2>1, <2>2 DEF Agrees, HasPlace, Holds
<1> QED
  BY <1>2, <1>3, <1>4, <1>5, <1>6, <1>7 DEF PoolInv

\* Every client that is up, and every write to come, is of the entry the pool
\* lists for its sub or of one a drop() is still ending; what `me` answers of a sub
\* is so; an ended login's row is on its way out: for every number of subs, starts
\* and failures, of the subs that met none of the races noted in `met`.
THEOREM PoolHolds == PoolSpec => []PoolInv
<1>1. PoolSpec => []PoolIInv
  BY PoolStart, PoolKept, PTL DEF PoolSpec
<1> QED
  BY <1>1, PoolSays, PTL

LEMMA OnlyWritesPut ==
  ASSUME PoolIInv, [PoolNext]_poolVars
  PROVE  \/ stored' = stored /\ armed \subseteq armed'
         \/ \E x \in Entries : Write(x)
         \/ \E x \in Entries : armed \subseteq armed' /\ stored' = [stored EXCEPT ![SubOf(x)] = Missing]
<1>1. ASSUME NEW s \in Subs,
             \/ StartPaired(s) \/ StartAwaits(s) \/ StartEvicts(s) \/ StartFresh(s) \/ Me(s)
             \/ CoolDown(s) \/ Prune(s)
      PROVE  stored' = stored /\ armed' = armed
  BY <1>1 DEF StartPaired, StartAwaits, StartEvicts, StartFresh, Me, CoolDown, Prune, drops, creds
<1>2. ASSUME NEW x \in Entries,
             \/ SocketMade(x) \/ SocketCloses(x) \/ Reconnect(x) \/ ConnectFails(x) \/ Scanned(x)
             \/ Open(x) \/ LoggedOut(x) \/ Qr(x) \/ Saved(x) \/ Left(x) \/ Evict(x)
             \/ LoadFails(x) \/ DeleteFails(x) \/ Loaded(x) \/ Evicted(x) \/ GoIdle(x)
      PROVE  stored' = stored /\ armed \subseteq armed'
  BY <1>2 DEF SocketMade, SocketCloses, Reconnect, ConnectFails, Scanned, Open, LoggedOut, Qr, Saved,
       Left, Evict, LoadFails, DeleteFails, Loaded, Evicted, GoIdle, CredsSaved, drops, creds
<1>3. ASSUME NEW x \in Entries, RowDeleted(x)
      PROVE  armed \subseteq armed' /\ stored' = [stored EXCEPT ![SubOf(x)] = Missing]
  BY <1>3 DEF RowDeleted
<1>4. CASE UNCHANGED poolVars
  BY <1>4 DEF poolVars
<1> QED
  BY <1>1, <1>2, <1>3, <1>4 DEF PoolNext

LEMMA RowsAreRight ==
  ASSUME PoolIInv, PoolIInv', [PoolNext]_poolVars
  PROVE  /\ \A s \in Subs :
              stored'[s] \in Logins \ {stored[s]} /\ s \notin met
                => \E x \in Entries : live[x].opened /\ live[x].login = stored'[s]
         /\ \A x \in armed \ armed' :
              live[x].login \notin dead[SubOf(x)] /\ SubOf(x) \notin met
                => stored'[SubOf(x)] = live[x].login \/ failures' > 0
<1>1. Missing \notin Logins /\ stored \in [Subs -> Contents] /\ armed \subseteq Entries
  BY PoolAssumption DEF Missing, Logins, Old, PoolIInv, MarksOK
<1>2. CASE stored' = stored /\ armed \subseteq armed'
  BY <1>2
<1>3. ASSUME NEW y \in Entries, armed \subseteq armed', stored' = [stored EXCEPT ![SubOf(y)] = Missing]
      PROVE  \A s \in Subs : stored'[s] \notin Logins \ {stored[s]}
  BY <1>1, <1>3
<1>4. ASSUME NEW y \in Entries, Write(y)
      PROVE  /\ \A s \in Subs :
                  stored'[s] \in Logins \ {stored[s]} /\ s \notin met
                    => \E x \in Entries : live[x].opened /\ live[x].login = stored'[s]
             /\ \A x \in armed \ armed' :
                  live[x].login \notin dead[SubOf(x)] /\ SubOf(x) \notin met
                    => stored'[SubOf(x)] = live[x].login \/ failures' > 0
  <2>1. PICK t \in Subs : SubOf(y) = t
    BY EntryFacts
  <2>2. y \in armed /\ armed' = armed \ {y} /\ live[y].opened = TRUE
    BY <1>4, EntryFacts DEF Write, Sound
  <2>3. ASSUME t \notin met
        PROVE  dir[t] = live[y].login \/ (dir[t] = Missing /\ live[y].login \in dead[t])
    <3>1. dir[t] = live[y].login \/ (dir[t] = Missing /\ y \in hook)
      BY <2>1, <2>2, <2>3, SubFacts DEF Agrees, HasDirectory
    <3>2. y \in hook => live[y].login \in dead[t]
      BY <2>1, EntryFacts DEF Sound
    <3> QED
      BY <3>1, <3>2
  <2>4. live[y].login # Missing
    <3>1. live[y] \in EntryType
      BY EntryFacts
    <3> QED
      BY <1>1, <3>1 DEF EntryType, Missing, Nothing
  <2>5. \/ dir[t] # Missing /\ stored' = [stored EXCEPT ![t] = dir[t]]
        \/ dir[t] = Missing /\ stored' = stored
        \/ failures' > 0 /\ stored' = stored
    <3>1. failures \in Nat
      BY PoolAssumption DEF PoolIInv, MarksOK
    <3> QED
      BY <1>4, <2>1, <3>1 DEF Write
  <2>6. ASSUME NEW s \in Subs, stored'[s] \in Logins \ {stored[s]}, s \notin met
        PROVE  \E x \in Entries : live[x].opened /\ live[x].login = stored'[s]
    <3>1. s = t /\ stored'[s] = dir[t] /\ dir[t] # Missing
      BY <1>1, <2>5, <2>6
    <3>2. live[y].login = stored'[s]
      BY <2>3, <2>6, <3>1
    <3> QED
      BY <2>2, <3>2
  <2>7. ASSUME NEW x \in armed \ armed', live[x].login \notin dead[SubOf(x)], SubOf(x) \notin met
        PROVE  stored'[SubOf(x)] = live[x].login \/ failures' > 0
    <3>1. x = y
      BY <2>2, <2>7
    <3>2. dir[t] = live[y].login
      BY <2>1, <2>3, <2>7, <3>1
    <3>3. failures' > 0 \/ stored'[t] = dir[t]
      BY <1>1, <2>4, <2>5, <3>2
    <3> QED
      BY <2>1, <3>1, <3>2, <3>3
  <2> QED
    BY <2>6, <2>7
<1>5. CASE \E y \in Entries : Write(y)
  BY <1>4, <1>5
<1>6. CASE \E y \in Entries : armed \subseteq armed' /\ stored' = [stored EXCEPT ![SubOf(y)] = Missing]
  BY <1>3, <1>6
<1> QED
  BY <1>2, <1>5, <1>6, OnlyWritesPut

\* A row is put only by a login that has been open, and the write an entry owes
\* puts that entry's login unless the login was ended or the store failed, for
\* the subs that met none of those races.
THEOREM RowsLand == PoolSpec => RowsComeRight
<1> DEFINE after == \A s \in Subs :
                      stored'[s] \in Logins \ {stored[s]} /\ s \notin met
                        => \E x \in Entries : live[x].opened /\ live[x].login = stored'[s]
           lands == \A x \in armed \ armed' :
                      live[x].login \notin dead[SubOf(x)] /\ SubOf(x) \notin met
                        => stored'[SubOf(x)] = live[x].login \/ failures' > 0
<1>1. PoolIInv /\ PoolIInv' /\ [PoolNext]_poolVars => after /\ lands
  BY RowsAreRight
<1> HIDE DEF after, lands
<1>2. PoolSpec => [][after]_poolVars /\ [][lands]_poolVars
  BY <1>1, PoolStart, PoolKept, PTL DEF PoolSpec
<1> QED
  BY <1>2 DEF RowsComeRight, RowAfterOpen, FirstRowLands, after, lands
===============================================================================
