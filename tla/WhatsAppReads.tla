----------------------------- MODULE WhatsAppReads -----------------------------
(***************************************************************************)
(* Ticks and read receipts of one chat of the WhatsApp connector           *)
(* (connectors/whatsapp-web/src/baileys-client.ts, db-writer.ts): the      *)
(* status updates WhatsApp sends for its messages, each written by a query *)
(* nobody waits for, and markAsRead(), which lists the unread messages,    *)
(* sends their receipts and marks them read, while messages go on coming.  *)
(*                                                                         *)
(* A message's number is its timestamp.  `messages.is_deleted`, which      *)
(* mcp-server sets, and the avatars are left out.                          *)
(***************************************************************************)
EXTENDS Integers, FiniteSets

CONSTANTS Inbound,       \* of each message of the chat: is it the other side's?
          ReadCalls,     \* calls of markAsRead() at a time
          ReadLimit,     \* MARK_READ_MAX_KEYS
          MaxReports     \* bound: updates WhatsApp sends

ASSUME ReadsAssumption ==
  /\ ReadLimit \in Nat \ {0} /\ MaxReports \in Nat
  /\ \A m \in DOMAIN Inbound : m \in Nat /\ Inbound[m] \in BOOLEAN

VARIABLES
  tick,        \* `messages.status` of each message, "none" without a row
  keyed,       \* the messages with a row in whatsapp_message_keys
  badge,       \* does the conversation's row count unread messages?
  queries,     \* setMessageStatus() calls whose query has not run
  reports,     \* updates sent so far
  reader,      \* the calls of markAsRead()
  receipted,   \* messages a receipt has been sent for
  readThere,   \* messages WhatsApp has reported as read
  excused      \* messages that came after a newer one, or were over the limit

chatRows  == <<tick, keyed, badge>>
chatTold  == <<receipted, readThere, excused>>
readsVars == <<chatRows, queries, reports, reader, chatTold>>

ChatMsgs == DOMAIN Inbound
Ranked   == {"sent", "delivered", "read"}
Rank     == [pending |-> 1, sent |-> 2, delivered |-> 3, read |-> 4, deleted |-> 0, failed |-> 0]
TickNames == DOMAIN Rank
Rows     == {m \in ChatMsgs : tick[m] # "none"}
Resting  == [at |-> "idle", keys |-> {}]

ReadsInit ==
  /\ tick = [m \in ChatMsgs |-> "none"] /\ keyed = {} /\ badge = FALSE
  /\ queries = {} /\ reports = 0
  /\ reader = [c \in ReadCalls |-> Resting]
  /\ receipted = {} /\ readThere = {} /\ excused = {}

(***************************************************************************)
(* Messages come, live or from the history, their handlers interleaved.    *)
(***************************************************************************)
\* storeMessage(): a new row has the column's default.
RowStored(m) ==
  /\ tick[m] = "none" /\ tick' = [tick EXCEPT ![m] = "sent"]
  /\ UNCHANGED <<keyed, badge, queries, reports, reader, chatTold>>

\* storeMessageKey(), after another await; it may fail, and never come.
KeyStored(m) ==
  /\ m \in Rows \ keyed /\ keyed' = keyed \cup {m}
  /\ excused' = IF \E n \in keyed : n > m THEN excused \cup {m} ELSE excused
  /\ UNCHANGED <<tick, badge, queries, reports, reader, receipted, readThere>>

(***************************************************************************)
(* messages.update, message-receipt.update and chats.update.               *)
(***************************************************************************)
Reported(m, status) ==
  /\ reports < MaxReports /\ reports' = reports + 1
  /\ queries' = queries \cup {<<m, status>>}
  /\ readThere' = IF status = "read" THEN readThere \cup {m} ELSE readThere
  /\ UNCHANGED <<chatRows, reader, receipted, excused>>

BadgeReported ==
  /\ badge' \in BOOLEAN
  /\ UNCHANGED <<tick, keyed, queries, reports, reader, chatTold>>

\* Mutated: the row has what came last.
Overwritten(old, status) == status

\* setMessageStatus(): deleted and failed overwrite, a rank only a lower one.
Ticked(old, status) ==
  IF Rank[status] = 0 \/ Rank[status] > Rank[old] THEN status ELSE old

\* The queries of several updates run in any order; without the row one does nothing.
StatusSet(q) ==
  /\ queries' = queries \ {q}
  /\ tick' = IF q[1] \in Rows THEN [tick EXCEPT ![q[1]] = Ticked(@, q[2])] ELSE tick
  /\ UNCHANGED <<keyed, badge, reports, reader, chatTold>>

StatusFails(q) ==
  /\ queries' = queries \ {q}
  /\ UNCHANGED <<chatRows, reports, reader, chatTold>>

(***************************************************************************)
(* markAsRead().                                                           *)
(***************************************************************************)
Reads(c, at, keys) == reader' = [reader EXCEPT ![c] = [at |-> at, keys |-> keys]]

\* Our last message, or the last of theirs that was read.
Watermark == {m \in Rows : ~Inbound[m] \/ tick[m] = "read"}

Unread ==
  {m \in keyed : Inbound[m] /\ tick[m] # "read" /\ \A w \in Watermark : m > w}

Newest(S) == {m \in S : Cardinality({n \in S : n > m}) < ReadLimit}

LoadUnread(c) ==
  /\ reader[c].at = "idle" /\ Unread # {}
  /\ Reads(c, "loaded", Newest(Unread))
  /\ excused' = excused \cup (Unread \ Newest(Unread))
  /\ UNCHANGED <<chatRows, queries, reports, receipted, readThere>>

\* Nothing is unread: a receipt for the latest message all the same, and no mark.
LatestAgain(c) ==
  /\ reader[c].at = "idle" /\ Unread = {}
  /\ receipted' = receipted \cup {m \in Rows : \A n \in Rows : n <= m}
  /\ badge' = (badge /\ Rows = {})
  /\ UNCHANGED <<tick, keyed, queries, reports, reader, readThere, excused>>

ReceiptsSent(c) ==
  /\ reader[c].at = "loaded"
  /\ receipted' = receipted \cup reader[c].keys
  /\ Reads(c, "sent", reader[c].keys)
  /\ UNCHANGED <<chatRows, queries, reports, readThere, excused>>

\* readMessages() throws, and with it the call.
ReceiptsFail(c) ==
  /\ reader[c].at = "loaded" /\ Reads(c, "idle", {})
  /\ UNCHANGED <<chatRows, queries, reports, chatTold>>

\* Mutated: whatever the chat has by now is marked.
MarkedAll(keys) == [m \in ChatMsgs |-> IF m \in keyed /\ Inbound[m] THEN "read" ELSE tick[m]]

\* markMessagesRead()
Marked(keys) == [m \in ChatMsgs |-> IF m \in keys THEN "read" ELSE tick[m]]

\* A failed mark is only logged, and the badge goes in either case.
CallReturns(c) ==
  /\ reader[c].at = "sent" /\ Reads(c, "idle", {})
  /\ tick' \in {tick, Marked(reader[c].keys)}
  /\ badge' = FALSE
  /\ UNCHANGED <<keyed, queries, reports, chatTold>>

ReadsNext ==
  \/ \E m \in ChatMsgs :
       \/ RowStored(m) \/ KeyStored(m)
       \/ \E status \in {"delivered", "read", "deleted"} : Reported(m, status)
  \/ BadgeReported
  \/ \E q \in queries : StatusSet(q) \/ StatusFails(q)
  \/ \E c \in ReadCalls :
       LoadUnread(c) \/ LatestAgain(c) \/ ReceiptsSent(c) \/ ReceiptsFail(c) \/ CallReturns(c)

ReadsSpec == ReadsInit /\ [][ReadsNext]_readsVars

-----------------------------------------------------------------------------
ReadsTypeOK ==
  /\ tick \in [ChatMsgs -> TickNames \cup {"none"}]
  /\ keyed \subseteq Rows /\ badge \in BOOLEAN
  /\ queries \subseteq ChatMsgs \X TickNames /\ reports \in 0 .. MaxReports
  /\ reader \in [ReadCalls -> [at : {"idle", "loaded", "sent"}, keys : SUBSET keyed]]
  /\ receipted \subseteq Rows /\ readThere \subseteq ChatMsgs /\ excused \subseteq Rows

\* "Never downgrades (read > delivered > sent > pending)" (db-writer.ts:597): whatever the
\* order in which the queries of the updates and of markAsRead() run.
TicksNeverFall ==
  [][\A m \in ChatMsgs :
       tick[m] \in Ranked /\ tick'[m] \in Ranked => Rank[tick'[m]] >= Rank[tick[m]]]_readsVars

\* The read watermark, which hides everything older for good, never passes a message of
\* theirs nobody was told is read: one that comes while a call is under way is still listed
\* for the next, unless we have answered or read a newer one elsewhere.  (Not so for one over
\* the limit, or whose key was stored after that of a newer one.)
NoneLeftBehind ==
  \A m \in keyed \ (receipted \cup readThere \cup excused) :
    Inbound[m] =>
      m \in Unread \/ \E n \in Rows : n > m /\ (~Inbound[n] \/ n \in readThere)

\* Types, and no unread message is left behind the watermark.
ReadsInv == ReadsTypeOK /\ NoneLeftBehind
================================================================================
