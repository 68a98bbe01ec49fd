---------------------------- MODULE WhatsAppHistory ----------------------------
(***************************************************************************)
(* The history imports of the WhatsApp connector                           *)
(* (connectors/whatsapp-web/src/baileys-client.ts, db-writer.ts): the      *)
(* burst that each `open` of the socket may start, the backfill a caller   *)
(* asks for, the messaging-history.set batches they bring in, handled next *)
(* to each other and to live messages, and the progress that               *)
(* whatsapp_sync_state keeps of it.                                        *)
(*                                                                         *)
(* A message is its chat and its timestamp, both numbers.  Which messages  *)
(* a batch carries is up to WhatsApp.  Of the progress only the count is   *)
(* kept; a message key that could not be stored is left out.               *)
(***************************************************************************)
EXTENDS Integers, FiniteSets, FiniteSetsExt

CONSTANTS Texts,          \* the messages there are
          SyncOnLogin,    \* WA_HISTORY_SYNC_ON_LOGIN
          WindowStart,    \* the newest time a burst's anchor may have
          BatchSize,      \* messages asked for in one request
          MaxMessages,    \* WA_RECONNECT_BACKFILL_MAX_MESSAGES
          Bursts,         \* calls of backfillReconnectWindow() at a time
          MaxChats,       \* backfillHistory(): chats of a batch
          MaxBatches,     \* backfillHistory(): batches per chat
          Syncs,          \* history.set handlers at a time
          MaxSyncs,       \* bound: batches WhatsApp sends
          MaxAsks         \* bound: bursts and backfills started

ASSUME HistoryAssumption ==
  /\ Texts \subseteq Nat \X (Nat \ {0}) /\ IsFiniteSet(Texts) /\ IsFiniteSet(Syncs)
  /\ WindowStart \in Nat
  /\ {BatchSize, MaxMessages, MaxChats, MaxBatches} \subseteq Nat \ {0}
  /\ {MaxSyncs, MaxAsks} \subseteq Nat /\ SyncOnLogin \in BOOLEAN

VARIABLES
  origin,      \* of each message: the metadata source of its row, "none" without one
  imported,    \* total_imported of each chat's row of whatsapp_sync_state
  listening,   \* is historyBackfillRequestedUntil ahead?
  cooled,      \* are 60 s over since lastReconnectBackfillAt?
  inFlight,    \* reconnectBackfillInFlight
  burst,       \* the calls of backfillReconnectWindow()
  backfill,    \* the call of backfillHistory()
  sync,        \* the history.set handlers
  wanted,      \* messages the bursts under way have asked for
  uncounted,   \* of each chat: rows whose count was never recorded
  syncs, asks  \* bounded

historyRows == <<origin, imported>>
askers      == <<listening, cooled, inFlight, burst, backfill, wanted>>
historyVars == <<historyRows, askers, sync, uncounted, syncs, asks>>

Chats     == {m[1] : m \in Texts}
BurstIdle == [at |-> "idle", left |-> {}, spent |-> 0]
CallIdle  == [at |-> "idle", left |-> {}, batch |-> 0]
SyncIdle  == [todo |-> {}, seen |-> {}, new |-> {}]

HistoryInit ==
  /\ origin = [m \in Texts |-> "none"]
  /\ imported = [c \in Chats |-> 0]
  /\ listening = FALSE /\ cooled = TRUE /\ inFlight = FALSE
  /\ burst = [b \in Bursts |-> BurstIdle] /\ backfill = CallIdle
  /\ sync = [h \in Syncs |-> SyncIdle]
  /\ wanted = 0 /\ uncounted = [c \in Chats |-> 0]
  /\ syncs = 0 /\ asks = 0

(***************************************************************************)
(* backfillReconnectWindow(), called at every `open`.                      *)
(***************************************************************************)
Asking(b, at, left, spent) ==
  burst' = [burst EXCEPT ![b] = [at |-> at, left |-> left, spent |-> spent]]

BurstStarts(b) ==
  /\ asks < MaxAsks /\ burst[b].at = "idle"
  /\ ~SyncOnLogin /\ ~inFlight /\ cooled
  /\ inFlight' = TRUE /\ cooled' = FALSE /\ asks' = asks + 1
  /\ Asking(b, "loading", {}, 0)
  /\ UNCHANGED <<historyRows, listening, backfill, wanted, sync, uncounted, syncs>>

\* The rows of whatsapp_message_keys.
Keyed == {m \in Texts : origin[m] # "none"}

\* Of each chat the newest message before the window that has a key.
Anchors ==
  {m \in Keyed : m[2] <= WindowStart /\ \A n \in Keyed : n[1] = m[1] /\ n[2] <= WindowStart => n[2] <= m[2]}

BurstLoads(b) ==
  /\ burst[b].at = "loading"
  /\ Asking(b, "next", Anchors, 0)
  /\ UNCHANGED <<historyRows, listening, cooled, inFlight, backfill, wanted, sync, uncounted, syncs, asks>>

FirstOf(S) == CHOOSE m \in S : \A n \in S : m[1] <= n[1]

Portion(spent) == IF BatchSize < MaxMessages - spent THEN BatchSize ELSE MaxMessages - spent

\* The window is opened before each fetchMessageHistory().
BurstAsks(b) ==
  /\ burst[b].at = "next" /\ burst[b].left # {} /\ burst[b].spent < MaxMessages
  /\ listening' = TRUE
  /\ wanted' = wanted + Portion(burst[b].spent)
  /\ Asking(b, "asked", burst[b].left, burst[b].spent)
  /\ UNCHANGED <<historyRows, cooled, inFlight, backfill, sync, uncounted, syncs, asks>>

BurstRecords(b) ==
  /\ burst[b].at = "asked"
  /\ Asking(b, "next", burst[b].left \ {FirstOf(burst[b].left)},
            burst[b].spent + Portion(burst[b].spent))
  /\ UNCHANGED <<historyRows, listening, cooled, inFlight, backfill, wanted, sync, uncounted, syncs, asks>>

\* The anchors or the budget are used up, or one of the awaits throws: `finally` in each case.
BurstEnds(b) ==
  /\ \/ burst[b].at \in {"loading", "asked"}
     \/ burst[b].at = "next" /\ (burst[b].left = {} \/ burst[b].spent >= MaxMessages)
  /\ burst' = [burst EXCEPT ![b] = BurstIdle] /\ inFlight' = FALSE /\ wanted' = 0
  /\ UNCHANGED <<historyRows, listening, cooled, backfill, sync, uncounted, syncs, asks>>

CooldownPasses ==
  /\ ~cooled /\ cooled' = TRUE
  /\ UNCHANGED <<historyRows, listening, inFlight, burst, backfill, wanted, sync, uncounted, syncs, asks>>

WindowCloses ==
  /\ listening /\ listening' = FALSE
  /\ UNCHANGED <<historyRows, cooled, inFlight, burst, backfill, wanted, sync, uncounted, syncs, asks>>

(***************************************************************************)
(* backfillHistory(), POST /history/backfill.                              *)
(***************************************************************************)
\* The oldest key of each chat, of the first MaxChats chats.
OldestKeys ==
  LET first == {m \in Keyed : \A n \in Keyed : n[1] = m[1] => m[2] <= n[2]}
  IN  {m \in first : Cardinality({n \in first : n[1] < m[1]}) < MaxChats}

BackfillStarts ==
  /\ asks < MaxAsks /\ asks' = asks + 1
  /\ backfill.at = "idle" /\ OldestKeys # {}
  /\ backfill' = [at |-> "next", left |-> OldestKeys, batch |-> 1]
  /\ UNCHANGED <<historyRows, listening, cooled, inFlight, burst, wanted, sync, uncounted, syncs>>

BackfillAsks ==
  /\ backfill.at = "next" /\ backfill.left # {}
  /\ listening' = TRUE /\ backfill' = [backfill EXCEPT !.at = "asked"]
  /\ UNCHANGED <<historyRows, cooled, inFlight, burst, wanted, sync, uncounted, syncs, asks>>

BackfillRecords ==
  /\ backfill.at = "asked"
  /\ backfill' = [backfill EXCEPT !.at = "next", !.left = @ \ {FirstOf(@)}]
  /\ UNCHANGED <<historyRows, listening, cooled, inFlight, burst, wanted, sync, uncounted, syncs, asks>>

\* 1.5 s later the oldest keys are loaded again, with what came in meanwhile.
BackfillAgain ==
  /\ backfill.at = "next" /\ backfill.left = {} /\ backfill.batch < MaxBatches
  /\ backfill' = [at |-> "next", left |-> OldestKeys, batch |-> backfill.batch + 1]
  /\ UNCHANGED <<historyRows, listening, cooled, inFlight, burst, wanted, sync, uncounted, syncs, asks>>

\* After the last batch, or because an await throws.
BackfillEnds ==
  /\ backfill.at = "asked" \/ (backfill.at = "next" /\ backfill.left = {})
  /\ backfill' = CallIdle
  /\ UNCHANGED <<historyRows, listening, cooled, inFlight, burst, wanted, sync, uncounted, syncs, asks>>

(***************************************************************************)
(* messaging-history.set, and the live messages that come meanwhile.       *)
(***************************************************************************)
HistorySet(h, texts) ==
  /\ syncs < MaxSyncs /\ sync[h] = SyncIdle
  /\ SyncOnLogin \/ listening
  /\ syncs' = syncs + 1
  /\ sync' = [sync EXCEPT ![h].todo = texts]
  /\ UNCHANGED <<historyRows, askers, uncounted, asks>>

\* ingestMessage(): the row unless there is one.
Stored(m, source) ==
  origin' = IF origin[m] = "none" THEN [origin EXCEPT ![m] = source] ELSE origin

\* Mutated: `waMessage` is there whether or not the row is new.
Handled(m) == {m}

Inserted(m) == IF origin[m] = "none" THEN {m} ELSE {}

HistoryIngested(h, m) ==
  /\ m \in sync[h].todo /\ Stored(m, "history")
  /\ sync' = [sync EXCEPT ![h] = [todo |-> @.todo \ {m}, seen |-> @.seen \cup {m},
                                  new |-> @.new \cup Inserted(m)]]
  /\ UNCHANGED <<imported, askers, uncounted, syncs, asks>>

\* Thrown before the row is stored, or no message to store: the loop goes on.
HistorySkipped(h, m) ==
  /\ m \in sync[h].todo /\ sync' = [sync EXCEPT ![h].todo = @ \ {m}]
  /\ UNCHANGED <<historyRows, askers, uncounted, syncs, asks>>

LiveIngested(m) ==
  /\ origin[m] = "none" /\ Stored(m, "live")
  /\ UNCHANGED <<imported, askers, sync, uncounted, syncs, asks>>

InChat(S, c) == {m \in S : m[1] = c}

Forget(h, c) ==
  sync' = [sync EXCEPT ![h] = [todo |-> @.todo, seen |-> @.seen \ InChat(@.seen, c),
                               new |-> @.new \ InChat(@.new, c)]]

\* recordHistorySyncProgress()
ChatRecorded(h, c) ==
  /\ sync[h].todo = {} /\ InChat(sync[h].seen, c) # {}
  /\ imported' = [imported EXCEPT ![c] = @ + Cardinality(InChat(sync[h].new, c))]
  /\ Forget(h, c)
  /\ UNCHANGED <<origin, askers, uncounted, syncs, asks>>

ChatNotRecorded(h, c) ==
  /\ sync[h].todo = {} /\ InChat(sync[h].seen, c) # {}
  /\ uncounted' = [uncounted EXCEPT ![c] = @ + Cardinality(InChat(sync[h].new, c))]
  /\ Forget(h, c)
  /\ UNCHANGED <<historyRows, askers, syncs, asks>>

InHand(c) == Cardinality({p \in Syncs \X Texts : p[2] \in InChat(sync[p[1]].new, c)})

Crash ==
  /\ listening' = FALSE /\ cooled' = TRUE /\ inFlight' = FALSE /\ wanted' = 0
  /\ burst' = [b \in Bursts |-> BurstIdle] /\ backfill' = CallIdle
  /\ sync' = [h \in Syncs |-> SyncIdle]
  /\ uncounted' = [c \in Chats |-> uncounted[c] + InHand(c)]
  /\ UNCHANGED <<historyRows, syncs, asks>>

HistoryNext ==
  \/ \E b \in Bursts :
       BurstStarts(b) \/ BurstLoads(b) \/ BurstAsks(b) \/ BurstRecords(b) \/ BurstEnds(b)
  \/ BackfillStarts \/ BackfillAsks \/ BackfillRecords \/ BackfillAgain \/ BackfillEnds
  \/ CooldownPasses \/ WindowCloses \/ Crash
  \/ \E m \in Texts : LiveIngested(m)
  \/ \E h \in Syncs :
       \/ \E texts \in kSubset(2, Texts) : HistorySet(h, texts)
       \/ \E m \in Texts : HistoryIngested(h, m) \/ HistorySkipped(h, m)
       \/ \E c \in Chats : ChatRecorded(h, c) \/ ChatNotRecorded(h, c)

HistorySpec == HistoryInit /\ [][HistoryNext]_historyVars

-----------------------------------------------------------------------------
HistoryTypeOK ==
  /\ origin \in [Texts -> {"none", "live", "history"}]
  /\ {listening, cooled, inFlight} \subseteq BOOLEAN
  /\ burst \in [Bursts -> [at : {"idle", "loading", "next", "asked"}, left : SUBSET Keyed, spent : Nat]]
  /\ backfill \in [at : {"idle", "next", "asked"}, left : SUBSET Keyed, batch : 0 .. MaxBatches]
  /\ sync \in [Syncs -> [todo : SUBSET Texts, seen : SUBSET Texts, new : SUBSET Texts]]
  /\ wanted \in Nat /\ {imported, uncounted} \subseteq [Chats -> Nat]
  /\ syncs \in 0 .. MaxSyncs /\ asks \in 0 .. MaxAsks

\* total_imported is the number of the chat's rows that a history batch inserted: batches that
\* overlap, handled next to each other and to live messages, count a row once.  (Rows of a
\* handler that has not recorded them yet, or whose record failed or died, are missing.)
ImportedIsCounted ==
  \A c \in Chats :
    imported[c] + InHand(c) + uncounted[c]
      = Cardinality({m \in InChat(Texts, c) : origin[m] = "history"})

\* "Requests stop as soon as the total asked reaches WA_RECONNECT_BACKFILL_MAX_MESSAGES", and
\* "flapping sockets ask for history once, not once per `open`" (baileys-client.ts:2427-2431):
\* one burst asks at a time, even one that outlives the cooldown.
BurstBound ==
  /\ wanted <= MaxMessages
  /\ Cardinality({b \in Bursts : burst[b].at # "idle"}) <= 1

\* Types; what the imports count and ask for is what they bring in.
HistoryInv == HistoryTypeOK /\ ImportedIsCounted /\ BurstBound
================================================================================
