----------------------------- MODULE WhatsAppRetry -----------------------------
(***************************************************************************)
(* Where the WhatsApp connector finds a message again, to answer a device  *)
(* that could not read it, to quote it or to forward it                    *)
(* (connectors/whatsapp-web/src/baileys-client.ts,                         *)
(* durable-message-store.ts): two caches in memory, both bounded, the copy *)
(* in whatsapp_message_payloads, a table that may not be there yet, and,   *)
(* for a retry only, the text of the `messages` row.                       *)
(*                                                                         *)
(* Message contents are kept as what they are worth: the message itself,   *)
(* its durable copy, or the text made of its row.                          *)
(***************************************************************************)
EXTENDS Integers, Sequences, SequencesExt

CONSTANTS Notes,        \* messages of one chat
          KindOf,       \* "text", "media" or "protocol", which has no row and no copy
          CacheMax,     \* entries of retryMessageCache, two for a message
          KeyCacheMax,  \* KEY_CACHE_MAX
          Lookups       \* calls that look for a message at a time

ASSUME RetryAssumption ==
  /\ {CacheMax, KeyCacheMax} \subseteq Nat \ {0}
  /\ KindOf \in [Notes -> {"text", "media", "protocol"}]

VARIABLES
  cache,       \* retryMessageCache, in the order of insertion
  keyCache,    \* keyCache: the messages, in the order of insertion
  handling,    \* messages being ingested or just sent: what is still to store
  rowOf,       \* the messages with a row in `messages`
  copyOf,      \* the messages with a row in whatsapp_message_payloads
  migrated,    \* is the table there?
  blind,       \* tableKnownMissing()
  lookup,      \* the calls
  answer       \* what the last call that ended found

retryMemory == <<cache, keyCache, blind>>
retryRows   == <<rowOf, copyOf, migrated>>
retryVars   == <<retryMemory, handling, retryRows, lookup, answer>>

NoLookup == [at |-> "idle"]
NoAnswer == [found |-> "unasked"]

RetryInit ==
  /\ cache = <<>> /\ keyCache = <<>> /\ blind = FALSE
  /\ handling = [n \in Notes |-> "nothing"]
  /\ rowOf = {} /\ copyOf = {} /\ migrated = FALSE
  /\ lookup = [l \in Lookups |-> NoLookup] /\ answer = NoAnswer

(***************************************************************************)
(* The caches.  An entry has a key, by the message's id alone or by chat   *)
(* and id, and a value.                                                    *)
(***************************************************************************)
Full(s, max) == IF Len(s) >= max THEN Tail(s) ELSE s

\* TtlCache.set(): the first entry goes from a full cache, and a key keeps its place.
CacheSet(s, key, value) ==
  LET room == Full(s, CacheMax)
      new  == [key |-> key, value |-> value]
  IN  IF \E i \in DOMAIN room : room[i].key = key
      THEN [i \in DOMAIN room |-> IF room[i].key = key THEN new ELSE room[i]]
      ELSE Append(room, new)

\* rememberMessageForRetry(), and what getMessageForRetry() keeps.
Remember(s, n, withChat, value) ==
  LET byId == CacheSet(s, <<"id", n>>, value)
  IN  IF withChat THEN CacheSet(byId, <<"chat", n>>, value) ELSE byId

\* rememberKey()
RememberKey(n) ==
  LET room == Full(keyCache, KeyCacheMax)
  IN  IF Contains(room, n) THEN room ELSE Append(room, n)

Cached(key) == {cache[i].value : i \in {j \in DOMAIN cache : cache[j].key = key}}

\* convertMessage(): a key update is no message.
Converts(n) == KindOf[n] # "protocol"

(***************************************************************************)
(* A message comes, or goes out: it is remembered before the first await,  *)
(* its row and its copy are stored after.  The row of one we send comes    *)
(* with its echo.                                                          *)
(***************************************************************************)
Comes(n) ==
  /\ handling[n] = "nothing"
  /\ cache' = Remember(cache, n, TRUE, "itself")
  /\ IF Converts(n)
     THEN keyCache' = RememberKey(n) /\ handling' = [handling EXCEPT ![n] = "row"]
     ELSE UNCHANGED <<keyCache, handling>>
  /\ UNCHANGED <<blind, retryRows, lookup, answer>>

GoesOut(n) ==
  /\ handling[n] = "nothing" /\ Converts(n)
  /\ cache' = Remember(cache, n, TRUE, "itself")
  /\ keyCache' = RememberKey(n)
  /\ handling' = [handling EXCEPT ![n] = "copy"]
  /\ UNCHANGED <<blind, retryRows, lookup, answer>>

RowComes(n) ==
  /\ handling[n] = "row"
  /\ rowOf' = rowOf \cup {n} /\ handling' = [handling EXCEPT ![n] = "copy"]
  /\ UNCHANGED <<retryMemory, copyOf, migrated, lookup, answer>>

\* ensure*() or storeMessage() throws.
RowDoesNotCome(n) ==
  /\ handling[n] = "row" /\ handling' = [handling EXCEPT ![n] = "nothing"]
  /\ UNCHANGED <<retryMemory, retryRows, lookup, answer>>

\* storeRawWAMessage(): a query that finds the table missing stops all for 5 minutes.
CopyStored(n) ==
  /\ handling[n] = "copy" /\ ~blind
  /\ handling' = [handling EXCEPT ![n] = "nothing"]
  /\ copyOf' = IF migrated THEN copyOf \cup {n} ELSE copyOf
  /\ blind' = ~migrated
  /\ UNCHANGED <<cache, keyCache, rowOf, migrated, lookup, answer>>

\* Too old a history, over the cap, a failed query, or the table is known to be missing.
CopyNotStored(n) ==
  /\ handling[n] = "copy" /\ handling' = [handling EXCEPT ![n] = "nothing"]
  /\ UNCHANGED <<retryMemory, retryRows, lookup, answer>>

(***************************************************************************)
(* getMessageForRetry(), with or without a remoteJid in its key, and       *)
(* buildQuotedFromId() and forwardMessage().                               *)
(***************************************************************************)
Uses == {"retry", "retry without chat", "quote", "forward"}
ForRetry(use) == use \in {"retry", "retry without chat"}

\* memoryMessage() wants the key as well.
InMemory(n, use) ==
  CASE use = "retry" -> IF Cached(<<"chat", n>>) # {} THEN Cached(<<"chat", n>>) ELSE Cached(<<"id", n>>)
    [] use = "retry without chat" -> Cached(<<"id", n>>)
    [] OTHER -> IF ~Contains(keyCache, n) THEN {}
                ELSE IF Cached(<<"id", n>>) # {} THEN Cached(<<"id", n>>) ELSE Cached(<<"chat", n>>)

Found(l, what, kept) ==
  /\ lookup' = [lookup EXCEPT ![l] = NoLookup]
  /\ answer' = [found |-> what, note |-> lookup[l].note, kept |-> kept]

\* Mutated: a reply that quotes is built from memory alone.
LooksOnUnquoted(use) == use # "quote"

LooksOn(use) == TRUE

\* `kept`: the copy is there for this call to find.
LookUp(l, n, use) ==
  /\ lookup[l].at = "idle"
  /\ LET inMemory == InMemory(n, use)
         kept     == n \in copyOf /\ ~blind
     IN  IF inMemory # {} \/ ~LooksOn(use)
         THEN /\ answer' = [found |-> IF inMemory = {} THEN "nothing" ELSE CHOOSE v \in inMemory : TRUE,
                            note |-> n, kept |-> kept]
              /\ UNCHANGED lookup
         ELSE /\ lookup' = [lookup EXCEPT ![l] = [at |-> "copy", note |-> n, use |-> use, kept |-> kept]]
              /\ UNCHANGED answer
  /\ UNCHANGED <<retryMemory, handling, retryRows>>

Keeps(l, value) ==
  cache' = IF ForRetry(lookup[l].use)
           THEN Remember(cache, lookup[l].note, lookup[l].use = "retry", value)
           ELSE cache

CopyFound(l) ==
  /\ lookup[l].at = "copy" /\ ~blind /\ lookup[l].note \in copyOf
  /\ Keeps(l, "copy") /\ Found(l, "copy", TRUE)
  /\ UNCHANGED <<keyCache, blind, handling, retryRows>>

\* A retry goes on to the row; a quote and a forward have nothing else.
Passes(l, kept) ==
  IF ForRetry(lookup[l].use)
  THEN lookup' = [lookup EXCEPT ![l].at = "row", ![l].kept = kept] /\ UNCHANGED answer
  ELSE Found(l, "nothing", kept)

NoCopyFound(l) ==
  /\ lookup[l].at = "copy" /\ (blind \/ lookup[l].note \notin copyOf)
  /\ blind' = (blind \/ ~migrated) /\ Passes(l, lookup[l].kept)
  /\ UNCHANGED <<cache, keyCache, handling, retryRows>>

\* getRawWAMessage() fails: as if there were none.
CopyFails(l) ==
  /\ lookup[l].at = "copy" /\ Passes(l, FALSE)
  /\ UNCHANGED <<retryMemory, handling, retryRows>>

\* reconstructMessageForRetryFromDb()
MakesText(n) == n \in rowOf /\ KindOf[n] = "text"

RowFound(l) ==
  /\ lookup[l].at = "row" /\ MakesText(lookup[l].note)
  /\ Keeps(l, "text") /\ Found(l, "text", lookup[l].kept)
  /\ UNCHANGED <<keyCache, blind, handling, retryRows>>

\* There is none of that kind, or its query fails.
NoRowFound(l) ==
  /\ lookup[l].at = "row" /\ Found(l, "nothing", lookup[l].kept)
  /\ UNCHANGED <<retryMemory, handling, retryRows>>

(***************************************************************************)
(* Time, the migration and restarts.                                       *)
(***************************************************************************)
Expires(i) ==
  /\ cache' = RemoveAt(cache, i)
  /\ UNCHANGED <<keyCache, blind, handling, retryRows, lookup, answer>>

Recheck ==
  /\ blind /\ blind' = FALSE
  /\ UNCHANGED <<cache, keyCache, handling, retryRows, lookup, answer>>

Migrated ==
  /\ ~migrated /\ migrated' = TRUE
  /\ UNCHANGED <<retryMemory, handling, rowOf, copyOf, lookup, answer>>

Restarts ==
  /\ cache' = <<>> /\ keyCache' = <<>> /\ blind' = FALSE
  /\ handling' = [n \in Notes |-> "nothing"]
  /\ lookup' = [l \in Lookups |-> NoLookup]
  /\ UNCHANGED <<retryRows, answer>>

RetryNext ==
  \/ \E n \in Notes :
       \/ Comes(n) \/ GoesOut(n) \/ RowComes(n) \/ RowDoesNotCome(n)
       \/ CopyStored(n) \/ CopyNotStored(n)
  \/ \E l \in Lookups :
       \/ \E n \in Notes, use \in Uses : LookUp(l, n, use)
       \/ CopyFound(l) \/ NoCopyFound(l) \/ CopyFails(l) \/ RowFound(l) \/ NoRowFound(l)
  \/ \E i \in DOMAIN cache : Expires(i)
  \/ Recheck \/ Migrated \/ Restarts

RetrySpec == RetryInit /\ [][RetryNext]_retryVars

-----------------------------------------------------------------------------
Worths == {"itself", "copy", "text"}

RetryTypeOK ==
  /\ cache \in Seq([key : {"id", "chat"} \X Notes, value : Worths]) /\ Len(cache) <= CacheMax
  /\ keyCache \in Seq(Notes) /\ Len(keyCache) <= KeyCacheMax
  /\ handling \in [Notes -> {"nothing", "row", "copy"}]
  /\ rowOf \subseteq Notes /\ copyOf \subseteq Notes
  /\ {migrated, blind} \subseteq BOOLEAN
  /\ \A l \in Lookups : lookup[l].at \in {"idle", "copy", "row"}

\* What is made of a row is offered for a text message only: a photo, a voice note or a sticker
\* is found as it was or not at all, in a retry, a quote and a forward, although what a retry
\* makes is kept in the cache the other two read.
NeverMadeUp ==
  answer.found = "text" => KindOf[answer.note] = "text"

\* "Durable copy: the exact content we sent/received, even after a restart"
\* (baileys-client.ts:2722): no call misses a message whose copy was there to be found when it
\* began, whatever the caches have dropped, unless its own query fails.
KeptIsFound ==
  answer.found = "nothing" => ~answer.kept

\* Types; what is kept is found, and found as it was.
RetryInv == RetryTypeOK /\ NeverMadeUp /\ KeptIsFound
================================================================================
