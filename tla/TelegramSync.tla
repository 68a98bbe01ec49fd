----------------------------- MODULE TelegramSync -----------------------------
(***************************************************************************)
(* From a message in a Telegram chat to its row: the connector publishes   *)
(* it once on core NATS (connectors/telegram/src/events/publisher.ts), the *)
(* sync worker of connectors/telegram-sync stores what it hears            *)
(* (nats_consumer.py), pages the chat's history for what it missed         *)
(* (history.py), attaches the media (media_download.py) and transcribes    *)
(* voice notes (transcriber.py).                                           *)
(*                                                                         *)
(* One chat: chats are imported one after the other and share nothing.     *)
(* Its messages are numbered as Telegram numbers them; those of Voice are  *)
(* voice notes, which have media and are transcribed, the others text.     *)
(***************************************************************************)
EXTENDS Integers

CONSTANTS MaxSent,    \* bound: messages of the chat
          BatchSize,  \* BATCH_SIZE
          MaxPages,   \* MAX_PAGES_PER_CHAT
          Voice,      \* the voice notes
          MaxFaults,  \* bound: queries, requests and connections that fail
          MaxCrashes  \* bound: restarts of the sync worker

ASSUME SyncAssumption ==
  /\ MaxSent \in Nat /\ MaxFaults \in Nat /\ MaxCrashes \in Nat
  /\ BatchSize \in Nat \ {0} /\ MaxPages \in Nat \ {0}
  /\ Voice \subseteq 1 .. MaxSent

Ids == 1 .. MaxSent

VARIABLES
  sent,        \* number of the chat's newest message
  nats,        \* the publisher: "up", "connecting", "waiting" (a timer), "off"
  wire,        \* the events on their way to the worker
  up,          \* the worker runs
  rows,        \* the messages that have a row
  files,       \* attachment rows of each voice note
  skipped,     \* messages whose insert failed in an import
  watermark,   \* telegram_sync_state.last_message_id
  scan,        \* the import under way: of its page, next down to offset is left
  capped,      \* an import has met MaxPages
  tasks,       \* media downloads of live messages, <<id, "check" or "store">>
  audio,       \* transcription_status of each voice note, "none" without a row
  tries,       \* transcription_attempts
  worker,      \* the voice note in the transcriber, or 0
  dropped,     \* voice notes whose status the worker failed to write
  faults, crashes

connector == <<sent, nats>>
import == <<skipped, watermark, scan, capped>>
speech == <<audio, tries, worker, dropped>>
bounds == <<faults, crashes>>
syncVars == <<connector, wire, up, rows, files, import, tasks, speech, bounds>>

Idle == [at |-> "idle", min |-> 0, offset |-> MaxSent + 1, next |-> 0,
         high |-> 0, pages |-> 0, aborted |-> FALSE]

SyncInit ==
  /\ sent = 0 /\ nats = "connecting" /\ wire = {} /\ up = TRUE
  /\ rows = {} /\ files = [id \in Voice |-> 0]
  /\ skipped = {} /\ watermark = 0 /\ scan = Idle /\ capped = FALSE
  /\ tasks = {}
  /\ audio = [id \in Voice |-> "none"] /\ tries = [id \in Voice |-> 0]
  /\ worker = 0 /\ dropped = {} /\ faults = 0 /\ crashes = 0

Fault == faults < MaxFaults /\ faults' = faults + 1 /\ UNCHANGED crashes

-----------------------------------------------------------------------------
(* The connector's publisher.                                              *)

(* connect() never throws: its catch arms the retry. *)
ConnectFails ==
  /\ nats = "connecting"
  /\ Fault /\ nats' = "waiting"
  /\ UNCHANGED <<sent, wire, up, rows, files, import, tasks, speech>>

ConnectOk ==
  /\ nats = "connecting" /\ nats' = "up"
  /\ UNCHANGED <<sent, wire, up, rows, files, import, tasks, speech, bounds>>

TimerFires ==
  /\ nats = "waiting" /\ nats' = "connecting"
  /\ UNCHANGED <<sent, wire, up, rows, files, import, tasks, speech, bounds>>

(* The client closes for good: watchClosed() arms the retry. *)
NatsCloses ==
  /\ nats = "up"
  /\ Fault /\ nats' = "waiting"
  /\ UNCHANGED <<sent, wire, up, rows, files, import, tasks, speech>>

(* A message arrives.  Its event is dropped without NATS, and lost when    *)
(* nobody listens or the link breaks (core NATS delivers at most once); a  *)
(* publish that throws also forgets the client.                            *)
Arrives ==
  /\ sent < MaxSent /\ sent' = sent + 1
  /\ \/ nats = "up" /\ up /\ wire' = wire \cup {sent + 1} /\ UNCHANGED <<nats, bounds>>
     \/ nats = "up" /\ nats' = "waiting" /\ Fault /\ UNCHANGED wire
     \/ UNCHANGED <<nats, wire, bounds>>
  /\ UNCHANGED <<up, rows, files, import, tasks, speech>>

-----------------------------------------------------------------------------
(* Rows and attachments.                                                   *)

(* The second result of insert_message_ex(). *)
IsNew(id) == id \notin rows

(* ON CONFLICT DO NOTHING; a new voice note awaits its transcription. *)
InsertMessage(id) ==
  /\ rows' = rows \cup {id}
  /\ audio' = [v \in Voice |-> IF v = id /\ id \notin rows THEN "pending" ELSE audio[v]]

(* _handle_event(): the insert of a live event, and the media of a new row *)
(* in a task of its own.  A failed insert is logged, and the event gone.   *)
HandleEvent(id) ==
  /\ up /\ id \in wire /\ wire' = wire \ {id}
  /\ \/ /\ InsertMessage(id)
        /\ tasks' = IF id \in Voice /\ IsNew(id) THEN tasks \cup {<<id, "check">>} ELSE tasks
        /\ UNCHANGED bounds
     \/ Fault /\ UNCHANGED <<rows, tasks, audio>>
  /\ UNCHANGED <<connector, up, files, import, tries, worker, dropped>>

(* download_and_store_media() looks for an attachment, downloads, uploads  *)
(* and inserts; it may give up at any step, and never throws.              *)
TaskChecks(id) ==
  /\ <<id, "check">> \in tasks
  /\ tasks' = (tasks \ {<<id, "check">>}) \cup
                IF files[id] = 0 THEN {<<id, "store">>} ELSE {}
  /\ UNCHANGED <<connector, wire, up, rows, files, import, speech, bounds>>

TaskStores(id) ==
  /\ <<id, "store">> \in tasks /\ tasks' = tasks \ {<<id, "store">>}
  /\ files' \in {files, [files EXCEPT ![id] = @ + 1]}
  /\ UNCHANGED <<connector, wire, up, rows, import, speech, bounds>>

-----------------------------------------------------------------------------
(* import_chat(): the history from the newest message down to the          *)
(* watermark, a page at a time.                                            *)
At(step) == up /\ scan.at = step

ImportBegins ==
  /\ At("idle")
  /\ scan' = [Idle EXCEPT !.at = "page", !.min = watermark, !.high = watermark]
  /\ UNCHANGED <<connector, wire, up, rows, files, skipped, watermark, capped,
                 tasks, speech, bounds>>

(* The n messages from `top` down; the cursor moves to the oldest. *)
Page(top, n) ==
  [scan EXCEPT !.at = "insert", !.next = top, !.offset = top - n + 1,
               !.pages = @ + 1]

(* get_messages(): up to BatchSize older than the cursor, at times fewer   *)
(* though there are more; none at the start of the history.                *)
GetMessages ==
  /\ At("page") /\ scan.pages < MaxPages
  /\ LET top == IF sent < scan.offset THEN sent ELSE scan.offset - 1 IN
       \/ top = 0 /\ scan' = [scan EXCEPT !.at = "finish"]
       \/ \E n \in 1 .. BatchSize : n <= top /\ scan' = Page(top, n)
  /\ UNCHANGED <<connector, wire, up, rows, files, skipped, watermark, capped,
                 tasks, speech, bounds>>

Aborted == [scan EXCEPT !.at = "finish", !.aborted = TRUE]

GetMessagesFails ==
  /\ At("page") /\ scan.pages < MaxPages
  /\ Fault /\ scan' = Aborted
  /\ UNCHANGED <<connector, wire, up, rows, files, skipped, watermark, capped,
                 tasks, speech>>

PageCap ==
  /\ At("page") /\ scan.pages = MaxPages
  /\ scan' = Aborted /\ capped' = TRUE
  /\ UNCHANGED <<connector, wire, up, rows, files, skipped, watermark, tasks,
                 speech, bounds>>

(* The messages of a page, newest first: the watermark ends the import, a  *)
(* failed insert is passed over, a new row has its media stored before the *)
(* next message.                                                           *)
ImportMessage ==
  /\ At("insert") /\ scan.next >= scan.offset
  /\ LET id == scan.next
         media == id \in Voice /\ IsNew(id)
     IN \/ /\ id <= scan.min
           /\ scan' = [scan EXCEPT !.at = "finish"]
           /\ UNCHANGED <<rows, audio, skipped, bounds>>
        \/ /\ id > scan.min
           /\ InsertMessage(id)
           /\ scan' = [scan EXCEPT !.high = IF @ < id THEN id ELSE @,
                                   !.at = IF media THEN "check" ELSE @,
                                   !.next = IF media THEN @ ELSE @ - 1]
           /\ UNCHANGED <<skipped, bounds>>
        \/ /\ id > scan.min /\ Fault
           /\ scan' = [scan EXCEPT !.next = @ - 1]
           /\ skipped' = IF id \in rows THEN skipped ELSE skipped \cup {id}
           /\ UNCHANGED <<rows, audio>>
  /\ UNCHANGED <<connector, wire, up, files, watermark, capped, tasks, tries,
                 worker, dropped>>

(* The media of the row just inserted, in line. *)
ImportChecks ==
  /\ At("check")
  /\ scan' = IF files[scan.next] = 0 THEN [scan EXCEPT !.at = "store"]
             ELSE [scan EXCEPT !.at = "insert", !.next = @ - 1]
  /\ UNCHANGED <<connector, wire, up, rows, files, skipped, watermark, capped,
                 tasks, speech, bounds>>

ImportStores ==
  /\ At("store")
  /\ files' \in {files, [files EXCEPT ![scan.next] = @ + 1]}
  /\ scan' = [scan EXCEPT !.at = "insert", !.next = @ - 1]
  /\ UNCHANGED <<connector, wire, up, rows, skipped, watermark, capped, tasks,
                 speech, bounds>>

(* Mutated: a short page is taken for the end of the history. *)
PageEndsShort ==
  /\ At("insert") /\ scan.next < scan.offset
  /\ scan' = [scan EXCEPT !.at = "finish"]
  /\ UNCHANGED <<connector, wire, up, rows, files, skipped, watermark, capped,
                 tasks, speech, bounds>>

PageEnds ==
  /\ At("insert") /\ scan.next < scan.offset
  /\ scan' = [scan EXCEPT !.at = "page"]
  /\ UNCHANGED <<connector, wire, up, rows, files, skipped, watermark, capped,
                 tasks, speech, bounds>>

(* Mutated: an import that was cut short moves the watermark too. *)
MovesAnyway == scan.high > scan.min

(* "ONLY advance it once the whole range down to the previous watermark is *)
(* contiguously imported".                                                 *)
Moves == ~scan.aborted /\ scan.high > scan.min

(* update_sync_state(), GREATEST of the two; or the query throws. *)
ImportEnds ==
  /\ At("finish")
  /\ scan' = Idle
  /\ \/ /\ watermark' = IF Moves /\ watermark < scan.high THEN scan.high ELSE watermark
        /\ UNCHANGED bounds
     \/ Moves /\ Fault /\ UNCHANGED watermark
  /\ UNCHANGED <<connector, wire, up, rows, files, skipped, capped, tasks, speech>>

ImportSteps ==
  \/ ImportBegins \/ GetMessages \/ PageCap \/ ImportMessage
  \/ ImportChecks \/ ImportStores \/ PageEnds \/ ImportEnds

-----------------------------------------------------------------------------
(* The transcriber, one voice note at a time.                              *)
Pending == {v \in Voice : audio[v] = "pending" /\ tries[v] < 3}

(* The oldest first. *)
Pick ==
  /\ up /\ worker = 0
  /\ \E v \in Pending :
       /\ \A u \in Pending : v <= u
       /\ worker' = v
       /\ audio' = [audio EXCEPT ![v] = "processing"]
  /\ UNCHANGED <<connector, wire, up, rows, files, import, tasks, tries,
                 dropped, bounds>>

(* complete_transcription(), or fail_transcription() with an attempt       *)
(* counted (a failed download, a deleted message, whisper's errors) or     *)
(* without (no disk space); or the status cannot be written.               *)
Transcribed ==
  /\ up /\ worker # 0 /\ worker' = 0
  /\ \/ /\ audio' = [audio EXCEPT ![worker] = "done"]
        /\ UNCHANGED <<tries, dropped, bounds>>
     \/ /\ audio' = [audio EXCEPT ![worker] = "failed"]
        /\ tries' = [tries EXCEPT ![worker] = @ + 1]
        /\ UNCHANGED <<dropped, bounds>>
     \/ /\ audio' = [audio EXCEPT ![worker] = "pending"] /\ Fault
        /\ UNCHANGED <<tries, dropped>>
     \/ /\ dropped' = dropped \cup {worker} /\ Fault
        /\ UNCHANGED <<audio, tries>>
  /\ UNCHANGED <<connector, wire, up, rows, files, import, tasks>>

-----------------------------------------------------------------------------
(* The worker dies with all it had under way. *)
Crash ==
  /\ up /\ crashes < MaxCrashes /\ crashes' = crashes + 1
  /\ up' = FALSE /\ wire' = {}
  /\ scan' = Idle /\ tasks' = {} /\ worker' = 0
  /\ UNCHANGED <<connector, rows, files, skipped, watermark, capped,
                 audio, tries, dropped, faults>>

(* recover_stuck_transcriptions() *)
RecoverStuck ==
  [v \in Voice |-> IF audio[v] = "processing" THEN "pending" ELSE audio[v]]

Start ==
  /\ ~up /\ up' = TRUE
  /\ audio' = RecoverStuck
  /\ UNCHANGED <<connector, wire, rows, files, import, tasks, tries, worker,
                 dropped, bounds>>

SyncNext ==
  \/ ConnectOk \/ ConnectFails \/ TimerFires \/ NatsCloses
  \/ Arrives \/ \E id \in Ids : HandleEvent(id)
  \/ \E v \in Voice : TaskChecks(v) \/ TaskStores(v)
  \/ ImportSteps \/ GetMessagesFails
  \/ Pick \/ Transcribed \/ Crash \/ Start

SyncSpec == SyncInit /\ [][SyncNext]_syncVars

(* Timers fire, attempts end, the loops of the worker go on, and the pod   *)
(* is restarted.                                                           *)
SyncFairness ==
  /\ WF_syncVars(ConnectOk \/ ConnectFails) /\ WF_syncVars(TimerFires)
  /\ WF_syncVars(ImportSteps)
  /\ WF_syncVars(Pick) /\ WF_syncVars(Transcribed) /\ WF_syncVars(Start)

SyncFairSpec == SyncSpec /\ SyncFairness

-----------------------------------------------------------------------------
(* Every variable has its type; only what exists is in hand.               *)
SyncTypeOK ==
  /\ sent \in 0 .. MaxSent /\ nats \in {"up", "connecting", "waiting", "off"}
  /\ wire \subseteq 1 .. sent /\ rows \subseteq 1 .. sent /\ skipped \subseteq 1 .. sent
  /\ watermark \in 0 .. sent /\ {up, capped} \subseteq BOOLEAN
  /\ tasks \subseteq (Voice \cap rows) \X {"check", "store"}
  /\ audio \in [Voice -> {"none", "pending", "processing", "done", "failed"}]
  /\ tries \in [Voice -> Nat] /\ worker \in {0} \cup (Voice \cap rows) /\ dropped \subseteq Voice
  /\ faults \in 0 .. MaxFaults /\ crashes \in 0 .. MaxCrashes

(* The realtime path and the import "see the same message" (db.py:140):    *)
(* however they interleave, and whatever dies, its media has one row.      *)
AttachedOnce == \A v \in Voice : files[v] <= 1

(* No message is left behind the watermark, but for those whose insert     *)
(* failed in an import: the history is never asked for them again.         *)
WatermarkCovers == \A id \in 1 .. watermark : id \in rows \cup skipped

(* "Anything the live consumer missed (consumer downtime, connector        *)
(* restart) is recovered here" (history.py:3-4): a message of the chat has *)
(* its row in the end, if its insert did not fail and no import met the    *)
(* page cap.                                                               *)
MissedIsRecovered ==
  \A id \in Ids : id <= sent ~> id \in rows \cup skipped \/ capped

(* A voice note that has a row is transcribed or given up in the end, also *)
(* when the worker dies over it (recover_stuck_transcriptions), but for    *)
(* one whose status could not be written: it waits for the next restart.   *)
SpeechSettles ==
  \A v \in Voice : v \in rows ~> audio[v] \in {"done", "failed"} \/ v \in dropped

(* Types; the watermark passes nothing that was not stored, and what is    *)
(* stored has its media once.                                              *)
SyncInv == SyncTypeOK /\ WatermarkCovers /\ AttachedOnce

(* What NATS lost is imported, and a voice note is transcribed or given up.*)
SyncGetsThere == MissedIsRecovered /\ SpeechSettles
=============================================================================
