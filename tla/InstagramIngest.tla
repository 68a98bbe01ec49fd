---------------------------- MODULE InstagramIngest ----------------------------
(***************************************************************************)
(* Instagram events on their way into mcp-server's tables: the webhook's   *)
(* copies that arrive over NATS (consumers.ts, instagram-ingestion.        *)
(* service.ts) and the backfill job that lists the same things at Meta     *)
(* (instagram-backfill.ts).  handleEvent() makes four queries, so handlers *)
(* of several copies interleave, and swallows the failure of any of them.  *)
(*                                                                         *)
(* An event's number is the time it happened at Meta.  A copy of it is     *)
(* what handleEvent() is given: the two sources name the same event's      *)
(* thread, sender and time in different ways.                              *)
(***************************************************************************)
EXTENDS Integers, FiniteSets, Sequences

CONSTANTS HappeningKinds,   \* the kind of each event Meta has, in order
          IgHandlers,       \* bound: copies handled at the same time
          MaxCopies         \* bound: copies Meta and NATS deliver

ASSUME IgIngestAssumption ==
  /\ MaxCopies \in Nat
  /\ HappeningKinds \in Seq({"dm", "comment", "mention", "media"})

VARIABLES
  igConvs,     \* conversations, with last_message_at (0: no row)
  igPeople,    \* participants
  igMembers,   \* conversation_participants
  igMsgs,      \* messages
  igWire,      \* copies published and not yet taken
  igClock,     \* copies delivered so far: the connector's clock
  igHandler,   \* the handlers of the consumer, and that of the job
  igJob        \* the backfill: its section (0: it does not run), and what is left of it

igTables == <<igConvs, igPeople, igMembers, igMsgs>>
igIngestVars == <<igTables, igWire, igClock, igHandler, igJob>>

Happenings == DOMAIN HappeningKinds
Job        == "job"
Now        == Cardinality(Happenings) + igClock
Free       == [at |-> "free"]

(***************************************************************************)
(* What a copy says.                                                       *)
(***************************************************************************)
\* The webhook's: a thread named by its two ends, and for all but a DM the connector's time.
LiveCopy(e, now) ==
  LET kind == HappeningKinds[e] IN
  [kind |-> kind, of |-> e, sender |-> <<"id", e>>,
   ts |-> IF kind = "dm" THEN e ELSE now,
   conv |-> IF kind = "dm" THEN <<"thread", "ends">> ELSE <<kind>>]

\* The job's: Meta's thread id, usernames, and Meta's time.
JobCopy(e) ==
  LET kind == HappeningKinds[e] IN
  [kind |-> kind, of |-> e, sender |-> <<"name", e>>, ts |-> e,
   conv |-> IF kind = "dm" THEN <<"thread", "meta">> ELSE <<kind>>]

Copies == {LiveCopy(e, now) : e \in Happenings,
                              now \in Cardinality(Happenings) .. Cardinality(Happenings) + MaxCopies}
            \cup {JobCopy(e) : e \in Happenings}
Convs  == {c.conv : c \in Copies}

\* wa_message_id: a mention has none of its own and is told by its media and its time.
RowIdTimed(c) == <<c.kind, c.of, c.ts>>

RowId(c) == IF c.kind = "mention" THEN <<c.kind, c.of, c.ts>> ELSE <<c.kind, c.of, 0>>

IgIngestInit ==
  /\ igConvs = [c \in Convs |-> 0] /\ igPeople = {} /\ igMembers = {} /\ igMsgs = {}
  /\ igWire = {} /\ igClock = 0
  /\ igHandler = [h \in IgHandlers \cup {Job} |-> Free]
  /\ igJob = [at |-> 0, todo |-> {}]

(***************************************************************************)
(* The way to the consumer: Meta delivers, and again when it got no 200;   *)
(* NATS delivers in any order what it does not lose.                       *)
(***************************************************************************)
MetaDelivers ==
  /\ igClock < MaxCopies
  /\ igClock' = igClock + 1
  /\ \E e \in Happenings :
       /\ HappeningKinds[e] # "media"
       /\ igWire' = igWire \cup {LiveCopy(e, Now)}
  /\ UNCHANGED <<igTables, igHandler, igJob>>

CopyLost ==
  /\ \E c \in igWire : igWire' = igWire \ {c}
  /\ UNCHANGED <<igTables, igClock, igHandler, igJob>>

Takes(h, c) == igHandler' = [igHandler EXCEPT ![h] = [at |-> "conv", copy |-> c]]

\* The subscription's callback starts a handler without waiting for the one before.
Consumed(h) ==
  /\ igHandler[h].at = "free"
  /\ \E c \in igWire : igWire' = igWire \ {c} /\ Takes(h, c)
  /\ UNCHANGED <<igTables, igClock, igJob>>

(***************************************************************************)
(* handleEvent().                                                          *)
(***************************************************************************)
Goes(h, next) == igHandler' = [igHandler EXCEPT ![h].at = next]

\* last_message_at = GREATEST(...)
Last(old, ts) == IF old > ts THEN old ELSE ts

UpsertConversation(h) ==
  /\ igHandler[h].at = "conv" /\ Goes(h, "person")
  /\ igConvs' = [igConvs EXCEPT ![igHandler[h].copy.conv] = Last(@, igHandler[h].copy.ts)]
  /\ UNCHANGED <<igPeople, igMembers, igMsgs, igWire, igClock, igJob>>

UpsertParticipant(h) ==
  /\ igHandler[h].at = "person" /\ Goes(h, "member")
  /\ igPeople' = igPeople \cup {igHandler[h].copy.sender}
  /\ UNCHANGED <<igConvs, igMembers, igMsgs, igWire, igClock, igJob>>

JoinConversation(h) ==
  LET c == igHandler[h].copy IN
  /\ igHandler[h].at = "member" /\ Goes(h, "row")
  /\ igMembers' = igMembers \cup {<<c.conv, c.sender>>}
  /\ UNCHANGED <<igConvs, igPeople, igMsgs, igWire, igClock, igJob>>

\* ON CONFLICT (wa_message_id) DO NOTHING
InsertMessage(h) ==
  LET c   == igHandler[h].copy
      row == [id |-> RowId(c), of |-> c.of, conv |-> c.conv, sender |-> c.sender, ts |-> c.ts] IN
  /\ igHandler[h].at = "row"
  /\ igHandler' = [igHandler EXCEPT ![h] = Free]
  /\ igMsgs' = IF \E m \in igMsgs : m.id = row.id THEN igMsgs ELSE igMsgs \cup {row}
  /\ UNCHANGED <<igConvs, igPeople, igMembers, igWire, igClock, igJob>>

\* A query fails, or the account is not declared: logged, and nothing is tried again.
HandlerFails(h) ==
  /\ igHandler[h].at # "free"
  /\ igHandler' = [igHandler EXCEPT ![h] = Free]
  /\ UNCHANGED <<igTables, igWire, igClock, igJob>>

(***************************************************************************)
(* The job: DMs, media with their comments, mentions, one after the other. *)
(***************************************************************************)
Sections == <<"dm", "media", "comment", "mention">>

JobStarts ==
  /\ igJob.at = 0
  /\ igJob' = [igJob EXCEPT !.at = 1]
  /\ UNCHANGED <<igTables, igWire, igClock, igHandler>>

JobAwaits == igJob.at # 0 /\ igHandler[Job].at = "free" /\ igJob.todo = {}

\* The next section, as Meta lists it; one that cannot be listed is left out.
JobLists ==
  /\ JobAwaits /\ igJob.at \in DOMAIN Sections
  /\ \E listed \in {{}, {e \in Happenings : HappeningKinds[e] = Sections[igJob.at]}} :
       igJob' = [at |-> igJob.at + 1, todo |-> listed]
  /\ UNCHANGED <<igTables, igWire, igClock, igHandler>>

\* It is through, or the media could not be listed, which ends it.
JobEnds ==
  /\ JobAwaits
  /\ igJob.at \in DOMAIN Sections => Sections[igJob.at] = "media"
  /\ igJob' = [igJob EXCEPT !.at = 0]
  /\ UNCHANGED <<igTables, igWire, igClock, igHandler>>

\* One item at a time, and the next whether or not handleEvent() stored this one.
JobIngests ==
  /\ igHandler[Job].at = "free"
  /\ \E e \in igJob.todo :
       /\ Takes(Job, JobCopy(e))
       /\ igJob' = [igJob EXCEPT !.todo = @ \ {e}]
  /\ UNCHANGED <<igTables, igWire, igClock>>

-----------------------------------------------------------------------------
HandleEvent(h) ==
  UpsertConversation(h) \/ UpsertParticipant(h) \/ JoinConversation(h)
    \/ InsertMessage(h) \/ HandlerFails(h)

IgIngestNext ==
  \/ MetaDelivers \/ CopyLost
  \/ \E h \in IgHandlers : Consumed(h)
  \/ \E h \in IgHandlers \cup {Job} : HandleEvent(h)
  \/ JobStarts \/ JobLists \/ JobEnds \/ JobIngests

IgIngestSpec == IgIngestInit /\ [][IgIngestNext]_igIngestVars

-----------------------------------------------------------------------------
IgIngestTypeOK ==
  /\ igConvs \in [Convs -> Nat]
  /\ igPeople \subseteq {c.sender : c \in Copies}
  /\ igMembers \subseteq Convs \X igPeople
  /\ \A m \in igMsgs : m.of \in Happenings /\ m.conv \in Convs
  /\ igWire \subseteq Copies /\ igClock \in 0 .. MaxCopies
  /\ \A h \in IgHandlers \cup {Job} :
       igHandler[h].at \in {"free", "conv", "person", "member", "row"}
  /\ igJob.at \in 0 .. Len(Sections) + 1 /\ igJob.todo \subseteq Happenings

(* A message, a comment or a post has one row, however often Meta delivers *)
(* it, whatever the backfill lists of it and however their handlers        *)
(* interleave: their row ids do not depend on who tells of them.  (Those   *)
(* of a mention do: it is left out here.)                                  *)
RowsOnce ==
  \A m, n \in igMsgs :
    m.of = n.of /\ HappeningKinds[m.of] # "mention" => m = n

(* A message's row is never without what a listing of conversations joins  *)
(* it with: its thread, not older than the message although events of     *)
(* several ages are handled at once, its sender, and the sender's          *)
(* membership.                                                             *)
RowsAreFiled ==
  \A m \in igMsgs :
    /\ igConvs[m.conv] >= m.ts
    /\ m.sender \in igPeople /\ <<m.conv, m.sender>> \in igMembers

\* Types; a row for each message, filed where it belongs.
IgIngestInv == IgIngestTypeOK /\ RowsOnce /\ RowsAreFiled
================================================================================
