----------------------------- MODULE TelegramApi -----------------------------
(***************************************************************************)
(* The HTTP API of connectors/telegram (api/controller.ts) over its client *)
(* (telegram-client.ts).  A route checks the signature, some check that    *)
(* the client is connected, most check what they are given, and then call  *)
(* one method of the client, which makes one or more calls to Telegram,    *)
(* one after the other.  Requests interleave between these calls.          *)
(*                                                                         *)
(* What is asked for and what Telegram says of it are left out: a call     *)
(* succeeds, is refused, or its answer is lost.                            *)
(***************************************************************************)
EXTENDS Integers, Sequences

CONSTANTS Uses,        \* of each caller: the methods whose routes it asks for
          MaxUnread    \* bound: changes of what is unread

ASSUME ApiAssumption == MaxUnread \in Nat

-----------------------------------------------------------------------------
(* The routes: the client's method, whether isClientConnected() is looked  *)
(* at first, and whether the arguments may be refused.  Those of main.ts   *)
(* ask for no signature.                                                   *)
(***************************************************************************)
Route(name, guarded, checked) ==
  [does |-> name, guarded |-> guarded, checked |-> checked, open |-> FALSE]

PublicRoutes ==
  {[does |-> name, guarded |-> TRUE, checked |-> name = "sendMessage", open |-> TRUE] :
     name \in {"getDialogs", "getMessages", "sendMessage"}}

AccountRoutes ==
  {Route("getMe", FALSE, FALSE), Route("getDialogs", TRUE, FALSE),
   Route("getUnreadChats", FALSE, FALSE)}

ChatRoutes ==
  {Route("getChatInfo", FALSE, FALSE), Route("getParticipants", FALSE, FALSE),
   Route("createLegacyGroup", FALSE, TRUE), Route("createManagedGroup", FALSE, TRUE),
   Route("addManagedChatMembers", FALSE, TRUE), Route("setManagedChatAdmin", FALSE, TRUE)}

TopicRoutes ==
  {Route("getForumTopics", TRUE, FALSE), Route("createForumTopic", TRUE, TRUE),
   Route("editForumTopic", TRUE, TRUE)}

TopicSwitches ==
  {Route("toggleForumTopicClosed", TRUE, TRUE), Route("toggleForumTopicPinned", TRUE, TRUE),
   Route("deleteForumTopic", TRUE, TRUE)}

SettingRoutes ==
  {Route("updateForumSettings", TRUE, TRUE), Route("setChatTitle", TRUE, TRUE),
   Route("setChatDescription", TRUE, TRUE), Route("setChatPhoto", TRUE, TRUE)}

FindRoutes ==
  {Route("getMessages", TRUE, FALSE), Route("searchMessages", FALSE, TRUE),
   Route("getReactionUsers", FALSE, TRUE)}

ActRoutes ==
  {Route("reactToMessage", FALSE, TRUE), Route("clickCallbackButton", TRUE, TRUE),
   Route("forwardMessage", FALSE, TRUE)}

\* A voice note comes as bytes, a file or an album by its URL.
MediaRoutes ==
  {Route("sendFile", FALSE, TRUE), Route("sendImageGroup", FALSE, TRUE),
   Route("sendVoice", FALSE, TRUE)}

ReadRoutes ==
  {Route("markAsRead", FALSE, FALSE), Route("downloadMedia", FALSE, FALSE),
   Route("downloadPeerPhoto", TRUE, FALSE)}

SendRoutes == {Route("sendMessage", TRUE, TRUE), Route("deleteMessage", FALSE, FALSE)}

Routes == UNION {AccountRoutes, ChatRoutes, TopicRoutes, TopicSwitches, SettingRoutes,
                 FindRoutes, ActRoutes, MediaRoutes, ReadRoutes, SendRoutes, PublicRoutes}

-----------------------------------------------------------------------------
(* The calls each method makes: "read" asks Telegram, "fetch" a URL, and   *)
(* "write" changes something there.                                        *)
(***************************************************************************)
Reads  == <<"read">>
Writes == <<"write">>

ListMethods   == [getDialogs |-> Reads, getMessages |-> Reads]
InfoMethods   == [getMe |-> Reads, getChatInfo |-> Reads, getParticipants |-> Reads,
                  getForumTopics |-> Reads]
TopicMethods  == [createForumTopic |-> Writes, editForumTopic |-> Writes,
                  toggleForumTopicClosed |-> Writes, toggleForumTopicPinned |-> Writes,
                  deleteForumTopic |-> Writes, updateForumSettings |-> Writes]
ChatMethods   == [setChatTitle |-> Writes, setChatDescription |-> Writes,
                  setChatPhoto |-> <<"fetch", "write">>]
\* A legacy group is created with its members; any other without them, and gets
\* them afterwards when there are some to add.
GroupMethods  == [createLegacyGroup |-> Writes, createManagedGroup |-> <<"write", "write">>,
                  addManagedChatMembers |-> Writes, setManagedChatAdmin |-> Writes]
FindMethods   == [searchMessages |-> Reads, forwardMessage |-> Writes, deleteMessage |-> Writes]
ReactMethods  == [reactToMessage |-> Writes, getReactionUsers |-> Reads]
MediaMethods  == [downloadMedia |-> <<"read", "read">>, downloadPeerPhoto |-> <<"read", "read">>]
FileMethods   == [sendFile |-> <<"fetch", "write">>, sendVoice |-> Writes,
                  sendImageGroup |-> <<"fetch", "write">>, markAsRead |-> Writes]
SendMethods   == [sendMessage |-> Writes, clickCallbackButton |-> Writes]
UnreadMethod  == [getUnreadChats |-> Reads]

Methods == {ListMethods, InfoMethods, TopicMethods, ChatMethods, GroupMethods, FindMethods,
            ReactMethods, MediaMethods, FileMethods, SendMethods, UnreadMethod}

CallsOf(name) == (CHOOSE t \in Methods : name \in DOMAIN t)[name]

\* reactToMessage() and getReactionUsers() answer for a failure as well.
Swallows(name) == name \in DOMAIN ReactMethods

\* What is not there is answered with 404.
MayBeMissing(name) == name \in DOMAIN MediaMethods

\* The answer to a failed call: a photo that cannot be had counts as none.
FailureCode(name) ==
  IF Swallows(name) THEN 200 ELSE IF name = "downloadPeerPhoto" THEN 404 ELSE 500

-----------------------------------------------------------------------------
VARIABLES
  client,    \* "starting", "up", "closing", "destroyed"
  request,   \* of each caller: [at, does, step, done, lost, code, told, shown]
  cache,     \* unreadChatsCache: [value, fresh]
  listing,   \* unreadChatsInflight: [by, from], the caller and the version it began at
  unread     \* the version of what is unread at Telegram

apiVars == <<client, request, cache, listing, unread>>

Callers   == DOMAIN Uses
Nothing   == -1
NoListing == [by |-> Nothing, from |-> Nothing]
UnderWay  == listing.from # Nothing
Free      == [at |-> "free"]
Connected == client \in {"up", "closing"}      \* isClientConnected()

ApiInit ==
  /\ client = "starting" /\ request = [c \in Callers |-> Free]
  /\ cache = [value |-> Nothing, fresh |-> FALSE] /\ listing = NoListing /\ unread = 0

Asked(name) == [at |-> "calls", does |-> name, step |-> 1, done |-> {}, lost |-> FALSE,
                code |-> 0, told |-> TRUE, shown |-> Nothing]

Answer(q, code) == [q EXCEPT !.at = "answered", !.code = code]

Becomes(c, q) == request' = [request EXCEPT ![c] = q]

AsksFor(c, r) == request[c] = Free /\ r.does \in Uses[c]

-----------------------------------------------------------------------------
(* A request comes in; up to its first call to Telegram nothing is awaited. *)
(* The method throws when it is not connected.                             *)

Verdict(r, signed, valid) ==
  CASE ~signed /\ ~r.open -> 401
    [] (signed \/ r.open) /\ r.guarded /\ ~Connected -> 503
    [] (signed \/ r.open) /\ (r.guarded => Connected) /\ r.checked /\ ~valid -> 400
    [] (signed \/ r.open) /\ (r.checked => valid) /\ ~r.guarded /\ ~Connected -> 500
    [] OTHER -> 0

Refused(c, r) ==
  /\ AsksFor(c, r)
  /\ \E signed, valid \in BOOLEAN :
       /\ Verdict(r, signed, valid) # 0
       /\ Becomes(c, Answer(Asked(r.does), Verdict(r, signed, valid)))
  /\ UNCHANGED <<client, cache, listing, unread>>

Begins(c, r) ==
  /\ AsksFor(c, r) /\ r.does # "getUnreadChats"
  /\ \E signed, valid \in BOOLEAN : Verdict(r, signed, valid) = 0
  /\ Becomes(c, Asked(r.does))
  /\ UNCHANGED <<client, cache, listing, unread>>

\* getUnreadChats(): what the cache holds and is not 30 s old.
FromCache(c, r) ==
  /\ AsksFor(c, r) /\ r.does = "getUnreadChats" /\ Verdict(r, TRUE, TRUE) = 0
  /\ cache.fresh
  /\ Becomes(c, [Answer(Asked(r.does), 200) EXCEPT !.shown = cache.value])
  /\ UNCHANGED <<client, cache, listing, unread>>

\* The listing under way is waited for, or one begins.
Lists(c, r) ==
  /\ AsksFor(c, r) /\ r.does = "getUnreadChats" /\ Verdict(r, TRUE, TRUE) = 0
  /\ ~cache.fresh
  /\ Becomes(c, [Asked(r.does) EXCEPT !.at = "lists"])
  /\ listing' = IF UnderWay THEN listing ELSE [by |-> c, from |-> unread]
  /\ UNCHANGED <<client, cache, unread>>

-----------------------------------------------------------------------------
(* The calls of a method.                                                  *)

Called(q) == CallsOf(q.does)[q.step]

\* What is written once the call at hand is through.
Through(q) == IF Called(q) = "write" THEN [q EXCEPT !.done = @ \cup {q.step}] ELSE q

CallOk(c) ==
  LET q == Through(request[c]) IN
  /\ client = "up" /\ request[c].at = "calls"
  /\ Becomes(c, IF q.step = Len(CallsOf(q.does)) THEN Answer(q, 200)
                ELSE [q EXCEPT !.step = @ + 1])
  /\ UNCHANGED <<client, cache, listing, unread>>

\* Mutated: the group that was made counts as made.
FailedPartly(q) == Answer(q, IF q.done # {} THEN 200 ELSE FailureCode(q.does))

\* reactToMessage() says false; the reactors of a failed call are none.
Failed(q) == [Answer(q, FailureCode(q.does)) EXCEPT !.told = ~Swallows(q.does)]

\* Refused by Telegram, a URL that gives nothing, or a client that is closed.
CallFails(c) ==
  /\ request[c].at = "calls" /\ Becomes(c, Failed(request[c]))
  /\ UNCHANGED <<client, cache, listing, unread>>

\* Telegram does what it was asked, and its answer does not come.
AnswerLost(c) ==
  /\ client = "up" /\ request[c].at = "calls" /\ Called(request[c]) = "write"
  /\ Becomes(c, Failed([Through(request[c]) EXCEPT !.lost = TRUE]))
  /\ UNCHANGED <<client, cache, listing, unread>>

Missing(c) ==
  /\ client = "up" /\ request[c].at = "calls" /\ MayBeMissing(request[c].does)
  /\ Becomes(c, Answer(request[c], 404))
  /\ UNCHANGED <<client, cache, listing, unread>>

\* All who wait for the listing are given it, and it is kept for 30 s.
ListOk ==
  /\ client = "up" /\ UnderWay /\ listing' = NoListing
  /\ \E v \in listing.from .. unread :
       /\ cache' = [value |-> v, fresh |-> TRUE]
       /\ request' = [c \in Callers |->
                        IF request[c].at = "lists"
                        THEN [Answer(request[c], 200) EXCEPT !.shown = v] ELSE request[c]]
  /\ UNCHANGED <<client, unread>>

\* What the caller who began it is given: the list got before, if any.
Stale(q) == IF cache.value = Nothing THEN Answer(q, 500)
            ELSE [Answer(q, 200) EXCEPT !.shown = cache.value]

\* Those who joined are given the failure, whatever is in the cache.
ListFails ==
  /\ UnderWay /\ listing' = NoListing
  /\ request' = [c \in Callers |->
                   IF request[c].at # "lists" THEN request[c]
                   ELSE IF c = listing.by THEN Stale(request[c]) ELSE Answer(request[c], 500)]
  /\ UNCHANGED <<client, cache, unread>>

Done(c) ==
  /\ request[c].at = "answered" /\ Becomes(c, Free)
  /\ UNCHANGED <<client, cache, listing, unread>>

-----------------------------------------------------------------------------
(* The client, Telegram and the clock.                                     *)

\* The API listens before the session is started.
SignsIn ==
  /\ client = "starting" /\ client' = "up" /\ UNCHANGED <<request, cache, listing, unread>>

\* disconnect(): until destroy() has returned it still counts as connected.
Closes ==
  /\ client = "up" /\ client' = "closing" /\ UNCHANGED <<request, cache, listing, unread>>

Destroyed ==
  /\ client = "closing" /\ client' = "destroyed"
  /\ UNCHANGED <<request, cache, listing, unread>>

CacheExpires ==
  /\ cache.fresh /\ cache' = [cache EXCEPT !.fresh = FALSE]
  /\ UNCHANGED <<client, request, listing, unread>>

UnreadChanges ==
  /\ unread < MaxUnread /\ unread' = unread + 1 /\ UNCHANGED <<client, request, cache, listing>>

ApiNext ==
  \/ \E c \in Callers, r \in Routes : Refused(c, r) \/ Begins(c, r) \/ FromCache(c, r) \/ Lists(c, r)
  \/ \E c \in Callers : CallOk(c) \/ CallFails(c) \/ AnswerLost(c) \/ Missing(c) \/ Done(c)
  \/ ListOk \/ ListFails \/ SignsIn \/ Closes \/ Destroyed \/ CacheExpires \/ UnreadChanges

ApiSpec == ApiInit /\ [][ApiNext]_apiVars

-----------------------------------------------------------------------------
(* The writes a method has to make.                                        *)
ToWrite(name) == {i \in 1 .. Len(CallsOf(name)) : CallsOf(name)[i] = "write"}

Answered(c) == request[c].at = "answered"

(* Every variable has its type, and who waits for a listing has one under  *)
(* way, the one whose beginner waits as well.                              *)
ApiTypeOK ==
  /\ client \in {"starting", "up", "closing", "destroyed"} /\ unread \in 0 .. MaxUnread
  /\ cache.value \in Nothing .. unread /\ cache.fresh \in BOOLEAN
  /\ \A c \in Callers : request[c].at \in {"free", "calls", "lists", "answered"}
  /\ UnderWay => listing.by \in Callers /\ request[listing.by].at = "lists"
  /\ (\E c \in Callers : request[c].at = "lists") => UnderWay

(* A caller told of success had all of it done, and one who was refused    *)
(* nothing; a failure means nothing was done, with two exceptions: an      *)
(* answer of Telegram that was lost, and a group that was made and whose   *)
(* members could not be added, which the caller is not told of.            *)
CodeIsTrue ==
  \A c \in Callers : Answered(c) =>
    LET q == request[c] IN
    /\ q.code = 200 => q.done = ToWrite(q.does) \/ ~q.told
    /\ q.code \in {400, 401, 404, 503} => q.done = {}
    /\ q.code = 500 => q.done = {} \/ q.lost \/ (q.does = "createManagedGroup" /\ q.done = {1})

(* The list of unread chats never goes back: what is cached is at least as *)
(* new as all that was shown, and a listing under way began no earlier.    *)
NeverBack ==
  /\ \A c \in Callers : Answered(c) => request[c].shown <= cache.value
  /\ UnderWay => cache.value <= listing.from

(* Types; answers that say what was done, and lists that do not go back.   *)
TelegramApiInv == ApiTypeOK /\ CodeIsTrue /\ NeverBack
=============================================================================
