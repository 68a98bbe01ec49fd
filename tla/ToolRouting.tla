---------------------------- MODULE ToolRouting ----------------------------
(***************************************************************************)
(* How a call of a social tool finds its way (mcp-server/src/mcp/server.ts,  *)
(* tool-registry.ts, domain/account-registry.ts, domain/identity-bindings):  *)
(* the account is resolved from the caller's binding, the arguments are      *)
(* checked, the handler decides whether the provider (a connector) or the    *)
(* local index answers, and the places it names are asked one after the      *)
(* other.  The account registry is a file that is read again at every        *)
(* lookup, so an account may come or go between two requests of one call.    *)
(*                                                                          *)
(* What the asked places answer is left open: each may fail.                 *)
(***************************************************************************)
EXTENDS Naturals, Sequences, FiniteSets, SequencesExt

CONSTANTS
    Ids,        \* account ids the registry declares on each channel
    Personal,   \* the id a selector that names no account stands for
    NoId,       \* no channel, no account
    MaxOut      \* bound: accounts disabled at one time

ASSUME PersonalIsDeclared == Personal \in Ids
ASSUME IdsAreFinite == IsFiniteSet(Ids)

Channels == {"whatsapp", "telegram", "instagram"}
Refusals == {"forbidden", "invalid_request", "unsupported_capability"}
ASSUME NoneIsNoId == NoId \notin Ids \cup Channels \cup Refusals

Accounts == Channels \X Ids

VARIABLES
    enabled,    \* the accounts the registry enables now
    query        \* the call under way
routingVars == <<enabled, query>>

-----------------------------------------------------------------------------
(* The tools: what each promises, and who answers it on which channel *)

Reads == {"listAccounts", "listConversations", "getConversation", "listParticipants",
          "listMessages", "searchMessages", "resolveTarget", "getMedia", "listDrafts",
          "getDigest", "getProfile", "validateAccount"}
ContentReads == {"listContent", "listComments", "getInsights", "discoverBusiness",
                 "listMentions", "getForum"}
Computes == {"summarize"}
InternalWrites == {"createDraft", "approveDraft", "startDigest", "continueDigest"}
MessageWrites == {"sendMessage", "forwardMessage", "deleteMessage", "markRead", "sendDraft"}
ProviderWrites == {"manageSession", "clickInteraction", "manageForum", "manageChat",
                   "publishContent", "manageComment"}
Mutating == InternalWrites \cup MessageWrites \cup ProviderWrites
SocialTools == Reads \cup ContentReads \cup Computes \cup Mutating

P == {"provider"}
I == {"index"}
On(wa, tg, ig) == [whatsapp |-> wa, telegram |-> tg, instagram |-> ig]

\* Which sources a handler can answer from, channel by channel; {} is
\* unsupported_capability.
listConversations == On(P \cup I, P \cup I, P)
getConversation == On(P \cup I, P \cup I, P)
listParticipants == On(P, P \cup I, {})
listMessages == On(P \cup I, P \cup I, P)
searchMessages == On(I, I, {})
resolveTarget == On(P \cup I, P, P)
getMedia == On(P, P, {})
summarize == On(I, I, {})
anyProvider == On(P, P, P)
anyIndex == On(I, I, I)
drafts == On(I, {}, {})
instagramOnly == On({}, {}, P)
telegramOnly == On({}, P, {})
both == On(P, P, {})
session == On(P, {}, P)

Served ==
    [t \in SocialTools |->
        CASE t = "listConversations" -> listConversations
          [] t = "getConversation" -> getConversation
          [] t = "listParticipants" -> listParticipants
          [] t = "listMessages" -> listMessages
          [] t = "searchMessages" -> searchMessages
          [] t = "resolveTarget" -> resolveTarget
          [] t = "getMedia" -> getMedia
          [] t = "summarize" -> summarize
          [] t \in {"listDrafts", "createDraft", "approveDraft"} -> drafts
          [] t = "sendDraft" -> On(P, {}, {})
          [] t \in {"getDigest", "continueDigest"} -> anyIndex
          [] t \in {"listAccounts", "getProfile", "validateAccount", "sendMessage"} -> anyProvider
          [] t \in {"forwardMessage", "deleteMessage", "markRead", "startDigest"} -> both
          [] t = "manageSession" -> session
          [] t \in {"getForum", "clickInteraction", "manageForum", "manageChat"} -> telegramOnly
          [] OTHER -> instagramOnly]

\* The source a handler takes for readSource `auto`.
Fallback(tool, channel) ==
    CASE tool \in {"searchMessages", "summarize", "listDrafts", "getDigest"} -> "index"
      [] tool = "listMessages" -> IF channel = "instagram" THEN "provider" ELSE "index"
      [] tool = "resolveTarget" -> IF channel = "whatsapp" THEN "index" ELSE "provider"
      [] OTHER -> "provider"

ReadSource(req) ==
    IF req.source = "auto" THEN Fallback(req.tool, req.channel) ELSE req.source

\* What the answer says of its source.
CanonicalMeta(req) ==
    IF req.source # "auto"
    THEN IF req.source = "provider" THEN "providerQuery" ELSE "localIndex"
    ELSE CASE req.tool \in {"searchMessages", "summarize", "listDrafts", "getDigest"} -> "localIndex"
           [] req.tool = "listMessages" ->
                 IF req.channel = "instagram" THEN "providerQuery" ELSE "providerSync"
           [] req.tool = "resolveTarget" ->
                 IF req.channel = "whatsapp" THEN "providerSync" ELSE "providerQuery"
           [] OTHER -> "providerQuery"
-----------------------------------------------------------------------------
(* The request and its checks *)

\* Who calls: with the binding off anybody; with it on, a principal bound to a
\* sequence of accounts, empty for one the table does not know.
Callers == [bound : {FALSE}, accounts : {<<>>}]
    \cup [bound : {TRUE}, accounts : {<<>>} \cup {<<a>> : a \in Ids}]

\* `fit`: the other arguments suit the handler, and the draft or the digest
\* named is the account's; `wide`: a message of two parts, a digest of both
\* platforms; `space`: the namespace the target carries, NoId when it is bare.
Queries ==
    [tool : SocialTools, channel : Channels \cup {NoId}, account : Ids \cup {NoId},
     source : {"auto"} \cup P \cup I, space : (Ids \ {Personal}) \cup {NoId},
     fit : BOOLEAN, wide : BOOLEAN]

\* What the caller leaves out where nobody reads it.
Asked == {r \in Queries :
    /\ r.wide => r.tool \in {"sendMessage", "startDigest"}
    /\ r.space # NoId => /\ r.channel = "whatsapp"
                         /\ r.tool \in {"getConversation", "listMessages", "sendMessage"}
    /\ r.source # "auto" => r.tool \notin Mutating
    /\ r.tool = "listAccounts" => r.account = NoId}

Pairing(req) == req.tool = "manageSession" /\ req.channel = "instagram"
HasAccount(req) == req.tool # "listAccounts"

\* The compiled input schema.
Schema(req) ==
    /\ req.channel = NoId =>
         req.tool \in {"listAccounts", "listConversations", "searchMessages"}
    /\ req.account = NoId =>
         req.tool \in {"listAccounts", "listConversations", "searchMessages"} \/ Pairing(req)
    /\ req.tool = "searchMessages" => (req.channel = NoId <=> req.account = NoId)
    /\ ~HasAccount(req) => req.account = NoId
    /\ req.source # "auto" => req.tool \notin Mutating \cup {"listAccounts"}

(* Mutated: an omitted account is the personal one, as without the binding. *)
BoundPersonal(caller, req) ==
    IF ~caller.bound \/ ~HasAccount(req) \/ req.account # NoId THEN req.account
    ELSE Personal

\* applyIdentityBinding(): the account the call goes on with.
BoundAccount(caller, req) ==
    IF ~caller.bound \/ ~HasAccount(req) \/ req.account # NoId THEN req.account
    ELSE Head(caller.accounts)

Forbidden(caller, req) ==
    /\ caller.bound /\ HasAccount(req)
    /\ \/ caller.accounts = <<>>
       \/ req.account # NoId /\ req.account \notin Range(caller.accounts)

\* validateCanonicalArguments(): the schema, and a write names its account.
Invalid(req) ==
    \/ ~Schema(req)
    \/ req.tool \in Mutating /\ (req.channel = NoId \/ req.account = NoId)

\* The calls that send a WhatsApp target to its connector strip its namespace,
\* and refuse another account's.
ProviderTargets == {"getMedia", "sendMessage", "forwardMessage", "deleteMessage", "markRead"}
ForeignTarget(req) ==
    /\ req.channel = "whatsapp" /\ req.tool \in ProviderTargets
    /\ req.space # NoId /\ req.space # req.account

Configured(req) ==
    {x \in enabled : /\ req.channel # NoId => x[1] = req.channel
                     /\ req.account # NoId => x[2] = req.account}

\* A handler of one account must find it in the registry and be able to answer
\* from the source asked for.
Aggregates(req) == req.tool \in {"listAccounts", "listConversations"}
Unscoped(req) == req.tool = "searchMessages" /\ req.account = NoId
Unsupported(req) ==
    IF Aggregates(req) THEN req.tool = "listConversations" /\ Configured(req) = {}
    ELSE IF Unscoped(req) THEN ReadSource(req) = "provider"
    ELSE \/ ~Pairing(req) /\ <<req.channel, req.account>> \notin enabled
         \/ Served[req.tool][req.channel] = {}
         \/ req.tool \notin Mutating /\ ReadSource(req) \notin Served[req.tool][req.channel]

\* Drafts and digests are looked up before they are found to be another's.
FoundLate == {"getDigest", "continueDigest", "approveDraft", "sendDraft"}

Refusal(req) ==
    IF Invalid(req) THEN "invalid_request"
    ELSE IF Unsupported(req) THEN "unsupported_capability"
    ELSE IF ForeignTarget(req) \/ (~req.fit /\ req.tool \notin FoundLate) THEN "invalid_request"
    ELSE NoId
-----------------------------------------------------------------------------
(* The places a handler asks, in order *)

\* A place, what is asked of it for which account, and in how many requests.
Touches(requests, at, account, act) ==
    [at |-> at, account |-> account, act |-> act, requests |-> requests]
Touch(at, account, act) == Touches(1, at, account, act)

\* listConversationsFor(); Instagram rows need the account's own id besides.
ListTouch(req, x) ==
    Touches(IF x[1] = "instagram" THEN 2 ELSE 1, ReadSource(req), x, "read")

ListPlan(req) ==
    [i \in 1..Cardinality(Configured(req)) |-> ListTouch(req, SetToSeq(Configured(req))[i])]

\* The connectors' health, whatever channel is asked for.
AccountsPlan == [i \in 1..Cardinality(enabled) |->
                    Touch("provider", SetToSeq(enabled)[i], "read")]

SendPlan(req, x) ==
    <<Touches(IF req.wide /\ x[1] # "instagram" THEN 2 ELSE 1, "provider", x, "write")>>

\* collectUnreadDigestChats(): the platforms' unread chats, then the session.
DigestPlan(req, x) ==
    LET unread(channel) == Touch("provider", <<channel, x[2]>>, "read")
        other == CHOOSE c \in {"whatsapp", "telegram"} : c # x[1]
        stored == Touch("index", x, "write")
    IN IF req.wide THEN <<unread(x[1]), unread(other), stored>> ELSE <<unread(x[1]), stored>>

\* accountKey(): the personal account's ids carry no namespace, so under it a
\* target keeps the one it has.
RowAccount(req) ==
    <<req.channel, IF req.account = Personal /\ req.space # NoId THEN req.space
                   ELSE req.account>>

ReadPlan(req, x) ==
    CASE req.tool = "listAccounts" -> AccountsPlan
      [] req.tool = "listConversations" -> ListPlan(req)
      [] req.tool = "resolveTarget" /\ req.channel = "instagram" -> <<ListTouch(req, x)>>
      [] req.tool = "listMessages" /\ ReadSource(req) = "index" ->
             <<Touch("index", RowAccount(req), "read")>>
      [] OTHER -> <<Touch(ReadSource(req), x, "read")>>

WritePlan(req, x) ==
    LET found == Touch("index", x, "read")
        asked == Touch("provider", x, "write")
        stored == Touch("index", x, "write")
    IN CASE req.tool = "sendMessage" -> SendPlan(req, x)
         [] req.tool = "startDigest" -> DigestPlan(req, x)
         [] req.tool = "deleteMessage" /\ req.channel = "telegram" -> <<asked, stored>>
         [] req.tool \in {"createDraft", "approveDraft", "continueDigest"} -> <<found, stored>>
         [] req.tool = "sendDraft" -> <<found, asked, stored>>
         [] OTHER -> <<asked>>

Plan(req) ==
    LET x == <<req.channel, req.account>>
    IN IF req.tool \in Mutating THEN WritePlan(req, x) ELSE ReadPlan(req, x)

\* A failure of these leaves the others to be asked.
Tolerated(req, touch) ==
    Aggregates(req) \/ (req.tool = "startDigest" /\ touch.at = "provider")
-----------------------------------------------------------------------------
(* The call *)

Idle == [at |-> "idle"]
Answer(c, code, kind, completeness) ==
    [at |-> "answered", req |-> c.req, caller |-> c.caller, named |-> c.named,
     done |-> c.done, failed |-> c.failed, code |-> code, kind |-> kind,
     completeness |-> completeness]
Error(c, code) == Answer(c, code, NoId, NoId)

RoutingInit == enabled = Accounts /\ query = Idle

\* Everything up to the first request is one step.
Ask ==
    /\ query.at = "idle"
    /\ \E caller \in Callers, asked \in Asked :
         LET forbidden == Forbidden(caller, asked)
             req == IF forbidden THEN asked
                    ELSE [asked EXCEPT !.account = BoundAccount(caller, asked)]
             refusal == IF forbidden THEN "forbidden" ELSE Refusal(req)
             c == [at |-> "asking", req |-> req, caller |-> caller, named |-> asked.account,
                   plan |-> IF refusal = NoId THEN Plan(req) ELSE <<>>,
                   done |-> <<>>, failed |-> {}]
         IN query' = IF refusal = NoId THEN c ELSE Error(c, refusal)
    /\ UNCHANGED enabled

\* waUrl(), tgUrl(): the registry is read again at each request, but for the
\* health of all, asked at once; there is one Instagram connector, and an
\* Instagram account of a listing cannot be read from the index.
Reachable(touch) ==
    /\ query.req.tool = "listConversations" =>
         touch.at \in listConversations[touch.account[1]]
    /\ \/ touch.at = "index" \/ touch.account[1] = "instagram"
       \/ query.req.tool = "listAccounts" \/ touch.account \in enabled

\* What is left to ask once one request has been answered.
Rest(plan) ==
    IF Head(plan).requests > 1 THEN [plan EXCEPT ![1].requests = @ - 1] ELSE Tail(plan)

Touched ==
    /\ query.at = "asking" /\ query.plan # <<>>
    /\ Reachable(Head(query.plan))
    /\ query' = [query EXCEPT !.done = Append(@, Head(query.plan)), !.plan = Rest(@)]
    /\ UNCHANGED enabled

\* A message some part of which was accepted is of unknown outcome.
FailureCode(c, code) ==
    IF c.req.tool = "sendMessage" /\ c.done # <<>> THEN "outcome_unknown" ELSE code

Fails ==
    /\ query.at = "asking" /\ query.plan # <<>>
    /\ LET touch == Head(query.plan)
           code == IF Reachable(touch) THEN "provider_error" ELSE "unsupported_capability"
       IN query' = IF Tolerated(query.req, touch)
                  THEN [query EXCEPT !.failed = @ \cup {touch.account}, !.plan = Tail(@)]
                  ELSE Error(query, FailureCode(query, code))
    /\ UNCHANGED enabled

\* A draft or digest that is another account's is refused after its lookup.
NotIts ==
    /\ query.at = "asking" /\ query.req.tool \in FoundLate /\ ~query.req.fit
    /\ Len(query.done) = 1
    /\ query' = Error(query, "not_found")
    /\ UNCHANGED enabled

(* Mutated: the error is raised only for a call of one account. *)
ListAnswerQuiet(c, code) ==
    Answer(c, "ok",
           IF ReadSource(c.req) = "provider" THEN "providerQuery" ELSE "localIndex",
           IF c.failed # {} /\ c.done = <<>> THEN "partial" ELSE "complete")

\* An account that answered counts, with rows or without; when none did the call
\* fails with the first failure's code.
ListAnswer(c, code) ==
    IF \A t \in Range(c.done) : t.account \in c.failed
    THEN Error(c, code)
    ELSE Answer(c, "ok",
                IF ReadSource(c.req) = "provider" THEN "providerQuery" ELSE "localIndex",
                IF c.failed # {} THEN "partial" ELSE "complete")

Replies ==
    /\ query.at = "asking" /\ query.plan = <<>>
    /\ query.req.tool \in FoundLate => query.req.fit \/ Len(query.done) > 1
    /\ IF query.req.tool = "listConversations"
       THEN \E code \in {"provider_error", "unsupported_capability"} :
              query' = ListAnswer(query, code)
       ELSE query' = Answer(query, "ok", IF query.req.tool \in Mutating THEN NoId
                                       ELSE CanonicalMeta(query.req), "complete")
    /\ UNCHANGED enabled

Returned ==
    /\ query.at = "answered"
    /\ query' = Idle
    /\ UNCHANGED enabled

\* The registry's file changes, before a call or during it.
Edit ==
    /\ query.at # "answered"
    /\ \E x \in Accounts :
         enabled' = IF x \in enabled THEN enabled \ {x} ELSE enabled \cup {x}
    /\ Cardinality(Accounts \ enabled') <= MaxOut
    /\ UNCHANGED query

RoutingNext == Ask \/ Touched \/ Fails \/ NotIts \/ Replies \/ Returned \/ Edit
RoutingSpec == RoutingInit /\ [][RoutingNext]_routingVars
-----------------------------------------------------------------------------
(* What may not go wrong *)

Made == IF query.at = "idle" THEN {} ELSE Range(query.done)

\* Whatever the handler, the channel and the registry's changes: a connector is
\* asked, and anything written, only for the account the caller named or, when
\* none was named, for one its binding gives; a write never falls back on a
\* default account.
OnlyAskedAccount ==
    \A t \in Made :
        t.at = "provider" \/ t.act = "write" =>
            /\ query.named # NoId => t.account[2] = query.named
            /\ query.caller.bound /\ HasAccount(query.req) =>
                 t.account[2] \in Range(query.caller.accounts)
            /\ t.act = "write" => query.named # NoId \/ query.caller.bound

\* A read that succeeds has asked the source it was told to ask, and its `meta`
\* names the one it asked, for every tool, channel and readSource: `providerSync`
\* is the index that the connectors keep in step.
SourceAsTold ==
    query.at = "answered" /\ query.code = "ok" /\ query.kind # NoId =>
        \A t \in Made :
            /\ t.at = (IF query.kind = "providerQuery" THEN "provider" ELSE "index")
            /\ query.req.source # "auto" => t.at = query.req.source

\* A listing of several accounts is `complete` only when every account it set out
\* to read answered in full; when none did it is an error, never an empty list.
PartialIsTold ==
    query.at = "answered" /\ query.req.tool = "listConversations" /\ query.code = "ok" =>
        /\ query.completeness = "complete" => query.failed = {}
        /\ \E t \in Made : t.account \notin query.failed

\* A message of which a part was accepted is never answered with an error that
\* reads as if nothing had happened, not even when the account leaves the
\* registry between two parts.
PartsSentAreTold ==
    query.at = "answered" /\ query.req.tool = "sendMessage" /\ query.done # <<>> =>
        query.code \in {"ok", "outcome_unknown"}

\* An answer tells what happened: which source it is of, which accounts are
\* missing from it, and that parts of a message may have gone out.
AnswersTell == SourceAsTold /\ PartialIsTold /\ PartsSentAreTold

\* The account asked for is the only one acted on, and the answer tells it.
RoutingInv == OnlyAskedAccount /\ AnswersTell
=============================================================================
