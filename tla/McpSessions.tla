------------------------------ MODULE McpSessions ------------------------------
(***************************************************************************)
(* Sessions of the MCP server over streamable HTTP (mcp-server/src/mcp/    *)
(* sse-server.ts), which clients open, use and abandon without a word:     *)
(* reclaimed by a sweep, a cap and an age.                                 *)
(*                                                                         *)
(* Time is counted in sweeps: a session's idle time and age are numbers of *)
(* ticks, kept up to the limit that matters.                               *)
(***************************************************************************)
EXTENDS Integers, FiniteSets

CONSTANTS Clients,
          Sids,          \* session ids; one nobody knows any more is a new UUID
          NoSid,
          MaxSessions,   \* STREAMABLE_MAX_SESSIONS
          IdleLimit,     \* STREAMABLE_IDLE_MS, in ticks
          AgeLimit,      \* SSE_MAX_AGE_MS, in ticks
          Responses      \* bound: GET responses open at once on one session

ASSUME SessionsAssumption ==
  /\ NoSid \notin Sids
  /\ {MaxSessions, IdleLimit, AgeLimit} \subseteq Nat

VARIABLES
  mcpOpen,      \* `streamableSessions`
  mcpIdle,      \* ticks since each one's lastActivity
  mcpAge,       \* ticks since its createdAt
  mcpCount,     \* its openStreams
  mcpStreams,   \* the GET responses that are open
  mcpClient     \* what each client does, and the id it sends

mcpTimes == <<mcpIdle, mcpAge>>
mcpTable == <<mcpOpen, mcpTimes, mcpCount, mcpStreams>>
mcpVars  == <<mcpTable, mcpClient>>

Zeros == [s \in Sids |-> 0]

McpInit ==
  /\ mcpOpen = {} /\ mcpIdle = Zeros /\ mcpAge = Zeros
  /\ mcpCount = Zeros /\ mcpStreams = {}
  /\ mcpClient = [c \in Clients |-> [at |-> "away", sid |-> NoSid]]

Held(c)  == mcpClient[c].sid
Known(s) == s \in mcpOpen \/ \E c \in Clients : Held(c) = s

Does(c, at, sid) == mcpClient' = [mcpClient EXCEPT ![c] = [at |-> at, sid |-> sid]]

Reset(f, S) == [s \in Sids |-> IF s \in S THEN 0 ELSE f[s]]

\* closeStreamable(), and transport.close(), which ends the session's responses.
CloseStreamable(S) ==
  /\ mcpOpen' = mcpOpen \ S
  /\ mcpStreams' = {r \in mcpStreams : r[1] \notin S}
  /\ mcpCount' = Reset(mcpCount, S)
  /\ mcpIdle' = Reset(mcpIdle, S) /\ mcpAge' = Reset(mcpAge, S)

\* lastActivity = Date.now()
Touch(s) == mcpIdle' = [mcpIdle EXCEPT ![s] = 0]

(***************************************************************************)
(* POST /mcp                                                               *)
(***************************************************************************)
\* An initialize request, of a client without a session it believes in.
Initialize(c) ==
  /\ Held(c) = NoSid
  /\ \E s \in Sids :
       /\ ~Known(s)
       /\ mcpOpen' = mcpOpen \cup {s}
       /\ Does(c, "idle", s)
  /\ UNCHANGED <<mcpTimes, mcpCount, mcpStreams>>

\* A call runs until its response; its session may be closed under it.
Post(c) ==
  /\ mcpClient[c].at = "idle" /\ Held(c) \in mcpOpen
  /\ Does(c, "calling", Held(c)) /\ Touch(Held(c))
  /\ UNCHANGED <<mcpOpen, mcpAge, mcpCount, mcpStreams>>

CallEnds(c) ==
  /\ mcpClient[c].at = "calling"
  /\ Does(c, "idle", Held(c))
  /\ UNCHANGED mcpTable

\* writeNoSessionResponse(): 404 to an id that is gone, and a client drops it then.
AnswerNoSession(sid) == NoSid

PostRefused(c) ==
  /\ mcpClient[c].at = "idle" /\ Held(c) \notin mcpOpen \cup {NoSid}
  /\ Does(c, "idle", AnswerNoSession(Held(c)))
  /\ UNCHANGED mcpTable

(***************************************************************************)
(* GET /mcp and DELETE /mcp                                                *)
(***************************************************************************)
\* A response more is counted even if the SDK, which serves one at a time, ends it at once.
StreamOpens(c) ==
  LET s == Held(c) IN
  /\ mcpClient[c].at # "away" /\ s \in mcpOpen
  /\ \E r \in {s} \X Responses :
       r \notin mcpStreams /\ mcpStreams' = mcpStreams \cup {r}
  /\ mcpCount' = [mcpCount EXCEPT ![s] = @ + 1]
  /\ Touch(s)
  /\ UNCHANGED <<mcpOpen, mcpAge, mcpClient>>

\* Mutated: the failed heartbeat counts the response off as well as its close.
StreamClosesTwice(r) ==
  /\ r \in mcpStreams /\ mcpStreams' = mcpStreams \ {r}
  /\ mcpCount' = [mcpCount EXCEPT ![r[1]] = IF @ > 2 THEN @ - 2 ELSE 0]
  /\ Touch(r[1])
  /\ UNCHANGED <<mcpOpen, mcpAge, mcpClient>>

\* Mutated: only what the client closes itself is counted off.
StreamClosesUncounted(r) ==
  /\ r \in mcpStreams /\ mcpStreams' = mcpStreams \ {r}
  /\ UNCHANGED <<mcpOpen, mcpTimes, mcpCount, mcpClient>>

\* The client, a proxy or the SDK closes it; a dead peer is found by heartbeat or keepalive.
StreamCloses(r) ==
  /\ r \in mcpStreams /\ mcpStreams' = mcpStreams \ {r}
  /\ mcpCount' = [mcpCount EXCEPT ![r[1]] = IF @ > 1 THEN @ - 1 ELSE 0]
  /\ Touch(r[1])
  /\ UNCHANGED <<mcpOpen, mcpAge, mcpClient>>

Deletes(c) ==
  /\ mcpClient[c].at # "away" /\ Held(c) \in mcpOpen
  /\ CloseStreamable({Held(c)})
  /\ Does(c, "idle", NoSid)

\* close() of a client sends no DELETE, and its agent may start again without the old id.
Leaves(c) ==
  /\ mcpClient[c].at # "away"
  /\ Does(c, "away", NoSid)
  /\ UNCHANGED mcpTable

(***************************************************************************)
(* Time.                                                                   *)
(***************************************************************************)
Older(f, limit) == [s \in Sids |-> IF s \in mcpOpen /\ f[s] < limit THEN f[s] + 1 ELSE f[s]]

Tick ==
  /\ mcpIdle' = Older(mcpIdle, IdleLimit + 1) /\ mcpAge' = Older(mcpAge, AgeLimit)
  /\ UNCHANGED <<mcpOpen, mcpCount, mcpStreams, mcpClient>>

MaxAge(s) ==
  /\ s \in mcpOpen /\ mcpAge[s] = AgeLimit
  /\ CloseStreamable({s})
  /\ UNCHANGED mcpClient

Idle == {s \in mcpOpen : mcpCount[s] = 0 /\ mcpIdle[s] > IdleLimit}

\* What goes because of the cap: sessions without a stream, the least recently used first.
OverCapacity(left) ==
  LET evictable == {s \in left : mcpCount[s] = 0}
      over      == Cardinality(left) - MaxSessions
      enough    == IF over > Cardinality(evictable) THEN Cardinality(evictable) ELSE over IN
  IF over <= 0 THEN {{}}
  ELSE {S \in SUBSET evictable :
          /\ Cardinality(S) = enough
          /\ \A s \in S, t \in evictable \ S : mcpIdle[s] >= mcpIdle[t]}

\* sweepStreamable()
Sweep ==
  /\ \E S \in OverCapacity(mcpOpen \ Idle) : CloseStreamable(Idle \cup S)
  /\ UNCHANGED mcpClient

\* SIGTERM: every session is closed; clients find out with their next request.
Shutdown ==
  /\ CloseStreamable(mcpOpen)
  /\ mcpClient' = [c \in Clients |-> IF mcpClient[c].at = "calling"
                                     THEN [mcpClient[c] EXCEPT !.at = "idle"] ELSE mcpClient[c]]

-----------------------------------------------------------------------------
McpNext ==
  \/ \E c \in Clients :
       \/ Initialize(c) \/ Post(c) \/ CallEnds(c) \/ PostRefused(c)
       \/ StreamOpens(c) \/ Deletes(c) \/ Leaves(c)
  \/ \E r \in Sids \X Responses : StreamCloses(r)
  \/ Tick \/ Sweep \/ Shutdown
  \/ \E s \in Sids : MaxAge(s)

\* Timers fire; a response nobody reads is found dead; a client goes on after a refusal
\* (SF: only the model runs out of new ids).
McpFairness ==
  /\ WF_mcpVars(Tick) /\ WF_mcpVars(Sweep)
  /\ \A r \in Sids \X Responses : WF_mcpVars(r[1] \notin {Held(c) : c \in Clients} /\ StreamCloses(r))
  /\ \A c \in Clients :
       /\ WF_mcpVars(PostRefused(c))
       /\ SF_mcpVars(mcpClient[c].at = "idle" /\ Initialize(c))
       /\ WF_mcpVars(CallEnds(c))

McpSpec == McpInit /\ [][McpNext]_mcpVars /\ McpFairness

-----------------------------------------------------------------------------
McpTypeOK ==
  /\ mcpOpen \subseteq Sids
  /\ mcpIdle \in [Sids -> 0 .. IdleLimit + 1] /\ mcpAge \in [Sids -> 0 .. AgeLimit]
  /\ mcpCount \in [Sids -> Nat] /\ mcpStreams \subseteq mcpOpen \X Responses
  /\ mcpClient \in [Clients -> [at : {"away", "idle", "calling"}, sid : Sids \cup {NoSid}]]

\* "Sessions with a live notification stream are protected" (sse-server.ts:203-204): however
\* responses were opened, refused and closed before, the sweep and the cap leave a session
\* alone while one of them is open, because `openStreams` counts them.
StreamProtects ==
  [][Sweep => \A r \in mcpStreams : r[1] \in mcpOpen']_mcpVars

\* A session whose client has left without a DELETE is reclaimed, although neither the end
\* of its stream nor the client's close() tells anyone.
AbandonedGoes ==
  \A s \in Sids :
    s \in mcpOpen /\ (\A c \in Clients : Held(c) # s)
      ~> s \notin mcpOpen \/ \E c \in Clients : Held(c) = s

\* A client whose session was swept, aged or lost in a restart has a session again, if it
\* does not leave: the 404 makes it initialize (session-errors.ts:10-15).
DeadIdGetsOn ==
  \A c \in Clients :
    Held(c) \notin mcpOpen /\ mcpClient[c].at # "away"
      ~> Held(c) \in mcpOpen \/ mcpClient[c].at = "away"

\* Types; a session nobody holds goes, and a client whose session is gone gets on.
SessionsEnd == []McpTypeOK /\ AbandonedGoes /\ DeadIdGetsOn
================================================================================
