---------------------------- MODULE SynapseBridge ----------------------------
(***************************************************************************)
(* The process of connectors/whatsapp-synapse-bridge: it keeps one NATS    *)
(* connection, takes the message events one at a time off its              *)
(* subscription, asks the connector who its own account is, and forwards   *)
(* what the filter lets pass.  A connection that closes leaves its loop    *)
(* behind, at work on the event in hand, while the loop of the next one    *)
(* starts: the two share the own-JID cache and the deduplication cache.    *)
(*                                                                         *)
(* The retries of one forward are those of WhatsAppIngest's Post; here a   *)
(* forward begins and ends.                                                *)
(***************************************************************************)
EXTENDS Naturals, Sequences, FiniteSets

CONSTANTS EventKinds,    \* the kind of each message: a function over the messages
          DedupMax,
          MaxLinks,      \* bound: connections made
          MaxArrivals,   \* bound: events NATS delivers
          MaxOutages     \* bound: connects that fail

\* "in": from a customer.  "own": the account's own, by its sender alone.
\* "flagged": its own, with fromMe set.  "optin": the labels worker's.
\* "other": of another account, a group, a broadcast, or without an id.
ASSUME BridgeAssumption ==
  /\ \A m \in DOMAIN EventKinds : EventKinds[m] \in {"in", "own", "flagged", "optin", "other"}
  /\ DedupMax \in Nat \ {0} /\ {MaxLinks, MaxArrivals, MaxOutages} \subseteq Nat

VARIABLES
  link,       \* "down", "connecting", "up"
  timer,      \* reconnectTimer is set
  stage,      \* of the process: "running", "stopping", "exited"
  links,      \* connections made so far; the last has the live subscription
  buffer,     \* of each loop: the events its subscription holds
  loop,       \* of each loop: [at, hand, knows]
  knownJid,   \* cachedJid is set
  freshJid,   \* and younger than its TTL
  fetching,   \* a request to /me is in flight
  entries,    \* the map of DedupCache: [key, at], in the order of insertion
  ticks,      \* lookups so far: the clock of `at'
  horizon,    \* what was seen at or before it is past its TTL
  forwarded,  \* what went to the gateway: [msg, fromMe]
  sighting,   \* of each message: its last lookup, and those recorded after its place
  again,      \* messages forwarded again that the cache still had to hold
  arrivals, outages

bridgeLink  == <<link, timer, stage, links, outages>>
bridgeJid   == <<knownJid, freshJid, fetching>>
bridgeDedup == <<entries, ticks, horizon, forwarded, sighting, again>>
bridgeVars  == <<bridgeLink, buffer, loop, bridgeJid, bridgeDedup, arrivals>>

Events == DOMAIN EventKinds
Loops  == 1 .. MaxLinks
Rest   == [at |-> "rest"]

BridgeInit ==
  /\ link = "connecting" /\ timer = FALSE /\ stage = "running" /\ links = 0
  /\ buffer = [l \in Loops |-> <<>>] /\ loop = [l \in Loops |-> Rest]
  /\ knownJid = FALSE /\ freshJid = FALSE
  /\ fetching = TRUE                             \* main() warms the cache
  /\ entries = <<>> /\ ticks = 0 /\ horizon = 0
  /\ forwarded = {} /\ sighting = [m \in Events |-> [at |-> 0, after |-> {}]] /\ again = {}
  /\ arrivals = 0 /\ outages = 0

-----------------------------------------------------------------------------
(* The connection.                                                         *)

ScheduleReconnect(connecting) == timer' = (timer \/ (stage = "running" /\ ~connecting))

\* start(): the subscription has a loop of its own.
ConnectOk ==
  /\ stage # "exited" /\ link = "connecting" /\ links < MaxLinks
  /\ link' = "up" /\ links' = links + 1
  /\ UNCHANGED <<timer, stage, outages, buffer, loop, bridgeJid, bridgeDedup, arrivals>>

\* Mutated: `connecting' is cleared in the finally block only.
ConnectFailsGuarded ==
  /\ stage # "exited" /\ link = "connecting" /\ outages < MaxOutages
  /\ link' = "down" /\ outages' = outages + 1 /\ ScheduleReconnect(TRUE)
  /\ UNCHANGED <<stage, links, buffer, loop, bridgeJid, bridgeDedup, arrivals>>

\* connect() rejects: the guard is cleared before the retry is scheduled.
ConnectFails ==
  /\ stage # "exited" /\ link = "connecting" /\ outages < MaxOutages
  /\ link' = "down" /\ outages' = outages + 1 /\ ScheduleReconnect(FALSE)
  /\ UNCHANGED <<stage, links, buffer, loop, bridgeJid, bridgeDedup, arrivals>>

\* watchClosed(): what the closed subscription held is still yielded, or not.
LinkClosed ==
  /\ stage = "running" /\ link = "up" /\ links < MaxLinks
  /\ link' = "down" /\ ScheduleReconnect(FALSE)
  /\ \/ UNCHANGED buffer
     \/ buffer[links] # <<>> /\ buffer' = [buffer EXCEPT ![links] = <<>>]
  /\ UNCHANGED <<stage, links, outages, loop, bridgeJid, bridgeDedup, arrivals>>

TimerFires ==
  /\ timer /\ timer' = FALSE
  /\ link' = IF link = "down" THEN "connecting" ELSE link
  /\ UNCHANGED <<stage, links, outages, buffer, loop, bridgeJid, bridgeDedup, arrivals>>

\* SIGTERM: stop() drains the subscription, closes the connection, and the
\* process exits, whatever its loops have in hand.
Stop ==
  /\ stage = "running" /\ stage' = "stopping" /\ timer' = FALSE
  /\ UNCHANGED <<link, links, outages, buffer, loop, bridgeJid, bridgeDedup, arrivals>>

Exit ==
  /\ stage = "stopping" /\ stage' = "exited" /\ link' = "down"
  /\ buffer' = [l \in Loops |-> <<>>] /\ loop' = [l \in Loops |-> Rest]
  /\ fetching' = FALSE
  /\ UNCHANGED <<timer, links, outages, knownJid, freshJid, bridgeDedup, arrivals>>

Arrives(m) ==
  /\ stage = "running" /\ link = "up" /\ arrivals < MaxArrivals
  /\ arrivals' = arrivals + 1
  /\ buffer' = [buffer EXCEPT ![links] = Append(@, m)]
  /\ UNCHANGED <<bridgeLink, loop, bridgeJid, bridgeDedup>>

-----------------------------------------------------------------------------
(* The own JID.                                                            *)

LoopGoes(l, to) == loop' = [loop EXCEPT ![l] = to]

\* getOwnJid(): a fresh JID is at hand, otherwise the one request is waited for.
TakeEvent(l) ==
  /\ loop[l] = Rest /\ buffer[l] # <<>>
  /\ buffer' = [buffer EXCEPT ![l] = Tail(@)]
  /\ LoopGoes(l, [at |-> IF freshJid THEN "judge" ELSE "waits", hand |-> Head(buffer[l]),
              knows |-> freshJid])
  /\ fetching' = (fetching \/ ~freshJid)
  /\ UNCHANGED <<bridgeLink, knownJid, freshJid, bridgeDedup, arrivals>>

\* The answer all who wait are given: the JID just got or, when the request
\* failed, the one got before.
Answered ==
  loop' = [l \in Loops |-> IF loop[l].at = "waits"
                           THEN [loop[l] EXCEPT !.at = "judge", !.knows = knownJid']
                           ELSE loop[l]]

FetchOk ==
  /\ fetching /\ fetching' = FALSE
  /\ knownJid' = TRUE /\ freshJid' = TRUE /\ Answered
  /\ UNCHANGED <<bridgeLink, buffer, bridgeDedup, arrivals>>

\* Mutated: a request that fails is answered for by nobody.
FetchHangs == FALSE /\ UNCHANGED bridgeVars

\* A status that is not 2xx, an answer without an id, or the timeout.
FetchFails ==
  /\ fetching /\ fetching' = FALSE
  /\ UNCHANGED <<knownJid, freshJid>> /\ Answered
  /\ UNCHANGED <<bridgeLink, buffer, bridgeDedup, arrivals>>

JidExpires ==
  /\ freshJid /\ freshJid' = FALSE
  /\ UNCHANGED <<bridgeLink, buffer, loop, knownJid, fetching, bridgeDedup, arrivals>>

-----------------------------------------------------------------------------
(* The deduplication cache.                                                *)

Expired(e) == e.at <= horizon

\* evictExpired(): up to the first entry that is not expired.
Evicted ==
  LET dead == CHOOSE n \in 0 .. Len(entries) :
                /\ \A i \in 1 .. n : Expired(entries[i])
                /\ n < Len(entries) => ~Expired(entries[n + 1])
  IN  SubSeq(entries, dead + 1, Len(entries))

Found(s, m) == \E i \in 1 .. Len(s) : s[i].key = m

\* Map.set() of a key that is there leaves it in its place.
Touched(s, m) == [i \in 1 .. Len(s) |->
                    IF s[i].key = m THEN [key |-> m, at |-> ticks + 1] ELSE s[i]]

\* Mutated: the newest entry is dropped over the cap.
RecordFirst(s, m) ==
  IF Len(s) >= DedupMax /\ ~Found(s, m) THEN s
  ELSE IF Found(s, m) THEN Touched(s, m) ELSE Append(s, [key |-> m, at |-> ticks + 1])

\* record(): over the cap the oldest insertion goes.
Record(s, m) ==
  LET t == IF Found(s, m) THEN Touched(s, m) ELSE Append(s, [key |-> m, at |-> ticks + 1])
  IN  IF Len(t) > DedupMax THEN Tail(t) ELSE t

\* has(): seen within its TTL.
Seen(m) == \E i \in 1 .. Len(Evicted) : Evicted[i].key = m /\ ~Expired(Evicted[i])

\* A key that has no place yet is put after all others.
Sighted(m) ==
  /\ ticks' = ticks + 1 /\ UNCHANGED horizon
  /\ entries' = IF Seen(m) THEN Touched(Evicted, m) ELSE Record(Evicted, m)
  /\ sighting' =
       [n \in Events |->
          IF n = m THEN [at |-> ticks + 1,
                         after |-> IF Found(Evicted, m) THEN sighting[m].after ELSE {}]
          ELSE IF Found(Evicted, m) THEN sighting[n]
          ELSE [sighting[n] EXCEPT !.after = @ \cup {m}]]

TtlPasses ==
  /\ \E t \in horizon + 1 .. ticks : horizon' = t
  /\ UNCHANGED <<bridgeLink, buffer, loop, bridgeJid, entries, ticks, forwarded, sighting,
                 again, arrivals>>

-----------------------------------------------------------------------------
(* shouldForward().                                                        *)

\* The gates before the own JID: account, conversation, message id.
Gated(m) == EventKinds[m] = "other"

\* The connector's flag, or the sender is the own JID.
FromMe(m, knows) == EventKinds[m] \in (IF knows THEN {"flagged", "own"} ELSE {"flagged"})

\* Mutated: the flag is believed when the own JID is not known.
JudgedBlind(knows) == TRUE

\* Without the own JID nothing passes.
Judged(knows) == knows

\* A message the cache still had to hold goes out again.
Repeats(m) ==
  /\ \E f \in forwarded : f.msg = m
  /\ sighting[m].at > horizon /\ Cardinality(sighting[m].after) < DedupMax

\* The loop has its answer about the own JID; the filter runs without an await.
Judge(l) ==
  LET m == loop[l].hand
      pass == [msg |-> m, fromMe |-> FromMe(m, loop[l].knows)]
  IN
  /\ loop[l].at = "judge"
  /\ IF Gated(m) \/ ~Judged(loop[l].knows)
     THEN LoopGoes(l, Rest) /\ UNCHANGED bridgeDedup
     ELSE /\ Sighted(m)
          /\ IF Seen(m) \/ EventKinds[m] = "optin"
             THEN LoopGoes(l, Rest) /\ UNCHANGED <<forwarded, again>>
             ELSE /\ LoopGoes(l, [loop[l] EXCEPT !.at = "forward"])
                  /\ forwarded' = forwarded \cup {pass}
                  /\ again' = IF Repeats(m) THEN again \cup {m} ELSE again
  /\ UNCHANGED <<bridgeLink, buffer, bridgeJid, arrivals>>

\* Delivered, refused or given up; the loop takes its next event.
ForwardDone(l) ==
  /\ loop[l].at = "forward" /\ LoopGoes(l, Rest)
  /\ UNCHANGED <<bridgeLink, buffer, bridgeJid, bridgeDedup, arrivals>>

-----------------------------------------------------------------------------
LoopSteps(l) == TakeEvent(l) \/ Judge(l) \/ ForwardDone(l)

BridgeNext ==
  \/ ConnectOk \/ ConnectFails \/ LinkClosed \/ TimerFires \/ Stop \/ Exit
  \/ \E m \in Events : Arrives(m)
  \/ FetchOk \/ FetchFails \/ JidExpires \/ TtlPasses
  \/ \E l \in Loops : LoopSteps(l)

\* connect(), timers and the process go on; a request to /me that gets no
\* answer times out, and so do those of a forward.
BridgeFairness ==
  /\ WF_bridgeVars(ConnectOk \/ ConnectFails) /\ WF_bridgeVars(TimerFires)
  /\ WF_bridgeVars(FetchFails)
  /\ \A l \in Loops : WF_bridgeVars(LoopSteps(l))

BridgeSpec == BridgeInit /\ [][BridgeNext]_bridgeVars /\ BridgeFairness

-----------------------------------------------------------------------------
(* Every variable has its type; who waits for the own JID has a request    *)
(* under way, and a bridge that is down has its timer set (unless it is    *)
(* stopping): nothing else would bring it back.                            *)
BridgeTypeOK ==
  /\ link \in {"down", "connecting", "up"} /\ links \in 0 .. MaxLinks
  /\ stage \in {"running", "stopping", "exited"}
  /\ buffer \in [Loops -> Seq(Events)] /\ again \subseteq Events
  /\ \A l \in Loops : loop[l] # Rest => loop[l].at \in {"waits", "judge", "forward"}
  /\ Len(entries) <= DedupMax /\ horizon <= ticks /\ (freshJid => knownJid)
  /\ (\E l \in Loops : loop[l].at = "waits") => fetching
  /\ stage = "running" => (timer <=> link = "down")

(* A message goes to the gateway twice only when it was last seen a TTL    *)
(* ago, or when DedupMax others were recorded after it; the loop of a      *)
(* closed connection and that of the next one do not forward it each.      *)
(* Being seen again keeps it from the TTL, not from the cap.               *)
NotForwardedAgain == again = {}

(* What the account's own phone sent goes out as its own, and what a       *)
(* customer sent does not, whether the connector flagged it or not: while  *)
(* the own JID is unknown nothing goes out at all.                         *)
OwnIsFlagged == \A f \in forwarded : f.fromMe <=> EventKinds[f.msg] \in {"own", "flagged"}

(* A message dropped while the own JID was unknown is not held against it: *)
(* only what was forwarded, or is the labels worker's, is a duplicate when *)
(* it comes again.                                                         *)
DroppedMayComeAgain ==
  \A i \in 1 .. Len(entries) :
    \/ EventKinds[entries[i].key] = "optin"
    \/ \E f \in forwarded : f.msg = entries[i].key

(* Types; one forward of a message, flagged as it should be, and none lost *)
(* to the cache.                                                           *)
BridgeInv == BridgeTypeOK /\ NotForwardedAgain /\ OwnIsFlagged /\ DroppedMayComeAgain

(* Once no connection is lost any more and no event comes, the bridge is   *)
(* up and its subscriptions are worked off, though /me may never answer;   *)
(* unless the process is stopped.  No lost connection or hung request is   *)
(* its last.                                                               *)
BridgeGoesOn ==
  <>[](/\ link = "up" \/ stage # "running"
       /\ \A l \in Loops : buffer[l] = <<>>)
=============================================================================
