------------------------------ MODULE MCTelegram ------------------------------
(***************************************************************************)
(* The ingestion of a Telegram chat and the HTTP API of the connector,     *)
(* which share no state: each checked from its start, the other at rest.   *)
(***************************************************************************)
EXTENDS TelegramSync, TelegramApi

VARIABLE part   \* the one that runs

\* One caller asks for everything; next to it the calls that share a listing
\* or are done in two steps.
MCUses == [a |-> {r.does : r \in Routes}, b |-> {"getUnreadChats", "createManagedGroup"}]

MCInit == SyncInit /\ ApiInit /\ part \in {"sync", "api"}

MCNext ==
  /\ part' = part
  /\ \/ part = "sync" /\ SyncNext /\ UNCHANGED apiVars
     \/ part = "api" /\ ApiNext /\ UNCHANGED syncVars

MCSpec == MCInit /\ [][MCNext]_<<syncVars, apiVars, part>> /\ (part = "sync" => SyncFairness)
================================================================================
