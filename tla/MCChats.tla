-------------------------------- MODULE MCChats --------------------------------
(***************************************************************************)
(* Four parts of the WhatsApp connector that share no state here: the      *)
(* pairing pool, the ticks and receipts of one chat, a send with the queue *)
(* of manual opens, and where a message is found again.  Each is checked   *)
(* from its start, the others at rest.                                     *)
(***************************************************************************)
EXTENDS PairingPool, WhatsAppReads, WhatsAppSend, WhatsAppRetry

CONSTANTS n1, n2   \* the messages that are kept

VARIABLE part      \* the one that runs

\* Three messages of the other side.
MCInbound == <<TRUE, TRUE, TRUE>>

MCKindOf == [n \in Notes |-> IF n = n1 THEN "text" ELSE "media"]

MCInit ==
  /\ PoolInit /\ ReadsInit /\ Init /\ RetryInit
  /\ part \in {"pool", "chat", "send", "find"}

MCNext ==
  /\ UNCHANGED part
  /\ \/ part = "pool" /\ PoolNext /\ UNCHANGED <<readsVars, vars, retryVars>>
     \/ part = "chat" /\ ReadsNext /\ UNCHANGED <<poolVars, vars, retryVars>>
     \/ part = "send" /\ Next /\ UNCHANGED <<poolVars, readsVars, retryVars>>
     \/ part = "find" /\ RetryNext /\ UNCHANGED <<poolVars, readsVars, vars>>

MCSpec ==
  /\ MCInit /\ [][MCNext]_<<poolVars, readsVars, vars, retryVars, part>>
  /\ Fairness
================================================================================
