----------------------------- MODULE MCCredentials -----------------------------
(***************************************************************************)
(* The login sessions' rows and the Instagram rows, which share nothing    *)
(* but the table: checked one after the other, each from its start.        *)
(***************************************************************************)
EXTENDS CredentialSession, InstagramCredentials

MCUserName == [i \in {"shop", "club"} |-> IF i = "shop" THEN "barbel" ELSE "papis"]

MCInit == SessionInit /\ IgInit

MCNext ==
  \/ IgInit /\ SessionNext /\ UNCHANGED igVars
  \/ SessionInit /\ wiring = "perSub" /\ row = 0 /\ IgNext /\ UNCHANGED sessionVars

MCSpec == MCInit /\ [][MCNext]_<<sessionVars, igVars>> /\ SessionFairness
================================================================================
