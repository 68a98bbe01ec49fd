------------------------------- MODULE MCRecords -------------------------------
(***************************************************************************)
(* Two parts that write what they know to the database and share no state: *)
(* the write-back of a session and the history imports.  Checked one after *)
(* the other, each from its start.                                         *)
(***************************************************************************)
EXTENDS CredentialWriteBack, WhatsAppHistory, TLC

\* Two chats, one of them with two messages.
MCTexts == {<<1, 1>>, <<1, 2>>, <<2, 1>>}

MCSymmetry == Permutations(Bursts) \cup Permutations(Syncs)

MCInit == Init /\ HistoryInit

\* The write-back starts with a row or without, the imports once.
MCNext ==
  \/ HistoryInit /\ Next /\ UNCHANGED historyVars
  \/ Init /\ row = 0 /\ session = 0 /\ HistoryNext /\ UNCHANGED vars

MCSpec == MCInit /\ [][MCNext]_<<vars, historyVars>>
================================================================================
