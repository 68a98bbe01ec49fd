-------------------------- MODULE CredentialMirror --------------------------
(***************************************************************************)
(* What a write-back promises of the stored row of one session: the row    *)
(* holds a version the session once had, and it only moves to a newer one. *)
(***************************************************************************)
EXTENDS Integers

VARIABLES session, row      \* version of the live session, version stored

Init == row \in Nat /\ session \in Nat /\ row <= session

Persist == session' \in Nat /\ session' > session /\ row' = row

Store == row' \in row .. session /\ session' = session

Next == Persist \/ Store

Spec == Init /\ [][Next]_<<session, row>>
=============================================================================
