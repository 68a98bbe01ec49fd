----------------------------- MODULE EventFate ------------------------------
(***************************************************************************)
(* What a publisher with a retainer promises about every event handed to   *)
(* it: the event is sent, held for republication or skipped because its    *)
(* key is already held; a held event leaves the retainer for exactly one   *)
(* reason; and once an event is settled its fate never changes, so no      *)
(* event is counted both published and republished, or both republished    *)
(* and dropped.                                                            *)
(***************************************************************************)
EXTENDS Integers

CONSTANT Emissions      \* numbers of the events handed to the publisher
VARIABLE fate

Settled == {"published", "republished", "duplicate", "overflow", "expired",
            "superseded", "cleared"}
Fates   == Settled \cup {"none", "held"}

AcceptedAs == {"published", "held", "duplicate"}
LeavesAs   == {"republished", "overflow", "expired", "superseded", "cleared"}

Init == fate = [s \in Emissions |-> "none"]

(* The next event is accepted; only one event can be the next. *)
Accept(s) ==
  /\ fate[s] = "none"
  /\ \A t \in Emissions : t < s => fate[t] # "none"
  /\ fate'[s] \in AcceptedAs

(* The only ways in which the fate of an event may change in one step. *)
Lawful(s) ==
  \/ fate'[s] = fate[s]
  \/ fate[s] = "none" /\ Accept(s)
  \/ fate[s] = "held" /\ fate'[s] \in LeavesAs

Next ==
  /\ fate' \in [Emissions -> Fates]
  /\ \A s \in Emissions : Lawful(s)

Spec == Init /\ [][Next]_fate
=============================================================================
