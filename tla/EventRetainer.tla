--------------------------- MODULE EventRetainer ---------------------------
(***************************************************************************)
(* BoundedEventRetainer of connectors/whatsapp-web/src/events/publisher.ts *)
(* (connectors/instagram/src/publisher.ts carries the same class): the     *)
(* FIFO queue in which a connector keeps events while NATS is away.        *)
(*                                                                         *)
(* The queue is the set of its entries.  An entry carries the number of    *)
(* the emission it came from (the code's `accepted` counter at that        *)
(* moment), and the array order of the code is the order of these numbers: *)
(* push() appends the newest emission, and requeueFront() gives back       *)
(* entries older than everything pushed since they were drained:           *)
(* EventPublisher!BatchBeforeQueue, proved.  The code's `keys` set is      *)
(* always KeysOf(queue), each operation updating both together.            *)
(***************************************************************************)
EXTENDS Integers, FiniteSets

CONSTANTS Keys,       \* dedup keys of the logical events
          MaxEvents   \* NATS_RETENTION_MAX_EVENTS, the entry cap

ASSUME RetainerAssumption == MaxEvents \in Nat \ {0}

(* The entries of the first n emissions. *)
Entry(n) == [key : Keys, seq : 1 .. n]

KeysOf(q) == {i.key : i \in q}
Seqs(q)   == {i.seq : i \in q}

Newer(q, i) == {j \in q : j.seq > i.seq}

(* A key that already waits is never queued twice. *)
IsDuplicate(q, key) == key \in KeysOf(q)

(* dropExpired: the head entries past the age window, here those up to the *)
(* emission `cut`; the clock is abstracted to the choice of `cut`.         *)
DropExpired(q, cut) == {i \in q : i.seq > cut}

(* The eviction loop of enqueue(): shift() the head while above the cap.   *)
DropOverflow(q) == {i \in q : Cardinality(Newer(q, i)) < MaxEvents}

Enqueue(q, item, cut) == DropOverflow(DropExpired(q, cut) \cup {item})

(* What requeueFront() puts back: an entry whose key was queued again in   *)
(* the meantime is skipped.                                                *)
Requeueable(q, batch) == {i \in batch : i.key \notin KeysOf(q)}

(* Mutated: nothing is given back. *)
RequeueNone(q, batch) == q

RequeueFront(q, batch) == q \cup Requeueable(q, batch)
=============================================================================
