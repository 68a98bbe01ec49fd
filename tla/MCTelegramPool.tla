---------------------------- MODULE MCTelegramPool ----------------------------
(***************************************************************************)
(* The Telegram pairing pool in three scenes, each complete in what it is  *)
(* about: subs share nothing but the places of the pool, so that the flows *)
(* and the lookups of a sub need no other sub next to them, and a fight    *)
(* for places needs nobody who scans.                                      *)
(***************************************************************************)
EXTENDS TelegramPool

VARIABLE scene   \* who uses the pool, and how far

Scenes == {
  \* Lookups that overlap, next to one flow; the store fails.
  [subs |-> Held, starts |-> 1, lookups |-> Cardinality(Lookups), failures |-> 1, codes |-> TRUE],
  \* Flows that overlap, next to one lookup.
  [subs |-> Held, starts |-> 2, lookups |-> 1, failures |-> 0, codes |-> TRUE],
  \* More subs than places, and no code is ever shown, no login ended.
  [subs |-> Subs, starts |-> MaxStarts, lookups |-> 0, failures |-> 0, codes |-> FALSE]}

Within(c) ==
  /\ Len(live) = c.starts => \A s \in Subs : ~CoolDown(s)
  /\ Len(live') <= c.starts /\ failures' <= c.failures
  /\ \A x \in DOMAIN live' : live'[x].sub \in c.subs
  /\ \A a \in Lookups : loads'[a].step # "none" => loads'[a].sub \in c.subs
  /\ Cardinality({a \in Lookups : loads'[a].step # "none"}) <= c.lookups
  /\ ~c.codes => dead' = dead /\ \A x \in DOMAIN live' : live'[x].state = "starting"

MCInit == Init /\ scene \in Scenes

MCNext == Next /\ Within(scene) /\ UNCHANGED scene

\* A scene refuses nothing that Fairness asks for.
MCSpec == MCInit /\ [][MCNext]_<<vars, scene>> /\ Fairness
================================================================================
