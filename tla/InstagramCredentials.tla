------------------------- MODULE InstagramCredentials -------------------------
(***************************************************************************)
(* The Instagram connector's credentials: whose account a request to       *)
(* /api/v1/:account acts on (credential-resolution.ts), the token that is  *)
(* refreshed while the request waits, and the pairing callbacks            *)
(* (oauth-pairing.ts) that write the same rows.  Every query and every     *)
(* call to Meta is a step of its own, so callbacks and requests interleave *)
(* between any two of them.                                                *)
(*                                                                         *)
(* A row is kept under <<sub, Own>> (session key `<sub>`) or under         *)
(* <<sub, name>> (`<sub>:<name>`), where name is an account label or a     *)
(* username.  Of a token the model keeps whose it is and its age.          *)
(***************************************************************************)
EXTENDS FiniteSets

CONSTANTS Subs, Names, Ids,     \* callers, labels and usernames, Meta accounts
          Labels, Asked,        \* the labels given to a pairing, the names in the requests' paths
          UserName,             \* the username of a Meta account
          House,                \* the names of the accounts in the environment
          Requests, Callbacks,  \* the HTTP requests and the pairing callbacks
          None                  \* no row, no label, no caller

ASSUME InstagramAssumption ==
  /\ UserName \in [Ids -> Names]
  /\ Labels \cup Asked \cup House \subseteq Names
  /\ House # {} /\ IsFiniteSet(House)
  /\ None \notin Subs \cup Names \cup Ids

VARIABLES rows,     \* the store: a token per session key
          req,      \* the requests being served
          pair,     \* the pairing callbacks under way
          paired    \* history: which account was paired under which key

igVars == <<rows, req, pair, paired>>

Own   == <<"own">>
Named(n) == <<"name", n>>
Keys  == Subs \X ({Own} \cup {Named(n) : n \in Names})
NoRow == [id |-> None, age |-> "due"]
Row   == [id : Ids, age : {"young", "due"}] \cup {NoRow}

\* What a request acts on: an account of the house, or the account of a row.
HouseAccount == "house"
Idle   == [at |-> "idle", sub |-> None, name |-> None, key |-> None, row |-> NoRow]
Refused == [Idle EXCEPT !.at = "refused"]
Unused == [at |-> "idle", sub |-> None, label |-> None, id |-> None, saw |-> NoRow, key |-> None]

IgInit ==
  /\ rows = [k \in Keys |-> NoRow]
  /\ req = [r \in Requests |-> Idle]
  /\ pair = [p \in Callbacks |-> Unused]
  /\ paired = {}

(***************************************************************************)
(* Requests.                                                               *)
(***************************************************************************)
\* The environment's account of that name, or the only one there is.
Legacy(n) == n \in House \/ Cardinality(House) = 1

\* Nobody is named in the headers, or the store is off: the house's account.
Anonymous(r) ==
  /\ req[r].at = "idle"
  /\ \E n \in Asked : req' = [req EXCEPT ![r].at = IF Legacy(n) THEN "call" ELSE "refused"]
  /\ UNCHANGED <<rows, pair, paired>>

Arrives(r) ==
  /\ req[r].at = "idle"
  /\ \E s \in Subs, n \in Asked :
       req' = [req EXCEPT ![r] = [Idle EXCEPT !.at = "scoped", !.sub = s, !.name = n]]
  /\ UNCHANGED <<rows, pair, paired>>

\* subAccountStoreView: the row of that name first, then the caller's own.
Found(r, k) ==
  [req EXCEPT ![r].at = "refresh", ![r].name = None, ![r].key = k, ![r].row = rows[k]]

GetScoped(r) ==
  LET k == <<req[r].sub, Named(req[r].name)>> IN
  /\ req[r].at = "scoped"
  /\ req' = IF rows[k] # NoRow THEN Found(r, k) ELSE [req EXCEPT ![r].at = "own"]
  /\ UNCHANGED <<rows, pair, paired>>

\* loadLegacy answers null for a caller with a sub: no row is a refusal.
NoCredential(r) == [req EXCEPT ![r] = Refused]

GetOwn(r) ==
  LET k == <<req[r].sub, Own>> IN
  /\ req[r].at = "own"
  /\ req' = IF rows[k] # NoRow THEN Found(r, k) ELSE NoCredential(r)
  /\ UNCHANGED <<rows, pair, paired>>

\* The store cannot be read: answered 500.
GetFails(r) ==
  /\ req[r].at \in {"scoped", "own"}
  /\ req' = [req EXCEPT ![r] = Refused]
  /\ UNCHANGED <<rows, pair, paired>>

\* refreshIfExpiring: a young token is used as it is, and so is one Meta does not renew.
KeepToken(r) ==
  /\ req[r].at = "refresh"
  /\ req' = [req EXCEPT ![r].at = "call"]
  /\ UNCHANGED <<rows, pair, paired>>

\* Meta renews a token that has not expired.
Renewed(r) ==
  /\ req[r].at = "refresh" /\ req[r].row.age = "due"
  /\ req' = [req EXCEPT ![r].at = "put"]
  /\ UNCHANGED <<rows, pair, paired>>

\* The renewed token goes back under the key it was read from.
HomeOfSub(r) == <<req[r].sub, Own>>

HomeOf(r) == req[r].key

RefreshPut(r) ==
  LET new == [req[r].row EXCEPT !.age = "young"] IN
  /\ req[r].at = "put"
  /\ rows' = [rows EXCEPT ![HomeOf(r)] = new]
  /\ req' = [req EXCEPT ![r].at = "call", ![r].row = new]
  /\ UNCHANGED <<pair, paired>>

\* The write fails: the request goes on with the token it read.
RefreshPutFails(r) ==
  /\ req[r].at = "put"
  /\ req' = [req EXCEPT ![r].at = "call"]
  /\ UNCHANGED <<rows, pair, paired>>

\* Whose token the routes use: the one resolved when the request came in.
ActsOn(r) == IF req[r].row = NoRow THEN HouseAccount ELSE req[r].row.id

\* One call to Meta does, or creates the container of a publish.
Called(r) ==
  /\ req[r].at = "call"
  /\ \E next \in {"served", "container"} : req' = [req EXCEPT ![r].at = next]
  /\ UNCHANGED <<rows, pair, paired>>

\* The container is published when Meta has processed it.
Published(r) ==
  /\ req[r].at = "container"
  /\ req' = [req EXCEPT ![r].at = "served"]
  /\ UNCHANGED <<rows, pair, paired>>

\* Meta refuses the call, or the container does not get ready in time: answered 500.
CallFails(r) ==
  /\ req[r].at \in {"call", "container"}
  /\ req' = [req EXCEPT ![r] = Refused]
  /\ UNCHANGED <<rows, pair, paired>>

Answered(r) ==
  /\ req[r].at \in {"served", "refused"}
  /\ req' = [req EXCEPT ![r] = Idle]
  /\ UNCHANGED <<rows, pair, paired>>

(***************************************************************************)
(* Pairing.                                                                *)
(***************************************************************************)
\* authorize-url signs a link for a caller and a label.  Nothing of it is kept: until it
\* expires it may be used any number of times.
Links == Subs \X (Labels \cup {None})

\* The callback: its code is exchanged for a 60-day token and Meta names the account.
Consented(p) ==
  /\ pair[p].at = "idle"
  /\ \E link \in Links, i \in Ids :
       pair' = [pair EXCEPT ![p] = [Unused EXCEPT !.at = "read", !.sub = link[1],
                                                  !.label = link[2], !.id = i]]
  /\ UNCHANGED <<rows, req, paired>>

SessionKeyOwn(s, label, own, i) ==
  IF label # None THEN <<s, Named(label)>> ELSE <<s, Own>>

SessionKeyFor(s, label, own, i) ==
  CASE label # None -> <<s, Named(label)>>
    [] label = None /\ own.id \in {None, i} -> <<s, Own>>
    [] OTHER -> <<s, Named(UserName[i])>>

ReadOwn(p) ==
  LET own == rows[<<pair[p].sub, Own>>] IN
  /\ pair[p].at = "read"
  /\ pair' = [pair EXCEPT ![p].at = "put", ![p].saw = own,
                          ![p].key = SessionKeyFor(pair[p].sub, pair[p].label, own, pair[p].id)]
  /\ UNCHANGED <<rows, req, paired>>

PairPut(p) ==
  /\ pair[p].at = "put"
  /\ rows' = [rows EXCEPT ![pair[p].key] = [id |-> pair[p].id, age |-> "young"]]
  /\ pair' = [pair EXCEPT ![p] = Unused]
  /\ paired' = paired \cup {<<pair[p].key, pair[p].id>>}
  /\ UNCHANGED req

\* The read or the write fails: the page says so.
PairFails(p) ==
  /\ pair[p].at \in {"read", "put"}
  /\ pair' = [pair EXCEPT ![p] = Unused]
  /\ UNCHANGED <<rows, req, paired>>

\* A token is due 46 days after it was issued: no callback lasts so long.  After 60 days Meta
\* refuses it: it is kept and the call fails.
GrowsOld(k) ==
  /\ rows[k].age = "young"
  /\ \A p \in Callbacks : pair[p].at \notin {"read", "put"}
  /\ rows' = [rows EXCEPT ![k].age = "due"]
  /\ UNCHANGED <<req, pair, paired>>

RequestStep(r) ==
  \/ Anonymous(r) \/ Arrives(r) \/ GetScoped(r) \/ GetOwn(r) \/ GetFails(r)
  \/ KeepToken(r) \/ Renewed(r) \/ RefreshPut(r) \/ RefreshPutFails(r)
  \/ Called(r) \/ Published(r) \/ CallFails(r) \/ Answered(r)

PairStep(p) ==
  Consented(p) \/ ReadOwn(p) \/ PairPut(p) \/ PairFails(p)

IgNext ==
  \/ \E r \in Requests : RequestStep(r)
  \/ \E p \in Callbacks : PairStep(p)
  \/ \E k \in Keys : GrowsOld(k)

IgSpec == IgInit /\ [][IgNext]_igVars

-----------------------------------------------------------------------------
(***************************************************************************)
(* Properties.                                                             *)
(***************************************************************************)
RequestType ==
  [at : {"idle", "scoped", "own", "refresh", "put", "call", "container", "served", "refused"},
   sub : Subs \cup {None}, name : Names \cup {None}, key : Keys \cup {None}, row : Row]

CallbackType ==
  [at : {"idle", "read", "put"}, sub : Subs \cup {None}, label : Names \cup {None},
   id : Ids \cup {None}, saw : Row, key : Keys \cup {None}]

InstagramTypeOK ==
  /\ rows \in [Keys -> Row] /\ paired \subseteq Keys \X Ids
  /\ req \in [Requests -> RequestType] /\ pair \in [Callbacks -> CallbackType]

\* A row holds the token of an account that was paired under that very key, whatever
\* refreshes and callbacks interleave (credential-resolution.ts:124-127: "the refresh
\* write-back replaces the SAME row it read").
RowsArePaired == \A k \in Keys : rows[k] # NoRow => <<k, rows[k].id>> \in paired

\* A caller with a sub acts on an account paired under one of its own keys, never on the
\* house's nor on another caller's (main.ts:350-351: "never another user's account").
ActsOnOwnAccount ==
  \A r \in Requests :
    req[r].at \in {"call", "container", "served"} /\ req[r].sub # None =>
      \E k \in Keys : k[1] = req[r].sub /\ <<k, ActsOn(r)>> \in paired

OnlyPaired == RowsArePaired /\ ActsOnOwnAccount

\* The account under a caller's own key is replaced by another only by a callback that read
\* the key before the account it replaces was there: a second account without a label goes
\* elsewhere, and no refresh brings an account back (sessionKeyForPairing).
OwnAccountKept ==
  [][\A s \in Subs :
       LET k == <<s, Own>> IN
       rows[k] # NoRow /\ rows'[k].id # rows[k].id =>
         \E p \in Callbacks : /\ pair[p].at = "put" /\ pair[p].key = k
                              /\ pair[p].saw.id # rows[k].id]_igVars

\* Types, and no caller acts on an account nobody paired for it.
IgCredentialsInv == InstagramTypeOK /\ OnlyPaired
=============================================================================
