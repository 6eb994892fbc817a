-------------------------------- MODULE ApiKeys --------------------------------
(***************************************************************************)
(* The keys of the open API (services/api_key.rs, middleware/api_key.rs,   *)
(* handlers/api_keys.rs): they are issued, revoked and rotated, and every  *)
(* call made with one uses up a part of its quota.                         *)
(*                                                                         *)
(* A call reads the row of its key twice and then adds 1 to quota_used; a  *)
(* rotation reads the row, disables it, and inserts another one: each in   *)
(* statements of its own, between which other requests come.               *)
(***************************************************************************)
EXTENDS Naturals, FiniteSets

CONSTANTS
  Requesters,    \* requests open at a time: calls and those of the admins
  Quotas,        \* quota_limit as requested; 0 is no limit
  NoKey,
  MaxKeys, MaxCallsMade, MaxRotations, MaxDrops   \* bounds

KeyIds == 1..MaxKeys

\* A row; first is the key it was rotated from, over however many rotations.
KeyRow == [status : {"enabled", "disabled"}, limit : Quotas, used : Nat, first : KeyIds]

ASSUME KeyAssumption ==
  /\ Quotas \subseteq Nat /\ IsFiniteSet(Requesters) /\ Requesters # {}
  /\ {MaxKeys, MaxCallsMade, MaxRotations, MaxDrops} \subseteq Nat
  /\ NoKey \notin KeyRow

VARIABLES
  apiKey,      \* api_keys: the rows by id
  deal,        \* the requests
  served,      \* the calls with each key that reached their handler
  revoked,     \* ids that were revoked
  tangled,     \* first keys two rotations of which, or one and a revocation, crossed
  halved,      \* first keys a rotation of which was cut off
  callsMade, rotations, drops

keyGhosts == <<served, revoked, tangled, halved>>
keyBounds == <<callsMade, rotations, drops>>
keyVars   == <<apiKey, deal, keyGhosts, keyBounds>>

NoDeal == [at |-> "idle", id |-> 0]

KeyTypeOK ==
  /\ apiKey \in [KeyIds -> KeyRow \cup {NoKey}]
  /\ \A r \in Requesters : deal[r].at \in {"idle", "quota", "charge", "serve", "disable", "issue"}
  /\ tangled \cup halved \cup revoked \subseteq KeyIds

KeyInit ==
  /\ apiKey = [i \in KeyIds |-> NoKey]
  /\ deal = [r \in Requesters |-> NoDeal]
  /\ served = [i \in KeyIds |-> 0]
  /\ revoked = {} /\ tangled = {} /\ halved = {}
  /\ callsMade = 0 /\ rotations = 0 /\ drops = 0

Issued == {i \in KeyIds : apiKey[i] # NoKey}
Usable(i) == i \in Issued /\ apiKey[i].status = "enabled"

Goes(r, at) == deal' = [deal EXCEPT ![r].at = at]
Ends(r)     == deal' = [deal EXCEPT ![r] = NoDeal]

\* The rotations of the keys that come of f, but for the one of r.
Rotating(f, r) ==
  {q \in Requesters \ {r} : deal[q].at \in {"disable", "issue"} /\ apiKey[deal[q].id].first = f}

\* create: the row is enabled and unused.
InsertKey(limit, first) ==
  \E i \in KeyIds \ Issued :
    /\ \A j \in KeyIds \ Issued : i <= j
    /\ apiKey' = [apiKey EXCEPT ![i] = [status |-> "enabled", limit |-> limit, used |-> 0,
                                        first |-> IF first = 0 THEN i ELSE first]]

-----------------------------------------------------------------------------
(* The admins *)

CreateKey ==
  /\ \E limit \in Quotas : InsertKey(limit, 0)
  /\ UNCHANGED <<deal, keyGhosts, keyBounds>>

\* One UPDATE, of an enabled key only.
Revoke(i) ==
  /\ Usable(i)
  /\ apiKey' = [apiKey EXCEPT ![i].status = "disabled"]
  /\ revoked' = revoked \cup {i}
  /\ LET f == apiKey[i].first
     IN tangled' = IF \E r \in Requesters : Rotating(f, r) # {} THEN tangled \cup {f} ELSE tangled
  /\ UNCHANGED <<deal, served, halved, keyBounds>>

\* rotate reads the row, ...
Rotate(r, i) ==
  /\ deal[r] = NoDeal /\ Usable(i)
  /\ rotations < MaxRotations /\ rotations' = rotations + 1
  /\ deal' = [deal EXCEPT ![r] = [at |-> "disable", id |-> i]]
  /\ LET f == apiKey[i].first
     IN tangled' = IF Rotating(f, r) # {} THEN tangled \cup {f} ELSE tangled
  /\ UNCHANGED <<apiKey, served, revoked, halved, callsMade, drops>>

\* ... disables it, whatever became of it meanwhile, ...
Disable(r) ==
  /\ deal[r].at = "disable"
  /\ apiKey' = [apiKey EXCEPT ![deal[r].id].status = "disabled"]
  /\ Goes(r, "issue")
  /\ UNCHANGED <<keyGhosts, keyBounds>>

\* ... and issues one of the same limit.
Reissue(r) ==
  /\ deal[r].at = "issue"
  /\ LET old == apiKey[deal[r].id] IN InsertKey(old.limit, old.first)
  /\ Ends(r)
  /\ UNCHANGED <<keyGhosts, keyBounds>>

-----------------------------------------------------------------------------
(* A call: api_key_middleware *)

\* validate: the key is there and enabled.
MakeCall(r, i) ==
  /\ deal[r] = NoDeal /\ Usable(i)
  /\ callsMade < MaxCallsMade /\ callsMade' = callsMade + 1
  /\ deal' = [deal EXCEPT ![r] = [at |-> "quota", id |-> i]]
  /\ UNCHANGED <<apiKey, keyGhosts, rotations, drops>>

\* Mutant: the last call of the quota is not counted.
ReadQuotaBeyond(r) ==
  /\ deal[r].at = "quota"
  /\ LET k == apiKey[deal[r].id]
     IN IF k.limit > 0 /\ k.used > k.limit THEN Ends(r) ELSE Goes(r, "charge")
  /\ UNCHANGED <<apiKey, keyGhosts, keyBounds>>

\* consume_quota reads the row again: used up, or not.
ReadQuota(r) ==
  /\ deal[r].at = "quota"
  /\ LET k == apiKey[deal[r].id]
     IN IF k.limit > 0 /\ k.used >= k.limit THEN Ends(r) ELSE Goes(r, "charge")
  /\ UNCHANGED <<apiKey, keyGhosts, keyBounds>>

\* The UPDATE looks at neither the limit nor the status.
Charge(r) ==
  /\ deal[r].at = "charge"
  /\ apiKey' = [apiKey EXCEPT ![deal[r].id].used = @ + 1]
  /\ Goes(r, "serve")
  /\ UNCHANGED <<keyGhosts, keyBounds>>

Serve(r) ==
  /\ deal[r].at = "serve"
  /\ served' = [served EXCEPT ![deal[r].id] = @ + 1]
  /\ Ends(r)
  /\ UNCHANGED <<apiKey, revoked, tangled, halved, keyBounds>>

\* A statement fails, or the client goes away.
DropDeal(r) ==
  /\ deal[r] # NoDeal
  /\ drops < MaxDrops /\ drops' = drops + 1
  /\ halved' = IF deal[r].at = "issue" THEN halved \cup {apiKey[deal[r].id].first} ELSE halved
  /\ Ends(r)
  /\ UNCHANGED <<apiKey, served, revoked, tangled, callsMade, rotations>>

-----------------------------------------------------------------------------
KeyNext ==
  \/ CreateKey
  \/ \E i \in KeyIds : Revoke(i)
  \/ \E r \in Requesters :
       \/ \E i \in KeyIds : Rotate(r, i) \/ MakeCall(r, i)
       \/ Disable(r) \/ Reissue(r) \/ ReadQuota(r) \/ Charge(r) \/ Serve(r) \/ DropDeal(r)

KeySpec == KeyInit /\ [][KeyNext]_keyVars

-----------------------------------------------------------------------------
(* Properties *)

Successors(f) == {i \in Issued : apiKey[i].first = f}

\* No call is served that its key was not charged for, and a quota is
\* overdrawn at most by the calls that ran next to the one that used it up
\* (consume_quota).  Of a key and those it was rotated into, one is enabled
\* and no other, until that one is revoked, unless a rotation is under way,
\* was cut off or met another one or a revocation (rotate, revoke).
KeysAccounted ==
  /\ \A i \in Issued :
       /\ served[i] <= apiKey[i].used
       /\ apiKey[i].limit > 0 => apiKey[i].used <= apiKey[i].limit + Cardinality(Requesters) - 1
  /\ \A f \in KeyIds \ tangled :
       /\ Cardinality({i \in Successors(f) : Usable(i)}) <= 1
       /\ (Successors(f) # {} /\ \A i \in Successors(f) : ~Usable(i)) =>
            \/ f \in halved \/ Successors(f) \cap revoked # {}
            \/ \E r \in Requesters : deal[r].at = "issue" /\ deal[r].id \in Successors(f)

=============================================================================
