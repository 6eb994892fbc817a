------------------------------ MODULE PanAccounts ------------------------------
(***************************************************************************)
(* The accounts of cloud drives (services/pan_account.rs): their           *)
(* credentials, sealed with a key of the process, and what the provider    *)
(* said of them.  PanTransfer has what an account is used for, PanDrive    *)
(* how.                                                                    *)
(*                                                                         *)
(* A request that sets a credential writes the row, reads it again, asks   *)
(* the provider and writes the verdict: four steps with other requests, an *)
(* error or the end of the process in between.                             *)
(***************************************************************************)
EXTENDS Naturals, FiniteSets

CONSTANTS
  Askers,         \* requests that may be open at a time
  Credentials,
  Folders,        \* values of target_dir
  SealKeys,       \* values of PAN_CRED_KEY; NoSeal is none that can be used
  NoSeal,
  NoAccount, NoVerdict, Same,  \* no row; no verdict yet; a field left out
  MaxAccounts, MaxAsks, MaxTroubles, MaxReboots   \* bounds

Accounts  == 1..MaxAccounts
Platforms == {"quark", "uc"}        \* "baidu" is as "uc": no driver
Driven    == {"quark"}              \* DRIVER_READY_PLATFORMS

ASSUME AccountAssumption == /\ NoSeal \notin SealKeys
                            /\ {MaxAccounts, MaxAsks, MaxTroubles, MaxReboots} \subseteq Nat

VARIABLES
  pan,          \* pan_accounts
  seal,         \* PAN_CRED_KEY of the running process
  honoured,     \* the credentials the provider accepts
  ask,          \* the open requests
  fresh,        \* the next id
  asks, troubles, reboots,
  wished,       \* credential and folder as the requests set them
  judged,       \* the credential the status is about
  unjudged,     \* accounts the last check of which came to nothing
  entangled     \* accounts two requests wrote at a time

accountVars == <<pan, seal, honoured, ask, fresh, asks, troubles, reboots, wished, judged,
                 unjudged, entangled>>
pastAccounts      == <<wished, judged, unjudged, entangled>>

Idle    == [step |-> "none", id |-> 0]
Kept(a) == pan[a] # NoAccount

AccountTypeOK ==
  /\ pan \in [Accounts -> [platform : Platforms, cred : Credentials, key : SealKeys,
                           dir : Folders, status : {"active", "expired", "disabled"}]
                          \cup {NoAccount}]
  /\ seal \in SealKeys \cup {NoSeal} /\ honoured \subseteq Credentials
  /\ \A o \in Askers : ask[o].step \in {"none", "insert", "write", "read", "judge", "save"}
  /\ fresh \in 1..(MaxAccounts + 1)
  /\ judged \in [Accounts -> Credentials \cup {NoVerdict}]
  /\ unjudged \subseteq Accounts /\ entangled \subseteq Accounts

AccountInit ==
  /\ pan = [a \in Accounts |-> NoAccount]
  /\ seal \in SealKeys \cup {NoSeal}
  /\ honoured \in {Credentials}
  /\ ask = [o \in Askers |-> Idle]
  /\ fresh = 1 /\ asks = 0 /\ troubles = 0 /\ reboots = 0
  /\ wished = [a \in Accounts |-> NoAccount]
  /\ judged = [a \in Accounts |-> NoVerdict]
  /\ unjudged = {} /\ entangled = {}

Trouble == troubles < MaxTroubles /\ troubles' = troubles + 1

\* A request begins, next to others on its account.
Ask(o, q) ==
  /\ ask[o] = Idle
  /\ asks < MaxAsks /\ asks' = asks + 1
  /\ ask' = [ask EXCEPT ![o] = q]
  /\ entangled' = entangled \cup {a \in {q.id} \cap Accounts : \E p \in Askers : ask[p].id = a}
  /\ UNCHANGED <<pan, seal, honoured, fresh, troubles, reboots, wished, judged, unjudged>>

Proceed(o, q) == ask' = [ask EXCEPT ![o] = q]
Answered(o)   == ask' = [ask EXCEPT ![o] = Idle]

-----------------------------------------------------------------------------
\* create_account, with a key that seals.
AskAccount(o) ==
  /\ seal # NoSeal
  /\ \E p \in Platforms, c \in Credentials, d \in Folders :
       Ask(o, [step |-> "insert", id |-> 0, platform |-> p, cred |-> c, dir |-> d])

\* update_account: the row is read, the body's fields over it.  The credential
\* is sealed anew only if the body has one.
AskChange(o) ==
  \E a \in Accounts, c \in Credentials \cup {Same}, d \in Folders \cup {Same} :
    /\ Kept(a) /\ (c = Same \/ seal # NoSeal)
    /\ Ask(o, [step |-> "write", id |-> a, cred |-> c, dir |-> d, old |-> pan[a]])

\* check_account
AskCheck(o) ==
  \E a \in Accounts : /\ Kept(a) /\ pan[a].platform \in Driven
                      /\ Ask(o, [step |-> "read", id |-> a])

\* INSERT; a platform without driver is disabled from the start.
InsertAccount(o) ==
  /\ ask[o].step = "insert" /\ fresh <= MaxAccounts
  /\ LET q == ask[o] driven == q.platform \in Driven
     IN /\ pan' = [pan EXCEPT ![fresh] =
             [platform |-> q.platform, cred |-> q.cred, key |-> seal, dir |-> q.dir,
              status |-> IF driven THEN "active" ELSE "disabled"]]
        /\ wished' = [wished EXCEPT ![fresh] = [cred |-> q.cred, dir |-> q.dir]]
        /\ IF driven THEN Proceed(o, [step |-> "read", id |-> fresh]) ELSE Answered(o)
  /\ fresh' = fresh + 1
  /\ UNCHANGED <<seal, honoured, asks, troubles, reboots, judged, unjudged, entangled>>

Given(v, old) == IF v = Same THEN old ELSE v

\* Mutant: a new credential is not checked.
WriteUnchecked(o) ==
  /\ ask[o].step = "write"
  /\ LET q == ask[o] a == q.id
     IN /\ pan' = IF ~Kept(a) THEN pan
                  ELSE [pan EXCEPT ![a].cred = Given(q.cred, q.old.cred),
                                   ![a].key = IF q.cred = Same THEN q.old.key ELSE seal,
                                   ![a].dir = Given(q.dir, q.old.dir)]
        /\ wished' = IF ~Kept(a) THEN wished
                     ELSE [wished EXCEPT ![a].cred = Given(q.cred, @), ![a].dir = Given(q.dir, @)]
        /\ Answered(o)
  /\ UNCHANGED <<seal, honoured, fresh, asks, troubles, reboots, judged, unjudged, entangled>>

\* UPDATE of all three columns; a deleted account is not noticed here.
WriteAccount(o) ==
  /\ ask[o].step = "write"
  /\ LET q == ask[o] a == q.id
     IN /\ pan' = IF ~Kept(a) THEN pan
                  ELSE [pan EXCEPT ![a].cred = Given(q.cred, q.old.cred),
                                   ![a].key = IF q.cred = Same THEN q.old.key ELSE seal,
                                   ![a].dir = Given(q.dir, q.old.dir)]
        /\ wished' = IF ~Kept(a) THEN wished
                     ELSE [wished EXCEPT ![a].cred = Given(q.cred, @), ![a].dir = Given(q.dir, @)]
        /\ IF q.cred # Same /\ q.old.platform \in Driven
           THEN Proceed(o, [step |-> "read", id |-> a]) ELSE Answered(o)
  /\ UNCHANGED <<seal, honoured, fresh, asks, troubles, reboots, judged, unjudged, entangled>>

\* refresh_health: the row and its credential, which another key does not open ...
ReadCredential(o) ==
  /\ ask[o].step = "read"
  /\ LET a == ask[o].id
     IN IF Kept(a) /\ pan[a].key = seal
        THEN /\ Proceed(o, [step |-> "judge", id |-> a, cred |-> pan[a].cred])
             /\ UNCHANGED unjudged
        ELSE Answered(o) /\ unjudged' = unjudged \cup {a}
  /\ UNCHANGED <<pan, seal, honoured, fresh, asks, troubles, reboots, wished, judged, entangled>>

\* ... health_check, whose errors leave the status as it is ...
Judge(o) ==
  /\ ask[o].step = "judge"
  /\ LET a == ask[o].id c == ask[o].cred
     IN \/ /\ Proceed(o, [step |-> "save", id |-> a, cred |-> c, valid |-> c \in honoured])
           /\ UNCHANGED <<troubles, unjudged>>
        \/ Trouble /\ Answered(o) /\ unjudged' = unjudged \cup {a}
  /\ UNCHANGED <<pan, seal, honoured, fresh, asks, reboots, wished, judged, entangled>>

\* ... and the verdict, whatever the row holds by now.
SaveVerdict(o) ==
  /\ ask[o].step = "save"
  /\ LET q == ask[o] a == q.id
     IN IF Kept(a)
        THEN /\ pan' = [pan EXCEPT ![a].status = IF q.valid THEN "active" ELSE "expired"]
             /\ judged' = [judged EXCEPT ![a] = q.cred]
             /\ unjudged' = unjudged \ {a}
        ELSE UNCHANGED <<pan, judged, unjudged>>
  /\ Answered(o)
  /\ UNCHANGED <<seal, honoured, fresh, asks, troubles, reboots, wished, entangled>>

\* A statement fails, or the client hangs up.
AskFails(o) ==
  /\ ask[o] # Idle /\ Trouble /\ Answered(o)
  /\ unjudged' = IF ask[o].step \in {"read", "judge", "save"} THEN unjudged \cup {ask[o].id}
                                                              ELSE unjudged
  /\ UNCHANGED <<pan, seal, honoured, fresh, asks, reboots, wished, judged, entangled>>

\* delete_account
DropAccount(a) ==
  /\ Kept(a) /\ asks < MaxAsks /\ asks' = asks + 1
  /\ pan' = [pan EXCEPT ![a] = NoAccount]
  /\ UNCHANGED <<seal, honoured, ask, fresh, troubles, reboots, pastAccounts>>

\* The provider ends a session.
CredentialDies(c) ==
  /\ c \in honoured /\ honoured' = honoured \ {c}
  /\ UNCHANGED <<pan, seal, ask, fresh, asks, troubles, reboots, pastAccounts>>

\* The process ends and starts again, perhaps with another key.
Reboot ==
  /\ reboots < MaxReboots /\ reboots' = reboots + 1
  /\ seal' \in SealKeys \cup {NoSeal}
  /\ unjudged' = unjudged \cup {ask[o].id : o \in {p \in Askers : ask[p].step \in {"read", "judge", "save"}}}
  /\ ask' = [o \in Askers |-> Idle]
  /\ UNCHANGED <<pan, honoured, fresh, asks, troubles, wished, judged, entangled>>

Asker(o) == \/ AskAccount(o) \/ AskChange(o) \/ AskCheck(o) \/ InsertAccount(o)
            \/ WriteAccount(o) \/ ReadCredential(o) \/ Judge(o) \/ SaveVerdict(o) \/ AskFails(o)

AccountNext ==
  \/ Reboot
  \/ \E o \in Askers : Asker(o)
  \/ \E a \in Accounts : DropAccount(a)
  \/ \E c \in Credentials : CredentialDies(c)

AccountSpec == AccountInit /\ [][AccountNext]_accountVars

-----------------------------------------------------------------------------
(* Properties *)

\* An account no request works on is as the requests set it, and its status is
\* a verdict on the credential it has, unless two requests on it overlapped or
\* its last check failed; "expired" is never said of a credential that still
\* works, and an account without driver stays disabled (update_account,
\* refresh_health).
AccountsKept ==
  \A a \in Accounts : Kept(a) =>
    /\ pan[a].status = "disabled" <=> pan[a].platform \notin Driven
    /\ pan[a].status = "expired" => judged[a] \notin honoured
    /\ \/ a \in entangled \/ \E o \in Askers : ask[o].id = a
       \/ /\ [cred |-> pan[a].cred, dir |-> pan[a].dir] = wished[a]
          /\ pan[a].platform \in Driven => judged[a] = pan[a].cred \/ a \in unjudged

=============================================================================
