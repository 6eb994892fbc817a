--------------------------- MODULE TelegramClients ---------------------------
(***************************************************************************)
(* One Telegram client of the program: its row in the table clients, its   *)
(* session file, its entry in the map tg_clients, and the update listeners *)
(* that were spawned for it (services/tg_manager.rs, services/tg_auth.rs,  *)
(* handlers/client.rs).  Clients do not share any of these, so one client  *)
(* stands for all.                                                         *)
(*                                                                         *)
(* Processes: the administrators' requests (Callers) and the reconnector,  *)
(* which first runs reconnect_on_startup and then the 30 s loop.  A step   *)
(* is what a process does between two awaits: a section under the lock of  *)
(* the map, a call to Telegram, a statement.                               *)
(***************************************************************************)
EXTENDS Naturals, FiniteSets

CONSTANTS Callers,       \* the requests that may be served at a time
          Reconnector,   \* the startup and auto-reconnect task
          Conns, NoConn, \* connections to Telegram (grammers Client)
          Tasks, NoTask, \* spawned update listeners
          MaxRequests,   \* bound on the requests
          MaxFaults,     \* bound on failed calls, statements and connections
          MaxCrashes     \* bound on the restarts

ASSUME ClientAssumption ==
    /\ Reconnector \notin Callers
    /\ NoConn \notin Conns
    /\ NoTask \notin Tasks
    /\ {MaxRequests, MaxFaults, MaxCrashes} \subseteq Nat

Procs == Callers \cup {Reconnector}
Status == {"new", "wait_code", "wait_password", "active", "offline"}

VARIABLES
  row,       \* clients.status, or "deleted"; "added" is 'active' as add_client
             \* inserts it for a Bot, which nothing has written since
  session,   \* tg_store/{id}.session: "absent", "anon" or "auth"
  entry,     \* the entry of the map; status "none": there is no entry
  authed,    \* the connections whose session is signed in
  listener,  \* the listener tasks: what each does, and on which connection
  storing,   \* listeners whose handle the spawned helper has not stored yet
  at,        \* what each process does next
  job,       \* the connection, the token and the status it works with
  booting,   \* reconnect_on_startup has not returned
  requests, faults, crashes,
  lost,      \* listeners whose JoinHandle was dropped while they run
  crossed,   \* a step meant for one generation of the entry hit another one:
             \* a login was finished on it, a stop aborted its listener
  halfGone   \* a removal deleted the session file and not the row

disk == <<row, session>>
memory == <<entry, authed, listener, storing>>
procs == <<at, job, booting>>
bounds == <<requests, faults, crashes>>
ghosts == <<lost, crossed, halfGone>>
vars == <<disk, memory, procs, bounds, ghosts>>

NoEntry == [status |-> "none", conn |-> NoConn, handle |-> NoTask,
            login |-> NoConn, password |-> NoConn]
\* Mutant: a new entry without a connection has no status.
FreshBlank(s, c) == [NoEntry EXCEPT !.status = IF c = NoConn THEN "new" ELSE s, !.conn = c]

Fresh(s, c) == [NoEntry EXCEPT !.status = s, !.conn = c]
NoJob == [conn |-> NoConn, token |-> NoConn, write |-> "offline"]
Unused == [does |-> "none", conn |-> NoConn]

Present == entry.status # "none"
Live(l) == listener[l].does # "none"
SaysActive == row \in {"active", "added"}   \* WHERE status = 'active'

(***************************************************************************)
(* What an earlier run left: a client that was never logged in, one that   *)
(* was active, one that was offline; or a Bot, whose row add_client makes  *)
(* active before it ever signed in: in an earlier run, or in this one.     *)
(***************************************************************************)
Init ==
  /\ \E left \in {<<"new", "absent">>, <<"active", "auth">>, <<"offline", "auth">>,
                  <<"added", "absent">>} :
       row = left[1] /\ session = left[2]
  /\ entry = NoEntry /\ authed = {} /\ storing = {}
  /\ listener = [l \in Tasks |-> Unused]
  /\ booting \in IF row = "added" THEN BOOLEAN ELSE {row = "active"}
  /\ at = [p \in Procs |-> IF booting /\ p = Reconnector THEN "check" ELSE "idle"]
  /\ job = [p \in Procs |-> NoJob]
  /\ requests = 0 /\ faults = 0 /\ crashes = 0
  /\ lost = {} /\ crossed = FALSE /\ halfGone = FALSE

-----------------------------------------------------------------------------
(* Helpers *)

SetRow(s) == row' = IF row = "deleted" THEN row ELSE s
Goto(p, where) == at' = [at EXCEPT ![p] = where]
Ends(p) == Goto(p, "idle") /\ job' = [job EXCEPT ![p] = NoJob]
MayFail == faults < MaxFaults /\ faults' = faults + 1

\* A JoinHandle that is dropped leaves its task running and out of reach.
Drop(ls) == lost' = lost \cup {l \in ls : l # NoTask /\ Live(l)}

FreeConns == {c \in Conns : /\ entry.conn # c /\ entry.login # c /\ entry.password # c
                            /\ \A p \in Procs : job[p].conn # c /\ job[p].token # c
                            /\ \A l \in Tasks : listener[l].conn # c}
FreeTasks == {l \in Tasks : ~Live(l) /\ l \notin storing /\ entry.handle # l}

\* spawn_update_listener: the listener, and the task that stores its handle.
Spawn(c) ==
  /\ FreeTasks # {}
  /\ LET l == CHOOSE x \in FreeTasks : TRUE
     IN  /\ listener' = [listener EXCEPT ![l] = [does |-> "listens", conn |-> c]]
         /\ storing' = storing \cup {l}

\* A request of an idle caller; the server is up once the startup is done.
\* Codes and passwords answer an earlier request and are not counted again.
Served(p) == p \in Callers /\ at[p] = "idle" /\ ~booting /\ row # "deleted"
Request(p) ==
  /\ Served(p)
  /\ requests < MaxRequests /\ requests' = requests + 1
  /\ UNCHANGED <<faults, crashes>>

-----------------------------------------------------------------------------
(* start_client *)

\* "Prevent duplicate start"
CheckStarted(p) ==
  /\ IF entry.status = "active"
     THEN /\ Goto(p, IF booting THEN "idle" ELSE "row")
          /\ job' = [job EXCEPT ![p] = [NoJob EXCEPT !.write = "active"]]
     ELSE Goto(p, "connect") /\ UNCHANGED job
  /\ UNCHANGED <<disk, memory, ghosts>>

StartClient(p) == Request(p) /\ CheckStarted(p) /\ UNCHANGED booting

\* The reconnector: SELECT the offline rows that have a session file, ...
ReconnectTick ==
  /\ at[Reconnector] = "idle" /\ ~booting
  /\ row = "offline" /\ session # "absent"
  /\ Goto(Reconnector, "check")
  /\ UNCHANGED <<disk, memory, job, booting, bounds, ghosts>>

\* ... and start them one after the other.
ReconnectStart ==
  /\ at[Reconnector] = "check"
  /\ CheckStarted(Reconnector)
  /\ UNCHANGED <<booting, bounds>>

\* Load or create the session file, connect, ask whether it is signed in.
Connect(p) ==
  /\ at[p] = "connect"
  /\ session' = IF session = "absent" THEN "anon" ELSE session
  /\ FreeConns # {}
  /\ LET c == CHOOSE x \in FreeConns : TRUE
     IN  /\ job' = [job EXCEPT ![p].conn = c]
         /\ authed' = IF session = "auth" THEN authed \cup {c} ELSE authed \ {c}
  /\ Goto(p, IF session = "auth" THEN "spawn" ELSE "insert")
  /\ UNCHANGED <<row, entry, listener, storing, booting, bounds, ghosts>>

ConnectFails(p) ==
  /\ at[p] = "connect" /\ MayFail
  /\ session' = IF session = "absent" THEN "anon" ELSE session
  /\ IF p = Reconnector /\ booting
     THEN Goto(p, "row") /\ UNCHANGED job      \* write: "offline"
     ELSE Ends(p)
  /\ UNCHANGED <<row, memory, booting, requests, crashes, ghosts>>

\* The listener starts before the entry is in the map.
SpawnListener(p) ==
  /\ at[p] = "spawn"
  /\ Spawn(job[p].conn)
  /\ Goto(p, "insert")
  /\ UNCHANGED <<disk, entry, authed, job, booting, bounds, ghosts>>

\* The new entry replaces the old one, whose handle goes with it.
InsertEntry(p) ==
  /\ at[p] = "insert"
  /\ LET c == job[p].conn
         s == IF c \in authed THEN "active" ELSE "wait_code"
     IN  /\ entry' = Fresh(s, c)
         /\ Drop({entry.handle})
         /\ IF p = Reconnector /\ booting
            THEN Ends(p) /\ booting' = FALSE
            ELSE /\ Goto(p, "row")
                 /\ job' = [job EXCEPT ![p] = [NoJob EXCEPT !.write = s]]
                 /\ UNCHANGED booting
  /\ UNCHANGED <<disk, authed, listener, storing, bounds, crossed, halfGone>>

-----------------------------------------------------------------------------
(* The statement that ends most operations: UPDATE clients SET status *)

\* Mutant: the reconnector does not write what start_client returned.
WriteRowHandlers(p) ==
  /\ at[p] = "row"
  /\ IF p = Reconnector THEN UNCHANGED row ELSE SetRow(job[p].write)
  /\ Ends(p)
  /\ booting' = (booting /\ p # Reconnector)
  /\ UNCHANGED <<session, memory, bounds, ghosts>>

WriteRow(p) ==
  /\ at[p] = "row"
  /\ \/ SetRow(job[p].write) /\ UNCHANGED faults
     \/ MayFail /\ UNCHANGED row
  /\ Ends(p)
  /\ booting' = (booting /\ p # Reconnector)
  /\ UNCHANGED <<session, memory, requests, crashes, ghosts>>

-----------------------------------------------------------------------------
(* stop_client, remove_client *)

\* Mutant: the handle is dropped instead of aborted.
StopEntryKeepsTask ==
  /\ entry' = IF Present THEN Fresh("offline", NoConn) ELSE entry
  /\ UNCHANGED <<listener, lost, crossed>>

\* Under the lock: abort the listener whose handle the entry holds.
StopEntry ==
  /\ entry' = IF Present THEN Fresh("offline", NoConn) ELSE entry
  /\ listener' = [l \in Tasks |-> IF l = entry.handle THEN Unused ELSE listener[l]]
  /\ lost' = lost \ {entry.handle}
  /\ crossed' = (crossed \/ (entry.handle # NoTask /\ listener[entry.handle].conn \notin {NoConn, entry.conn}))

StopClient(p) ==
  /\ Request(p) /\ StopEntry
  /\ Goto(p, "row") /\ job' = [job EXCEPT ![p].write = "offline"]
  /\ UNCHANGED <<disk, authed, storing, booting, halfGone>>

RemoveClient(p) ==
  /\ Request(p) /\ StopEntry
  /\ Goto(p, "remove")
  /\ UNCHANGED <<disk, authed, storing, job, booting, halfGone>>

\* A second section under the lock: the entry and the session file.
RemoveEntry(p) ==
  /\ at[p] = "remove"
  /\ Drop({entry.handle})
  /\ entry' = NoEntry
  /\ session' = IF Present THEN "absent" ELSE session
  /\ Goto(p, "delete")
  /\ UNCHANGED <<row, authed, listener, storing, job, booting, bounds, crossed, halfGone>>

DeleteRow(p) ==
  /\ at[p] = "delete"
  /\ \/ row' = "deleted" /\ UNCHANGED <<faults, halfGone>>
     \/ MayFail /\ halfGone' = TRUE /\ UNCHANGED row
  /\ Ends(p)
  /\ UNCHANGED <<session, memory, booting, requests, crashes, lost, crossed>>

-----------------------------------------------------------------------------
(* auth_client: phone, code, password, bot_token *)

\* request_login_code keeps the lock while Telegram answers.
RequestLoginCode(p) ==
  /\ Request(p) /\ entry.conn # NoConn
  /\ entry' = [entry EXCEPT !.login = entry.conn, !.status = "wait_code"]
  /\ Goto(p, "row") /\ job' = [job EXCEPT ![p].write = "wait_code"]
  /\ UNCHANGED <<disk, authed, listener, storing, booting, ghosts>>

\* Take the token and the connection, and release the lock.  A token in an
\* entry without a connection is taken and lost.
TakeToken(p, kind, field, token) ==
  /\ Served(p) /\ token # NoConn
  /\ entry' = [entry EXCEPT ![field] = NoConn]
  /\ IF entry.conn = NoConn
     THEN UNCHANGED <<at, job>>
     ELSE /\ Goto(p, kind)
          /\ job' = [job EXCEPT ![p] = [NoJob EXCEPT !.conn = entry.conn, !.token = token]]
  /\ UNCHANGED <<disk, authed, listener, storing, booting, bounds, ghosts>>

SubmitCode(p) == TakeToken(p, "code", "login", entry.login)
SubmitPassword(p) == TakeToken(p, "password", "password", entry.password)

BotSignIn(p) ==
  /\ Request(p) /\ entry.conn # NoConn
  /\ Goto(p, "bot") /\ job' = [job EXCEPT ![p].conn = entry.conn]
  /\ UNCHANGED <<disk, memory, booting, ghosts>>

\* An answer finds another connection in the entry than the one it is for.
Overtaken(p) == entry.conn # job[p].conn

\* Mutant: the login is recorded without saving the session.
SignedInUnsaved(p) ==
  /\ at[p] \in {"code", "password", "bot"}
  /\ job[p].token \in {NoConn, job[p].conn}
  /\ authed' = authed \cup {job[p].conn}
  /\ Goto(p, IF at[p] = "code" THEN "rowCode" ELSE IF at[p] = "password" THEN "rowPassword" ELSE "rowBot")
  /\ UNCHANGED <<disk, entry, listener, storing, job, booting, bounds, ghosts>>

SignedIn(p) ==
  /\ at[p] \in {"code", "password", "bot"}
  /\ job[p].token \in {NoConn, job[p].conn}
  /\ authed' = authed \cup {job[p].conn}
  /\ Goto(p, IF at[p] = "code" THEN "saveCode" ELSE IF at[p] = "password" THEN "savePassword" ELSE "saveBot")
  /\ UNCHANGED <<disk, entry, listener, storing, job, booting, bounds, ghosts>>

\* SignInError::PasswordRequired: the map and the row, in one locked section.
PasswordRequired(p) ==
  /\ at[p] = "code"
  /\ entry' = IF Present
              THEN [entry EXCEPT !.password = job[p].conn, !.status = "wait_password"]
              ELSE entry
  /\ \/ SetRow("wait_password") /\ UNCHANGED faults
     \/ MayFail /\ UNCHANGED row
  /\ crossed' = (crossed \/ Overtaken(p))
  /\ Ends(p)
  /\ UNCHANGED <<session, authed, listener, storing, booting, requests, crashes, lost, halfGone>>

\* InvalidCode, InvalidPassword: the token goes back into the entry.
SignInRejected(p) ==
  /\ at[p] \in {"code", "password"}
  /\ entry' = IF ~Present THEN entry
              ELSE IF at[p] = "code" THEN [entry EXCEPT !.login = job[p].token]
              ELSE [entry EXCEPT !.password = job[p].token]
  /\ crossed' = (crossed \/ Overtaken(p))
  /\ Ends(p)
  /\ UNCHANGED <<disk, authed, listener, storing, booting, bounds, lost, halfGone>>

\* Any other error: the token is gone.
SignInFails(p) ==
  /\ at[p] \in {"code", "password", "bot"} /\ MayFail
  /\ Ends(p)
  /\ UNCHANGED <<disk, memory, booting, requests, crashes, ghosts>>

\* save_session writes the session of the connection the entry holds now.
SaveSession(p) ==
  /\ at[p] \in {"saveCode", "savePassword", "saveBot"}
  /\ \/ /\ session' = IF entry.conn = NoConn THEN session
                      ELSE IF entry.conn \in authed THEN "auth" ELSE "anon"
        /\ crossed' = (crossed \/ Overtaken(p))
        /\ Goto(p, IF at[p] = "saveCode" THEN "rowCode"
                   ELSE IF at[p] = "savePassword" THEN "rowPassword" ELSE "rowBot")
        /\ UNCHANGED <<job, faults>>
     \/ MayFail /\ Ends(p) /\ UNCHANGED <<session, crossed>>
  /\ UNCHANGED <<row, memory, booting, requests, crashes, lost, halfGone>>

\* update_client_status and update_client_profile; either may fail.
ActiveRow(p) ==
  /\ at[p] \in {"rowCode", "rowPassword", "rowBot"}
  /\ \/ /\ SetRow("active")
        /\ Goto(p, IF at[p] = "rowCode" THEN "mapCode"
                   ELSE IF at[p] = "rowPassword" THEN "mapPassword" ELSE "mapBot")
        /\ UNCHANGED <<job, faults>>
     \/ MayFail /\ Ends(p) /\ (SetRow("active") \/ UNCHANGED row)
  /\ UNCHANGED <<session, memory, booting, requests, crashes, ghosts>>

\* The status in the map and the listener, in one locked section.
Activate(p) ==
  /\ at[p] \in {"mapCode", "mapPassword", "mapBot"}
  /\ entry' = IF ~Present THEN entry
              ELSE [entry EXCEPT !.status = "active",
                      !.login = IF at[p] = "mapCode" THEN NoConn ELSE @,
                      !.password = IF at[p] = "mapPassword" THEN NoConn ELSE @]
  /\ Spawn(job[p].conn)
  /\ crossed' = (crossed \/ Overtaken(p))
  /\ Ends(p)
  /\ UNCHANGED <<disk, authed, booting, bounds, lost, halfGone>>

-----------------------------------------------------------------------------
(* The update listener *)

\* The spawned helper stores the handle in whatever entry there is.
StoreHandle(l) ==
  /\ l \in storing
  /\ storing' = storing \ {l}
  /\ entry' = IF Present THEN [entry EXCEPT !.handle = l] ELSE entry
  /\ Drop({IF Present THEN entry.handle ELSE l})
  /\ UNCHANGED <<disk, authed, listener, procs, bounds, crossed, halfGone>>

\* Five errors in a row, or three pings without an answer: at least 8 s after
\* the spawn, when start_client has long taken the lock for its entry.
ListenerGivesUp(l) ==
  /\ listener[l].does = "listens" /\ MayFail
  /\ \A p \in Procs : at[p] = "insert" => job[p].conn # listener[l].conn
  /\ listener' = [listener EXCEPT ![l].does = "marks"]
  /\ UNCHANGED <<disk, entry, authed, storing, procs, requests, crashes, ghosts>>

\* Mutant: the exit of a listener leaves the entry active.
MarkOfflineHandle(l) ==
  /\ listener[l].does = "marks"
  /\ listener' = [listener EXCEPT ![l].does = "records"]
  /\ entry' = IF Present THEN [entry EXCEPT !.handle = NoTask] ELSE entry
  /\ Drop(IF Present THEN {entry.handle} \ {l} ELSE {})
  /\ UNCHANGED <<disk, authed, storing, procs, bounds, crossed, halfGone>>

\* It marks the entry of its client offline, whichever connection that holds.
MarkOffline(l) ==
  /\ listener[l].does = "marks"
  /\ listener' = [listener EXCEPT ![l].does = "records"]
  /\ entry' = IF Present THEN [entry EXCEPT !.status = "offline", !.handle = NoTask] ELSE entry
  /\ Drop(IF Present THEN {entry.handle} \ {l} ELSE {})
  /\ UNCHANGED <<disk, authed, storing, procs, bounds, crossed, halfGone>>

RecordOffline(l) ==
  /\ listener[l].does = "records"
  /\ \/ SetRow("offline") /\ UNCHANGED faults
     \/ MayFail /\ UNCHANGED row
  /\ listener' = [listener EXCEPT ![l] = Unused]
  /\ lost' = lost \ {l}
  /\ UNCHANGED <<session, entry, authed, storing, procs, requests, crashes, crossed, halfGone>>

-----------------------------------------------------------------------------
(* The process stops (graceful_shutdown writes nothing either) and starts. *)

Restart ==
  /\ crashes < MaxCrashes /\ crashes' = crashes + 1
  /\ entry' = NoEntry /\ authed' = {} /\ storing' = {} /\ lost' = {}
  /\ listener' = [l \in Tasks |-> Unused]
  /\ booting' = SaysActive
  /\ at' = [p \in Procs |-> IF p = Reconnector /\ SaysActive THEN "check" ELSE "idle"]
  /\ job' = [p \in Procs |-> NoJob]
  /\ halfGone' = (halfGone \/ \E p \in Procs : at[p] = "delete")
  /\ UNCHANGED <<disk, requests, faults, crossed>>

Caller(p) ==
  \/ StartClient(p) \/ StopClient(p) \/ RemoveClient(p)
  \/ RequestLoginCode(p) \/ SubmitCode(p) \/ SubmitPassword(p) \/ BotSignIn(p)

Process(p) ==
  \/ Connect(p) \/ ConnectFails(p) \/ SpawnListener(p) \/ InsertEntry(p) \/ WriteRow(p)
  \/ RemoveEntry(p) \/ DeleteRow(p)
  \/ SignedIn(p) \/ PasswordRequired(p) \/ SignInRejected(p) \/ SignInFails(p)
  \/ SaveSession(p) \/ ActiveRow(p) \/ Activate(p)

Listener(l) == StoreHandle(l) \/ MarkOffline(l) \/ RecordOffline(l)

Next ==
  \/ \E p \in Procs : Caller(p) \/ Process(p)
  \/ ReconnectTick \/ ReconnectStart
  \/ \E l \in Tasks : Listener(l) \/ ListenerGivesUp(l)
  \/ Restart

Spec == Init /\ [][Next]_vars

(***************************************************************************)
(* What has begun goes on: calls return or fail, tasks are scheduled, the  *)
(* reconnector's interval elapses.  Nothing makes administrators act, and  *)
(* a connection that fails MaxFaults times succeeds after that.            *)
(***************************************************************************)
FairSpec ==
  /\ Spec
  /\ \A p \in Procs : WF_vars(Process(p))
  /\ WF_vars(ReconnectTick) /\ WF_vars(ReconnectStart)
  /\ \A l \in Tasks : WF_vars(Listener(l))

-----------------------------------------------------------------------------
TypeDisk ==
  /\ row \in Status \cup {"added", "deleted"}
  /\ session \in {"absent", "anon", "auth"}
TypeEntry ==
  entry \in [status : (Status \ {"new"}) \cup {"none"}, conn : Conns \cup {NoConn},
             handle : Tasks \cup {NoTask},
             login : Conns \cup {NoConn}, password : Conns \cup {NoConn}]
TypeListeners ==
  /\ listener \in [Tasks -> [does : {"none", "listens", "marks", "records"},
                             conn : Conns \cup {NoConn}]]
  /\ storing \subseteq Tasks /\ lost \subseteq Tasks
  /\ authed \subseteq Conns
TypeProcs ==
  /\ at \in [Procs -> {"idle", "check", "connect", "spawn", "insert", "row", "remove", "delete",
                       "code", "password", "bot", "saveCode", "savePassword", "saveBot",
                       "rowCode", "rowPassword", "rowBot", "mapCode", "mapPassword", "mapBot"}]
  /\ job \in [Procs -> [conn : Conns \cup {NoConn}, token : Conns \cup {NoConn}, write : Status]]
TypeBounds ==
  /\ {booting, crossed, halfGone} \subseteq BOOLEAN
  /\ requests \in 0..MaxRequests /\ faults \in 0..MaxFaults /\ crashes \in 0..MaxCrashes
TypeOK == TypeDisk /\ TypeEntry /\ TypeListeners /\ TypeProcs /\ TypeBounds

(***************************************************************************)
(* A running listener can be aborted: the entry holds its handle or is     *)
(* about to get it, unless one of the handle's known losses happened.      *)
(***************************************************************************)
ListenersAccounted ==
  \A l \in Tasks : Live(l) => l \in storing \/ entry.handle = l \/ l \in lost
                               \/ listener[l].does = "records"

(***************************************************************************)
(* A client that is active in the map is signed in, and a listener reads   *)
(* its updates: start_client and the reconnector leave an active entry     *)
(* alone, so one that nobody listens to would stay deaf.                   *)
(***************************************************************************)
ActiveIsAlive ==
  entry.status = "active" /\ ~crossed =>
    /\ entry.conn \in authed
    /\ \E l \in Tasks : listener[l].conn = entry.conn /\ listener[l].does \in {"listens", "marks"}

(***************************************************************************)
(* A row that a login or a start made active has a signed-in session on    *)
(* disk, whenever the process stops: the next start finds the client       *)
(* logged in.  Only the row of a Bot is active before its client ever      *)
(* signed in, and only until something writes it.                          *)
(***************************************************************************)
ActiveIsSaved ==
  row = "active" /\ ~crossed /\ ~halfGone /\ (\A p \in Procs : at[p] # "delete")
    => session = "auth"

(***************************************************************************)
(* The reconnector brings every offline client with a session back, or at  *)
(* least to a new login.                                                   *)
(***************************************************************************)
Offline == row = "offline" /\ session # "absent"
Reconnected == Offline ~> ~Offline
=============================================================================
