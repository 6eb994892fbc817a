----------------------- MODULE TelegramClientsProofs -----------------------
(***************************************************************************)
(* Proofs about one Telegram client, for any number of requests at a time, *)
(* connections, listeners, faults and restarts.                            *)
(*                                                                         *)
(* The inductive invariant says which connection an operation works with   *)
(* and that nobody else has a connection that is not in the map yet; that  *)
(* whoever is about to write "active", in the row or in the map, has a     *)
(* session saved on disk; and that the connection about to be put into the *)
(* map as active has a listener.                                           *)
(*                                                                         *)
(* The proofs about the bot commands and the schedulers follow.            *)
(***************************************************************************)
EXTENDS TelegramClients, BotCommands, Schedulers, TLAPS

SigningAt == {"code", "password", "bot"}
SavingAt  == {"saveCode", "savePassword", "saveBot"}
WritingAt == {"rowCode", "rowPassword", "rowBot", "mapCode", "mapPassword", "mapBot"}

\* An operation works with a connection; one that was signed in is.
ConnInv ==
  \A p \in Procs :
    /\ at[p] \in SigningAt \cup SavingAt \cup WritingAt \cup {"spawn", "insert"} => job[p].conn \in Conns
    /\ at[p] \in SavingAt \cup WritingAt \cup {"spawn"} => job[p].conn \in authed

\* A connection of start_client belongs to nobody else before it is in the map.
FreshInv ==
  \A p \in Procs : at[p] \in {"spawn", "insert"} =>
    /\ entry.conn # job[p].conn
    /\ \A q \in Procs \ {p} : job[q].conn # job[p].conn

\* What an operation is to write is left over from no earlier one.
JobInv ==
  \A p \in Procs :
    /\ at[p] \in {"check", "connect"} => job[p].write # "active"
    /\ at[p] = "idle" /\ job[p].write = "active" => p = Reconnector /\ booting
    /\ at[p] = "check" => p = Reconnector

\* The session may be gone: a removal has come as far as that, or an answer
\* was for another connection.
Excused == crossed \/ halfGone \/ row = "deleted" \/ \E p \in Procs : at[p] = "delete"

\* Whoever is about to write "active" has a session on disk.
SavedInv ==
  ~Excused =>
    /\ row = "active" => session = "auth"
    /\ entry.status = "active" => session = "auth"
    /\ \A p \in Procs :
         /\ at[p] \in WritingAt \cup {"spawn"} => session = "auth"
         /\ at[p] = "row" /\ job[p].write = "active" => session = "auth"
         /\ at[p] = "insert" /\ job[p].conn \in authed => session = "auth"

\* The connection start_client is about to put into the map as active is listened to.
HeardInv ==
  ~crossed =>
    \A p \in Procs : at[p] = "insert" /\ job[p].conn \in authed =>
      \E l \in Tasks : listener[l] = [does |-> "listens", conn |-> job[p].conn]

IInv ==
  /\ TypeOK /\ ConnInv /\ FreshInv /\ JobInv
  /\ ListenersAccounted /\ SavedInv /\ HeardInv /\ ActiveIsAlive

\* The assumptions on the constants, as the steps use them.
LEMMA Base ==
  /\ Reconnector \in Procs /\ Callers \subseteq Procs
  /\ Reconnector \notin Callers
  /\ NoConn \notin Conns /\ NoTask \notin Tasks
  /\ {MaxRequests, MaxFaults, MaxCrashes} \subseteq Nat
BY ClientAssumption DEF Procs

\* What a stop aborts is the entry's listener, or it is marked as crossed.
LEMMA StopKeepsHeard ==
  ASSUME IInv, StopEntry, ~crossed',
         NEW q \in Procs, at[q] = "insert", job[q].conn \in authed
  PROVE  \E l \in Tasks : listener'[l] = [does |-> "listens", conn |-> job[q].conn]
<1>1. ~crossed
  BY DEF StopEntry
<1>2. PICK l \in Tasks : listener[l] = [does |-> "listens", conn |-> job[q].conn]
  BY <1>1 DEF IInv, HeardInv
<1>3. job[q].conn \in Conns /\ entry.conn # job[q].conn
  BY DEF IInv, ConnInv, FreshInv
<1>4. l # entry.handle
  <2> SUFFICES ASSUME l = entry.handle PROVE FALSE
    OBVIOUS
  <2>1. listener[entry.handle].conn = job[q].conn
    BY <1>2
  <2>2. entry.handle # NoTask /\ job[q].conn \notin {NoConn, entry.conn}
    BY <1>3, Base
  <2> QED BY <2>1, <2>2 DEF StopEntry
<1> QED BY <1>2, <1>4 DEF StopEntry

\* Nothing takes back that an answer was for another connection.
LEMMA Crosses ==
  ASSUME NEW p \in Procs, SaveSession(p)
  PROVE  crossed => crossed'
BY DEF SaveSession


\* A start request: what it is to write is set or the connection follows.
LEMMA KeepStartClient ==
  ASSUME NEW p \in Procs, IInv, StartClient(p)
  PROVE  IInv'
<1>1. TypeDisk'
  BY Base DEF IInv, TypeOK, TypeDisk, Status, StartClient, CheckStarted, disk
<1>2. TypeEntry'
  BY Base DEF IInv, TypeOK, TypeEntry, Status, TypeListeners, TypeProcs,
       ConnInv, SigningAt, SavingAt, StartClient, CheckStarted, memory
<1>3. TypeListeners'
  BY Base DEF IInv, TypeOK, TypeListeners, TypeProcs, Status, ConnInv,
       SigningAt, SavingAt, WritingAt, StartClient, CheckStarted, memory, ghosts
<1>4. TypeProcs'
  BY Base DEF IInv, TypeOK, TypeProcs, Status, StartClient, Request,
       CheckStarted, Goto, NoJob
<1>5. TypeBounds'
  BY Base DEF IInv, TypeOK, TypeBounds, StartClient, Request, CheckStarted,
       ghosts
<1>6. ConnInv'
  BY Base DEF IInv, TypeOK, TypeEntry, Status, TypeListeners, TypeProcs,
       ConnInv, SigningAt, SavingAt, WritingAt, StartClient, CheckStarted, Goto,
       memory
<1>7. FreshInv'
  BY Base DEF IInv, TypeOK, TypeEntry, Status, TypeProcs, ConnInv, SigningAt,
       SavingAt, WritingAt, FreshInv, StartClient, CheckStarted, Goto, NoJob,
       memory
<1>8. JobInv'
  BY Base DEF IInv, TypeOK, TypeProcs, Status, JobInv, StartClient, Request,
       CheckStarted, Served, Goto
<1>9. ListenersAccounted'
  BY Base DEF IInv, TypeOK, TypeEntry, Status, TypeListeners,
       ListenersAccounted, Live, StartClient, CheckStarted, memory, ghosts
<1>10. SavedInv'
  BY Base DEF IInv, TypeOK, TypeDisk, Status, TypeEntry, TypeListeners,
       TypeProcs, ConnInv, SigningAt, SavingAt, WritingAt, FreshInv, JobInv,
       SavedInv, Excused, StartClient, Request, CheckStarted, Served, Goto,
       disk, memory, ghosts
<1>11. HeardInv'
  BY Base DEF IInv, TypeOK, TypeEntry, Status, TypeListeners, TypeProcs,
       ConnInv, SigningAt, SavingAt, WritingAt, FreshInv, HeardInv, StartClient,
       CheckStarted, Goto, memory, ghosts
<1>12. ActiveIsAlive'
  BY Base DEF IInv, TypeOK, TypeEntry, Status, TypeListeners, TypeProcs,
       ConnInv, SigningAt, SavingAt, WritingAt, HeardInv, ActiveIsAlive,
       StartClient, CheckStarted, memory, ghosts
<1> QED BY <1>1, <1>2, <1>3, <1>4, <1>5, <1>6, <1>7, <1>8, <1>9, <1>10, <1>11,
             <1>12 DEF IInv, TypeOK

\* A stop frees the entry and its listener.
LEMMA KeepStopClient ==
  ASSUME NEW p \in Procs, IInv, StopClient(p)
  PROVE  IInv'
<1>1. TypeDisk'
  BY Base DEF IInv, TypeOK, TypeDisk, Status, TypeProcs, StopClient, disk
<1>2. TypeEntry'
  BY Base DEF IInv, TypeOK, TypeEntry, Status, TypeListeners, TypeProcs,
       ConnInv, SigningAt, SavingAt, WritingAt, StopClient, StopEntry, Fresh,
       NoEntry
<1>3. TypeListeners'
  BY Base DEF IInv, TypeOK, TypeListeners, TypeProcs, Status, ConnInv,
       SigningAt, SavingAt, WritingAt, TypeEntry, StopClient, StopEntry, Unused
<1>4. TypeProcs'
  BY Base DEF IInv, TypeOK, TypeProcs, Status, TypeEntry, StopClient, Goto
<1>5. TypeBounds'
  BY Base DEF IInv, TypeOK, TypeBounds, StopClient, Request, StopEntry
<1>6. ConnInv'
  BY Base DEF IInv, TypeOK, TypeEntry, Status, TypeListeners, TypeProcs,
       ConnInv, SigningAt, SavingAt, WritingAt, StopClient, Goto
<1>7. FreshInv'
  BY Base DEF IInv, TypeOK, TypeEntry, Status, TypeProcs, ConnInv, SigningAt,
       SavingAt, WritingAt, FreshInv, StopClient, StopEntry, Goto, Fresh
<1>8. JobInv'
  BY Base DEF IInv, TypeOK, TypeProcs, Status, JobInv, StopClient, Goto
<1>9. ListenersAccounted'
  BY Base DEF IInv, TypeOK, TypeEntry, Status, TypeListeners,
       ListenersAccounted, Live, StopClient, StopEntry, Unused
<1>10. SavedInv'
  BY Base DEF IInv, TypeOK, TypeDisk, Status, TypeEntry, TypeListeners,
       TypeProcs, ConnInv, SigningAt, SavingAt, WritingAt, FreshInv, JobInv,
       SavedInv, Excused, StopClient, Request, StopEntry, Goto, disk, Served,
       Present, Fresh, Unused, NoEntry
<1>11. HeardInv'
  <2> SUFFICES ASSUME ~crossed', NEW q \in Procs, at'[q] = "insert",
                      job'[q].conn \in authed'
               PROVE  \E l \in Tasks : listener'[l] = [does |-> "listens", conn |-> job'[q].conn]
    BY DEF HeardInv
  <2>1. at[q] = "insert" /\ job[q].conn \in authed /\ job'[q].conn = job[q].conn
    BY DEF Goto, StopClient
  <2>2. StopEntry
    BY DEF StopClient
  <2>3. \E l \in Tasks : listener'[l] = [does |-> "listens", conn |-> job[q].conn]
    BY <2>1, <2>2, StopKeepsHeard
  <2> QED BY <2>1, <2>3, Zenon
<1>12. ActiveIsAlive'
  BY Base DEF IInv, TypeOK, TypeEntry, Status, TypeListeners, TypeProcs,
       ConnInv, SigningAt, SavingAt, WritingAt, HeardInv, ActiveIsAlive,
       StopClient, StopEntry, Present, Fresh
<1> QED BY <1>1, <1>2, <1>3, <1>4, <1>5, <1>6, <1>7, <1>8, <1>9, <1>10, <1>11,
             <1>12 DEF IInv, TypeOK

\* A removal stops the client first.
LEMMA KeepRemoveClient ==
  ASSUME NEW p \in Procs, IInv, RemoveClient(p)
  PROVE  IInv'
<1>1. TypeDisk'
  BY Base DEF IInv, TypeOK, TypeDisk, Status, TypeProcs, RemoveClient, disk
<1>2. TypeEntry'
  BY Base DEF IInv, TypeOK, TypeEntry, Status, TypeListeners, TypeProcs,
       ConnInv, SigningAt, SavingAt, WritingAt, RemoveClient, StopEntry, Fresh,
       NoEntry
<1>3. TypeListeners'
  BY Base DEF IInv, TypeOK, TypeListeners, TypeProcs, Status, ConnInv,
       SigningAt, SavingAt, WritingAt, TypeEntry, RemoveClient, StopEntry,
       Unused
<1>4. TypeProcs'
  BY Base DEF IInv, TypeOK, TypeProcs, Status, TypeEntry, RemoveClient, Goto
<1>5. TypeBounds'
  BY Base DEF IInv, TypeOK, TypeBounds, RemoveClient, Request, StopEntry
<1>6. ConnInv'
  BY Base DEF IInv, TypeOK, TypeEntry, Status, TypeListeners, TypeProcs,
       ConnInv, SigningAt, SavingAt, WritingAt, RemoveClient, Goto
<1>7. FreshInv'
  BY Base DEF IInv, TypeOK, TypeEntry, Status, TypeProcs, ConnInv, SigningAt,
       SavingAt, WritingAt, FreshInv, RemoveClient, StopEntry, Goto, Fresh
<1>8. JobInv'
  BY Base DEF IInv, TypeOK, TypeProcs, Status, JobInv, RemoveClient, Goto
<1>9. ListenersAccounted'
  BY Base DEF IInv, TypeOK, TypeEntry, Status, TypeListeners,
       ListenersAccounted, Live, RemoveClient, StopEntry, Unused
<1>10. SavedInv'
  BY Base DEF IInv, TypeOK, TypeDisk, Status, TypeEntry, TypeListeners,
       TypeProcs, ConnInv, SigningAt, SavingAt, WritingAt, FreshInv, JobInv,
       SavedInv, Excused, RemoveClient, Request, StopEntry, Goto, disk, Served,
       Fresh, NoEntry
<1>11. HeardInv'
  <2> SUFFICES ASSUME ~crossed', NEW q \in Procs, at'[q] = "insert",
                      job'[q].conn \in authed'
               PROVE  \E l \in Tasks : listener'[l] = [does |-> "listens", conn |-> job'[q].conn]
    BY DEF HeardInv
  <2>1. at[q] = "insert" /\ job[q].conn \in authed /\ job'[q].conn = job[q].conn
    BY DEF Goto, RemoveClient
  <2>2. StopEntry
    BY DEF RemoveClient
  <2>3. \E l \in Tasks : listener'[l] = [does |-> "listens", conn |-> job[q].conn]
    BY <2>1, <2>2, StopKeepsHeard
  <2> QED BY <2>1, <2>3, Zenon
<1>12. ActiveIsAlive'
  BY Base DEF IInv, TypeOK, TypeEntry, Status, TypeListeners, TypeProcs,
       ConnInv, SigningAt, SavingAt, WritingAt, HeardInv, ActiveIsAlive,
       RemoveClient, StopEntry, Present, Fresh
<1> QED BY <1>1, <1>2, <1>3, <1>4, <1>5, <1>6, <1>7, <1>8, <1>9, <1>10, <1>11,
             <1>12 DEF IInv, TypeOK

\* A request for a code waits for it in the entry.
LEMMA KeepRequestLoginCode ==
  ASSUME NEW p \in Procs, IInv, RequestLoginCode(p)
  PROVE  IInv'
<1>1. TypeDisk'
  BY Base DEF IInv, TypeOK, TypeDisk, RequestLoginCode, disk
<1>2. TypeEntry'
  BY Base DEF IInv, TypeOK, TypeEntry, Status, TypeListeners, TypeProcs,
       RequestLoginCode
<1>3. TypeListeners'
  BY Base DEF IInv, TypeOK, TypeListeners, TypeProcs, Status, ConnInv,
       RequestLoginCode, ghosts
<1>4. TypeProcs'
  BY Base DEF IInv, TypeOK, TypeProcs, Status, RequestLoginCode, Goto
<1>5. TypeBounds'
  BY Base DEF IInv, TypeOK, TypeBounds, RequestLoginCode, Request, ghosts
<1>6. ConnInv'
  BY Base DEF IInv, TypeOK, TypeEntry, Status, TypeListeners, TypeProcs,
       ConnInv, SigningAt, SavingAt, WritingAt, RequestLoginCode, Goto
<1>7. FreshInv'
  BY Base DEF IInv, TypeOK, TypeEntry, Status, TypeProcs, ConnInv, FreshInv,
       RequestLoginCode, Goto
<1>8. JobInv'
  BY Base DEF IInv, JobInv, RequestLoginCode, Goto
<1>9. ListenersAccounted'
  BY Base DEF IInv, TypeOK, TypeEntry, ListenersAccounted, Live,
       RequestLoginCode, ghosts
<1>10. SavedInv'
  BY Base DEF IInv, TypeOK, TypeDisk, Status, TypeEntry, TypeListeners,
       TypeProcs, ConnInv, SigningAt, SavingAt, WritingAt, SavedInv, Excused,
       RequestLoginCode, Request, Goto, disk, ghosts, Served
<1>11. HeardInv'
  BY Base DEF IInv, TypeOK, TypeEntry, Status, TypeListeners, TypeProcs,
       ConnInv, SigningAt, HeardInv, RequestLoginCode, Goto, ghosts
<1>12. ActiveIsAlive'
  BY Base DEF IInv, TypeOK, TypeEntry, Status, TypeListeners, TypeProcs,
       ConnInv, SigningAt, ActiveIsAlive, RequestLoginCode
<1> QED BY <1>1, <1>2, <1>3, <1>4, <1>5, <1>6, <1>7, <1>8, <1>9, <1>10, <1>11,
             <1>12 DEF IInv, TypeOK

\* A code takes the token and the connection of the entry.
LEMMA KeepSubmitCode ==
  ASSUME NEW p \in Procs, IInv, SubmitCode(p)
  PROVE  IInv'
<1>1. TypeDisk'
  BY Base DEF IInv, TypeOK, TypeDisk, SubmitCode, TakeToken, disk
<1>2. TypeEntry'
  BY Base DEF IInv, TypeOK, TypeEntry, Status, TypeListeners, TypeProcs,
       ConnInv, SigningAt, SubmitCode, TakeToken
<1>3. TypeListeners'
  BY Base DEF IInv, TypeOK, TypeListeners, TypeProcs, Status, ConnInv,
       SigningAt, SavingAt, SubmitCode, TakeToken, ghosts
<1>4. TypeProcs'
  <2>1. CASE entry.conn = NoConn
    BY <2>1 DEF IInv, TypeOK, TypeProcs, SubmitCode, TakeToken
  <2>2. CASE entry.conn # NoConn
    <3>1. job' = [job EXCEPT ![p] = [conn |-> entry.conn, token |-> entry.login, write |-> "offline"]]
      BY <2>2 DEF SubmitCode, TakeToken, NoJob
    <3>2. at' = [at EXCEPT ![p] = "code"] /\ entry' = [entry EXCEPT !.login = NoConn]
      BY <2>2 DEF SubmitCode, TakeToken, Goto
    <3>3. authed' = authed /\ at[p] = "idle"
      BY DEF SubmitCode, TakeToken, Served
    <3> QED BY <2>2, <3>1, <3>2, <3>3 DEF IInv, TypeOK, TypeEntry, TypeProcs,
                 Status
  <2> QED BY <2>1, <2>2
<1>5. TypeBounds'
  BY Base DEF IInv, TypeOK, TypeBounds, SubmitCode, TakeToken, bounds, ghosts
<1>6. ConnInv'
  <2>1. CASE entry.conn = NoConn
    BY <2>1, Base DEF IInv, ConnInv, SubmitCode, TakeToken
  <2>2. CASE entry.conn # NoConn
    <3>1. job' = [job EXCEPT ![p] = [conn |-> entry.conn, token |-> entry.login, write |-> "offline"]]
      BY <2>2 DEF SubmitCode, TakeToken, NoJob
    <3>2. at' = [at EXCEPT ![p] = "code"] /\ entry' = [entry EXCEPT !.login = NoConn]
      BY <2>2 DEF SubmitCode, TakeToken, Goto
    <3>3. authed' = authed /\ at[p] = "idle"
      BY DEF SubmitCode, TakeToken, Served
    <3> QED BY <2>2, <3>1, <3>2, <3>3 DEF IInv, TypeOK, TypeEntry, TypeProcs,
                 ConnInv, SavingAt, WritingAt
  <2> QED BY <2>1, <2>2
<1>7. FreshInv'
  <2>1. CASE entry.conn = NoConn
    BY <2>1 DEF IInv, FreshInv, SubmitCode, TakeToken
  <2>2. CASE entry.conn # NoConn
    <3>1. job' = [job EXCEPT ![p] = [conn |-> entry.conn, token |-> entry.login, write |-> "offline"]]
      BY <2>2 DEF SubmitCode, TakeToken, NoJob
    <3>2. at' = [at EXCEPT ![p] = "code"] /\ entry' = [entry EXCEPT !.login = NoConn]
      BY <2>2 DEF SubmitCode, TakeToken, Goto
    <3>3. authed' = authed /\ at[p] = "idle"
      BY DEF SubmitCode, TakeToken, Served
    <3> QED BY <2>2, <3>1, <3>2, <3>3 DEF IInv, FreshInv
  <2> QED BY <2>1, <2>2
<1>8. JobInv'
  BY Base DEF IInv, TypeOK, TypeProcs, JobInv, SubmitCode, TakeToken, Goto
<1>9. ListenersAccounted'
  BY Base DEF IInv, TypeOK, TypeEntry, Status, TypeListeners,
       ListenersAccounted, Live, SubmitCode, TakeToken, ghosts
<1>10. SavedInv'
  BY Base DEF IInv, TypeOK, TypeDisk, Status, TypeEntry, TypeListeners,
       TypeProcs, ConnInv, SigningAt, SavingAt, WritingAt, FreshInv, JobInv,
       SavedInv, Excused, SubmitCode, TakeToken, Served, Goto, NoJob, disk,
       ghosts
<1>11. HeardInv'
  BY Base DEF IInv, TypeOK, TypeEntry, Status, TypeListeners, TypeProcs,
       ConnInv, SigningAt, SavingAt, WritingAt, HeardInv, SubmitCode, TakeToken,
       Goto, ghosts
<1>12. ActiveIsAlive'
  BY Base DEF IInv, TypeOK, TypeEntry, Status, TypeListeners, TypeProcs,
       ConnInv, SigningAt, SavingAt, WritingAt, ActiveIsAlive, SubmitCode,
       TakeToken, ghosts
<1> QED BY <1>1, <1>2, <1>3, <1>4, <1>5, <1>6, <1>7, <1>8, <1>9, <1>10, <1>11,
             <1>12 DEF IInv, TypeOK

\* A password takes the token and the connection of the entry.
LEMMA KeepSubmitPassword ==
  ASSUME NEW p \in Procs, IInv, SubmitPassword(p)
  PROVE  IInv'
<1>1. TypeDisk'
  BY Base DEF IInv, TypeOK, TypeDisk, SubmitPassword, TakeToken, disk
<1>2. TypeEntry'
  BY Base DEF IInv, TypeOK, TypeEntry, Status, TypeListeners, TypeProcs,
       ConnInv, SigningAt, SubmitPassword, TakeToken
<1>3. TypeListeners'
  BY Base DEF IInv, TypeOK, TypeListeners, TypeProcs, Status, ConnInv,
       SigningAt, SavingAt, SubmitPassword, TakeToken, ghosts
<1>4. TypeProcs'
  <2>1. CASE entry.conn = NoConn
    BY <2>1 DEF IInv, TypeOK, TypeProcs, SubmitPassword, TakeToken
  <2>2. CASE entry.conn # NoConn
    <3>1. job' = [job EXCEPT ![p] = [conn |-> entry.conn, token |-> entry.password, write |-> "offline"]]
      BY <2>2 DEF SubmitPassword, TakeToken, NoJob
    <3>2. at' = [at EXCEPT ![p] = "password"] /\ entry' = [entry EXCEPT !.password = NoConn]
      BY <2>2 DEF SubmitPassword, TakeToken, Goto
    <3>3. authed' = authed /\ at[p] = "idle"
      BY DEF SubmitPassword, TakeToken, Served
    <3> QED BY <2>2, <3>1, <3>2, <3>3 DEF IInv, TypeOK, TypeEntry, TypeProcs,
                 Status
  <2> QED BY <2>1, <2>2
<1>5. TypeBounds'
  BY Base DEF IInv, TypeOK, TypeBounds, SubmitPassword, TakeToken, bounds,
       ghosts
<1>6. ConnInv'
  <2>1. CASE entry.conn = NoConn
    BY <2>1, Base DEF IInv, ConnInv, SubmitPassword, TakeToken
  <2>2. CASE entry.conn # NoConn
    <3>1. job' = [job EXCEPT ![p] = [conn |-> entry.conn, token |-> entry.password, write |-> "offline"]]
      BY <2>2 DEF SubmitPassword, TakeToken, NoJob
    <3>2. at' = [at EXCEPT ![p] = "password"] /\ entry' = [entry EXCEPT !.password = NoConn]
      BY <2>2 DEF SubmitPassword, TakeToken, Goto
    <3>3. authed' = authed /\ at[p] = "idle"
      BY DEF SubmitPassword, TakeToken, Served
    <3> QED BY <2>2, <3>1, <3>2, <3>3 DEF IInv, TypeOK, TypeEntry, TypeProcs,
                 ConnInv, SavingAt, WritingAt
  <2> QED BY <2>1, <2>2
<1>7. FreshInv'
  <2>1. CASE entry.conn = NoConn
    BY <2>1 DEF IInv, FreshInv, SubmitPassword, TakeToken
  <2>2. CASE entry.conn # NoConn
    <3>1. job' = [job EXCEPT ![p] = [conn |-> entry.conn, token |-> entry.password, write |-> "offline"]]
      BY <2>2 DEF SubmitPassword, TakeToken, NoJob
    <3>2. at' = [at EXCEPT ![p] = "password"] /\ entry' = [entry EXCEPT !.password = NoConn]
      BY <2>2 DEF SubmitPassword, TakeToken, Goto
    <3>3. authed' = authed /\ at[p] = "idle"
      BY DEF SubmitPassword, TakeToken, Served
    <3> QED BY <2>2, <3>1, <3>2, <3>3 DEF IInv, FreshInv
  <2> QED BY <2>1, <2>2
<1>8. JobInv'
  BY Base DEF IInv, TypeOK, TypeProcs, JobInv, SubmitPassword, TakeToken, Goto
<1>9. ListenersAccounted'
  BY Base DEF IInv, TypeOK, TypeEntry, Status, TypeListeners,
       ListenersAccounted, Live, SubmitPassword, TakeToken, ghosts
<1>10. SavedInv'
  BY Base DEF IInv, TypeOK, TypeDisk, Status, TypeEntry, TypeListeners,
       TypeProcs, ConnInv, SigningAt, SavingAt, WritingAt, FreshInv, JobInv,
       SavedInv, Excused, SubmitPassword, TakeToken, Served, Goto, disk, ghosts
<1>11. HeardInv'
  BY Base DEF IInv, TypeOK, TypeEntry, Status, TypeListeners, TypeProcs,
       ConnInv, SigningAt, SavingAt, WritingAt, HeardInv, SubmitPassword,
       TakeToken, Goto, ghosts
<1>12. ActiveIsAlive'
  BY Base DEF IInv, TypeOK, TypeEntry, Status, TypeListeners, TypeProcs,
       ConnInv, SigningAt, SavingAt, WritingAt, ActiveIsAlive, SubmitPassword,
       TakeToken, ghosts
<1> QED BY <1>1, <1>2, <1>3, <1>4, <1>5, <1>6, <1>7, <1>8, <1>9, <1>10, <1>11,
             <1>12 DEF IInv, TypeOK

\* A bot signs in on the connection of the entry.
LEMMA KeepBotSignIn ==
  ASSUME NEW p \in Procs, IInv, BotSignIn(p)
  PROVE  IInv'
<1>1. TypeDisk'
  BY Base DEF IInv, TypeOK, TypeDisk, BotSignIn, disk
<1>2. TypeEntry'
  BY Base DEF IInv, TypeOK, TypeEntry, Status, TypeListeners, TypeProcs,
       ConnInv, BotSignIn, memory
<1>3. TypeListeners'
  BY Base DEF IInv, TypeOK, TypeListeners, TypeProcs, Status, ConnInv,
       SigningAt, BotSignIn, memory, ghosts
<1>4. TypeProcs'
  BY Base DEF IInv, TypeOK, TypeProcs, TypeEntry, BotSignIn, Goto
<1>5. TypeBounds'
  BY Base DEF IInv, TypeOK, TypeBounds, BotSignIn, Request, ghosts
<1>6. ConnInv'
  BY Base DEF IInv, TypeOK, TypeEntry, Status, TypeListeners, TypeProcs,
       ConnInv, SavingAt, WritingAt, BotSignIn, Goto, memory
<1>7. FreshInv'
  BY Base DEF IInv, TypeOK, TypeEntry, Status, TypeProcs, ConnInv, SigningAt,
       FreshInv, BotSignIn, Goto, memory
<1>8. JobInv'
  BY Base DEF IInv, TypeOK, JobInv, BotSignIn, Goto
<1>9. ListenersAccounted'
  BY Base DEF IInv, TypeOK, TypeEntry, Status, ListenersAccounted, Live,
       BotSignIn, memory, ghosts
<1>10. SavedInv'
  BY Base DEF IInv, TypeOK, TypeDisk, Status, TypeEntry, TypeListeners,
       TypeProcs, ConnInv, SigningAt, SavingAt, WritingAt, FreshInv, SavedInv,
       Excused, BotSignIn, Request, Goto, disk, memory, ghosts, Served
<1>11. HeardInv'
  BY Base DEF IInv, TypeOK, TypeEntry, Status, TypeListeners, TypeProcs,
       ConnInv, SigningAt, SavingAt, HeardInv, BotSignIn, Goto, memory, ghosts
<1>12. ActiveIsAlive'
  BY Base DEF IInv, TypeOK, TypeEntry, Status, TypeListeners, TypeProcs,
       ConnInv, SigningAt, SavingAt, ActiveIsAlive, BotSignIn, memory, ghosts
<1> QED BY <1>1, <1>2, <1>3, <1>4, <1>5, <1>6, <1>7, <1>8, <1>9, <1>10, <1>11,
             <1>12 DEF IInv, TypeOK

\* A new connection is nobody else's, and signed in if the file on disk is.
LEMMA KeepConnect ==
  ASSUME NEW p \in Procs, IInv, Connect(p)
  PROVE  IInv'
<1>1. TypeDisk'
  BY Base DEF IInv, TypeOK, TypeDisk, Connect
<1>2. TypeEntry'
  BY Base DEF IInv, TypeOK, TypeEntry, Status, TypeListeners, TypeProcs, Connect
<1>3. TypeListeners'
  BY Base DEF IInv, TypeOK, TypeListeners, TypeProcs, Status, ConnInv, Connect,
       FreeConns, ghosts
<1>4. TypeProcs'
  BY Base DEF IInv, TypeOK, TypeProcs, Connect, FreeConns, Goto
<1>5. TypeBounds'
  BY DEF IInv, TypeOK, TypeBounds, Connect, bounds, ghosts
<1>6. ConnInv'
  BY Base DEF IInv, TypeOK, TypeEntry, Status, TypeListeners, TypeProcs,
       ConnInv, SavingAt, WritingAt, Connect, FreeConns, Goto, bounds
<1>7. FreshInv'
  BY Base DEF IInv, TypeOK, TypeEntry, Status, TypeProcs, ConnInv, FreshInv,
       Connect, FreeConns, Goto
<1>8. JobInv'
  BY Base DEF IInv, JobInv, Connect, Goto
<1>9. ListenersAccounted'
  BY Base DEF IInv, TypeOK, TypeEntry, ListenersAccounted, Live, Connect, ghosts
<1>10. SavedInv'
  BY Base DEF IInv, TypeOK, TypeDisk, Status, TypeEntry, TypeListeners,
       TypeProcs, ConnInv, SigningAt, SavingAt, WritingAt, SavedInv, Excused,
       Connect, Goto, ghosts
<1>11. HeardInv'
  <2> SUFFICES ASSUME ~crossed', NEW q \in Procs, at'[q] = "insert",
                      job'[q].conn \in authed'
               PROVE  \E l \in Tasks : listener'[l] = [does |-> "listens", conn |-> job'[q].conn]
    BY DEF HeardInv
  <2>1. PICK c \in FreeConns :
          /\ job' = [job EXCEPT ![p].conn = c]
          /\ authed' = IF session = "auth" THEN authed \cup {c} ELSE authed \ {c}
    BY DEF Connect
  <2>2. q # p
    BY <2>1 DEF IInv, TypeOK, TypeProcs, Connect, Goto
  <2>3. at[q] = "insert" /\ job'[q].conn = job[q].conn /\ job[q].conn \in authed
    BY <2>1, <2>2 DEF Connect, Goto, FreeConns
  <2> QED BY <2>3 DEF IInv, HeardInv, Connect, ghosts
<1>12. ActiveIsAlive'
  BY Base DEF IInv, TypeOK, TypeEntry, Status, TypeListeners, TypeProcs,
       ConnInv, SigningAt, ActiveIsAlive, Connect, FreeConns, ghosts
<1> QED BY <1>1, <1>2, <1>3, <1>4, <1>5, <1>6, <1>7, <1>8, <1>9, <1>10, <1>11,
             <1>12 DEF IInv, TypeOK

\* A start that fails leaves the session file and the offline status.
LEMMA KeepConnectFails ==
  ASSUME NEW p \in Procs, IInv, ConnectFails(p)
  PROVE  IInv'
<1>1. TypeDisk'
  BY Base DEF IInv, TypeOK, TypeDisk, ConnectFails
<1>2. TypeEntry'
  BY Base DEF IInv, TypeOK, TypeEntry, Status, TypeListeners, TypeProcs,
       ConnInv, ConnectFails, memory
<1>3. TypeListeners'
  BY Base DEF IInv, TypeOK, TypeListeners, TypeProcs, Status, ConnInv,
       SigningAt, ConnectFails, memory, ghosts
<1>4. TypeProcs'
  BY Base DEF IInv, TypeOK, TypeProcs, Status, ConnectFails, Goto, Ends, NoJob
<1>5. TypeBounds'
  BY Base DEF IInv, TypeOK, TypeBounds, ConnectFails, MayFail, ghosts
<1>6. ConnInv'
  BY Base DEF IInv, TypeOK, TypeEntry, Status, TypeListeners, TypeProcs,
       ConnInv, SigningAt, SavingAt, WritingAt, ConnectFails, Goto, Ends, memory
<1>7. FreshInv'
  BY Base DEF IInv, TypeOK, TypeEntry, Status, TypeProcs, ConnInv, SigningAt,
       FreshInv, ConnectFails, Goto, Ends, memory, NoJob
<1>8. JobInv'
  BY Base DEF IInv, TypeOK, TypeProcs, JobInv, ConnectFails, Goto, Ends, NoJob
<1>9. ListenersAccounted'
  BY Base DEF IInv, TypeOK, TypeEntry, Status, ListenersAccounted, Live,
       ConnectFails, memory, ghosts
<1>10. SavedInv'
  BY Base DEF IInv, TypeOK, TypeDisk, Status, TypeEntry, TypeListeners,
       TypeProcs, ConnInv, SigningAt, SavingAt, WritingAt, FreshInv, JobInv,
       SavedInv, Excused, ConnectFails, Goto, Ends, memory, ghosts
<1>11. HeardInv'
  BY Base DEF IInv, TypeOK, TypeEntry, Status, TypeListeners, TypeProcs,
       ConnInv, SigningAt, SavingAt, HeardInv, ConnectFails, Goto, Ends, memory,
       ghosts
<1>12. ActiveIsAlive'
  BY Base DEF IInv, TypeOK, TypeEntry, Status, TypeListeners, TypeProcs,
       ConnInv, SigningAt, SavingAt, ActiveIsAlive, ConnectFails, memory, ghosts
<1> QED BY <1>1, <1>2, <1>3, <1>4, <1>5, <1>6, <1>7, <1>8, <1>9, <1>10, <1>11,
             <1>12 DEF IInv, TypeOK

\* The listener of a start runs before the entry is there.
LEMMA KeepSpawnListener ==
  ASSUME NEW p \in Procs, IInv, SpawnListener(p)
  PROVE  IInv'
<1>1. TypeDisk'
  BY Base DEF IInv, TypeOK, TypeDisk, SpawnListener, disk
<1>2. TypeEntry'
  BY Base DEF IInv, TypeOK, TypeEntry, Status, TypeListeners, TypeProcs,
       ConnInv, SigningAt, SpawnListener
<1>3. TypeListeners'
  BY Base DEF IInv, TypeOK, TypeListeners, TypeProcs, Status, ConnInv,
       SigningAt, SavingAt, SpawnListener, Spawn, ghosts, FreeTasks
<1>4. TypeProcs'
  BY Base DEF IInv, TypeOK, TypeProcs, SpawnListener, Goto
<1>5. TypeBounds'
  BY Base DEF IInv, TypeOK, TypeBounds, SpawnListener, bounds, ghosts
<1>6. ConnInv'
  BY Base DEF IInv, TypeOK, TypeEntry, Status, TypeListeners, TypeProcs,
       ConnInv, SigningAt, SpawnListener, Goto
<1>7. FreshInv'
  BY Base DEF IInv, TypeOK, TypeEntry, Status, TypeProcs, ConnInv, SigningAt,
       SavingAt, FreshInv, SpawnListener, Goto
<1>8. JobInv'
  BY Base DEF IInv, TypeOK, TypeProcs, JobInv, SpawnListener, Goto
<1>9. ListenersAccounted'
  BY Base DEF IInv, TypeOK, TypeEntry, Status, ListenersAccounted, Live,
       SpawnListener, Spawn, ghosts
<1>10. SavedInv'
  BY Base DEF IInv, TypeOK, TypeDisk, Status, TypeEntry, TypeListeners,
       TypeProcs, ConnInv, SigningAt, SavingAt, WritingAt, FreshInv, JobInv,
       SavedInv, Excused, SpawnListener, Goto, disk, ghosts
<1>11. HeardInv'
  BY Base DEF IInv, TypeOK, TypeEntry, Status, TypeListeners, TypeProcs,
       ConnInv, SigningAt, SavingAt, WritingAt, HeardInv, SpawnListener, Spawn,
       Goto, ghosts, FreeTasks, Live
<1>12. ActiveIsAlive'
  BY Base DEF IInv, TypeOK, TypeEntry, Status, TypeListeners, TypeProcs,
       ConnInv, SigningAt, SavingAt, WritingAt, ActiveIsAlive, SpawnListener,
       Spawn, ghosts, FreeTasks, Live
<1> QED BY <1>1, <1>2, <1>3, <1>4, <1>5, <1>6, <1>7, <1>8, <1>9, <1>10, <1>11,
             <1>12 DEF IInv, TypeOK

\* The entry gets the connection, and is active if the listener runs.
LEMMA KeepInsertEntry ==
  ASSUME NEW p \in Procs, IInv, InsertEntry(p)
  PROVE  IInv'
<1>1. TypeDisk'
  BY Base DEF IInv, TypeOK, TypeDisk, Status, TypeProcs, InsertEntry, disk
<1>2. TypeEntry'
  BY Base DEF IInv, TypeOK, TypeEntry, Status, TypeListeners, TypeProcs,
       ConnInv, SigningAt, SavingAt, WritingAt, InsertEntry, Fresh, NoEntry
<1>3. TypeListeners'
  BY Base DEF IInv, TypeOK, TypeListeners, TypeProcs, Status, ConnInv,
       SigningAt, SavingAt, WritingAt, TypeEntry, InsertEntry, Drop
<1>4. TypeProcs'
  BY Base DEF IInv, TypeOK, TypeProcs, Status, TypeEntry, InsertEntry, Ends,
       Goto, NoJob
<1>5. TypeBounds'
  BY Base DEF IInv, TypeOK, TypeBounds, InsertEntry, bounds
<1>6. ConnInv'
  BY Base DEF IInv, TypeOK, TypeEntry, Status, TypeListeners, TypeProcs,
       ConnInv, SigningAt, SavingAt, WritingAt, InsertEntry, Ends, Goto
<1>7. FreshInv'
  <2> SUFFICES ASSUME NEW q \in Procs, at'[q] \in {"spawn", "insert"}
               PROVE  /\ entry'.conn # job'[q].conn
                      /\ \A r \in Procs \ {q} : job'[r].conn # job'[q].conn
    BY DEF FreshInv
  <2>1. q # p /\ at[q] = at'[q] /\ job'[q] = job[q]
    BY DEF IInv, TypeOK, TypeProcs, InsertEntry, Ends, Goto
  <2>2. job[q].conn \in Conns
    BY <2>1 DEF IInv, ConnInv
  <2>3. job'[p].conn = NoConn /\ \A r \in Procs \ {p} : job'[r] = job[r]
    BY DEF IInv, TypeOK, TypeProcs, InsertEntry, Ends, NoJob
  <2>4. entry'.conn = job[p].conn
    BY DEF InsertEntry, Fresh
  <2> QED BY <2>1, <2>2, <2>3, <2>4, Base DEF IInv, FreshInv
<1>8. JobInv'
  BY Base DEF IInv, TypeOK, TypeProcs, Status, JobInv, InsertEntry, Ends, Goto,
       NoJob
<1>9. ListenersAccounted'
  BY Base DEF IInv, TypeOK, TypeEntry, Status, TypeListeners,
       ListenersAccounted, Live, InsertEntry, Drop
<1>10. SavedInv'
  <2> SUFFICES ASSUME ~Excused'
               PROVE  /\ row' = "active" => session' = "auth"
                      /\ entry'.status = "active" => session' = "auth"
                      /\ \A q \in Procs :
                           /\ at'[q] \in WritingAt \cup {"spawn"} => session' = "auth"
                           /\ at'[q] = "row" /\ job'[q].write = "active" => session' = "auth"
                           /\ at'[q] = "insert" /\ job'[q].conn \in authed' => session' = "auth"
    BY DEF SavedInv
  <2>1. \A q \in Procs \ {p} : at'[q] = at[q] /\ job'[q] = job[q]
    BY DEF IInv, TypeOK, TypeProcs, InsertEntry, Ends, Goto
  <2>2. at'[p] \in {"idle", "row"} /\ (at'[p] = "row" => job'[p].write = entry'.status)
    BY DEF IInv, TypeOK, TypeProcs, InsertEntry, Ends, Goto, Fresh, NoJob
  <2>3. entry'.status = "active" => job[p].conn \in authed
    BY DEF InsertEntry, Fresh
  <2>4. ~Excused
    BY <2>1, <2>2 DEF Excused, InsertEntry, disk
  <2> QED BY <2>1, <2>2, <2>3, <2>4 DEF IInv, SavedInv, InsertEntry, disk,
               WritingAt
<1>11. HeardInv'
  BY Base DEF IInv, TypeOK, TypeEntry, Status, TypeListeners, TypeProcs,
       ConnInv, SigningAt, SavingAt, WritingAt, FreshInv, HeardInv, InsertEntry,
       Ends, Goto
<1>12. ActiveIsAlive'
  <2> SUFFICES ASSUME entry'.status = "active", ~crossed'
               PROVE  /\ entry'.conn \in authed'
                      /\ \E l \in Tasks : /\ listener'[l].conn = entry'.conn
                                          /\ listener'[l].does \in {"listens", "marks"}
    BY DEF ActiveIsAlive
  <2>1. entry'.conn = job[p].conn /\ job[p].conn \in authed
    BY DEF InsertEntry, Fresh
  <2>2. PICK l \in Tasks : listener[l] = [does |-> "listens", conn |-> job[p].conn]
    BY <2>1 DEF IInv, HeardInv, InsertEntry
  <2> QED BY <2>1, <2>2 DEF InsertEntry
<1> QED BY <1>1, <1>2, <1>3, <1>4, <1>5, <1>6, <1>7, <1>8, <1>9, <1>10, <1>11,
             <1>12 DEF IInv, TypeOK

\* A row becomes active only when the session is saved.
LEMMA KeepWriteRow ==
  ASSUME NEW p \in Procs, IInv, WriteRow(p)
  PROVE  IInv'
<1>1. TypeDisk'
  BY Base DEF IInv, TypeOK, TypeDisk, TypeProcs, WriteRow, SetRow
<1>2. TypeEntry'
  BY Base DEF IInv, TypeOK, TypeEntry, Status, TypeListeners, TypeProcs,
       ConnInv, SigningAt, WriteRow, memory
<1>3. TypeListeners'
  BY Base DEF IInv, TypeOK, TypeListeners, TypeProcs, Status, ConnInv,
       SigningAt, SavingAt, WriteRow, memory, ghosts
<1>4. TypeProcs'
  BY Base DEF IInv, TypeOK, TypeProcs, Status, WriteRow, Ends, Goto, NoJob
<1>5. TypeBounds'
  BY Base DEF IInv, TypeOK, TypeBounds, WriteRow, MayFail, ghosts
<1>6. ConnInv'
  BY Base DEF IInv, TypeOK, TypeEntry, Status, TypeListeners, TypeProcs,
       ConnInv, SigningAt, SavingAt, WritingAt, WriteRow, Ends, memory, Goto
<1>7. FreshInv'
  BY Base DEF IInv, TypeOK, TypeEntry, Status, TypeProcs, ConnInv, SigningAt,
       SavingAt, FreshInv, WriteRow, Ends, memory, Goto, NoJob
<1>8. JobInv'
  BY Base DEF IInv, TypeOK, TypeProcs, JobInv, WriteRow, Ends, Goto, NoJob
<1>9. ListenersAccounted'
  BY Base DEF IInv, TypeOK, TypeEntry, Status, TypeListeners,
       ListenersAccounted, Live, WriteRow, memory, ghosts
<1>10. SavedInv'
  BY Base DEF IInv, TypeOK, TypeDisk, Status, TypeEntry, TypeListeners,
       TypeProcs, ConnInv, SigningAt, SavingAt, WritingAt, FreshInv, JobInv,
       SavedInv, Excused, WriteRow, SetRow, Ends, memory, ghosts, Goto
<1>11. HeardInv'
  BY Base DEF IInv, TypeOK, TypeEntry, Status, TypeListeners, TypeProcs,
       ConnInv, SigningAt, SavingAt, WritingAt, HeardInv, WriteRow, Ends,
       memory, ghosts, Goto
<1>12. ActiveIsAlive'
  BY Base DEF IInv, TypeOK, TypeEntry, Status, TypeListeners, TypeProcs,
       ConnInv, SigningAt, SavingAt, WritingAt, ActiveIsAlive, WriteRow, memory,
       ghosts
<1> QED BY <1>1, <1>2, <1>3, <1>4, <1>5, <1>6, <1>7, <1>8, <1>9, <1>10, <1>11,
             <1>12 DEF IInv, TypeOK

\* A removal takes the entry and the session file.
LEMMA KeepRemoveEntry ==
  ASSUME NEW p \in Procs, IInv, RemoveEntry(p)
  PROVE  IInv'
<1>1. TypeDisk'
  BY Base DEF IInv, TypeOK, TypeDisk, RemoveEntry
<1>2. TypeEntry'
  BY Base DEF IInv, TypeOK, TypeEntry, Status, TypeListeners, TypeProcs,
       ConnInv, RemoveEntry, NoEntry
<1>3. TypeListeners'
  BY Base DEF IInv, TypeOK, TypeListeners, TypeProcs, Status, ConnInv,
       SigningAt, TypeEntry, RemoveEntry, Drop
<1>4. TypeProcs'
  BY Base DEF IInv, TypeOK, TypeProcs, RemoveEntry, Goto
<1>5. TypeBounds'
  BY Base DEF IInv, TypeOK, TypeBounds, RemoveEntry, bounds
<1>6. ConnInv'
  BY Base DEF IInv, TypeOK, TypeEntry, Status, TypeListeners, TypeProcs,
       ConnInv, SigningAt, SavingAt, WritingAt, RemoveEntry, Goto
<1>7. FreshInv'
  BY Base DEF IInv, TypeOK, TypeEntry, Status, TypeProcs, ConnInv, SigningAt,
       FreshInv, RemoveEntry, NoEntry, Goto
<1>8. JobInv'
  BY Base DEF IInv, TypeOK, JobInv, RemoveEntry, Goto
<1>9. ListenersAccounted'
  BY Base DEF IInv, TypeOK, TypeEntry, ListenersAccounted, Live, RemoveEntry,
       Drop
<1>10. SavedInv'
  BY Base DEF IInv, TypeOK, TypeDisk, Status, TypeEntry, TypeListeners,
       TypeProcs, ConnInv, SigningAt, SavingAt, WritingAt, FreshInv, SavedInv,
       Excused, RemoveEntry, Goto
<1>11. HeardInv'
  BY Base DEF IInv, TypeOK, TypeEntry, Status, TypeListeners, TypeProcs,
       ConnInv, SigningAt, SavingAt, HeardInv, RemoveEntry, Goto
<1>12. ActiveIsAlive'
  BY Base DEF IInv, TypeOK, TypeEntry, Status, TypeListeners, TypeProcs,
       ConnInv, SigningAt, SavingAt, ActiveIsAlive, RemoveEntry, NoEntry
<1> QED BY <1>1, <1>2, <1>3, <1>4, <1>5, <1>6, <1>7, <1>8, <1>9, <1>10, <1>11,
             <1>12 DEF IInv, TypeOK

\* A removal ends with the row gone or the removal half done.
LEMMA KeepDeleteRow ==
  ASSUME NEW p \in Procs, IInv, DeleteRow(p)
  PROVE  IInv'
<1>1. TypeDisk'
  BY Base DEF IInv, TypeOK, TypeDisk, DeleteRow
<1>2. TypeEntry'
  BY Base DEF IInv, TypeOK, TypeEntry, Status, TypeListeners, TypeProcs,
       DeleteRow, memory
<1>3. TypeListeners'
  BY Base DEF IInv, TypeOK, TypeListeners, TypeProcs, Status, ConnInv,
       DeleteRow, memory
<1>4. TypeProcs'
  BY Base DEF IInv, TypeOK, TypeProcs, Status, DeleteRow, Ends, Goto, NoJob
<1>5. TypeBounds'
  <2>1. halfGone' = halfGone \/ halfGone' = TRUE
    BY DEF DeleteRow
  <2>2. halfGone' \in BOOLEAN
    BY <2>1, Zenon DEF IInv, TypeOK, TypeBounds
  <2>3. faults' \in 0..MaxFaults
    BY Base DEF IInv, TypeOK, TypeBounds, DeleteRow, MayFail
  <2> QED BY <2>2, <2>3, Zenon DEF IInv, TypeOK, TypeBounds, DeleteRow
<1>6. ConnInv'
  BY Base DEF IInv, TypeOK, TypeEntry, Status, TypeListeners, TypeProcs,
       ConnInv, SigningAt, SavingAt, WritingAt, DeleteRow, Ends, memory, Goto
<1>7. FreshInv'
  BY Base DEF IInv, TypeOK, TypeEntry, Status, TypeProcs, ConnInv, FreshInv,
       DeleteRow, Ends, memory, Goto, NoJob
<1>8. JobInv'
  BY Base DEF IInv, TypeOK, TypeProcs, JobInv, DeleteRow, Ends, Goto, NoJob
<1>9. ListenersAccounted'
  BY Base DEF IInv, TypeOK, TypeEntry, ListenersAccounted, Live, DeleteRow,
       memory
<1>10. SavedInv'
  BY Base DEF IInv, TypeOK, TypeDisk, Status, TypeEntry, TypeListeners,
       TypeProcs, ConnInv, SigningAt, SavingAt, WritingAt, SavedInv, Excused,
       DeleteRow
<1>11. HeardInv'
  BY Base DEF IInv, TypeOK, TypeEntry, Status, TypeListeners, TypeProcs,
       ConnInv, SigningAt, HeardInv, DeleteRow, Ends, memory, Goto
<1>12. ActiveIsAlive'
  BY Base DEF IInv, TypeOK, TypeEntry, Status, TypeListeners, TypeProcs,
       ConnInv, SigningAt, ActiveIsAlive, DeleteRow, memory
<1> QED BY <1>1, <1>2, <1>3, <1>4, <1>5, <1>6, <1>7, <1>8, <1>9, <1>10, <1>11,
             <1>12 DEF IInv, TypeOK

\* An answer signs its connection in.
LEMMA KeepSignedIn ==
  ASSUME NEW p \in Procs, IInv, SignedIn(p)
  PROVE  IInv'
<1>1. TypeDisk'
  BY Base DEF IInv, TypeOK, TypeDisk, SignedIn, disk
<1>2. TypeEntry'
  BY Base DEF IInv, TypeOK, TypeEntry, Status, TypeListeners, SignedIn
<1>3. TypeListeners'
  BY Base DEF IInv, TypeOK, TypeListeners, TypeProcs, Status, ConnInv,
       SigningAt, SignedIn, ghosts
<1>4. TypeProcs'
  BY Base DEF IInv, TypeOK, TypeProcs, SignedIn, Goto
<1>5. TypeBounds'
  BY DEF IInv, TypeOK, TypeBounds, SignedIn, bounds, ghosts
<1>6. ConnInv'
  BY Base DEF IInv, TypeOK, TypeEntry, Status, TypeListeners, ConnInv,
       SigningAt, SignedIn, Goto
<1>7. FreshInv'
  BY Base DEF IInv, TypeOK, TypeEntry, Status, TypeProcs, FreshInv, SignedIn,
       Goto
<1>8. JobInv'
  BY Base DEF IInv, JobInv, SignedIn, Goto
<1>9. ListenersAccounted'
  BY Base DEF IInv, TypeOK, ListenersAccounted, Live, SignedIn, ghosts
<1>10. SavedInv'
  BY Base DEF IInv, TypeOK, TypeDisk, Status, TypeEntry, TypeListeners,
       TypeProcs, ConnInv, SigningAt, SavingAt, WritingAt, FreshInv, SavedInv,
       Excused, SignedIn, Goto, disk, ghosts
<1>11. HeardInv'
  BY Base DEF IInv, TypeOK, TypeEntry, Status, TypeListeners, TypeProcs,
       ConnInv, FreshInv, HeardInv, SignedIn, Goto, ghosts
<1>12. ActiveIsAlive'
  BY Base DEF IInv, TypeOK, TypeEntry, Status, TypeListeners, TypeProcs,
       ConnInv, ActiveIsAlive, SignedIn, ghosts
<1> QED BY <1>1, <1>2, <1>3, <1>4, <1>5, <1>6, <1>7, <1>8, <1>9, <1>10, <1>11,
             <1>12 DEF IInv, TypeOK

\* A code that needs a password leaves the token in the entry.
LEMMA KeepPasswordRequired ==
  ASSUME NEW p \in Procs, IInv, PasswordRequired(p)
  PROVE  IInv'
<1>1. TypeDisk'
  BY Base DEF IInv, TypeOK, TypeDisk, Status, PasswordRequired, SetRow
<1>2. TypeEntry'
  BY Base DEF IInv, TypeOK, TypeEntry, Status, TypeListeners, TypeProcs,
       ConnInv, SigningAt, PasswordRequired
<1>3. TypeListeners'
  BY Base DEF IInv, TypeOK, TypeListeners, TypeProcs, Status, ConnInv,
       SigningAt, SavingAt, PasswordRequired
<1>4. TypeProcs'
  BY Base DEF IInv, TypeOK, TypeProcs, Status, PasswordRequired, Ends, Goto,
       NoJob
<1>5. TypeBounds'
  BY Base DEF IInv, TypeOK, TypeBounds, PasswordRequired, MayFail
<1>6. ConnInv'
  BY Base DEF IInv, TypeOK, TypeEntry, Status, TypeListeners, TypeProcs,
       ConnInv, SigningAt, SavingAt, WritingAt, PasswordRequired, Ends, Goto
<1>7. FreshInv'
  BY Base DEF IInv, TypeOK, TypeEntry, Status, TypeProcs, ConnInv, SigningAt,
       SavingAt, FreshInv, PasswordRequired, Ends, Goto, NoJob
<1>8. JobInv'
  BY Base DEF IInv, TypeOK, TypeProcs, JobInv, PasswordRequired, Ends, Goto,
       NoJob
<1>9. ListenersAccounted'
  BY Base DEF IInv, TypeOK, TypeEntry, Status, TypeListeners,
       ListenersAccounted, Live, PasswordRequired
<1>10. SavedInv'
  BY Base DEF IInv, TypeOK, TypeDisk, Status, TypeEntry, TypeListeners,
       TypeProcs, ConnInv, SigningAt, SavingAt, WritingAt, FreshInv, JobInv,
       SavedInv, Excused, PasswordRequired, SetRow, Ends, Goto
<1>11. HeardInv'
  BY Base DEF IInv, TypeOK, TypeEntry, Status, TypeListeners, TypeProcs,
       ConnInv, SigningAt, SavingAt, WritingAt, HeardInv, PasswordRequired,
       Ends, Goto
<1>12. ActiveIsAlive'
  BY Base DEF IInv, TypeOK, TypeEntry, Status, TypeListeners, TypeProcs,
       ConnInv, SigningAt, SavingAt, WritingAt, ActiveIsAlive, PasswordRequired
<1> QED BY <1>1, <1>2, <1>3, <1>4, <1>5, <1>6, <1>7, <1>8, <1>9, <1>10, <1>11,
             <1>12 DEF IInv, TypeOK

\* A wrong code or password puts the token back.
LEMMA KeepSignInRejected ==
  ASSUME NEW p \in Procs, IInv, SignInRejected(p)
  PROVE  IInv'
<1>1. TypeDisk'
  BY Base DEF IInv, TypeOK, TypeDisk, SignInRejected, disk
<1>2. TypeEntry'
  BY Base DEF IInv, TypeOK, TypeEntry, Status, TypeListeners, TypeProcs,
       ConnInv, SigningAt, SignInRejected
<1>3. TypeListeners'
  BY Base DEF IInv, TypeOK, TypeListeners, TypeProcs, Status, ConnInv,
       SigningAt, SavingAt, SignInRejected
<1>4. TypeProcs'
  BY Base DEF IInv, TypeOK, TypeProcs, Status, SignInRejected, Ends, Goto, NoJob
<1>5. TypeBounds'
  BY Base DEF IInv, TypeOK, TypeBounds, SignInRejected, bounds
<1>6. ConnInv'
  BY Base DEF IInv, TypeOK, TypeEntry, Status, TypeListeners, TypeProcs,
       ConnInv, SigningAt, SavingAt, WritingAt, SignInRejected, Ends, Goto
<1>7. FreshInv'
  BY Base DEF IInv, TypeOK, TypeEntry, Status, TypeProcs, ConnInv, SigningAt,
       SavingAt, FreshInv, SignInRejected, Ends, Goto, NoJob
<1>8. JobInv'
  BY Base DEF IInv, TypeOK, TypeProcs, JobInv, SignInRejected, Ends, Goto, NoJob
<1>9. ListenersAccounted'
  BY Base DEF IInv, TypeOK, TypeEntry, Status, TypeListeners,
       ListenersAccounted, Live, SignInRejected
<1>10. SavedInv'
  BY Base DEF IInv, TypeOK, TypeDisk, Status, TypeEntry, TypeListeners,
       TypeProcs, ConnInv, SigningAt, SavingAt, WritingAt, FreshInv, JobInv,
       SavedInv, Excused, SignInRejected, Ends, disk, Goto
<1>11. HeardInv'
  BY Base DEF IInv, TypeOK, TypeEntry, Status, TypeListeners, TypeProcs,
       ConnInv, SigningAt, SavingAt, WritingAt, HeardInv, SignInRejected, Ends,
       Goto
<1>12. ActiveIsAlive'
  BY Base DEF IInv, TypeOK, TypeEntry, Status, TypeListeners, TypeProcs,
       ConnInv, SigningAt, SavingAt, WritingAt, ActiveIsAlive, SignInRejected
<1> QED BY <1>1, <1>2, <1>3, <1>4, <1>5, <1>6, <1>7, <1>8, <1>9, <1>10, <1>11,
             <1>12 DEF IInv, TypeOK

\* A sign-in that fails ends.
LEMMA KeepSignInFails ==
  ASSUME NEW p \in Procs, IInv, SignInFails(p)
  PROVE  IInv'
<1>1. TypeDisk'
  BY Base DEF IInv, TypeOK, TypeDisk, SignInFails, disk
<1>2. TypeEntry'
  BY Base DEF IInv, TypeOK, TypeEntry, Status, TypeListeners, TypeProcs,
       ConnInv, SigningAt, SignInFails, memory
<1>3. TypeListeners'
  BY Base DEF IInv, TypeOK, TypeListeners, TypeProcs, Status, ConnInv,
       SigningAt, SavingAt, SignInFails, memory, ghosts
<1>4. TypeProcs'
  BY Base DEF IInv, TypeOK, TypeProcs, Status, SignInFails, Ends, Goto, NoJob
<1>5. TypeBounds'
  BY Base DEF IInv, TypeOK, TypeBounds, SignInFails, MayFail, ghosts
<1>6. ConnInv'
  BY Base DEF IInv, TypeOK, TypeEntry, Status, TypeListeners, TypeProcs,
       ConnInv, SigningAt, SavingAt, WritingAt, SignInFails, Ends, memory, Goto
<1>7. FreshInv'
  BY Base DEF IInv, TypeOK, TypeEntry, Status, TypeProcs, ConnInv, SigningAt,
       SavingAt, FreshInv, SignInFails, Ends, memory, Goto, NoJob
<1>8. JobInv'
  BY Base DEF IInv, TypeOK, TypeProcs, JobInv, SignInFails, Ends, Goto, NoJob
<1>9. ListenersAccounted'
  BY Base DEF IInv, TypeOK, TypeEntry, Status, TypeListeners,
       ListenersAccounted, Live, SignInFails, memory, ghosts
<1>10. SavedInv'
  BY Base DEF IInv, TypeOK, TypeDisk, Status, TypeEntry, TypeListeners,
       TypeProcs, ConnInv, SigningAt, SavingAt, WritingAt, FreshInv, JobInv,
       SavedInv, Excused, SignInFails, Ends, disk, memory, ghosts, Goto
<1>11. HeardInv'
  BY Base DEF IInv, TypeOK, TypeEntry, Status, TypeListeners, TypeProcs,
       ConnInv, SigningAt, SavingAt, WritingAt, HeardInv, SignInFails, Ends,
       memory, ghosts, Goto
<1>12. ActiveIsAlive'
  BY Base DEF IInv, TypeOK, TypeEntry, Status, TypeListeners, TypeProcs,
       ConnInv, SigningAt, SavingAt, WritingAt, ActiveIsAlive, SignInFails,
       memory, ghosts
<1> QED BY <1>1, <1>2, <1>3, <1>4, <1>5, <1>6, <1>7, <1>8, <1>9, <1>10, <1>11,
             <1>12 DEF IInv, TypeOK

\* A session is saved before its row is written.
LEMMA KeepSaveSession ==
  ASSUME NEW p \in Procs, IInv, SaveSession(p)
  PROVE  IInv'
<1>1. TypeDisk'
  BY Base DEF IInv, TypeOK, TypeDisk, SaveSession
<1>2. TypeEntry'
  BY Base DEF IInv, TypeOK, TypeEntry, Status, TypeListeners, TypeProcs,
       ConnInv, SaveSession, memory
<1>3. TypeListeners'
  BY Base DEF IInv, TypeOK, TypeListeners, TypeProcs, Status, ConnInv,
       SigningAt, SaveSession, memory
<1>4. TypeProcs'
  <2>1. TypeProcs
    BY DEF IInv, TypeOK
  <2>2. \/ UNCHANGED job /\ \E a \in WritingAt : at' = [at EXCEPT ![p] = a]
        \/ job' = [job EXCEPT ![p] = NoJob] /\ at' = [at EXCEPT ![p] = "idle"]
    BY DEF SaveSession, Goto, Ends, WritingAt
  <2>3. NoJob \in [conn : Conns \cup {NoConn}, token : Conns \cup {NoConn}, write : Status]
    BY DEF NoJob, Status
  <2> QED
    BY <2>1, <2>2, <2>3 DEF TypeProcs, WritingAt
<1>5. TypeBounds'
  <2>1. crossed' = crossed \/ crossed' = (crossed \/ Overtaken(p))
    BY Zenon DEF SaveSession
  <2>2. crossed' \in BOOLEAN
    BY <2>1, Zenon DEF IInv, TypeOK, TypeBounds
  <2>3. faults' \in 0..MaxFaults
    BY Base DEF IInv, TypeOK, TypeBounds, SaveSession, MayFail
  <2> QED BY <2>2, <2>3, Zenon DEF IInv, TypeOK, TypeBounds, SaveSession
<1>6. ConnInv'
  BY Base DEF IInv, TypeOK, TypeEntry, Status, TypeListeners, TypeProcs,
       ConnInv, SigningAt, SavingAt, WritingAt, SaveSession, Goto, Ends, memory
<1>7. FreshInv'
  BY Base DEF IInv, TypeOK, TypeEntry, Status, TypeProcs, ConnInv, SigningAt,
       FreshInv, SaveSession, Goto, Ends, memory, NoJob
<1>8. JobInv'
  BY Base DEF IInv, TypeOK, TypeProcs, JobInv, SaveSession, Goto, Ends, NoJob
<1>9. ListenersAccounted'
  BY Base DEF IInv, TypeOK, TypeEntry, Status, ListenersAccounted, Live,
       SaveSession, memory
<1>10. SavedInv'
  <2> SUFFICES ASSUME ~Excused'
               PROVE  /\ row' = "active" => session' = "auth"
                      /\ entry'.status = "active" => session' = "auth"
                      /\ \A q \in Procs :
                           /\ at'[q] \in WritingAt \cup {"spawn"} => session' = "auth"
                           /\ at'[q] = "row" /\ job'[q].write = "active" => session' = "auth"
                           /\ at'[q] = "insert" /\ job'[q].conn \in authed' => session' = "auth"
    BY DEF SavedInv
  <2>1. \A q \in Procs \ {p} : at'[q] = at[q] /\ job'[q] = job[q]
    BY DEF IInv, TypeOK, TypeProcs, SaveSession, Ends, Goto
  <2>2. job[p].conn \in authed /\ job[p].conn \in Conns
    BY DEF IInv, ConnInv, SaveSession, SavingAt
  <2>3. ~Excused
    BY <2>1 DEF Excused, SaveSession
  <2>4. CASE Ends(p) /\ UNCHANGED session
    <3>1. at'[p] = "idle"
      BY <2>4 DEF IInv, TypeOK, TypeProcs, Ends, Goto
    <3> QED BY <2>1, <2>3, <2>4, <3>1 DEF IInv, SavedInv, SaveSession, memory,
                 WritingAt
  <2>5. CASE /\ session' = IF entry.conn = NoConn THEN session
                             ELSE IF entry.conn \in authed THEN "auth" ELSE "anon"
             /\ crossed' = (crossed \/ Overtaken(p))
    <3>1. session' = "auth"
      BY <2>2, <2>5, Base DEF Overtaken, Excused
    <3> QED BY <3>1
  <2> QED BY <2>4, <2>5 DEF SaveSession
<1>11. HeardInv'
  BY Crosses DEF IInv, TypeOK, TypeProcs, HeardInv, SaveSession, Ends, Goto,
       memory
<1>12. ActiveIsAlive'
  BY Crosses DEF IInv, ActiveIsAlive, SaveSession, memory
<1> QED BY <1>1, <1>2, <1>3, <1>4, <1>5, <1>6, <1>7, <1>8, <1>9, <1>10, <1>11,
             <1>12 DEF IInv, TypeOK

\* The row is active before the entry is.
LEMMA KeepActiveRow ==
  ASSUME NEW p \in Procs, IInv, ActiveRow(p)
  PROVE  IInv'
<1>1. TypeDisk'
  BY Base DEF IInv, TypeOK, TypeDisk, Status, ActiveRow, SetRow
<1>2. TypeEntry'
  BY Base DEF IInv, TypeOK, TypeEntry, Status, TypeListeners, TypeProcs,
       ConnInv, SigningAt, ActiveRow, memory
<1>3. TypeListeners'
  BY Base DEF IInv, TypeOK, TypeListeners, TypeProcs, Status, ConnInv,
       SigningAt, SavingAt, ActiveRow, memory, ghosts
<1>4. TypeProcs'
  BY Base DEF IInv, TypeOK, TypeProcs, Status, ActiveRow, Goto, Ends, NoJob
<1>5. TypeBounds'
  BY Base DEF IInv, TypeOK, TypeBounds, ActiveRow, MayFail, ghosts
<1>6. ConnInv'
  BY Base DEF IInv, TypeOK, TypeEntry, Status, TypeListeners, TypeProcs,
       ConnInv, SigningAt, SavingAt, WritingAt, ActiveRow, Goto, Ends, memory
<1>7. FreshInv'
  BY Base DEF IInv, TypeOK, TypeEntry, Status, TypeProcs, ConnInv, SigningAt,
       SavingAt, FreshInv, ActiveRow, Goto, Ends, memory, NoJob
<1>8. JobInv'
  BY Base DEF IInv, TypeOK, TypeProcs, JobInv, ActiveRow, Goto, Ends, NoJob
<1>9. ListenersAccounted'
  BY Base DEF IInv, TypeOK, TypeEntry, Status, TypeListeners,
       ListenersAccounted, Live, ActiveRow, memory, ghosts
<1>10. SavedInv'
  BY Base DEF IInv, TypeOK, TypeDisk, Status, TypeEntry, TypeListeners,
       TypeProcs, ConnInv, SigningAt, SavingAt, WritingAt, FreshInv, JobInv,
       SavedInv, Excused, ActiveRow, SetRow, Goto, Ends, ghosts
<1>11. HeardInv'
  BY Base DEF IInv, TypeOK, TypeEntry, Status, TypeListeners, TypeProcs,
       ConnInv, SigningAt, SavingAt, WritingAt, HeardInv, ActiveRow, Goto, Ends,
       memory, ghosts
<1>12. ActiveIsAlive'
  BY Base DEF IInv, TypeOK, TypeEntry, Status, TypeListeners, TypeProcs,
       ConnInv, SigningAt, SavingAt, WritingAt, ActiveIsAlive, ActiveRow,
       memory, ghosts
<1> QED BY <1>1, <1>2, <1>3, <1>4, <1>5, <1>6, <1>7, <1>8, <1>9, <1>10, <1>11,
             <1>12 DEF IInv, TypeOK

\* The entry becomes active as its listener starts.
LEMMA KeepActivate ==
  ASSUME NEW p \in Procs, IInv, Activate(p)
  PROVE  IInv'
<1>1. TypeDisk'
  BY Base DEF IInv, TypeOK, TypeDisk, Status, TypeProcs, Activate, disk
<1>2. TypeEntry'
  BY Base DEF IInv, TypeOK, TypeEntry, Status, TypeListeners, TypeProcs,
       ConnInv, SigningAt, SavingAt, WritingAt, Activate, Present, Spawn,
       Overtaken, disk, FreeTasks, NoJob
<1>3. TypeListeners'
  BY Base DEF IInv, TypeOK, TypeListeners, TypeProcs, Status, ConnInv,
       SigningAt, SavingAt, WritingAt, TypeEntry, Activate, Spawn, FreeTasks
<1>4. TypeProcs'
  BY Base DEF IInv, TypeOK, TypeProcs, Status, TypeEntry, Activate, Ends, Goto,
       NoJob
<1>5. TypeBounds'
  BY Base DEF IInv, TypeOK, TypeBounds, Activate, bounds
<1>6. ConnInv'
  BY Base DEF IInv, TypeOK, TypeEntry, Status, TypeListeners, TypeProcs,
       ConnInv, SigningAt, SavingAt, WritingAt, Activate, Ends, Goto
<1>7. FreshInv'
  BY Base DEF IInv, TypeOK, TypeEntry, Status, TypeProcs, ConnInv, SigningAt,
       SavingAt, WritingAt, FreshInv, Activate, Ends, Goto, NoJob
<1>8. JobInv'
  BY Base DEF IInv, TypeOK, TypeProcs, Status, JobInv, Activate, Ends, Goto,
       NoJob
<1>9. ListenersAccounted'
  BY Base DEF IInv, TypeOK, TypeEntry, Status, TypeListeners,
       ListenersAccounted, Live, Activate, Spawn
<1>10. SavedInv'
  BY Base DEF IInv, TypeOK, TypeDisk, Status, TypeEntry, TypeListeners,
       TypeProcs, ConnInv, SigningAt, SavingAt, WritingAt, FreshInv, JobInv,
       SavedInv, Excused, Activate, Ends, disk, Goto
<1>11. HeardInv'
  <2> SUFFICES ASSUME ~crossed', NEW q \in Procs, at'[q] = "insert",
                      job'[q].conn \in authed'
               PROVE  \E l \in Tasks : listener'[l] = [does |-> "listens", conn |-> job'[q].conn]
    BY DEF HeardInv
  <2>1. at[q] = "insert" /\ job[q].conn \in authed /\ job'[q].conn = job[q].conn /\ ~crossed
    BY DEF IInv, TypeOK, TypeProcs, Activate, Ends, Goto
  <2>2. PICK l \in Tasks : listener[l] = [does |-> "listens", conn |-> job[q].conn]
    BY <2>1 DEF IInv, HeardInv
  <2>3. listener'[l] = listener[l]
    BY <2>2 DEF Activate, Spawn, FreeTasks, Live
  <2> QED BY <2>1, <2>2, <2>3
<1>12. ActiveIsAlive'
  BY Base DEF IInv, TypeOK, TypeEntry, Status, TypeListeners, TypeProcs,
       ConnInv, SigningAt, SavingAt, WritingAt, HeardInv, ActiveIsAlive,
       Activate, Spawn, Overtaken, FreeTasks
<1> QED BY <1>1, <1>2, <1>3, <1>4, <1>5, <1>6, <1>7, <1>8, <1>9, <1>10, <1>11,
             <1>12 DEF IInv, TypeOK

\* The reconnector picks an offline client.
LEMMA KeepReconnectTick ==
  ASSUME IInv, ReconnectTick
  PROVE  IInv'
<1>1. TypeDisk'
  BY Base DEF IInv, TypeOK, TypeDisk, ReconnectTick, disk
<1>2. TypeEntry'
  BY Base DEF IInv, TypeOK, TypeEntry, Status, TypeListeners, TypeProcs,
       ReconnectTick, memory
<1>3. TypeListeners'
  BY Base DEF IInv, TypeOK, TypeListeners, TypeProcs, Status, ConnInv,
       ReconnectTick, memory, ghosts
<1>4. TypeProcs'
  BY Base DEF IInv, TypeOK, TypeProcs, ReconnectTick, Goto
<1>5. TypeBounds'
  BY DEF IInv, TypeOK, TypeBounds, ReconnectTick, bounds, ghosts
<1>6. ConnInv'
  BY Base DEF IInv, TypeOK, TypeEntry, Status, TypeListeners, TypeProcs,
       ConnInv, SigningAt, SavingAt, WritingAt, ReconnectTick, Goto, memory
<1>7. FreshInv'
  BY Base DEF IInv, TypeOK, TypeEntry, Status, TypeProcs, ConnInv, FreshInv,
       ReconnectTick, Goto, memory
<1>8. JobInv'
  BY Base DEF IInv, JobInv, ReconnectTick, Goto
<1>9. ListenersAccounted'
  BY Base DEF IInv, TypeOK, TypeEntry, ListenersAccounted, Live, ReconnectTick,
       memory, ghosts
<1>10. SavedInv'
  BY Base DEF IInv, TypeOK, TypeDisk, Status, TypeEntry, TypeListeners,
       TypeProcs, ConnInv, SigningAt, SavingAt, WritingAt, SavedInv, Excused,
       ReconnectTick, Goto, disk, memory, ghosts
<1>11. HeardInv'
  BY Base DEF IInv, TypeOK, TypeEntry, Status, TypeListeners, TypeProcs,
       ConnInv, SigningAt, HeardInv, ReconnectTick, Goto, memory, ghosts
<1>12. ActiveIsAlive'
  BY Base DEF IInv, TypeOK, TypeEntry, Status, TypeListeners, TypeProcs,
       ConnInv, SigningAt, ActiveIsAlive, ReconnectTick, memory, ghosts
<1> QED BY <1>1, <1>2, <1>3, <1>4, <1>5, <1>6, <1>7, <1>8, <1>9, <1>10, <1>11,
             <1>12 DEF IInv, TypeOK

\* The reconnector starts a client nobody started.
LEMMA KeepReconnectStart ==
  ASSUME IInv, ReconnectStart
  PROVE  IInv'
<1>1. TypeDisk'
  BY Base DEF IInv, TypeOK, TypeDisk, ReconnectStart, CheckStarted, disk
<1>2. TypeEntry'
  BY Base DEF IInv, TypeOK, TypeEntry, Status, TypeListeners, TypeProcs,
       ConnInv, SigningAt, ReconnectStart, CheckStarted, memory
<1>3. TypeListeners'
  BY Base DEF IInv, TypeOK, TypeListeners, TypeProcs, Status, ConnInv,
       SigningAt, SavingAt, ReconnectStart, CheckStarted, memory, ghosts
<1>4. TypeProcs'
  BY Base DEF IInv, TypeOK, TypeProcs, Status, ReconnectStart, CheckStarted,
       Goto, NoJob
<1>5. TypeBounds'
  BY Base DEF IInv, TypeOK, TypeBounds, ReconnectStart, CheckStarted, bounds,
       ghosts
<1>6. ConnInv'
  BY Base DEF IInv, TypeOK, TypeEntry, Status, TypeListeners, TypeProcs,
       ConnInv, SigningAt, SavingAt, WritingAt, ReconnectStart, CheckStarted,
       Goto, memory
<1>7. FreshInv'
  BY Base DEF IInv, TypeOK, TypeEntry, Status, TypeProcs, ConnInv, SigningAt,
       SavingAt, FreshInv, ReconnectStart, CheckStarted, Goto, NoJob, disk,
       memory
<1>8. JobInv'
  BY Base DEF IInv, TypeOK, TypeProcs, JobInv, ReconnectStart, CheckStarted,
       Goto
<1>9. ListenersAccounted'
  BY Base DEF IInv, TypeOK, TypeEntry, Status, TypeListeners,
       ListenersAccounted, Live, ReconnectStart, CheckStarted, memory, ghosts
<1>10. SavedInv'
  BY Base DEF IInv, TypeOK, TypeDisk, Status, TypeEntry, TypeListeners,
       TypeProcs, ConnInv, SigningAt, SavingAt, WritingAt, FreshInv, JobInv,
       SavedInv, Excused, ReconnectStart, CheckStarted, Goto, disk, memory,
       ghosts
<1>11. HeardInv'
  BY Base DEF IInv, TypeOK, TypeEntry, Status, TypeListeners, TypeProcs,
       ConnInv, SigningAt, SavingAt, WritingAt, HeardInv, ReconnectStart,
       CheckStarted, Goto, memory, ghosts
<1>12. ActiveIsAlive'
  BY Base DEF IInv, TypeOK, TypeEntry, Status, TypeListeners, TypeProcs,
       ConnInv, SigningAt, SavingAt, WritingAt, ActiveIsAlive, ReconnectStart,
       CheckStarted, memory, ghosts
<1> QED BY <1>1, <1>2, <1>3, <1>4, <1>5, <1>6, <1>7, <1>8, <1>9, <1>10, <1>11,
             <1>12 DEF IInv, TypeOK

\* The helper stores a handle and drops the one it replaces.
LEMMA KeepStoreHandle ==
  ASSUME NEW l \in Tasks, IInv, StoreHandle(l)
  PROVE  IInv'
<1>1. TypeDisk'
  BY Base DEF IInv, TypeOK, TypeDisk, StoreHandle, disk
<1>2. TypeEntry'
  BY Base DEF IInv, TypeOK, TypeEntry, Status, TypeListeners, TypeProcs,
       ConnInv, StoreHandle
<1>3. TypeListeners'
  BY Base DEF IInv, TypeOK, TypeListeners, TypeProcs, Status, ConnInv,
       SigningAt, TypeEntry, StoreHandle, Drop
<1>4. TypeProcs'
  BY Base DEF IInv, TypeOK, TypeProcs, StoreHandle, procs
<1>5. TypeBounds'
  BY Base DEF IInv, TypeOK, TypeBounds, StoreHandle, procs, bounds
<1>6. ConnInv'
  BY Base DEF IInv, TypeOK, TypeEntry, Status, TypeListeners, TypeProcs,
       ConnInv, StoreHandle, procs
<1>7. FreshInv'
  BY Base DEF IInv, TypeOK, TypeEntry, Status, TypeProcs, ConnInv, SigningAt,
       FreshInv, StoreHandle, procs
<1>8. JobInv'
  BY Base DEF IInv, TypeOK, JobInv, StoreHandle, procs
<1>9. ListenersAccounted'
  BY Base DEF IInv, TypeOK, TypeEntry, ListenersAccounted, Live, StoreHandle,
       Drop
<1>10. SavedInv'
  BY Base DEF IInv, TypeOK, TypeDisk, Status, TypeEntry, TypeListeners,
       TypeProcs, ConnInv, SigningAt, SavingAt, WritingAt, FreshInv, SavedInv,
       Excused, StoreHandle, disk, procs
<1>11. HeardInv'
  BY Base DEF IInv, TypeOK, TypeEntry, Status, TypeListeners, TypeProcs,
       ConnInv, SigningAt, SavingAt, HeardInv, StoreHandle, procs
<1>12. ActiveIsAlive'
  BY Base DEF IInv, TypeOK, TypeEntry, Status, TypeListeners, TypeProcs,
       ConnInv, SigningAt, SavingAt, ActiveIsAlive, StoreHandle
<1> QED BY <1>1, <1>2, <1>3, <1>4, <1>5, <1>6, <1>7, <1>8, <1>9, <1>10, <1>11,
             <1>12 DEF IInv, TypeOK

\* A listener that gives up marks the entry offline.
LEMMA KeepMarkOffline ==
  ASSUME NEW l \in Tasks, IInv, MarkOffline(l)
  PROVE  IInv'
<1>1. TypeDisk'
  BY Base DEF IInv, TypeOK, TypeDisk, MarkOffline, disk
<1>2. TypeEntry'
  BY Base DEF IInv, TypeOK, TypeEntry, Status, TypeListeners, TypeProcs,
       ConnInv, MarkOffline
<1>3. TypeListeners'
  BY Base DEF IInv, TypeOK, TypeListeners, TypeProcs, Status, ConnInv,
       SigningAt, TypeEntry, MarkOffline, Drop
<1>4. TypeProcs'
  BY Base DEF IInv, TypeOK, TypeProcs, MarkOffline, procs
<1>5. TypeBounds'
  BY Base DEF IInv, TypeOK, TypeBounds, MarkOffline, procs, bounds
<1>6. ConnInv'
  BY Base DEF IInv, TypeOK, TypeEntry, Status, TypeListeners, TypeProcs,
       ConnInv, MarkOffline, procs
<1>7. FreshInv'
  BY Base DEF IInv, TypeOK, TypeEntry, Status, TypeProcs, ConnInv, SigningAt,
       FreshInv, MarkOffline, procs
<1>8. JobInv'
  BY Base DEF IInv, TypeOK, JobInv, MarkOffline, procs
<1>9. ListenersAccounted'
  BY Base DEF IInv, TypeOK, TypeEntry, TypeListeners, ListenersAccounted, Live,
       MarkOffline, Drop
<1>10. SavedInv'
  BY Base DEF IInv, TypeOK, TypeDisk, Status, TypeEntry, TypeListeners,
       TypeProcs, ConnInv, SigningAt, SavingAt, WritingAt, FreshInv, SavedInv,
       Excused, MarkOffline, disk, procs
<1>11. HeardInv'
  BY Base DEF IInv, TypeOK, TypeEntry, Status, TypeListeners, TypeProcs,
       ConnInv, SigningAt, SavingAt, HeardInv, MarkOffline, procs
<1>12. ActiveIsAlive'
  BY Base DEF IInv, TypeOK, TypeEntry, Status, TypeListeners, TypeProcs,
       ConnInv, SigningAt, SavingAt, ActiveIsAlive, MarkOffline, Present
<1> QED BY <1>1, <1>2, <1>3, <1>4, <1>5, <1>6, <1>7, <1>8, <1>9, <1>10, <1>11,
             <1>12 DEF IInv, TypeOK

\* A listener that gave up marks the row offline and ends.
LEMMA KeepRecordOffline ==
  ASSUME NEW l \in Tasks, IInv, RecordOffline(l)
  PROVE  IInv'
<1>1. TypeDisk'
  BY Base DEF IInv, TypeOK, TypeDisk, Status, RecordOffline, SetRow
<1>2. TypeEntry'
  BY Base DEF IInv, TypeOK, TypeEntry, Status, TypeListeners, RecordOffline
<1>3. TypeListeners'
  BY Base DEF IInv, TypeOK, TypeListeners, TypeProcs, Status, RecordOffline,
       Unused
<1>4. TypeProcs'
  BY Base DEF IInv, TypeOK, TypeProcs, RecordOffline, procs
<1>5. TypeBounds'
  BY Base DEF IInv, TypeOK, TypeBounds, RecordOffline, MayFail, procs
<1>6. ConnInv'
  BY Base DEF IInv, TypeOK, TypeEntry, Status, TypeListeners, ConnInv,
       RecordOffline, procs
<1>7. FreshInv'
  BY Base DEF IInv, TypeOK, TypeEntry, Status, TypeProcs, FreshInv,
       RecordOffline, procs
<1>8. JobInv'
  BY Base DEF IInv, JobInv, RecordOffline, procs
<1>9. ListenersAccounted'
  BY Base DEF IInv, TypeOK, ListenersAccounted, Live, RecordOffline, Unused
<1>10. SavedInv'
  BY Base DEF IInv, TypeOK, TypeDisk, Status, TypeEntry, TypeListeners,
       TypeProcs, ConnInv, SigningAt, SavingAt, SavedInv, Excused,
       RecordOffline, SetRow, procs
<1>11. HeardInv'
  BY Base DEF IInv, TypeOK, TypeEntry, Status, TypeListeners, TypeProcs,
       ConnInv, HeardInv, RecordOffline, procs
<1>12. ActiveIsAlive'
  BY Base DEF IInv, TypeOK, TypeEntry, Status, TypeListeners, TypeProcs,
       ConnInv, ActiveIsAlive, RecordOffline
<1> QED BY <1>1, <1>2, <1>3, <1>4, <1>5, <1>6, <1>7, <1>8, <1>9, <1>10, <1>11,
             <1>12 DEF IInv, TypeOK

\* A listener gives up only when its connection is in the map.
LEMMA KeepListenerGivesUp ==
  ASSUME NEW l \in Tasks, IInv, ListenerGivesUp(l)
  PROVE  IInv'
<1>1. TypeDisk'
  BY Base DEF IInv, TypeOK, TypeDisk, ListenerGivesUp, disk
<1>2. TypeEntry'
  BY Base DEF IInv, TypeOK, TypeEntry, Status, TypeListeners, TypeProcs,
       ListenerGivesUp
<1>3. TypeListeners'
  BY Base DEF IInv, TypeOK, TypeListeners, TypeProcs, Status, ConnInv,
       ListenerGivesUp, ghosts
<1>4. TypeProcs'
  BY Base DEF IInv, TypeOK, TypeProcs, ListenerGivesUp, procs
<1>5. TypeBounds'
  BY Base DEF IInv, TypeOK, TypeBounds, ListenerGivesUp, MayFail, procs, ghosts
<1>6. ConnInv'
  BY Base DEF IInv, TypeOK, TypeEntry, Status, TypeListeners, TypeProcs,
       ConnInv, ListenerGivesUp, procs
<1>7. FreshInv'
  BY Base DEF IInv, TypeOK, TypeEntry, Status, TypeProcs, ConnInv, FreshInv,
       ListenerGivesUp, procs
<1>8. JobInv'
  BY Base DEF IInv, JobInv, ListenerGivesUp, procs
<1>9. ListenersAccounted'
  BY Base DEF IInv, TypeOK, TypeEntry, ListenersAccounted, Live,
       ListenerGivesUp, ghosts
<1>10. SavedInv'
  BY Base DEF IInv, TypeOK, TypeDisk, Status, TypeEntry, TypeListeners,
       TypeProcs, ConnInv, SigningAt, SavingAt, WritingAt, SavedInv, Excused,
       ListenerGivesUp, disk, procs, ghosts
<1>11. HeardInv'
  BY Base DEF IInv, TypeOK, TypeEntry, Status, TypeListeners, TypeProcs,
       ConnInv, SigningAt, HeardInv, ListenerGivesUp, procs, ghosts
<1>12. ActiveIsAlive'
  BY Base DEF IInv, TypeOK, TypeEntry, Status, TypeListeners, TypeProcs,
       ConnInv, SigningAt, ActiveIsAlive, ListenerGivesUp, ghosts
<1> QED BY <1>1, <1>2, <1>3, <1>4, <1>5, <1>6, <1>7, <1>8, <1>9, <1>10, <1>11,
             <1>12 DEF IInv, TypeOK

\* A restart keeps the disk only.
LEMMA KeepRestart ==
  ASSUME IInv, Restart
  PROVE  IInv'
<1>1. TypeDisk'
  BY Base DEF IInv, TypeOK, TypeDisk, Restart, disk
<1>2. TypeEntry'
  BY Base DEF IInv, TypeOK, TypeEntry, Status, TypeListeners, TypeProcs,
       Restart, NoEntry
<1>3. TypeListeners'
  BY Base DEF IInv, TypeOK, TypeListeners, TypeProcs, Status, ConnInv, Restart,
       Unused
<1>4. TypeProcs'
  BY Base DEF IInv, TypeProcs, Status, Restart, NoJob
<1>5. TypeBounds'
  BY Base DEF IInv, TypeOK, TypeBounds, Restart, SaysActive
<1>6. ConnInv'
  BY Base DEF IInv, TypeOK, TypeEntry, Status, TypeListeners, TypeProcs,
       ConnInv, SigningAt, SavingAt, WritingAt, Restart
<1>7. FreshInv'
  BY Base DEF IInv, TypeOK, TypeEntry, Status, TypeProcs, ConnInv, FreshInv,
       Restart
<1>8. JobInv'
  BY Base DEF IInv, JobInv, Restart, NoJob
<1>9. ListenersAccounted'
  BY Base DEF IInv, TypeOK, TypeEntry, ListenersAccounted, Live, Restart, Unused
<1>10. SavedInv'
  BY Base DEF IInv, TypeOK, TypeDisk, Status, TypeEntry, TypeListeners,
       TypeProcs, ConnInv, SigningAt, SavingAt, WritingAt, SavedInv, Excused,
       Restart, NoEntry, disk
<1>11. HeardInv'
  BY Base DEF IInv, TypeOK, TypeEntry, Status, TypeListeners, TypeProcs,
       ConnInv, SigningAt, HeardInv, Restart
<1>12. ActiveIsAlive'
  BY Base DEF IInv, TypeOK, TypeEntry, Status, TypeListeners, TypeProcs,
       ConnInv, SigningAt, ActiveIsAlive, Restart, NoEntry
<1> QED BY <1>1, <1>2, <1>3, <1>4, <1>5, <1>6, <1>7, <1>8, <1>9, <1>10, <1>11,
             <1>12 DEF IInv, TypeOK

-----------------------------------------------------------------------------
\* The invariant holds when the program starts.
LEMMA InitIInv == Init => IInv
<1> SUFFICES ASSUME Init PROVE IInv
  OBVIOUS
<1>1. TypeOK
  <2>1. TypeDisk /\ TypeEntry /\ TypeListeners
    BY DEF Init, NoEntry, Unused, TypeDisk, TypeEntry, TypeListeners, Status
  <2>2. TypeProcs
    BY DEF Init, NoJob, TypeProcs, Status
  <2>3. TypeBounds
    <3>1. booting \in BOOLEAN /\ crossed \in BOOLEAN /\ halfGone \in BOOLEAN
      BY Zenon DEF Init
    <3>2. requests \in 0..MaxRequests /\ faults \in 0..MaxFaults /\ crashes \in 0..MaxCrashes
      BY Base DEF Init
    <3> QED BY <3>1, <3>2, Zenon DEF TypeBounds
  <2> QED BY <2>1, <2>2, <2>3 DEF TypeOK
<1>2. ConnInv /\ FreshInv
  BY DEF Init, ConnInv, FreshInv, SigningAt, SavingAt, WritingAt
<1>3. JobInv
  BY DEF Init, JobInv, NoJob
<1>4. ListenersAccounted /\ HeardInv /\ ActiveIsAlive
  BY DEF Init, ListenersAccounted, Live, Unused, HeardInv, ActiveIsAlive,
       NoEntry
<1>5. SavedInv
  BY DEF Init, SavedInv, NoEntry, WritingAt
<1> QED BY <1>1, <1>2, <1>3, <1>4, <1>5 DEF IInv

\* A step of nothing keeps it.
LEMMA StutterIInv == IInv /\ UNCHANGED vars => IInv'
BY DEF IInv, TypeOK, TypeDisk, TypeEntry, TypeListeners, TypeProcs, TypeBounds,
     ConnInv, FreshInv, JobInv, ListenersAccounted, Live, SavedInv, Excused,
     HeardInv, ActiveIsAlive, vars, disk, memory, procs, bounds, ghosts

\* Every request keeps it.
LEMMA KeepCaller ==
  ASSUME NEW p \in Procs, IInv, Caller(p)
  PROVE  IInv'
<1>1. CASE StartClient(p)
  BY <1>1, KeepStartClient
<1>2. CASE StopClient(p)
  BY <1>2, KeepStopClient
<1>3. CASE RemoveClient(p)
  BY <1>3, KeepRemoveClient
<1>4. CASE RequestLoginCode(p)
  BY <1>4, KeepRequestLoginCode
<1>5. CASE SubmitCode(p)
  BY <1>5, KeepSubmitCode
<1>6. CASE SubmitPassword(p)
  BY <1>6, KeepSubmitPassword
<1>7. CASE BotSignIn(p)
  BY <1>7, KeepBotSignIn
<1> QED BY <1>1, <1>2, <1>3, <1>4, <1>5, <1>6, <1>7 DEF Caller

\* Every step of an operation keeps it.
LEMMA KeepProcess ==
  ASSUME NEW p \in Procs, IInv, Process(p)
  PROVE  IInv'
<1>1. CASE Connect(p)
  BY <1>1, KeepConnect
<1>2. CASE ConnectFails(p)
  BY <1>2, KeepConnectFails
<1>3. CASE SpawnListener(p)
  BY <1>3, KeepSpawnListener
<1>4. CASE InsertEntry(p)
  BY <1>4, KeepInsertEntry
<1>5. CASE WriteRow(p)
  BY <1>5, KeepWriteRow
<1>6. CASE RemoveEntry(p)
  BY <1>6, KeepRemoveEntry
<1>7. CASE DeleteRow(p)
  BY <1>7, KeepDeleteRow
<1>8. CASE SignedIn(p)
  BY <1>8, KeepSignedIn
<1>9. CASE PasswordRequired(p)
  BY <1>9, KeepPasswordRequired
<1>10. CASE SignInRejected(p)
  BY <1>10, KeepSignInRejected
<1>11. CASE SignInFails(p)
  BY <1>11, KeepSignInFails
<1>12. CASE SaveSession(p)
  BY <1>12, KeepSaveSession
<1>13. CASE ActiveRow(p)
  BY <1>13, KeepActiveRow
<1>14. CASE Activate(p)
  BY <1>14, KeepActivate
<1> QED BY <1>1, <1>2, <1>3, <1>4, <1>5, <1>6, <1>7, <1>8, <1>9, <1>10, <1>11,
             <1>12, <1>13, <1>14 DEF Process

\* Every step of a listener keeps it.
LEMMA KeepListener ==
  ASSUME NEW l \in Tasks, IInv, Listener(l)
  PROVE  IInv'
<1>1. CASE StoreHandle(l)
  BY <1>1, KeepStoreHandle
<1>2. CASE MarkOffline(l)
  BY <1>2, KeepMarkOffline
<1>3. CASE RecordOffline(l)
  BY <1>3, KeepRecordOffline
<1> QED BY <1>1, <1>2, <1>3 DEF Listener

\* Every step keeps it.
LEMMA NextIInv == IInv /\ [Next]_vars => IInv'
<1> SUFFICES ASSUME IInv, [Next]_vars PROVE IInv'
  OBVIOUS
<1>1. ASSUME NEW p \in Procs, Caller(p) \/ Process(p) PROVE IInv'
  BY <1>1, KeepCaller, KeepProcess
<1>2. CASE ReconnectTick
  BY <1>2, KeepReconnectTick
<1>3. CASE ReconnectStart
  BY <1>3, KeepReconnectStart
<1>4. ASSUME NEW l \in Tasks, Listener(l) \/ ListenerGivesUp(l) PROVE IInv'
  BY <1>4, KeepListener, KeepListenerGivesUp
<1>5. CASE Restart
  BY <1>5, KeepRestart
<1>6. CASE UNCHANGED vars
  BY <1>6, StutterIInv
<1> QED BY <1>1, <1>2, <1>3, <1>4, <1>5, <1>6 DEF Next

(***************************************************************************)
(* The inductive invariant holds in every state of every behaviour.        *)
(***************************************************************************)
THEOREM ClientInvariance == Spec => []IInv
<1> QED BY InitIInv, NextIInv, PTL DEF Spec

(***************************************************************************)
(* The state of a client has its type, whatever requests, faults and       *)
(* restarts come in whatever order.                                        *)
(***************************************************************************)
THEOREM ClientTypeCorrect == Spec => []TypeOK
<1>1. IInv => TypeOK
  BY DEF IInv
<1> QED BY <1>1, ClientInvariance, PTL

(***************************************************************************)
(* A listener of tg_manager.rs that runs can be aborted through the map,   *)
(* or one of the known losses of its handle happened.                      *)
(***************************************************************************)
THEOREM ListenersReachable == Spec => []ListenersAccounted
<1>1. IInv => ListenersAccounted
  BY DEF IInv
<1> QED BY <1>1, ClientInvariance, PTL

(***************************************************************************)
(* A client that the map calls active is signed in and listened to, unless *)
(* an answer or a stop hit another generation of the entry.                *)
(***************************************************************************)
THEOREM ActiveClientHeard == Spec => []ActiveIsAlive
<1>1. IInv => ActiveIsAlive
  BY DEF IInv
<1> QED BY <1>1, ClientInvariance, PTL

(***************************************************************************)
(* A row that a login or a start made active has a signed-in session on    *)
(* disk, so that the next start of the program finds the client logged in. *)
(* (A Bot's row is "added", active before the client ever signed in, until *)
(* something writes it; add_client, handlers/client.rs.)                   *)
(***************************************************************************)
THEOREM ActiveRowSaved == Spec => []ActiveIsSaved
<1>1. IInv => ActiveIsSaved
  BY DEF IInv, SavedInv, Excused, ActiveIsSaved
<1> QED BY <1>1, ClientInvariance, PTL

-----------------------------------------------------------------------------
(***************************************************************************)
(* The bot commands, for any bots, updates and restarts.  The inductive    *)
(* invariant says that what is to be answered is a young command that the  *)
(* cursor has passed and that was not answered since the last start        *)
(* (QueueInv, YoungInv), and what became of the others that it has         *)
(* passed (PassedInv).                                                     *)
(***************************************************************************)

Ticks == [at : {"sleep", "next", "poll", "send"}, left : SUBSET Bots, bot : Bots \cup {NoBot},
          old : [Bots -> Nat], queue : SUBSET Nat]

\* The parts of the type invariant: Telegram, the loop, and what was answered.
TypeTelegram ==
  /\ usernames \subseteq Bots
  /\ updates \in [Bots -> Seq(Whats)] /\ dropped \in [Bots -> Nat] /\ aged \in [Bots -> Nat]
  /\ \A b \in Bots : /\ dropped[b] <= aged[b] /\ aged[b] <= Len(updates[b])
                     /\ Len(updates[b]) <= MaxUpdates

TypeCursors == cursors \in [Bots -> Nat] /\ \A b \in Bots : cursors[b] <= Len(updates[b])

TypeLoop == /\ loop \in Ticks /\ resting \subseteq Bots
            /\ loop.at \in {"poll", "send"} <=> loop.bot # NoBot
            /\ loop.at # "send" => loop.queue = {}

TypeReplies == /\ replies \in [Bots -> [1..MaxUpdates -> Nat]]
               /\ restarts \in [Bots -> [1..MaxUpdates -> Nat]]

\* What was old when the tick began is old.
OldInv == \A b \in Bots : loop.old[b] <= aged[b]

\* What is to be answered is a young command that the cursor has passed, and was
\* not answered since the last start.
QueueInv ==
  \A i \in loop.queue :
    /\ loop.bot \in Bots /\ i \in 1..cursors[loop.bot] /\ i > loop.old[loop.bot]
    /\ updates[loop.bot][i] # "talk" /\ replies[loop.bot][i] <= restarts[loop.bot][i]

\* What the tick, or the next one, takes for old.
Stale(b) == IF loop.at = "sleep" THEN aged[b] ELSE loop.old[b]

\* What was answered is a command that was there, and it was answered once in the
\* process that answered it first, and once after each start that found it young.
OnceInv ==
  \A b \in Bots : \A i \in 1..MaxUpdates :
    /\ replies[b][i] <= 1 + restarts[b][i]
    /\ replies[b][i] > 0 => i <= Len(updates[b]) /\ updates[b][i] # "talk"

\* A young command that the cursor has not passed was not answered since the last
\* start.
YoungInv ==
  \A b \in Bots : \A i \in 1..MaxUpdates :
    i > cursors[b] /\ i > Stale(b) => replies[b][i] <= restarts[b][i]

\* What the cursor has passed is accounted for.
PassedInv ==
  \A b \in Bots : \A i \in 1..cursors[b] : updates[b][i] # "talk" =>
    \/ loop.bot = b /\ i \in loop.queue
    \/ replies[b][i] > 0 \/ <<b, i>> \in unsent
    \/ i <= aged[b] \/ (updates[b][i] = "named" /\ b \notin usernames)

BotInv == /\ TypeTelegram /\ TypeCursors /\ TypeLoop /\ TypeReplies
          /\ OldInv /\ QueueInv /\ OnceInv /\ YoungInv /\ PassedInv

\* The tick that sleeps, and the one that goes on to the next bot.
LEMMA AsleepFact ==
  /\ Asleep \in Ticks /\ Asleep.at = "sleep" /\ Asleep.bot = NoBot /\ Asleep.queue = {}
  /\ \A b \in Bots : Asleep.old[b] = 0
BY DEF Asleep, Ticks

\* The loop between two bots.
LEMMA OnwardFact ==
  ASSUME loop \in Ticks
  PROVE  /\ Onward \in Ticks /\ Onward.at = "next" /\ Onward.bot = NoBot /\ Onward.queue = {}
         /\ Onward.old = loop.old
BY DEF Onward, Ticks

\* The bounds.
LEMMA BotBoundFact == NoBot \notin Bots /\ UpdateLimit \in Nat /\ MaxUpdates \in Nat
BY BotAssumption

\* The loop sleeps, and nothing was written.
LEMMA BotInitInv == BotInit => BotInv
<1> SUFFICES ASSUME BotInit PROVE BotInv
  OBVIOUS
<1> USE BotBoundFact, AsleepFact DEF BotInit
<1>1. TypeTelegram /\ TypeCursors /\ TypeLoop /\ TypeReplies
  BY DEF TypeTelegram, TypeCursors, TypeLoop, TypeReplies
<1>2. OldInv /\ QueueInv /\ OnceInv /\ YoungInv /\ PassedInv
  BY DEF OldInv, QueueInv, OnceInv, YoungInv, PassedInv
<1> QED
  BY <1>1, <1>2 DEF BotInv

\* A step of the loop to where it has nothing to answer, of which no more was
\* old than is now.
LEMMA KeepTurn ==
  ASSUME BotInv, UNCHANGED <<telegram, cursors, replies, unsent, restarts>>, resting' \subseteq Bots,
         loop.queue = {}, loop' \in Ticks, loop'.queue = {},
         loop'.at \in {"poll", "send"} <=> loop'.bot # NoBot,
         \A b \in Bots : loop'.old[b] <= aged[b],
         \A b \in Bots : Stale(b) <= Stale(b)'
  PROVE  BotInv'
<1>1. UNCHANGED <<usernames, updates, dropped, aged, cursors, replies, unsent, restarts>>
  BY DEF telegram
<1>2. TypeTelegram' /\ TypeCursors' /\ TypeReplies' /\ OnceInv'
  BY <1>1 DEF BotInv, TypeTelegram, TypeCursors, TypeReplies, OnceInv
<1>3. TypeLoop' /\ OldInv' /\ QueueInv'
  BY <1>1 DEF TypeLoop, OldInv, QueueInv
<1>4. PassedInv'
  BY <1>1 DEF BotInv, PassedInv
<1>5. YoungInv'
  <2> SUFFICES ASSUME NEW b \in Bots, NEW i \in 1..MaxUpdates, i > cursors[b], i > Stale(b)'
               PROVE  replies[b][i] <= restarts[b][i]
    BY <1>1 DEF YoungInv
  <2>1. Stale(b) \in Nat /\ Stale(b)' \in Nat /\ Stale(b) <= Stale(b)'
    BY <1>1 DEF BotInv, TypeTelegram, TypeLoop, Ticks, Stale
  <2>2. i > Stale(b)
    BY <2>1
  <2> QED
    BY <2>2 DEF BotInv, YoungInv
<1> QED
  BY <1>2, <1>3, <1>4, <1>5 DEF BotInv

\* A tick begins: what is old is old.
LEMMA KeepBeginTick ==
  ASSUME BotInv, BeginTick
  PROVE  BotInv'
<1> DEFINE l == [Asleep EXCEPT !.at = "next", !.left = Bots, !.old = aged]
<1>1. aged \in [Bots -> Nat]
  BY DEF BotInv, TypeTelegram
<1>2. l \in Ticks /\ l.at = "next" /\ l.bot = NoBot /\ l.queue = {} /\ l.old = aged
  BY <1>1, AsleepFact DEF Ticks
<1>3. loop' = l /\ UNCHANGED <<telegram, cursors, replies, unsent, restarts, resting>>
  BY DEF BeginTick
<1> HIDE DEF l
<1>4. loop.queue = {} /\ resting \subseteq Bots
  BY DEF BeginTick, BotInv, TypeLoop
<1>5. \A b \in Bots : aged[b] <= aged[b]
  BY <1>1
<1>6. UNCHANGED aged /\ loop.at = "sleep"
  BY DEF BeginTick, telegram
<1>7. \A b \in Bots : Stale(b) = aged[b] /\ Stale(b)' = aged[b]
  BY <1>2, <1>3, <1>6 DEF Stale
<1> QED
  BY <1>2, <1>3, <1>4, <1>5, <1>7, KeepTurn

\* The next bot, or none is left.
LEMMA KeepNextBot ==
  ASSUME BotInv, NextBot
  PROVE  BotInv'
<1>1. /\ UNCHANGED <<telegram, cursors, replies, unsent, restarts, resting>> /\ loop.queue = {}
      /\ resting \subseteq Bots /\ loop \in Ticks /\ loop.at = "next" /\ loop.bot = NoBot
      /\ \A b \in Bots : loop.old[b] <= aged[b] /\ 0 <= aged[b]
  <2>1. ASSUME NEW b \in Bots PROVE aged[b] \in Nat
    BY DEF BotInv, TypeTelegram
  <2>2. ASSUME NEW b \in Bots PROVE 0 <= aged[b]
    <3>1. aged[b] \in Nat
      BY <2>1
    <3> QED
      BY <3>1
  <2> QED
    BY <2>2 DEF NextBot, BotInv, TypeLoop, OldInv
<1>0. UNCHANGED aged /\ \A b \in Bots : /\ Stale(b) = loop.old[b] /\ loop.old[b] <= loop.old[b]
                                        /\ loop.old[b] <= aged[b]
  BY <1>1 DEF Stale, telegram, Ticks
<1>2. CASE loop' = Asleep
  <2>1. \A b \in Bots : Stale(b) <= Stale(b)'
    BY <1>0, <1>2, AsleepFact DEF Stale
  <2> QED
    BY <1>1, <1>2, <2>1, AsleepFact, KeepTurn
<1>3. ASSUME NEW b \in Bots, loop' = [loop EXCEPT !.left = @ \ {b}] PROVE BotInv'
  <2> DEFINE l == [loop EXCEPT !.left = @ \ {b}]
  <2>1. l \in Ticks /\ l.at = "next" /\ l.bot = NoBot /\ l.queue = {} /\ l.old = loop.old
    BY <1>1 DEF Ticks
  <2>2. loop' = l
    BY <1>3
  <2> HIDE DEF l
  <2>3. \A c \in Bots : Stale(c) <= Stale(c)'
    BY <1>0, <2>1, <2>2 DEF Stale
  <2> QED
    BY <1>1, <2>1, <2>2, <2>3, KeepTurn
<1>4. ASSUME NEW b \in Bots, loop' = [loop EXCEPT !.at = "poll", !.bot = b] PROVE BotInv'
  <2> DEFINE l == [loop EXCEPT !.at = "poll", !.bot = b]
  <2>1. l \in Ticks /\ l.at = "poll" /\ l.bot = b /\ l.queue = {} /\ l.old = loop.old
    BY <1>1 DEF Ticks
  <2>2. loop' = l
    BY <1>4
  <2> HIDE DEF l
  <2>3. \A c \in Bots : Stale(c) <= Stale(c)'
    BY <1>0, <2>1, <2>2 DEF Stale
  <2> QED
    BY <1>1, <2>1, <2>2, <2>3, BotBoundFact, KeepTurn
<1>5. loop.left \subseteq Bots
  BY <1>1 DEF Ticks
<1> QED
  BY <1>2, <1>3, <1>4, <1>5 DEF NextBot

\* A poll fails.
LEMMA KeepPollFails ==
  ASSUME BotInv, PollFails
  PROVE  BotInv'
<1>1. /\ UNCHANGED <<telegram, cursors, replies, unsent, restarts>> /\ loop.queue = {}
      /\ loop \in Ticks /\ loop.bot # NoBot /\ resting \subseteq Bots
      /\ \A b \in Bots : loop.old[b] <= aged[b]
  BY DEF PollFails, BotInv, TypeLoop, OldInv
<1>2. resting' \subseteq Bots
  BY <1>1 DEF PollFails, Ticks
<1>3. loop' = Onward /\ loop.at = "poll"
  BY DEF PollFails
<1>4. \A b \in Bots : Stale(b) <= Stale(b)'
  BY <1>1, <1>3, OnwardFact DEF Stale, Ticks
<1> QED
  BY <1>1, <1>2, <1>3, <1>4, OnwardFact, KeepTurn

\* A poll is answered: the commands in it that are new and young are to be
\* answered, and the cursor passes what is there.
LEMMA KeepPolled ==
  ASSUME BotInv, Polled
  PROVE  BotInv'
<1> DEFINE b == loop.bot
           young(named) == IdReplies(b, named)
<1>1. /\ b \in Bots /\ loop \in Ticks /\ loop.at = "poll" /\ loop.queue = {} /\ resting \subseteq Bots
      /\ UNCHANGED <<usernames, updates, dropped, aged, resting, replies, unsent, restarts>>
  BY DEF Polled, telegram, BotInv, TypeLoop, Ticks
<1>2. /\ dropped[b] \in Nat /\ aged[b] \in Nat /\ Len(updates[b]) \in Nat /\ cursors[b] \in Nat
      /\ dropped[b] <= aged[b] /\ aged[b] <= Len(updates[b]) /\ cursors[b] <= Len(updates[b])
      /\ UpdateLimit \in Nat
  BY <1>1, BotBoundFact DEF BotInv, TypeTelegram, TypeCursors
<1>3. Newest(b) \in Nat /\ Newest(b) <= Len(updates[b])
  BY <1>2 DEF Newest
<1>4. Pending(b) \subseteq Nat /\ \A i \in Nat : i \in Pending(b) <=> dropped[b] < i /\ i <= Newest(b)
  BY <1>2, <1>3 DEF Pending
<1>5. PICK named \in BOOLEAN :
        /\ b \in usernames => named
        /\ loop' = IF young(named) = {} THEN Onward
                   ELSE [loop EXCEPT !.at = "send", !.queue = young(named)]
  BY DEF Polled
<1> DEFINE queue == young(named)
<1>6. queue \subseteq Nat
      /\ \A i \in Nat : i \in queue <=> /\ dropped[b] < i /\ i <= Newest(b) /\ i > cursors[b]
                                        /\ IsCommand(updates[b][i], named) /\ i > loop.old[b]
  BY <1>4 DEF IdReplies
<1>7. /\ loop' \in Ticks /\ loop'.queue = queue /\ loop'.old = loop.old
      /\ queue = {} => loop'.at = "next" /\ loop'.bot = NoBot
      /\ queue # {} => loop'.at = "send" /\ loop'.bot = b
  <2> HIDE DEF queue
  <2>1. CASE queue = {}
    BY <1>1, <1>5, <2>1, OnwardFact DEF queue
  <2>2. CASE queue # {}
    <3> DEFINE l == [loop EXCEPT !.at = "send", !.queue = queue]
    <3>1. l \in Ticks /\ l.at = "send" /\ l.queue = queue /\ l.bot = b /\ l.old = loop.old
      BY <1>1, <1>6 DEF Ticks
    <3>2. loop' = l
      BY <1>5, <2>2 DEF queue
    <3> QED
      BY <2>2, <3>1, <3>2
  <2> QED
    BY <2>1, <2>2
<1> HIDE DEF queue, young
<1>8. /\ cursors' \in [Bots -> Nat] /\ \A c \in Bots \ {b} : cursors'[c] = cursors[c]
      /\ cursors[b] <= cursors'[b]
      /\ cursors'[b] <= Len(updates[b])
      /\ \A i \in Pending(b) : i <= cursors'[b]
      /\ cursors'[b] > cursors[b] => cursors'[b] = Newest(b)
  <2>1. cursors \in [Bots -> Nat]
    BY DEF BotInv, TypeCursors
  <2>2. cursors' = [cursors EXCEPT ![b] = IF \E i \in Pending(b) : i > cursors[b] THEN Newest(b)
                                                                              ELSE cursors[b]]
    BY DEF Polled
  <2>3. CASE \E i \in Pending(b) : i > cursors[b]
    <3>1. cursors' = [cursors EXCEPT ![b] = Newest(b)]
      BY <2>2, <2>3
    <3>2. /\ cursors' \in [Bots -> Nat] /\ cursors'[b] = Newest(b)
          /\ \A c \in Bots \ {b} : cursors'[c] = cursors[c]
      BY <1>1, <1>3, <2>1, <3>1
    <3>3. cursors[b] <= Newest(b) /\ \A i \in Pending(b) : i <= Newest(b)
      BY <1>2, <1>3, <1>4, <2>3
    <3> QED
      BY <1>3, <3>2, <3>3
  <2>4. CASE ~\E i \in Pending(b) : i > cursors[b]
    <3>1. cursors' = cursors
      BY <2>1, <2>2, <2>4
    <3>2. \A i \in Pending(b) : i <= cursors[b]
      BY <1>2, <1>4, <2>4
    <3> QED
      BY <1>2, <2>1, <3>1, <3>2
  <2> QED
    BY <2>3, <2>4
<1>9. TypeTelegram' /\ TypeReplies' /\ OldInv'
  BY <1>1, <1>7 DEF BotInv, TypeTelegram, TypeReplies, OldInv
<1>10. TypeCursors'
  BY <1>1, <1>8 DEF BotInv, TypeCursors
<1>11. TypeLoop'
  BY <1>1, <1>7, BotBoundFact DEF TypeLoop
<1>12. QueueInv'
  <2> SUFFICES ASSUME NEW i \in queue
               PROVE  /\ i \in 1..cursors'[b] /\ i > loop.old[b]
                      /\ updates[b][i] # "talk" /\ replies[b][i] <= restarts[b][i]
    BY <1>1, <1>7 DEF QueueInv
  <2>1. /\ i \in Nat /\ dropped[b] < i /\ i <= Newest(b) /\ i > cursors[b]
        /\ IsCommand(updates[b][i], named) /\ i > loop.old[b]
    BY <1>6
  <2>2. i \in 1..cursors'[b] /\ i \in 1..MaxUpdates
    BY <1>1, <1>2, <1>3, <1>4, <1>8, <2>1, BotBoundFact DEF BotInv, TypeTelegram
  <2>3. replies[b][i] <= restarts[b][i]
    BY <1>1, <2>1, <2>2 DEF BotInv, YoungInv, Stale
  <2> QED
    BY <2>1, <2>2, <2>3 DEF IsCommand
<1>13. OnceInv' /\ YoungInv'
  <2>1. OnceInv'
    BY <1>1 DEF BotInv, OnceInv
  <2> SUFFICES ASSUME NEW c \in Bots, NEW i \in 1..MaxUpdates, i > cursors'[c], i > Stale(c)'
               PROVE  replies[c][i] <= restarts[c][i]
    BY <1>1, <2>1 DEF YoungInv
  <2>2. cursors[c] \in Nat /\ cursors'[c] \in Nat /\ cursors[c] <= cursors'[c]
    BY <1>8 DEF BotInv, TypeCursors
  <2>3. Stale(c)' = Stale(c)
    BY <1>1, <1>7 DEF Stale
  <2>4. i > cursors[c] /\ i > Stale(c)
    BY <2>2, <2>3, BotBoundFact
  <2> QED
    BY <2>4 DEF BotInv, YoungInv
<1>14. PassedInv'
  <2> SUFFICES ASSUME NEW c \in Bots, NEW i \in 1..cursors'[c], updates[c][i] # "talk",
                      ~(replies[c][i] > 0), <<c, i>> \notin unsent, ~(i <= aged[c]),
                      ~(updates[c][i] = "named" /\ c \notin usernames)
               PROVE  loop'.bot = c /\ i \in loop'.queue
    BY <1>1 DEF PassedInv
  <2>1. c \in Bots /\ cursors[c] \in Nat /\ cursors'[c] \in Nat /\ i \in Nat
    BY <1>8 DEF BotInv, TypeCursors
  <2>2. ~(i \in 1..cursors[c])
    BY <1>1 DEF BotInv, PassedInv
  <2>3. c = b /\ i > cursors[b] /\ i <= Newest(b)
    BY <1>2, <1>3, <1>8, <2>1, <2>2
  <2>4. i > dropped[b] /\ i > loop.old[b]
    <3>1. loop.old[b] <= aged[b] /\ loop.old[b] \in Nat
      BY <1>1 DEF BotInv, OldInv, Ticks
    <3> QED
      BY <1>2, <2>1, <2>3, <3>1
  <2>5. IsCommand(updates[b][i], named)
    <3>1. updates[b][i] \in Whats
      <4>1. updates[b] \in Seq(Whats) /\ i \in 1..Len(updates[b])
        BY <1>1, <1>2, <1>3, <2>1, <2>3 DEF BotInv, TypeTelegram
      <4> QED
        BY <4>1
    <3> QED
      BY <1>5, <2>3, <3>1 DEF IsCommand, Whats
  <2>6. i \in queue
    BY <1>6, <2>1, <2>3, <2>4, <2>5
  <2> QED
    BY <1>7, <2>3, <2>6
<1> QED
  BY <1>9, <1>10, <1>11, <1>12, <1>13, <1>14 DEF BotInv

\* An answer goes out, or fails: what was answered is not answered again.
LEMMA KeepSendReply ==
  ASSUME BotInv, SendReply
  PROVE  BotInv'
<1> DEFINE b == loop.bot
<1>1. PICK i \in loop.queue :
        /\ \/ /\ replies' = [replies EXCEPT ![b][i] = @ + 1]
              /\ unsent' \in {unsent, unsent \cup {<<b, i>>}}
           \/ replies' = replies /\ unsent' = unsent \cup {<<b, i>>}
        /\ loop' = IF loop.queue = {i} THEN Onward ELSE [loop EXCEPT !.queue = @ \ {i}]
  BY DEF SendReply
<1>2. /\ loop \in Ticks /\ loop.at = "send" /\ resting \subseteq Bots
      /\ UNCHANGED <<usernames, updates, dropped, aged, cursors, resting, restarts>>
  BY DEF SendReply, telegram, BotInv, TypeLoop
<1>3. /\ b \in Bots /\ i \in 1..cursors[b] /\ i > loop.old[b]
      /\ updates[b][i] # "talk" /\ replies[b][i] <= restarts[b][i]
  BY DEF BotInv, QueueInv
<1>4. cursors[b] \in Nat /\ i \in 1..MaxUpdates /\ i \in Nat
  BY <1>3, BotBoundFact DEF BotInv, TypeCursors, TypeTelegram
<1>5. /\ loop' \in Ticks /\ loop'.old = loop.old
      /\ loop'.queue = loop.queue \ {i}
      /\ loop'.at = "next" => loop'.bot = NoBot /\ loop'.queue = {}
      /\ loop'.at # "next" => loop'.at = "send" /\ loop'.bot = b
  <2>1. CASE loop.queue = {i}
    BY <1>1, <1>2, <2>1, OnwardFact
  <2>2. CASE loop.queue # {i}
    <3> DEFINE l == [loop EXCEPT !.queue = @ \ {i}]
    <3>1. l \in Ticks /\ l.at = "send" /\ l.bot = b /\ l.old = loop.old /\ l.queue = loop.queue \ {i}
      BY <1>2 DEF Ticks
    <3>2. loop' = l
      BY <1>1, <2>2
    <3> QED
      BY <3>1, <3>2
  <2> QED
    BY <2>1, <2>2
<1>6. /\ replies' \in [Bots -> [1..MaxUpdates -> Nat]]
      /\ \A c \in Bots : \A j \in 1..MaxUpdates :
           \/ replies'[c][j] = replies[c][j]
           \/ c = b /\ j = i /\ replies'[c][j] = replies[c][j] + 1
      /\ replies'[b][i] > 0 \/ <<b, i>> \in unsent'
  <2>1. replies \in [Bots -> [1..MaxUpdates -> Nat]]
    BY DEF BotInv, TypeReplies
  <2> DEFINE line == [replies[b] EXCEPT ![i] = @ + 1]
  <2>2. /\ line \in [1..MaxUpdates -> Nat] /\ line[i] = replies[b][i] + 1 /\ line[i] > 0
        /\ \A j \in (1..MaxUpdates) \ {i} : line[j] = replies[b][j]
    <3>1. replies[b] \in [1..MaxUpdates -> Nat]
      BY <1>3, <2>1
    <3>2. replies[b][i] + 1 \in Nat /\ replies[b][i] + 1 > 0
      <4>1. replies[b][i] \in Nat
        BY <1>4, <3>1
      <4> QED
        BY <4>1
    <3>3. line = [replies[b] EXCEPT ![i] = replies[b][i] + 1]
      OBVIOUS
    <3> QED
      BY <1>4, <3>1, <3>2, <3>3
  <2>3. replies' = [replies EXCEPT ![b] = line] \/ (replies' = replies /\ <<b, i>> \in unsent')
    BY <1>1, <1>3
  <2> HIDE DEF line
  <2> QED
    BY <1>3, <1>4, <2>1, <2>2, <2>3
<1>7. TypeTelegram' /\ TypeCursors' /\ OldInv' /\ TypeReplies'
  BY <1>2, <1>5, <1>6 DEF BotInv, TypeTelegram, TypeCursors, OldInv, TypeReplies
<1>8. TypeLoop'
  BY <1>2, <1>3, <1>5, BotBoundFact DEF TypeLoop
<1>9. QueueInv'
  <2> SUFFICES ASSUME NEW j \in loop.queue \ {i}
               PROVE  /\ j \in 1..cursors[b] /\ j > loop.old[b]
                      /\ updates[b][j] # "talk" /\ replies'[b][j] <= restarts[b][j]
    BY <1>2, <1>3, <1>5 DEF QueueInv
  <2>1. /\ j \in 1..cursors[b] /\ j > loop.old[b]
        /\ updates[b][j] # "talk" /\ replies[b][j] <= restarts[b][j]
    BY DEF BotInv, QueueInv
  <2>2. j \in 1..MaxUpdates
    BY <1>3, <1>4, <2>1, BotBoundFact DEF BotInv, TypeCursors, TypeTelegram
  <2> QED
    BY <1>3, <1>6, <2>1, <2>2
<1>10. OnceInv'
  <2> SUFFICES ASSUME NEW c \in Bots, NEW j \in 1..MaxUpdates
               PROVE  /\ replies'[c][j] <= 1 + restarts[c][j]
                      /\ replies'[c][j] > 0 => j <= Len(updates[c]) /\ updates[c][j] # "talk"
    BY <1>2 DEF OnceInv
  <2>1. CASE replies'[c][j] = replies[c][j]
    BY <2>1 DEF BotInv, OnceInv
  <2>2. CASE c = b /\ j = i /\ replies'[c][j] = replies[c][j] + 1
    <3>1. replies[b][i] \in Nat /\ restarts[b][i] \in Nat
      BY <1>3, <1>4 DEF BotInv, TypeReplies
    <3>2. i <= Len(updates[b])
      BY <1>3, <1>4 DEF BotInv, TypeCursors, TypeTelegram
    <3> QED
      BY <1>3, <2>2, <3>1, <3>2
  <2> QED
    BY <1>6, <2>1, <2>2
<1>12. YoungInv'
  <2> SUFFICES ASSUME NEW c \in Bots, NEW j \in 1..MaxUpdates, j > cursors[c], j > Stale(c)'
               PROVE  replies'[c][j] <= restarts[c][j]
    BY <1>2 DEF YoungInv
  <2>1. Stale(c)' = Stale(c)
    BY <1>2, <1>5, <1>8 DEF Stale, TypeLoop, Ticks
  <2>2. ~(c = b /\ j = i)
    BY <1>3, <1>4, BotBoundFact
  <2> QED
    BY <1>6, <2>1, <2>2 DEF BotInv, YoungInv
<1>11. PassedInv'
  <2> SUFFICES ASSUME NEW c \in Bots, NEW j \in 1..cursors[c], updates[c][j] # "talk",
                      ~(replies'[c][j] > 0), <<c, j>> \notin unsent', ~(j <= aged[c]),
                      ~(updates[c][j] = "named" /\ c \notin usernames)
               PROVE  loop'.bot = c /\ j \in loop'.queue
    BY <1>2 DEF PassedInv
  <2>1. j \in 1..MaxUpdates
    BY BotBoundFact DEF BotInv, TypeCursors, TypeTelegram
  <2>2. ~(c = b /\ j = i)
    BY <1>6
  <2>3. ~(replies[c][j] > 0) /\ <<c, j>> \notin unsent
    BY <1>1, <1>6, <2>1, <2>2
  <2>4. loop.bot = c /\ j \in loop.queue
    BY <2>3 DEF BotInv, PassedInv
  <2>5. j \in loop'.queue
    BY <1>5, <2>2, <2>4
  <2> QED
    BY <1>5, <2>4, <2>5
<1> QED
  BY <1>7, <1>8, <1>9, <1>10, <1>11, <1>12 DEF BotInv

\* Somebody writes to a bot: no cursor has passed it.
LEMMA KeepPost ==
  ASSUME BotInv, NEW b \in Bots, Post(b)
  PROVE  BotInv'
<1>1. UNCHANGED <<usernames, dropped, aged, cursors, resting, loop, replies, unsent, restarts>>
  BY DEF Post
<1>2. PICK what \in Whats : updates' = [updates EXCEPT ![b] = Append(@, what)]
  BY DEF Post
<1>3. \A c \in Bots : updates[c] \in Seq(Whats) /\ Len(updates[c]) \in Nat
  BY DEF BotInv, TypeTelegram
<1>4. /\ updates' \in [Bots -> Seq(Whats)] /\ Len(updates'[b]) = Len(updates[b]) + 1
      /\ \A c \in Bots \ {b} : updates'[c] = updates[c]
      /\ \A i \in 1..Len(updates[b]) : updates'[b][i] = updates[b][i]
  BY <1>2, <1>3 DEF BotInv, TypeTelegram
<1>5. \A c \in Bots : Len(updates[c]) <= Len(updates'[c]) /\ Len(updates'[c]) \in Nat
  BY <1>3, <1>4
<1>6. \A c \in Bots : \A i \in 1..cursors[c] : updates'[c][i] = updates[c][i]
  <2> SUFFICES ASSUME NEW c \in Bots, NEW i \in 1..cursors[c]
               PROVE  updates'[c][i] = updates[c][i]
    OBVIOUS
  <2>1. i \in 1..Len(updates[c])
    BY <1>3 DEF BotInv, TypeCursors
  <2> QED
    BY <1>4, <2>1
<1>7. TypeTelegram'
  <2>1. Len(updates'[b]) <= MaxUpdates
    BY <1>3, <1>4, BotBoundFact DEF Post
  <2>2. \A c \in Bots : aged[c] \in Nat /\ aged[c] <= Len(updates[c]) /\ Len(updates[c]) <= MaxUpdates
    BY DEF BotInv, TypeTelegram
  <2>3. \A c \in Bots : aged[c] <= Len(updates'[c]) /\ Len(updates'[c]) <= MaxUpdates
    BY <1>3, <1>4, <1>5, <2>1, <2>2
  <2> QED
    BY <1>1, <1>4, <2>3 DEF BotInv, TypeTelegram
<1>8. TypeCursors'
  <2>1. \A c \in Bots : cursors[c] \in Nat /\ cursors[c] <= Len(updates[c])
    BY DEF BotInv, TypeCursors
  <2>2. \A c \in Bots : cursors[c] <= Len(updates'[c])
    BY <1>3, <1>5, <2>1
  <2> QED
    BY <1>1, <2>2 DEF BotInv, TypeCursors
<1>9. TypeLoop' /\ TypeReplies' /\ OldInv'
  BY <1>1 DEF BotInv, TypeLoop, TypeReplies, OldInv
<1>10. QueueInv'
  BY <1>1, <1>6 DEF BotInv, QueueInv
<1>11. OnceInv' /\ YoungInv'
  <2>1. YoungInv'
    BY <1>1 DEF BotInv, YoungInv, Stale
  <2> SUFFICES ASSUME NEW c \in Bots, NEW i \in 1..MaxUpdates
               PROVE  /\ replies[c][i] <= 1 + restarts[c][i]
                      /\ replies[c][i] > 0 => i <= Len(updates'[c]) /\ updates'[c][i] # "talk"
    BY <1>1, <2>1 DEF OnceInv
  <2>2. replies[c][i] > 0 => i \in 1..Len(updates[c]) /\ updates[c][i] # "talk"
    BY <1>3, BotBoundFact DEF BotInv, OnceInv
  <2>3. replies[c][i] > 0 => i <= Len(updates'[c]) /\ updates'[c][i] = updates[c][i]
    BY <1>3, <1>4, <1>5, <2>2
  <2> QED
    BY <2>2, <2>3 DEF BotInv, OnceInv
<1>12. PassedInv'
  BY <1>1, <1>6 DEF BotInv, PassedInv
<1> QED
  BY <1>7, <1>8, <1>9, <1>10, <1>11, <1>12 DEF BotInv

\* Time passes: what was old stays old.
LEMMA KeepGrowOld ==
  ASSUME BotInv, NEW b \in Bots, GrowOld(b)
  PROVE  BotInv'
<1>1. UNCHANGED <<usernames, updates, cursors, resting, loop, replies, unsent, restarts>>
  BY DEF GrowOld
<1>2. /\ dropped \in [Bots -> Nat] /\ aged \in [Bots -> Nat]
      /\ \A c \in Bots : /\ dropped[c] <= aged[c] /\ aged[c] <= Len(updates[c])
                         /\ dropped[c] \in Nat /\ aged[c] \in Nat /\ Len(updates[c]) \in Nat
  BY DEF BotInv, TypeTelegram
<1>3. /\ dropped' \in [Bots -> Nat] /\ aged' \in [Bots -> Nat]
      /\ \A c \in Bots : /\ dropped'[c] <= aged'[c] /\ aged'[c] <= Len(updates[c])
                         /\ aged[c] <= aged'[c] /\ aged'[c] \in Nat
  <2>1. CASE aged[b] < Len(updates[b]) /\ aged' = [aged EXCEPT ![b] = @ + 1] /\ UNCHANGED dropped
    <3>1. aged' \in [Bots -> Nat] /\ aged'[b] = aged[b] + 1 /\ \A c \in Bots \ {b} : aged'[c] = aged[c]
      BY <1>2, <2>1
    <3>2. ASSUME NEW c \in Bots
          PROVE  /\ dropped[c] <= aged'[c] /\ aged'[c] <= Len(updates[c])
                 /\ aged[c] <= aged'[c] /\ aged'[c] \in Nat
      BY <1>2, <2>1, <3>1
    <3> QED
      BY <1>2, <2>1, <3>1, <3>2
  <2>2. CASE dropped[b] < aged[b] /\ dropped' = [dropped EXCEPT ![b] = @ + 1] /\ UNCHANGED aged
    <3>1. /\ dropped' \in [Bots -> Nat] /\ dropped'[b] = dropped[b] + 1
          /\ \A c \in Bots \ {b} : dropped'[c] = dropped[c]
      BY <1>2, <2>2
    <3>2. ASSUME NEW c \in Bots PROVE dropped'[c] <= aged[c] /\ aged[c] <= aged[c]
      BY <1>2, <2>2, <3>1
    <3> QED
      BY <1>2, <2>2, <3>1, <3>2
  <2> QED
    BY <2>1, <2>2 DEF GrowOld
<1>4. TypeTelegram'
  BY <1>1, <1>3 DEF BotInv, TypeTelegram
<1>5. TypeCursors' /\ TypeLoop' /\ TypeReplies' /\ QueueInv' /\ OnceInv'
  BY <1>1 DEF BotInv, TypeCursors, TypeLoop, TypeReplies, QueueInv, OnceInv
<1>6. OldInv'
  <2>1. \A c \in Bots : loop.old[c] \in Nat /\ loop.old[c] <= aged[c]
    BY DEF BotInv, OldInv, TypeLoop, Ticks
  <2> QED
    BY <1>1, <1>2, <1>3, <2>1 DEF OldInv
<1>7. PassedInv'
  <2> SUFFICES ASSUME NEW c \in Bots, NEW i \in 1..cursors[c], updates[c][i] # "talk",
                      ~(i <= aged'[c])
               PROVE  \/ loop.bot = c /\ i \in loop.queue
                      \/ replies[c][i] > 0 \/ <<c, i>> \in unsent
                      \/ updates[c][i] = "named" /\ c \notin usernames
    BY <1>1 DEF PassedInv
  <2>1. i \in Nat /\ ~(i <= aged[c])
    BY <1>2, <1>3
  <2> QED
    BY <2>1 DEF BotInv, PassedInv
<1>8. YoungInv'
  <2> SUFFICES ASSUME NEW c \in Bots, NEW i \in 1..MaxUpdates, i > cursors[c], i > Stale(c)'
               PROVE  replies[c][i] <= restarts[c][i]
    BY <1>1 DEF YoungInv
  <2>1. Stale(c) \in Nat /\ Stale(c)' \in Nat /\ Stale(c) <= Stale(c)'
    BY <1>1, <1>2, <1>3 DEF BotInv, TypeLoop, Ticks, Stale
  <2>2. i > Stale(c)
    BY <2>1, BotBoundFact
  <2> QED
    BY <2>2 DEF BotInv, YoungInv
<1> QED
  BY <1>4, <1>5, <1>6, <1>7, <1>8 DEF BotInv

-----------------------------------------------------------------------------
\* The loop ends and starts again.
LEMMA KeepRestartListener ==
  ASSUME BotInv, RestartListener
  PROVE  BotInv'
<1>1. /\ UNCHANGED <<usernames, updates, dropped, aged, replies, unsent>>
      /\ cursors' = [b \in Bots |-> 0] /\ resting' = {} /\ loop' = Asleep
  BY DEF RestartListener, telegram
<1>2. TypeTelegram' /\ TypeCursors' /\ TypeLoop'
  BY <1>1, AsleepFact DEF BotInv, TypeTelegram, TypeCursors, TypeLoop
<1>3. /\ restarts' \in [Bots -> [1..MaxUpdates -> Nat]]
      /\ \A b \in Bots : \A i \in 1..MaxUpdates :
           /\ restarts[b][i] \in Nat /\ replies[b][i] \in Nat
           /\ restarts'[b][i] = IF i \in (aged[b] + 1)..Len(updates[b]) THEN restarts[b][i] + 1
                                                                     ELSE restarts[b][i]
  <2>1. /\ replies \in [Bots -> [1..MaxUpdates -> Nat]]
        /\ restarts \in [Bots -> [1..MaxUpdates -> Nat]]
    BY DEF BotInv, TypeReplies
  <2>2. ASSUME NEW b \in Bots, NEW i \in 1..MaxUpdates
        PROVE  restarts[b][i] \in Nat /\ replies[b][i] \in Nat /\ restarts[b][i] + 1 \in Nat
    <3>1. restarts[b] \in [1..MaxUpdates -> Nat] /\ replies[b] \in [1..MaxUpdates -> Nat]
      BY <2>1
    <3>2. restarts[b][i] \in Nat /\ replies[b][i] \in Nat
      BY <3>1
    <3> QED
      BY <3>2
  <2>3. restarts' = [b \in Bots |-> [i \in 1..MaxUpdates |->
                      IF i \in (aged[b] + 1)..Len(updates[b]) THEN restarts[b][i] + 1
                                                              ELSE restarts[b][i]]]
    BY DEF RestartListener
  <2> QED
    BY <2>2, <2>3
<1>4. TypeReplies'
  BY <1>1, <1>3 DEF BotInv, TypeReplies
<1>5. OldInv' /\ QueueInv' /\ PassedInv'
  BY <1>1, AsleepFact DEF BotInv, TypeTelegram, OldInv, QueueInv, PassedInv
<1>6. OnceInv'
  <2> SUFFICES ASSUME NEW b \in Bots, NEW i \in 1..MaxUpdates
               PROVE  replies[b][i] <= 1 + restarts'[b][i]
    BY <1>1 DEF BotInv, OnceInv
  <2>1. replies[b][i] <= 1 + restarts[b][i] /\ restarts[b][i] <= restarts'[b][i]
    BY <1>3 DEF BotInv, OnceInv
  <2> QED
    BY <1>3, <2>1
<1>7. YoungInv'
  <2> SUFFICES ASSUME NEW b \in Bots, NEW i \in 1..MaxUpdates, i > aged[b], replies[b][i] > 0
               PROVE  replies[b][i] <= restarts'[b][i]
    <3>1. \A b \in Bots : Stale(b)' = aged[b]
      BY <1>1, AsleepFact DEF Stale
    <3> QED
      BY <1>1, <1>3, <3>1 DEF YoungInv
  <2>1. aged[b] \in Nat /\ i <= Len(updates[b]) /\ replies[b][i] <= 1 + restarts[b][i]
    BY DEF BotInv, TypeTelegram, OnceInv
  <2>2. i \in (aged[b] + 1)..Len(updates[b])
    BY <2>1, BotBoundFact DEF BotInv, TypeTelegram
  <2> QED
    BY <1>3, <2>1, <2>2
<1> QED
  BY <1>2, <1>4, <1>5, <1>6, <1>7 DEF BotInv

\* A back-off ends.
LEMMA KeepBackoffEnds ==
  ASSUME BotInv, NEW b \in Bots, BackoffEnds(b)
  PROVE  BotInv'
<1>1. UNCHANGED <<usernames, updates, dropped, aged, cursors, loop, replies,
                  unsent, restarts, slips, ends>>
  BY DEF BackoffEnds, telegram, botBounds
<1>2. TypeLoop'
  BY <1>1, BotBoundFact, AsleepFact, OnwardFact DEF BotInv, TypeLoop,
     TypeTelegram, TypeCursors, TypeReplies, BackoffEnds, telegram, botBounds
<1>3. /\ TypeTelegram' /\ TypeCursors' /\ TypeReplies' /\ OldInv' /\ QueueInv'
      /\ OnceInv' /\ YoungInv' /\ PassedInv'
  BY <1>1 DEF BotInv, TypeTelegram, TypeCursors, TypeReplies, OldInv, QueueInv,
     OnceInv, YoungInv, Stale, PassedInv
<1> QED
  BY <1>2, <1>3 DEF BotInv

-----------------------------------------------------------------------------
\* Every step keeps the invariant.
LEMMA BotStep == BotInv /\ [BotNext]_botVars => BotInv'
<1> SUFFICES ASSUME BotInv, [BotNext]_botVars PROVE BotInv'
  OBVIOUS
<1>1. CASE UNCHANGED botVars
  BY <1>1 DEF botVars, telegram, botBounds, BotInv, TypeTelegram, TypeCursors, TypeLoop, TypeReplies,
     OldInv, QueueInv, OnceInv, YoungInv, Stale, PassedInv
<1>2. CASE BotNext
  BY <1>2, KeepBeginTick, KeepNextBot, KeepPollFails, KeepPolled, KeepSendReply, KeepRestartListener,
     KeepPost, KeepGrowOld, KeepBackoffEnds DEF BotNext
<1> QED
  BY <1>1, <1>2

\* The inductive invariant holds in every state.
THEOREM BotInvariance == BotSpec => []BotInv
BY BotInitInv, BotStep, PTL DEF BotSpec

\* The updates, the cursors and the loop keep their types
\* (services/bot_command.rs).
THEOREM BotTypeCorrect == BotSpec => []BotTypeOK
<1>1. BotInv => BotTypeOK
  BY DEF BotInv, BotTypeOK, TypeTelegram, TypeCursors, TypeLoop, Ticks
<1> QED
  BY <1>1, BotInvariance, PTL

\* A command is answered at most once, and once more for every restart that
\* finds it still young; and one the cursor has passed was answered or its
\* answer failed, unless it is too old by now or the bot's name was not known
\* (run_loop, tick and extract_id_replies, bot_command.rs).
THEOREM RepliesHold == BotSpec => []RepliesAccounted
<1>1. BotInv => RepliesAccounted
  <2> SUFFICES ASSUME BotInv, NEW b \in Bots, NEW i \in DOMAIN updates[b]
               PROVE  LET what    == updates[b][i]
                          waiting == loop.bot = b /\ i \in loop.queue
                          passed  == i <= cursors[b]
                      IN /\ replies[b][i] + (IF waiting THEN 1 ELSE 0) <= 1 + restarts[b][i]
                         /\ waiting => i > loop.old[b] /\ passed
                         /\ waiting \/ replies[b][i] > 0 => what # "talk"
                         /\ (what # "talk" /\ passed) =>
                              \/ waiting \/ replies[b][i] > 0 \/ <<b, i>> \in unsent
                              \/ i <= aged[b] \/ (what = "named" /\ b \notin usernames)
    BY DEF RepliesAccounted
  <2>1. i \in 1..MaxUpdates
    BY BotBoundFact DEF BotInv, TypeTelegram
  <2>2. replies[b][i] \in Nat /\ restarts[b][i] \in Nat /\ cursors[b] \in Nat
    BY <2>1 DEF BotInv, TypeReplies, TypeCursors
  <2>3. replies[b][i] <= 1 + restarts[b][i] /\ (replies[b][i] > 0 => updates[b][i] # "talk")
    BY <2>1 DEF BotInv, OnceInv
  <2>4. (loop.bot = b /\ i \in loop.queue) =>
           /\ i > loop.old[b] /\ i <= cursors[b] /\ updates[b][i] # "talk"
           /\ replies[b][i] <= restarts[b][i]
    BY DEF BotInv, QueueInv
  <2>5. (updates[b][i] # "talk" /\ i <= cursors[b]) =>
           \/ loop.bot = b /\ i \in loop.queue
           \/ replies[b][i] > 0 \/ <<b, i>> \in unsent
           \/ i <= aged[b] \/ (updates[b][i] = "named" /\ b \notin usernames)
    BY <2>1, <2>2 DEF BotInv, PassedInv
  <2> QED
    BY <2>2, <2>3, <2>4, <2>5
<1> QED
  BY <1>1, BotInvariance, PTL

-----------------------------------------------------------------------------
(***************************************************************************)
(* The two schedulers, for any number of requests and workers.  The        *)
(* inductive invariant says that a worker that loops is the one the state  *)
(* knows or astray (LoopInv), that a request that met no other starts what *)
(* it has stopped (SoloInv), and that with none open the scheduler is as   *)
(* the last one wanted (WantedInv).                                        *)
(***************************************************************************)

\* The parts of the type invariant: the options and the state, the workers, the
\* requests, and the ghosts.
TypeState ==
  /\ scheduler \in {"push", "extract"}
  /\ option \in [on : BOOLEAN, minutes : Intervals]
  /\ running \in BOOLEAN /\ handle \in WorkerIds \cup {NoWorker}

TypeWorkers ==
  workers \in [WorkerIds -> [at : {"unborn", "sleep", "tick", "leaving", "gone"}, minutes : Nat]]

Tunings == [at : {"idle", "read", "stop", "start"}, on : BOOLEAN, minutes : Nat, solo : BOOLEAN]

TypeTunings ==
  /\ tuning \in [Tuners -> Tunings]
  /\ \A r \in Tuners : tuning[r].at = "idle" <=> tuning[r] = Untuned

TypeOutcomes == /\ tuned \in BOOLEAN /\ overlapped \in BOOLEAN /\ unfinished \in BOOLEAN
                /\ cleared \in BOOLEAN /\ strays \subseteq WorkerIds

\* The flag and the handle agree, and the worker the state knows is alive.
HandleInv == /\ running <=> handle # NoWorker
             /\ handle # NoWorker => Looping(handle)

\* A worker that loops is the one the state knows, or astray.
LoopInv == \A k \in WorkerIds : Looping(k) => handle = k \/ k \in strays

\* A request that met no other is the only one; what it read is what the options
\* are; and it starts what it has stopped.
SoloInv ==
  \A r \in Tuners : (tuning[r] # Untuned /\ tuning[r].solo) =>
    /\ \A q \in Tuners \ {r} : tuning[q] = Untuned
    /\ tuning[r].at \in {"stop", "start"} =>
         tuning[r].on = option.on /\ tuning[r].minutes = option.minutes
    /\ tuning[r].at = "start" => ~running /\ option.on /\ option.minutes > 0

\* A request that met another one is known.
MetInv == \A r \in Tuners : (tuning[r] # Untuned /\ ~tuning[r].solo) => overlapped \/ unfinished

\* When none is open, the scheduler is as the last one wanted.
WantedInv ==
  \/ \E r \in Tuners : tuning[r] # Untuned
  \/ overlapped \/ unfinished \/ cleared
  \/ /\ running <=> WantedOn
     /\ running /\ scheduler = "extract" => workers[handle].minutes = option.minutes

SchedInv == /\ TypeState /\ TypeWorkers /\ TypeTunings /\ TypeOutcomes
            /\ HandleInv /\ LoopInv /\ SoloInv /\ MetInv /\ WantedInv

\* The workers are numbers, and nobody is none of them.
LEMMA WorkerFact == /\ 1 \in WorkerIds /\ NoWorker \notin WorkerIds /\ WorkerIds \subseteq Nat
                    /\ Intervals \subseteq Nat
BY SchedulerAssumption DEF WorkerIds

\* A request that is not open.
LEMMA UntunedFact == Untuned \in Tunings /\ Untuned.at = "idle" /\ Untuned.solo
BY DEF Untuned, Tunings

\* The requests that are open meet another one.
LEMMA CrossedFact ==
  ASSUME TypeTunings
  PROVE  /\ Crossed \in [Tuners -> Tunings]
         /\ \A r \in Tuners : /\ Crossed[r].at = tuning[r].at
                              /\ Crossed[r].at = "idle" <=> Crossed[r] = Untuned
                              /\ Crossed[r] = Untuned <=> tuning[r] = Untuned
                              /\ Crossed[r] # Untuned => ~Crossed[r].solo
<1> USE UntunedFact
<1> SUFFICES ASSUME NEW r \in Tuners
             PROVE  /\ Crossed[r] \in Tunings
                    /\ Crossed[r].at = tuning[r].at
                    /\ Crossed[r].at = "idle" <=> Crossed[r] = Untuned
                    /\ Crossed[r] = Untuned <=> tuning[r] = Untuned
                    /\ Crossed[r] # Untuned => ~Crossed[r].solo
  BY DEF Crossed
<1>1. tuning[r] \in Tunings /\ (tuning[r].at = "idle" <=> tuning[r] = Untuned)
  BY DEF TypeTunings
<1>2. CASE tuning[r] = Untuned
  BY <1>2 DEF Crossed
<1>3. CASE tuning[r] # Untuned
  <2> DEFINE met == [tuning[r] EXCEPT !.solo = FALSE]
  <2>1. Crossed[r] = met
    BY <1>3 DEF Crossed
  <2>2. met \in Tunings /\ met.at = tuning[r].at /\ ~met.solo
    BY <1>1 DEF Tunings
  <2> QED
    BY <1>1, <1>3, <2>1, <2>2
<1> QED
  BY <1>2, <1>3

\* A request that is saved is open.
LEMMA SavedFact ==
  ASSUME NEW alone \in BOOLEAN, NEW saved, saved = [Untuned EXCEPT !.at = "read", !.solo = alone]
  PROVE  saved \in Tunings /\ saved.at = "read" /\ saved.solo = alone /\ saved # Untuned
BY UntunedFact DEF Untuned, Tunings

\* A worker that is born loops.
LEMMA BornFact ==
  ASSUME NEW m \in Nat
  PROVE  /\ Born(m) \in [at : {"unborn", "sleep", "tick", "leaving", "gone"}, minutes : Nat]
         /\ Born(m).at = "sleep" /\ (scheduler # "push" => Born(m).minutes = m)
BY DEF Born

\* The scheduler runs as the boot decides.
LEMMA SchedulerInitInv == SchedulerInit => SchedInv
<1> SUFFICES ASSUME SchedulerInit PROVE SchedInv
  OBVIOUS
<1> USE WorkerFact, UntunedFact
<1>1. TypeState /\ TypeTunings /\ TypeOutcomes
  BY DEF SchedulerInit, TypeState, TypeTunings, TypeOutcomes, BootStarts
<1>2. TypeWorkers /\ HandleInv /\ LoopInv /\ WantedInv
  BY DEF SchedulerInit, TypeWorkers, HandleInv, LoopInv, WantedInv, Looping, WantedOn, BootStarts, Born, Unborn
<1>3. SoloInv /\ MetInv
  BY DEF SchedulerInit, SoloInv, MetInv
<1> QED
  BY <1>1, <1>2, <1>3 DEF SchedInv

-----------------------------------------------------------------------------
\* A worker's tick begins or ends.
LEMMA KeepTick ==
  ASSUME SchedInv, NEW k \in WorkerIds, Tick(k)
  PROVE  SchedInv'
<1>1. UNCHANGED <<scheduler, option, running, handle, tuning, tuned,
                  overlapped, unfinished, cleared, strays, tunings, cuts,
                  boots>>
  BY DEF Tick, Looping, stateVars, outcomes, counters
<1>2. TypeWorkers'
  BY <1>1, WorkerFact, UntunedFact DEF SchedInv, TypeWorkers, TypeState, Tick,
     Looping, stateVars, outcomes, counters
<1>3. HandleInv'
  BY <1>1, WorkerFact, UntunedFact DEF SchedInv, HandleInv, Looping, TypeState,
     TypeWorkers, Tick, stateVars, outcomes, counters
<1>4. LoopInv'
  BY <1>1, WorkerFact, UntunedFact DEF SchedInv, LoopInv, Looping, TypeState,
     TypeWorkers, HandleInv, TypeOutcomes, Tick, stateVars, outcomes, counters
<1>5. WantedInv'
  <2>1. \A j \in WorkerIds : workers'[j].minutes = workers[j].minutes
    BY <1>1 DEF SchedInv, TypeWorkers, Tick
  <2>2. WantedOn' <=> WantedOn
    BY <1>1 DEF WantedOn, BootStarts
  <2>3. running => handle \in WorkerIds
    BY DEF SchedInv, HandleInv, TypeState
  <2> QED
    BY <1>1, <2>1, <2>2, <2>3 DEF SchedInv, WantedInv
<1>6. TypeState' /\ TypeTunings' /\ TypeOutcomes' /\ SoloInv' /\ MetInv'
  BY <1>1 DEF SchedInv, TypeState, TypeTunings, TypeOutcomes, SoloInv, MetInv
<1> QED
  BY <1>2, <1>3, <1>4, <1>5, <1>6 DEF SchedInv

\* An old worker clears the state: what it loses is astray.
LEMMA KeepExit ==
  ASSUME SchedInv, NEW k \in WorkerIds, Exit(k)
  PROVE  SchedInv'
<1>1. UNCHANGED <<scheduler, option, tuning, tuned, overlapped, unfinished,
                  tunings, cuts, boots>>
  BY DEF Exit, counters
<1>2. TypeState'
  BY <1>1, WorkerFact, UntunedFact DEF SchedInv, TypeState, TypeWorkers, Exit,
     counters
<1>3. TypeWorkers'
  BY <1>1, WorkerFact, UntunedFact DEF SchedInv, TypeWorkers, TypeState, Exit,
     counters
<1>4. TypeOutcomes'
  BY <1>1, WorkerFact, UntunedFact DEF SchedInv, TypeOutcomes, TypeState,
     TypeWorkers, TypeTunings, Tunings, Exit, counters
<1>5. HandleInv'
  BY <1>1, WorkerFact, UntunedFact DEF SchedInv, HandleInv, Looping, TypeState,
     TypeWorkers, Exit, counters
<1>6. LoopInv'
  BY <1>1, WorkerFact, UntunedFact DEF SchedInv, LoopInv, Looping, TypeState,
     TypeWorkers, HandleInv, TypeOutcomes, Exit, counters
<1>7. SoloInv'
  BY <1>1, WorkerFact, UntunedFact DEF SchedInv, SoloInv, TypeTunings, Tunings,
     TypeState, HandleInv, Looping, Exit, counters
<1>8. WantedInv'
  <2>1. CASE handle # NoWorker
    BY <2>1 DEF Exit, WantedInv
  <2>2. CASE handle = NoWorker
    <3>1. ~running /\ ~running' /\ cleared' = cleared
      BY <2>2 DEF SchedInv, HandleInv, TypeOutcomes, Exit
    <3>2. WantedOn' <=> WantedOn
      BY <1>1 DEF WantedOn, BootStarts
    <3> QED
      BY <1>1, <3>1, <3>2 DEF SchedInv, WantedInv
  <2> QED
    BY <2>1, <2>2
<1>9. TypeTunings' /\ MetInv'
  BY <1>1 DEF SchedInv, TypeTunings, MetInv
<1> QED
  BY <1>2, <1>3, <1>4, <1>5, <1>6, <1>7, <1>8, <1>9 DEF SchedInv

\* The options are saved, and the requests that meet are known.
LEMMA KeepSave ==
  ASSUME SchedInv, NEW r \in Tuners, Save(r)
  PROVE  SchedInv'
<1>1. UNCHANGED <<scheduler, running, handle, workers, tuned, cleared, strays,
                  boots>>
  BY DEF Save, Untuned, Crossed, Alone, stateVars
<1>2. TypeState'
  BY <1>1, WorkerFact, UntunedFact DEF SchedInv, TypeState, TypeWorkers, Save,
     Untuned, Crossed, Alone, stateVars
<1>3. TypeTunings' /\ SoloInv' /\ MetInv' /\ WantedInv'
  <2> DEFINE saved == [Untuned EXCEPT !.at = "read", !.solo = Alone]
  <2>1. TypeTunings /\ tuning[r] = Untuned
    BY DEF SchedInv, Save
  <2>2. /\ saved \in Tunings /\ saved.at = "read" /\ saved.solo = Alone
        /\ saved # Untuned
    <3>1. Alone \in BOOLEAN
      BY DEF Alone
    <3> QED
      BY <3>1, SavedFact
  <2>3. CASE tuning' = Crossed /\ unfinished'
    <3>1. TypeTunings'
      BY <2>1, <2>3, CrossedFact DEF TypeTunings
    <3>2. SoloInv' /\ MetInv' /\ WantedInv'
      BY <2>1, <2>3, CrossedFact DEF SoloInv, MetInv, WantedInv
    <3> QED
      BY <3>1, <3>2
  <2>4. CASE /\ tuning' = [Crossed EXCEPT ![r] = saved]
             /\ overlapped' = (overlapped \/ ~Alone)
    <3> HIDE DEF saved
    <3>1. /\ tuning' \in [Tuners -> Tunings]
          /\ tuning'[r] = saved /\ \A q \in Tuners \ {r} : tuning'[q] = Crossed[q]
      BY <2>1, <2>2, <2>4, CrossedFact
    <3>2. TypeTunings'
      BY <2>1, <2>2, <3>1, CrossedFact DEF TypeTunings
    <3>3. SoloInv'
      <4> SUFFICES ASSUME NEW q \in Tuners, tuning'[q] # Untuned, tuning'[q].solo
                   PROVE  q = r /\ Alone
        BY <2>1, <2>2, <3>1, CrossedFact DEF SoloInv, Alone
      <4> QED
        BY <2>1, <2>2, <3>1, CrossedFact
    <3>4. MetInv'
      <4> SUFFICES ASSUME NEW q \in Tuners, tuning'[q] # Untuned, ~tuning'[q].solo
                   PROVE  ~Alone
        BY <2>4 DEF MetInv
      <4> QED
        BY <2>1, <2>2, <3>1, CrossedFact DEF Alone
    <3>5. WantedInv'
      BY <2>2, <3>1 DEF WantedInv
    <3> QED
      BY <3>2, <3>3, <3>4, <3>5
  <2> QED
    BY <2>3, <2>4 DEF Save
<1>4. TypeOutcomes'
  BY <1>1, WorkerFact, UntunedFact DEF SchedInv, TypeOutcomes, TypeState,
     TypeWorkers, TypeTunings, Tunings, Save, Untuned, Crossed, Alone, stateVars
<1>5. TypeWorkers' /\ HandleInv' /\ LoopInv'
  BY <1>1 DEF SchedInv, TypeWorkers, HandleInv, LoopInv, Looping
<1> QED
  BY <1>2, <1>3, <1>4, <1>5 DEF SchedInv

\* The options are read.
LEMMA KeepReadOptions ==
  ASSUME SchedInv, NEW r \in Tuners, ReadOptions(r)
  PROVE  SchedInv'
<1>1. UNCHANGED <<scheduler, option, running, handle, workers, tuned,
                  overlapped, unfinished, cleared, strays, tunings, cuts,
                  boots>>
  BY DEF ReadOptions, stateVars, outcomes, counters
<1>2. TypeTunings'
  BY <1>1, WorkerFact, UntunedFact DEF SchedInv, TypeTunings, Tunings,
     TypeState, ReadOptions, stateVars, outcomes, counters
<1>3. SoloInv'
  BY <1>1, WorkerFact, UntunedFact DEF SchedInv, SoloInv, TypeTunings, Tunings,
     TypeState, HandleInv, Looping, ReadOptions, stateVars, outcomes, counters
<1>4. MetInv'
  BY <1>1, WorkerFact, UntunedFact DEF SchedInv, MetInv, TypeTunings, Tunings,
     SoloInv, TypeOutcomes, ReadOptions, stateVars, outcomes, counters
<1>5. WantedInv'
  BY <1>1, WorkerFact, UntunedFact DEF SchedInv, WantedInv, WantedOn,
     TypeTunings, Tunings, TypeState, TypeWorkers, HandleInv, Looping, SoloInv,
     MetInv, TypeOutcomes, ReadOptions, stateVars, outcomes, counters
<1>6. TypeState' /\ TypeWorkers' /\ TypeOutcomes' /\ HandleInv' /\ LoopInv'
  BY <1>1 DEF SchedInv, TypeState, TypeWorkers, TypeOutcomes, HandleInv,
     LoopInv, Looping
<1> QED
  BY <1>2, <1>3, <1>4, <1>5, <1>6 DEF SchedInv

\* The worker is stopped.
LEMMA KeepStopForRequest ==
  ASSUME SchedInv, NEW r \in Tuners, StopForRequest(r)
  PROVE  SchedInv'
<1>1. UNCHANGED <<scheduler, option, strays, tunings, cuts, boots>>
  BY DEF StopForRequest, Stop, TuningEnds, counters, Untuned
<1>2. TypeState'
  BY <1>1, WorkerFact, UntunedFact DEF SchedInv, TypeState, TypeWorkers,
     StopForRequest, Stop, TuningEnds, counters, Untuned
<1>3. TypeWorkers'
  BY <1>1, WorkerFact, UntunedFact DEF SchedInv, TypeWorkers, TypeState,
     StopForRequest, Stop, TuningEnds, counters, Untuned
<1>4. TypeTunings'
  <2>1. TypeTunings
    BY DEF SchedInv
  <2>2. CASE tuning' = [tuning EXCEPT ![r] = Untuned]
    BY <2>1, <2>2, UntunedFact DEF TypeTunings
  <2>3. CASE tuning' = [tuning EXCEPT ![r].at = "start"]
    <3> DEFINE started == [tuning[r] EXCEPT !.at = "start"]
    <3>1. started \in Tunings /\ started.at = "start"
      BY <2>1 DEF TypeTunings, Tunings
    <3>2. tuning' = [tuning EXCEPT ![r] = started]
      BY <2>3
    <3> HIDE DEF started
    <3> QED
      BY <2>1, <3>1, <3>2, UntunedFact DEF TypeTunings
  <2> QED
    BY <2>2, <2>3 DEF StopForRequest, TuningEnds
<1>5. TypeOutcomes'
  BY <1>1, WorkerFact, UntunedFact DEF SchedInv, TypeOutcomes, TypeState,
     TypeWorkers, TypeTunings, Tunings, StopForRequest, Stop, TuningEnds,
     counters, Untuned
<1>6. HandleInv'
  BY <1>1, WorkerFact, UntunedFact DEF SchedInv, HandleInv, Looping, TypeState,
     TypeWorkers, StopForRequest, Stop, TuningEnds, counters, Untuned
<1>7. LoopInv'
  BY <1>1, WorkerFact, UntunedFact DEF SchedInv, LoopInv, Looping, TypeState,
     TypeWorkers, HandleInv, TypeOutcomes, StopForRequest, Stop, TuningEnds,
     counters, Untuned
<1>8. SoloInv'
  <2>1. TypeTunings /\ SoloInv /\ TypeState
    BY DEF SchedInv
  <2>2. CASE tuning' = [tuning EXCEPT ![r] = Untuned]
    <3> SUFFICES ASSUME NEW q \in Tuners, tuning'[q] # Untuned, tuning'[q].solo
                 PROVE  FALSE
      BY DEF SoloInv
    <3> QED
      BY <2>1, <2>2, UntunedFact DEF SoloInv, TypeTunings, StopForRequest
  <2>3. CASE /\ tuning' = [tuning EXCEPT ![r].at = "start"]
             /\ tuning[r].on /\ tuning[r].minutes > 0
    <3>1. /\ tuning'[r].solo = tuning[r].solo /\ tuning'[r].on = tuning[r].on
          /\ tuning'[r].minutes = tuning[r].minutes
          /\ \A q \in Tuners \ {r} : tuning'[q] = tuning[q]
      BY <2>1, <2>3 DEF TypeTunings, Tunings
    <3>2. tuning[r].at = "stop" /\ tuning[r] # Untuned /\ ~running' /\ option' = option
      BY UntunedFact DEF StopForRequest, Stop
    <3> QED
      BY <2>1, <2>3, <3>1, <3>2 DEF SoloInv
  <2> QED
    BY <2>2, <2>3 DEF StopForRequest, TuningEnds
<1>9. MetInv'
  BY <1>1, WorkerFact, UntunedFact DEF SchedInv, MetInv, TypeTunings, Tunings,
     SoloInv, TypeOutcomes, StopForRequest, Stop, TuningEnds, counters, Untuned
<1>10. WantedInv'
  BY <1>1, WorkerFact, UntunedFact DEF SchedInv, WantedInv, WantedOn,
     TypeTunings, Tunings, TypeState, TypeWorkers, HandleInv, Looping, SoloInv,
     MetInv, TypeOutcomes, StopForRequest, Stop, TuningEnds, counters, Untuned
<1> QED
  BY <1>2, <1>3, <1>4, <1>5, <1>6, <1>7, <1>8, <1>9, <1>10 DEF SchedInv

\* Another one is started, unless the state says that one runs.
LEMMA KeepStartForRequest ==
  ASSUME SchedInv, NEW r \in Tuners, StartForRequest(r)
  PROVE  SchedInv'
<1>1. UNCHANGED <<scheduler, option, strays, tunings, cuts, boots>>
  BY DEF StartForRequest, stateVars, WorkerIds, IsNext, Born, TuningEnds,
     counters, Untuned
<1>2. TypeState'
  BY <1>1, WorkerFact, UntunedFact DEF SchedInv, TypeState, TypeWorkers,
     StartForRequest, stateVars, WorkerIds, IsNext, Born, TuningEnds, counters,
     Untuned
<1>3. TypeWorkers' /\ HandleInv' /\ WantedInv'
  <2>1. TypeTunings /\ TypeState /\ TypeWorkers /\ HandleInv
    BY DEF SchedInv
  <2>2. tuning[r].minutes \in Nat /\ tuning[r] # Untuned
    BY <2>1, UntunedFact DEF TypeTunings, Tunings, StartForRequest
  <2>3. ~tuning[r].solo => WantedInv'
    <3> SUFFICES ASSUME ~tuning[r].solo PROVE WantedInv'
      OBVIOUS
    <3>1. overlapped \/ unfinished
      BY <2>2 DEF SchedInv, MetInv
    <3>2. overlapped' \/ unfinished'
      BY <3>1, Zenon DEF StartForRequest, TuningEnds
    <3> QED
      BY <3>2 DEF WantedInv
  <2>4. CASE running /\ UNCHANGED <<stateVars, workers>>
    <3>1. TypeWorkers' /\ HandleInv'
      BY <2>1, <2>4 DEF TypeWorkers, HandleInv, Looping, stateVars
    <3>2. CASE tuning[r].solo
      BY <2>1, <2>2, <2>4, <3>2 DEF SchedInv, SoloInv, StartForRequest
    <3>3. CASE ~tuning[r].solo
      BY <2>3, <3>1, <3>3
    <3> QED
      BY <3>1, <3>2, <3>3
  <2>5. CASE ~running /\ running'
    <3>1. PICK k \in WorkerIds : /\ handle' = k
                                 /\ workers' = [workers EXCEPT ![k] = Born(tuning[r].minutes)]
      BY <2>5 DEF StartForRequest
    <3>2. workers'[k] = Born(tuning[r].minutes)
      BY <2>1, <3>1 DEF TypeWorkers
    <3>3. TypeWorkers' /\ HandleInv'
      BY <2>1, <2>2, <2>5, <3>1, <3>2, BornFact, WorkerFact DEF TypeWorkers, HandleInv, Looping
    <3>4. CASE tuning[r].solo
      <4>1. option.on /\ option.minutes > 0 /\ tuning[r].minutes = option.minutes
        BY <2>1, <2>2, <3>4 DEF SchedInv, SoloInv, StartForRequest
      <4>2. WantedOn'
        BY <1>1, <4>1 DEF WantedOn, StartForRequest, TuningEnds
      <4>3. scheduler = "extract" => workers'[handle'].minutes = option.minutes
        BY <2>2, <3>1, <3>2, <4>1, BornFact
      <4> QED
        BY <1>1, <2>5, <3>3, <4>2, <4>3 DEF WantedInv
    <3>5. CASE ~tuning[r].solo
      BY <2>3, <3>3, <3>5
    <3> QED
      BY <3>3, <3>4, <3>5
  <2> QED
    BY <2>4, <2>5 DEF StartForRequest
<1>4. TypeTunings'
  BY <1>1, WorkerFact, UntunedFact DEF SchedInv, TypeTunings, Tunings,
     TypeState, StartForRequest, stateVars, WorkerIds, IsNext, Born, TuningEnds,
     counters, Untuned
<1>5. TypeOutcomes'
  BY <1>1, WorkerFact, UntunedFact DEF SchedInv, TypeOutcomes, TypeState,
     TypeWorkers, TypeTunings, Tunings, StartForRequest, stateVars, WorkerIds,
     IsNext, Born, TuningEnds, counters, Untuned
<1>6. LoopInv'
  BY <1>1, WorkerFact, UntunedFact DEF SchedInv, LoopInv, Looping, TypeState,
     TypeWorkers, HandleInv, TypeOutcomes, StartForRequest, stateVars,
     WorkerIds, IsNext, Born, TuningEnds, counters, Untuned
<1>7. SoloInv'
  BY <1>1, WorkerFact, UntunedFact DEF SchedInv, SoloInv, TypeTunings, Tunings,
     TypeState, HandleInv, Looping, StartForRequest, stateVars, WorkerIds,
     IsNext, Born, TuningEnds, counters, Untuned
<1>8. MetInv'
  BY <1>1, WorkerFact, UntunedFact DEF SchedInv, MetInv, TypeTunings, Tunings,
     SoloInv, TypeOutcomes, StartForRequest, stateVars, WorkerIds, IsNext, Born,
     TuningEnds, counters, Untuned
<1> QED
  BY <1>2, <1>3, <1>4, <1>5, <1>6, <1>7, <1>8 DEF SchedInv

\* A request ends half-way.
LEMMA KeepCutRequest ==
  ASSUME SchedInv, NEW r \in Tuners, CutRequest(r)
  PROVE  SchedInv'
<1>1. UNCHANGED <<scheduler, option, running, handle, workers, tuned,
                  overlapped, cleared, strays, tunings, boots>>
  BY DEF CutRequest, Untuned, stateVars
<1>2. TypeTunings'
  BY <1>1, WorkerFact, UntunedFact DEF SchedInv, TypeTunings, Tunings,
     TypeState, CutRequest, Untuned, stateVars
<1>3. TypeOutcomes'
  BY <1>1, WorkerFact, UntunedFact DEF SchedInv, TypeOutcomes, TypeState,
     TypeWorkers, TypeTunings, Tunings, CutRequest, Untuned, stateVars
<1>4. SoloInv'
  BY <1>1, WorkerFact, UntunedFact DEF SchedInv, SoloInv, TypeTunings, Tunings,
     TypeState, HandleInv, Looping, CutRequest, Untuned, stateVars
<1>5. MetInv'
  BY <1>1, WorkerFact, UntunedFact DEF SchedInv, MetInv, TypeTunings, Tunings,
     SoloInv, TypeOutcomes, CutRequest, Untuned, stateVars
<1>6. WantedInv'
  BY <1>1, WorkerFact, UntunedFact DEF SchedInv, WantedInv, WantedOn,
     TypeTunings, Tunings, TypeState, TypeWorkers, HandleInv, Looping, SoloInv,
     MetInv, TypeOutcomes, CutRequest, Untuned, stateVars
<1>7. TypeState' /\ TypeWorkers' /\ HandleInv' /\ LoopInv'
  BY <1>1 DEF SchedInv, TypeState, TypeWorkers, HandleInv, LoopInv, Looping
<1> QED
  BY <1>2, <1>3, <1>4, <1>5, <1>6, <1>7 DEF SchedInv

\* The process ends and starts again.
LEMMA KeepBootProcess ==
  ASSUME SchedInv, BootProcess
  PROVE  SchedInv'
<1>1. UNCHANGED <<scheduler, option, tunings, cuts>>
  BY DEF BootProcess, BootStarts, WorkerIds, Born, Unborn, Untuned
<1>2. TypeState'
  BY <1>1, WorkerFact, UntunedFact DEF SchedInv, TypeState, TypeWorkers,
     BootProcess, BootStarts, WorkerIds, Born, Unborn, Untuned
<1>3. TypeWorkers'
  BY <1>1, WorkerFact, UntunedFact DEF SchedInv, TypeWorkers, TypeState,
     BootProcess, BootStarts, WorkerIds, Born, Unborn, Untuned
<1>4. TypeTunings'
  BY <1>1, WorkerFact, UntunedFact DEF SchedInv, TypeTunings, Tunings,
     TypeState, BootProcess, BootStarts, WorkerIds, Born, Unborn, Untuned
<1>5. TypeOutcomes'
  BY <1>1, WorkerFact, UntunedFact DEF SchedInv, TypeOutcomes, TypeState,
     TypeWorkers, TypeTunings, Tunings, BootProcess, BootStarts, WorkerIds,
     Born, Unborn, Untuned
<1>6. HandleInv'
  BY <1>1, WorkerFact, UntunedFact DEF SchedInv, HandleInv, Looping, TypeState,
     TypeWorkers, BootProcess, BootStarts, WorkerIds, Born, Unborn, Untuned
<1>7. LoopInv'
  BY <1>1, WorkerFact, UntunedFact DEF SchedInv, LoopInv, Looping, TypeState,
     TypeWorkers, HandleInv, TypeOutcomes, BootProcess, BootStarts, WorkerIds,
     Born, Unborn, Untuned
<1>8. SoloInv'
  BY <1>1, WorkerFact, UntunedFact DEF SchedInv, SoloInv, TypeTunings, Tunings,
     TypeState, HandleInv, Looping, BootProcess, BootStarts, WorkerIds, Born,
     Unborn, Untuned
<1>9. MetInv'
  BY <1>1, WorkerFact, UntunedFact DEF SchedInv, MetInv, TypeTunings, Tunings,
     SoloInv, TypeOutcomes, BootProcess, BootStarts, WorkerIds, Born, Unborn,
     Untuned
<1>10. WantedInv'
  BY <1>1, WorkerFact, UntunedFact DEF SchedInv, WantedInv, WantedOn,
     TypeTunings, Tunings, TypeState, TypeWorkers, HandleInv, Looping, SoloInv,
     MetInv, TypeOutcomes, BootProcess, BootStarts, WorkerIds, Born, Unborn,
     Untuned
<1> QED
  BY <1>2, <1>3, <1>4, <1>5, <1>6, <1>7, <1>8, <1>9, <1>10 DEF SchedInv

-----------------------------------------------------------------------------
\* Every step keeps the invariant.
LEMMA SchedulerStep == SchedInv /\ [SchedulerNext]_schedVars => SchedInv'
<1> SUFFICES ASSUME SchedInv, [SchedulerNext]_schedVars PROVE SchedInv'
  OBVIOUS
<1>1. CASE UNCHANGED schedVars
  BY <1>1 DEF schedVars, stateVars, outcomes, counters, SchedInv, TypeState, TypeWorkers, TypeTunings,
     TypeOutcomes, HandleInv, LoopInv, SoloInv, MetInv, WantedInv, WantedOn, BootStarts, Looping
<1>2. CASE SchedulerNext
  BY <1>2, KeepTick, KeepExit, KeepSave, KeepReadOptions, KeepStopForRequest,
     KeepStartForRequest, KeepCutRequest, KeepBootProcess DEF SchedulerNext
<1> QED
  BY <1>1, <1>2

\* The inductive invariant holds in every state.
THEOREM SchedulerInvariance == SchedulerSpec => []SchedInv
BY SchedulerInitInv, SchedulerStep, PTL DEF SchedulerSpec

\* The state of the scheduler, its workers and requests keep their types
\* (services/scheduler.rs).
THEOREM SchedulerTypeCorrect == SchedulerSpec => []SchedulerTypeOK
<1>1. SchedInv => SchedulerTypeOK
  BY DEF SchedInv, SchedulerTypeOK, TypeState, TypeWorkers, TypeTunings, Tunings
<1> QED
  BY <1>1, SchedulerInvariance, PTL

\* No worker loops that the state does not know but those an old worker made
\* it forget, and without crossing, broken or cleared requests the scheduler
\* runs as the options say (update_scheduler, update_extract_config,
\* start_scheduler and stop_scheduler, scheduler.rs).
THEOREM SchedulersHold == SchedulerSpec => []SchedulersAccounted
<1>1. SchedInv => SchedulersAccounted
  BY DEF SchedInv, SchedulersAccounted, HandleInv, LoopInv, WantedInv
<1> QED
  BY <1>1, SchedulerInvariance, PTL

=============================================================================
