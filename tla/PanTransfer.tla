---------------------------- MODULE PanTransfer -----------------------------
(***************************************************************************)
(* The transfer tasks of src/src/services/transfer.rs and the handlers     *)
(* that create, retry and clean them up (handlers/pan_transfer.rs,         *)
(* handlers/api_transfer.rs).                                              *)
(*                                                                         *)
(* A task copies one source to a pan account: a shared folder is saved     *)
(* there, a direct link is downloaded to a staging file and uploaded; the  *)
(* result is shared, and the share is recorded.  A handler spawns a run of *)
(* the task whenever create or retry returns one, so a task may have       *)
(* several runs at once.  Every SQL statement, every call of the provider  *)
(* and every access of the staging file is a step of its own.              *)
(***************************************************************************)
EXTENDS Naturals, FiniteSets

CONSTANTS Keys,        \* idempotency keys: (source, account, kind)
          DirectLinks, \* those of them whose source is a direct link
          NoKey,       \* the key of a row that was never inserted
          Callers,     \* concurrent requests
          Slots,       \* bound: runs alive at once
          NoSlot,
          MaxTasks,    \* bound: rows ever inserted
          MaxRequests, \* bound: create and retry requests ever accepted
          MaxFaults,   \* bound: SQL statements that fail, and clients that hang up
          MaxCrashes   \* bound: process crashes

ASSUME KeysAssumption  == DirectLinks \subseteq Keys /\ NoKey \notin Keys
ASSUME SlotsAssumption == NoSlot \notin Slots /\ IsFiniteSet(Slots)
ASSUME BoundAssumption == {MaxTasks, MaxRequests, MaxFaults, MaxCrashes} \subseteq Nat

Ids == 1..MaxTasks

VARIABLES
  \* transfer_tasks
  status, idem, hasShare, retries,
  account,             \* the target account still exists
  file,                \* staging file: the run that last truncated it, and if it is whole
  \* runs: the statement each is at, its task, and how much of its file it read
  at, on, read,
  \* requests: where each is, its key or its task
  req, reqKey, reqTask,
  \* shares of each task: made at the provider, recorded, lost in between
  made, recorded, lost,
  \* what befell a task: its last run or request cut short, two runs at once, a
  \* share of a truncated file, a staging file whose run broke off
  cut, overlapped, truncated, broken,
  accepted, faults, crashes

table    == <<status, idem, hasShare, retries>>
runs     == <<at, on, read>>
requests == <<req, reqKey, reqTask>>
counts   == <<made, recorded, lost>>
history  == <<cut, overlapped, truncated, broken>>
bounds   == <<accepted, faults, crashes>>
vars     == <<table, account, file, runs, requests, counts, history, bounds>>

Present(r) == status[r] \in {"pending", "processing", "succeeded", "failed"}
RunPcs     == {"off", "mark_processing", "load", "save", "open", "fetch", "upload",
               "cleanup", "share", "record", "mark_succeeded", "mark_failed"}
Staging    == {"fetch", "upload", "cleanup"}
NoFile     == [by |-> NoSlot, whole |-> FALSE]

TypeOK ==
  /\ status \in [Ids -> {"none", "pending", "processing", "succeeded", "failed", "deleted"}]
  /\ idem \in [Ids -> Keys \cup {NoKey}]
  /\ hasShare \in [Ids -> BOOLEAN]
  /\ retries \in [Ids -> Nat]
  /\ account \in BOOLEAN
  /\ file \in [Ids -> [by : Slots \cup {NoSlot}, whole : BOOLEAN]]
  /\ at \in [Slots -> RunPcs]
  /\ on \in [Slots -> Ids \cup {0}]
  /\ read \in [Slots -> {"nothing", "part", "whole"}]
  /\ req \in [Callers -> {"idle", "find", "insert", "update", "reload"}]
  /\ reqKey \in [Callers -> Keys \cup {NoKey}]
  /\ reqTask \in [Callers -> Ids \cup {0}]
  /\ \A f \in {made, recorded, lost} : f \in [Ids -> Nat]
  /\ \A S \in {cut, overlapped, truncated, broken} : S \subseteq Ids
  /\ accepted \in 0..MaxRequests /\ faults \in 0..MaxFaults /\ crashes \in 0..MaxCrashes

-----------------------------------------------------------------------------
(* Helpers *)

Fault == faults < MaxFaults /\ faults' = faults + 1

Live(r) == {s \in Slots : at[s] # "off" /\ on[s] = r}

Has(k) == \E r \in Ids : Present(r) /\ idem[r] = k

Inc(f, r) == [f EXCEPT ![r] = @ + 1]

\* tokio::spawn of run_task: it starts at mark_processing.
Spawn(r) ==
  /\ \E s \in Slots : at[s] = "off"
  /\ LET s == CHOOSE t \in Slots : at[t] = "off" IN
    /\ at' = [at EXCEPT ![s] = "mark_processing"]
    /\ on' = [on EXCEPT ![s] = r]
    /\ read' = [read EXCEPT ![s] = "nothing"]
    /\ cut' = cut \ {r}
    /\ overlapped' = IF Live(r) = {} THEN overlapped ELSE overlapped \cup {r}

\* A request comes in (which of the idle Callers serves it does not matter).
Accept(c) == /\ req[c] = "idle" /\ c = CHOOSE d \in Callers : req[d] = "idle"
             /\ accepted < MaxRequests /\ accepted' = accepted + 1

Reply(c) ==
  /\ req' = [req EXCEPT ![c] = "idle"]
  /\ reqKey' = [reqKey EXCEPT ![c] = NoKey]
  /\ reqTask' = [reqTask EXCEPT ![c] = 0]

Goto(s, pc) == at' = [at EXCEPT ![s] = pc] /\ UNCHANGED on

EndRun(s) == /\ at' = [at EXCEPT ![s] = "off"]
             /\ on' = [on EXCEPT ![s] = 0]
             /\ read' = [read EXCEPT ![s] = "nothing"]

Init ==
  /\ status = [r \in Ids |-> "none"]
  /\ idem = [r \in Ids |-> NoKey]
  /\ hasShare = [r \in Ids |-> FALSE]
  /\ retries = [r \in Ids |-> 0]
  /\ account = TRUE
  /\ file = [r \in Ids |-> NoFile]
  /\ at = [s \in Slots |-> "off"]
  /\ on = [s \in Slots |-> 0]
  /\ read = [s \in Slots |-> "nothing"]
  /\ req = [c \in Callers |-> "idle"]
  /\ reqKey = [c \in Callers |-> NoKey]
  /\ reqTask = [c \in Callers |-> 0]
  /\ made = [r \in Ids |-> 0]
  /\ recorded = [r \in Ids |-> 0]
  /\ lost = [r \in Ids |-> 0]
  /\ cut = {} /\ overlapped = {} /\ truncated = {} /\ broken = {}
  /\ accepted = 0
  /\ faults = 0
  /\ crashes = 0

-----------------------------------------------------------------------------
(* create and create_task: the handlers of the two APIs                    *)

\* The link is recognised and the account exists.
Create(c, k) ==
  /\ Accept(c)
  /\ account
  /\ req' = [req EXCEPT ![c] = "find"]
  /\ reqKey' = [reqKey EXCEPT ![c] = k]
  /\ UNCHANGED <<table, account, file, runs, reqTask, counts, history, faults, crashes>>

\* find_by_idem: a task of this key is returned, and run again whatever its
\* status is.
Find(c) ==
  /\ req[c] = "find"
  /\ \/ /\ \E r \in Ids : Present(r) /\ idem[r] = reqKey[c] /\ Spawn(r)
        /\ Reply(c)
     \/ /\ ~Has(reqKey[c])
        /\ req' = [req EXCEPT ![c] = "insert"]
        /\ UNCHANGED <<reqKey, reqTask, runs, cut, overlapped>>
  /\ UNCHANGED <<table, account, file, counts, truncated, broken, bounds>>

\* Mutant: the index is not unique.
InsertAnyway(c) ==
  /\ req[c] = "insert"
  /\ \E r \in Ids :
       /\ status[r] = "none"
       /\ status' = [status EXCEPT ![r] = "pending"]
       /\ idem' = [idem EXCEPT ![r] = reqKey[c]]
       /\ reqTask' = [reqTask EXCEPT ![c] = r]
  /\ req' = [req EXCEPT ![c] = "reload"]
  /\ UNCHANGED <<reqKey, hasShare, retries, account, file, runs, counts, history, bounds>>

\* The INSERT, refused by the unique index or by the missing account.
Insert(c) ==
  /\ req[c] = "insert"
  /\ \/ /\ account /\ ~Has(reqKey[c])
        /\ \E r \in Ids :
             /\ status[r] = "none" /\ \A q \in 1..(r - 1) : status[q] # "none"
             /\ status' = [status EXCEPT ![r] = "pending"]
             /\ idem' = [idem EXCEPT ![r] = reqKey[c]]
             /\ reqTask' = [reqTask EXCEPT ![c] = r]
        /\ req' = [req EXCEPT ![c] = "reload"]
        /\ UNCHANGED reqKey
     \/ /\ ~account \/ Has(reqKey[c])
        /\ Reply(c)
        /\ UNCHANGED <<status, idem>>
  /\ UNCHANGED <<hasShare, retries, account, file, runs, counts, history, bounds>>

\* get_task of the new or retried row, and the spawn of its run.
Reload(c) ==
  /\ req[c] = "reload"
  /\ IF Present(reqTask[c]) THEN Spawn(reqTask[c]) ELSE UNCHANGED <<runs, cut, overlapped>>
  /\ Reply(c)
  /\ UNCHANGED <<table, account, file, counts, truncated, broken, bounds>>

\* retry and retry_task: the row must be failed when it is read ...
Retry(c, r) ==
  /\ Accept(c)
  /\ status[r] = "failed"
  /\ req' = [req EXCEPT ![c] = "update"]
  /\ reqTask' = [reqTask EXCEPT ![c] = r]
  /\ UNCHANGED <<table, account, file, runs, reqKey, counts, history, faults, crashes>>

\* ... and is then updated by id alone.
RetryUpdate(c) ==
  /\ req[c] = "update"
  /\ LET r == reqTask[c] IN
       IF Present(r)
       THEN /\ status' = [status EXCEPT ![r] = "pending"]
            /\ retries' = Inc(retries, r)
       ELSE UNCHANGED <<status, retries>>
  /\ req' = [req EXCEPT ![c] = "reload"]
  /\ UNCHANGED <<idem, hasShare, account, file, runs, reqKey, reqTask, counts, history,
                 bounds>>

\* A statement fails, or the client hangs up and the handler is dropped where
\* it waits.  A row already written stays without a run.
RequestFails(c) ==
  /\ req[c] # "idle"
  /\ Fault
  /\ cut' = IF req[c] = "reload" THEN cut \cup {reqTask[c]} ELSE cut
  /\ Reply(c)
  /\ UNCHANGED <<table, account, file, runs, counts, overlapped, truncated, broken, accepted, crashes>>

-----------------------------------------------------------------------------
(* run_task_inner, then mark_failed on an error                            *)

MarkProcessing(s) ==
  /\ at[s] = "mark_processing"
  /\ \/ /\ status' = IF Present(on[s]) THEN [status EXCEPT ![on[s]] = "processing"] ELSE status
        /\ Goto(s, "load") /\ UNCHANGED faults
     \/ Fault /\ Goto(s, "mark_failed") /\ UNCHANGED status
  /\ UNCHANGED <<idem, hasShare, retries, account, file, read, requests, counts, history, accepted, crashes>>

\* Mutant: an error of these reads ends the run and leaves the task.
LoadSilent(s) ==
  /\ at[s] = "load"
  /\ \/ Present(on[s]) /\ account /\ Goto(s, "save") /\ UNCHANGED read
     \/ EndRun(s)
  /\ UNCHANGED <<table, account, file, requests, counts, history, bounds>>

\* The task, the account, its credential, the verdict on the link: any of them
\* may be missing or refused.
Load(s) ==
  /\ at[s] = "load"
  /\ \/ /\ Present(on[s]) /\ account
        /\ Goto(s, IF idem[on[s]] \in DirectLinks THEN "open" ELSE "save")
     \/ Goto(s, "mark_failed")
  /\ UNCHANGED <<table, account, file, read, requests, counts, history, bounds>>

\* quark::transfer_share
Save(s) ==
  /\ at[s] = "save"
  /\ \/ Goto(s, "share") /\ read' = [read EXCEPT ![s] = "whole"]
     \/ Goto(s, "mark_failed") /\ UNCHANGED read
  /\ UNCHANGED <<table, account, file, requests, counts, history, bounds>>

\* download_to_staging: File::create truncates whatever is at the task's path.
Open(s) ==
  /\ at[s] = "open"
  /\ \/ Goto(s, "fetch") /\ file' = [file EXCEPT ![on[s]] = [by |-> s, whole |-> FALSE]]
     \/ Goto(s, "mark_failed") /\ UNCHANGED file
  /\ UNCHANGED <<table, account, read, requests, counts, history, bounds>>

\* Mutant: the error of the stream is ignored.
FetchIgnoresError(s) ==
  /\ at[s] = "fetch"
  /\ Goto(s, "upload")
  /\ \/ file[on[s]] # NoFile /\ file' = [file EXCEPT ![on[s]].whole = TRUE]
     \/ UNCHANGED file
  /\ UNCHANGED <<table, account, read, requests, counts, history, bounds>>

\* ... and writes it.  The file is whole when the run that truncated it last
\* has written it all; a run whose file was truncated or removed under it may
\* find that the other has written the part it lost, or not.  A broken stream
\* or a full disk leaves the file as it is.
Fetch(s) ==
  /\ at[s] = "fetch"
  /\ \/ /\ Goto(s, "upload")
        /\ \/ file[on[s]] # NoFile /\ file' = [file EXCEPT ![on[s]].whole = TRUE]
           \/ file[on[s]].by # s /\ UNCHANGED file
        /\ UNCHANGED broken
     \/ /\ Goto(s, "mark_failed")
        /\ broken' = broken \cup {on[s]}
        /\ UNCHANGED file
  /\ UNCHANGED <<table, account, read, requests, counts, cut, overlapped, truncated,
                 bounds>>

\* quark::upload_file reads the file at the path in one go.
Upload(s) ==
  /\ at[s] = "upload"
  /\ read' = [read EXCEPT ![s] = IF file[on[s]] = NoFile THEN "nothing"
                                ELSE IF file[on[s]].whole THEN "whole" ELSE "part"]
  /\ Goto(s, "cleanup")
  /\ UNCHANGED <<table, account, file, requests, counts, history, bounds>>

\* Mutant: only a successful upload removes the file.
CleanupOnSuccess(s) ==
  /\ at[s] = "cleanup"
  /\ \/ Goto(s, "share") /\ file' = [file EXCEPT ![on[s]] = NoFile]
     \/ Goto(s, "mark_failed") /\ UNCHANGED file
  /\ UNCHANGED <<table, account, read, requests, counts, history, bounds>>

\* The upload ends, and the file is removed whether it succeeded or not; it
\* cannot have succeeded when there was no file to read.
Cleanup(s) ==
  /\ at[s] = "cleanup"
  /\ file' = [file EXCEPT ![on[s]] = NoFile]
  /\ \/ read[s] # "nothing" /\ Goto(s, "share")
     \/ Goto(s, "mark_failed")
  /\ UNCHANGED <<table, account, read, requests, counts, history, bounds>>

\* quark::create_share; an answer may be lost after the share was made.
Share(s) ==
  /\ at[s] = "share"
  /\ \/ /\ Goto(s, "record")
        /\ made' = Inc(made, on[s])
        /\ truncated' = IF read[s] = "whole" THEN truncated ELSE truncated \cup {on[s]}
        /\ UNCHANGED lost
     \/ /\ Goto(s, "mark_failed")
        /\ \/ made' = Inc(made, on[s]) /\ lost' = Inc(lost, on[s])
           \/ UNCHANGED <<made, lost>>
        /\ UNCHANGED truncated
  /\ UNCHANGED <<table, account, file, read, requests, recorded, cut, overlapped, broken,
                 bounds>>

\* share::create: refused when the account is gone.
Record(s) ==
  /\ at[s] = "record"
  /\ \/ /\ account
        /\ Goto(s, "mark_succeeded")
        /\ recorded' = Inc(recorded, on[s])
        /\ UNCHANGED <<lost, faults>>
     \/ /\ IF account THEN Fault ELSE UNCHANGED faults
        /\ Goto(s, "mark_failed")
        /\ lost' = Inc(lost, on[s])
        /\ UNCHANGED recorded
  /\ UNCHANGED <<table, account, file, read, requests, made, history, accepted, crashes>>

\* mark_succeeded: refused by its foreign key when the share is gone, which
\* only the deletion of the account does, and then the row is gone as well.
SucceedOrElse(s, pc) ==
  /\ at[s] = "mark_succeeded"
  /\ \/ /\ IF Present(on[s])
           THEN /\ status' = [status EXCEPT ![on[s]] = "succeeded"]
                /\ hasShare' = [hasShare EXCEPT ![on[s]] = TRUE]
           ELSE UNCHANGED <<status, hasShare>>
        /\ EndRun(s) /\ UNCHANGED faults
     \/ /\ Fault
        /\ Goto(s, pc)
        /\ UNCHANGED <<status, hasShare, read>>
  /\ UNCHANGED <<idem, retries, account, file, requests, counts, history, accepted, crashes>>

\* Mutant: an error sends the run back to the record of the share.
MarkSucceededAgain(s) == SucceedOrElse(s, "record")

MarkSucceeded(s) == SucceedOrElse(s, "mark_failed")

\* mark_failed: an error of its own is discarded, and the task left as it is.
FailAs(s, st) ==
  /\ at[s] = "mark_failed"
  /\ \/ /\ status' = IF Present(on[s]) THEN [status EXCEPT ![on[s]] = st] ELSE status
        /\ UNCHANGED <<cut, faults>>
     \/ /\ Fault
        /\ cut' = cut \cup {on[s]}
        /\ UNCHANGED status
  /\ EndRun(s)
  /\ UNCHANGED <<idem, hasShare, retries, account, file, requests, counts,
                 overlapped, truncated, broken, accepted, crashes>>

\* Mutant: a status outside the state machine.
MarkFailedError(s) == FailAs(s, "error")

MarkFailed(s) == FailAs(s, "failed")

Run(s) == \/ MarkProcessing(s) \/ Load(s) \/ Save(s) \/ Open(s) \/ Fetch(s) \/ Upload(s)
          \/ Cleanup(s) \/ Share(s) \/ Record(s) \/ MarkSucceeded(s) \/ MarkFailed(s)

-----------------------------------------------------------------------------
(* Administration and crashes                                              *)

\* cleanup_expired: the settled rows older than the retention period.
CleanupExpired ==
  \E S \in SUBSET {r \in Ids : status[r] \in {"succeeded", "failed"}} \ {{}} :
    /\ status' = [r \in Ids |-> IF r \in S THEN "deleted" ELSE status[r]]
    /\ UNCHANGED <<idem, hasShare, retries, account, file, runs, requests, counts, history,
                   bounds>>

\* pan_account::delete_account: the rows and shares of the account follow.
DeleteAccount ==
  /\ account
  /\ account' = FALSE
  /\ status' = [r \in Ids |-> IF Present(r) THEN "deleted" ELSE status[r]]
  /\ UNCHANGED <<idem, hasShare, retries, file, runs, requests, counts, history, bounds>>

\* The process dies: requests and runs are gone, rows and files stay.  Nothing
\* looks at them when it starts again.
Crash ==
  /\ crashes < MaxCrashes
  /\ crashes' = crashes + 1
  /\ cut' = cut \cup {on[s] : s \in {t \in Slots : at[t] # "off"}}
                \cup {reqTask[c] : c \in {d \in Callers : req[d] = "reload"}}
  /\ broken' = broken \cup {on[s] : s \in {t \in Slots : at[t] \in Staging}}
  /\ lost' = [r \in Ids |-> lost[r] + Cardinality({s \in Live(r) : at[s] = "record"})]
  /\ at' = [s \in Slots |-> "off"]
  /\ on' = [s \in Slots |-> 0]
  /\ read' = [s \in Slots |-> "nothing"]
  /\ req' = [c \in Callers |-> "idle"]
  /\ reqKey' = [c \in Callers |-> NoKey]
  /\ reqTask' = [c \in Callers |-> 0]
  /\ UNCHANGED <<table, account, file, made, recorded, overlapped, truncated,
                 accepted, faults>>

Request(c) == Find(c) \/ Insert(c) \/ Reload(c) \/ RetryUpdate(c)

Next == \/ \E c \in Callers : \/ \E k \in Keys : Create(c, k)
                              \/ \E r \in Ids : Retry(c, r)
                              \/ Request(c)
                              \/ RequestFails(c)
        \/ \E s \in Slots : Run(s)
        \/ CleanupExpired
        \/ DeleteAccount
        \/ Crash

Spec == Init /\ [][Next]_vars

\* A request that was accepted is served, a run that was spawned is polled.
Fairness == /\ \A c \in Callers : WF_vars(Request(c))
            /\ \A s \in Slots : WF_vars(Run(s))

FairSpec == Spec /\ Fairness

-----------------------------------------------------------------------------
(* Properties *)

Unsettled(r) == status[r] \in {"pending", "processing"}

\* Two requests for one source never make two tasks of it.
OneTaskPerKey ==
  \A q, r \in Ids : q # r /\ Present(q) /\ Present(r) => idem[q] # idem[r]

\* Every share made at the provider is recorded, on its way to be, or the loss
\* of a run that failed after it: a second run does not hide the first's.
SharesAccounted ==
  \A r \in Ids :
    made[r] = recorded[r] + lost[r] + Cardinality({s \in Live(r) : at[s] = "record"})

\* A truncated file is uploaded and shared only where two runs of one task
\* overlapped: a run alone uploads what it downloaded.
WholeUnlessOverlapped == truncated \subseteq overlapped

\* A staging file has a run that will remove it, unless its download broke off
\* or the process died.
StagingOwned ==
  \A r \in Ids :
    file[r] # NoFile /\ r \notin broken => \E s \in Live(r) : at[s] \in Staging

\* Every task is settled, unless what was to settle it was cut short.
Settles == \A r \in Ids : Unsettled(r) ~> ~Unsettled(r) \/ r \in cut

=============================================================================
