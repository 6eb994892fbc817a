---------------------------- MODULE ForwardQueue ----------------------------
(***************************************************************************)
(* The image forward queue of src/src/services/forward_queue.rs.           *)
(*                                                                         *)
(* A row of forward_tasks carries one image through two stages: a client   *)
(* posts an album to group A (stage 1, its receipt is image_message_id),   *)
(* then a bot forwards that message to group B (stage 2, its receipt is    *)
(* file_id).  Every SQL statement and every Telegram call is a step of its *)
(* own; the process may crash between any two of them, and the answer of a *)
(* call may be lost after its effect.                                      *)
(*                                                                         *)
(* Groups is the pair of configured chats: "none" (group B unset), "same"  *)
(* (A = B) or "distinct" (A # B, which starts the second worker).  The     *)
(* scheduler reads it when it starts, and it is fixed in a behaviour.      *)
(***************************************************************************)
EXTENDS Naturals, FiniteSets

CONSTANTS Images,       \* remote_id values
          NoImage,      \* the remote_id of a row that was never inserted
          Producers,    \* concurrent callers of enqueue
          Groups,       \* "none", "same" or "distinct"
          MaxRetries,   \* MAX_RETRIES of the code
          MaxRows,      \* bound: rows ever inserted
          MaxFaults,    \* bound: SQL statements that return an error
          MaxCrashes    \* bound: process crashes

ASSUME NoImageAssumption == NoImage \notin Images
ASSUME GroupsAssumption  == Groups \in {"none", "same", "distinct"}
ASSUME BoundAssumption   == /\ MaxRetries \in Nat \ {0}
                            /\ MaxRows \in Nat
                            /\ MaxFaults \in Nat
                            /\ MaxCrashes \in Nat

Dual    == Groups = "distinct"
Workers == IF Dual THEN {"A", "B"} ELSE {"A"}
Ids     == 1..MaxRows

VARIABLES
  \* forward_tasks, one function per column
  status, remote_id, hasMsgId, hasFileId, retry_count,
  age,                  \* 0: updated this second, 1: earlier, 2: past the threshold
  mapped,               \* image_mappings: the remote_ids with a file_id
  shown,                \* the remote_ids some extracted_resources.img refers to
  \* the process
  pc, held,             \* where each worker is, and the row it fetched (0: none)
  starting,             \* start_forward_scheduler is in its own recovery scan
  due,                  \* retry_eligible_failed: the SELECTed rows and their target
  prod, want,           \* where each enqueue call is, and its image
  \* the world outside, and what it did that the database never learnt
  albumsA, forwardsB, orphanA, orphanB,
  faults, crashes

rows     == <<status, remote_id, hasMsgId, hasFileId, retry_count, age>>
stores   == <<mapped, shown>>
outside  == <<albumsA, forwardsB, orphanA, orphanB>>
workers  == <<pc, held, starting, due>>
callers  == <<prod, want>>
vars     == <<rows, stores, workers, callers, outside, faults, crashes>>

Running  == {"stage1_running", "stage2_running"}
Live     == {"pending", "awaiting_bot", "forwarded"} \cup Running
Status   == {"free", "failed", "deleted"} \cup Live

RecoverPcs == {"recover_unsent", "recover_sent", "recover_stage2",
               "recover_mapping", "recover_forwarded"}
Stage1Pcs  == {"send_album", "persist_stage1", "mark_awaiting"}
Stage2Pcs  == {"forward", "persist_stage2", "save_mapping", "mark_forwarded"}
Pcs        == RecoverPcs \cup Stage1Pcs \cup Stage2Pcs \cup
              {"select_failed", "revive", "fetch_awaiting", "fetch_pending", "mark_failed"}

TypeRows ==
  /\ status \in [Ids -> Status]
  /\ remote_id \in [Ids -> Images \cup {NoImage}]
  /\ hasMsgId \in [Ids -> BOOLEAN]
  /\ hasFileId \in [Ids -> BOOLEAN]
  /\ retry_count \in [Ids -> 0..MaxRetries]
  /\ age \in [Ids -> 0..2]

TypeStores == mapped \subseteq Images /\ shown \subseteq Images

TypeWorkers ==
  /\ pc \in [Workers -> Pcs]
  /\ held \in [Workers -> Ids \cup {0}]
  /\ starting \in BOOLEAN
  /\ due \in [Ids -> {"none", "pending", "awaiting_bot"}]

TypeCallers ==
  /\ prod \in [Producers -> {"idle", "check_queue", "insert"}]
  /\ want \in [Producers -> Images \cup {NoImage}]

TypeOutside ==
  /\ albumsA \in [Ids -> Nat]
  /\ forwardsB \in [Ids -> Nat]
  /\ orphanA \in [Ids -> Nat]
  /\ orphanB \in [Ids -> Nat]

TypeBounds == faults \in 0..MaxFaults /\ crashes \in 0..MaxCrashes

TypeOK == /\ TypeRows
          /\ TypeStores
          /\ TypeWorkers
          /\ TypeCallers
          /\ TypeOutside
          /\ TypeBounds

-----------------------------------------------------------------------------
(* Helpers *)

Fault == faults < MaxFaults /\ faults' = faults + 1

Goto(w, at) == pc' = [pc EXCEPT ![w] = at]

\* An UPDATE that gives the rows of S the status s, and a fresh updated_at.
Move(S, s) ==
  /\ status' = [r \in Ids |-> IF r \in S THEN s ELSE status[r]]
  /\ age'    = [r \in Ids |-> IF r \in S THEN 0 ELSE age[r]]
  /\ UNCHANGED <<remote_id, hasMsgId, hasFileId, retry_count>>

\* ORDER BY id ASC LIMIT 1
IsFirst(r, s) == status[r] = s /\ \A q \in Ids : status[q] = s => r <= q

\* Smart recovery: a row whose album was posted only redoes stage 2.
RetryTarget(r) == IF hasMsgId[r] THEN "awaiting_bot" ELSE "pending"

\* updated_at < now - threshold; the scan of the start has threshold 0.
Stuck(r) == age[r] >= IF starting THEN 1 ELSE 2

NextTick(w) == IF w = "A" THEN "recover_unsent" ELSE "fetch_awaiting"

\* Mutants: worker A looks at awaiting_bot first whatever the mode is; or never.
FirstFetchAlways == "fetch_awaiting"
FirstFetchPending == "fetch_pending"

\* Worker A's fetch of a tick: single mode looks at awaiting_bot first.
FirstFetch == IF Dual THEN "fetch_pending" ELSE "fetch_awaiting"

\* Worker B is spawned after the recovery scan of the start.
Up(w) == w = "A" \/ ~starting

EndTask(w) == Goto(w, NextTick(w)) /\ held' = [held EXCEPT ![w] = 0]

AddOne(f, r) == [f EXCEPT ![r] = @ + 1]

-----------------------------------------------------------------------------
Init ==
  /\ status = [r \in Ids |-> "free"]
  /\ remote_id = [r \in Ids |-> NoImage]
  /\ hasMsgId = [r \in Ids |-> FALSE]
  /\ hasFileId = [r \in Ids |-> FALSE]
  /\ retry_count = [r \in Ids |-> 0]
  /\ age = [r \in Ids |-> 0]
  /\ mapped = {}
  /\ shown = {}
  /\ pc = [w \in Workers |-> NextTick(w)]
  /\ held = [w \in Workers |-> 0]
  /\ starting = TRUE
  /\ due = [r \in Ids |-> "none"]
  /\ prod = [p \in Producers |-> "idle"]
  /\ want = [p \in Producers |-> NoImage]
  /\ albumsA = [r \in Ids |-> 0]
  /\ forwardsB = [r \in Ids |-> 0]
  /\ orphanA = [r \in Ids |-> 0]
  /\ orphanB = [r \in Ids |-> 0]
  /\ faults = 0
  /\ crashes = 0

-----------------------------------------------------------------------------
(* enqueue: called by the extraction of one record, which stores the       *)
(* resource that shows the image just before                               *)

\* The resource, unless it is a duplicate or its INSERT fails; the switch
\* image_storage_enabled, in either position at the call; and layer 1: the
\* image already has a mapping.
EnqueueCheckMapping(p, i) ==
  /\ prod[p] = "idle"
  /\ shown' \in {shown, shown \cup {i}}
  /\ \E enabled \in BOOLEAN :
       IF enabled /\ i \notin mapped
       THEN /\ prod' = [prod EXCEPT ![p] = "check_queue"]
            /\ want' = [want EXCEPT ![p] = i]
       ELSE UNCHANGED callers
  /\ UNCHANGED <<rows, mapped, workers, outside, faults, crashes>>

\* Layer 2: the image has a row that is queued, running or forwarded.
EnqueueCheckQueue(p) ==
  /\ prod[p] = "check_queue"
  /\ IF \E r \in Ids : remote_id[r] = want[p] /\ status[r] \in Live
     THEN /\ prod' = [prod EXCEPT ![p] = "idle"]
          /\ want' = [want EXCEPT ![p] = NoImage]
     ELSE /\ prod' = [prod EXCEPT ![p] = "insert"]
          /\ UNCHANGED want
  /\ UNCHANGED <<rows, stores, workers, outside, faults, crashes>>

\* Layer 3: INSERT OR IGNORE.  The table has no UNIQUE column but the id.
EnqueueInsert(p) ==
  /\ prod[p] = "insert"
  /\ \E r \in Ids :
       /\ IsFirst(r, "free")
       /\ status' = [status EXCEPT ![r] = "pending"]
       /\ remote_id' = [remote_id EXCEPT ![r] = want[p]]
  /\ prod' = [prod EXCEPT ![p] = "idle"]
  /\ want' = [want EXCEPT ![p] = NoImage]
  /\ UNCHANGED <<hasMsgId, hasFileId, retry_count, age,
                 stores, workers, outside, faults, crashes>>

\* A statement of enqueue fails: the caller logs the error and goes on.
EnqueueFails(p) ==
  /\ prod[p] # "idle"
  /\ Fault
  /\ prod' = [prod EXCEPT ![p] = "idle"]
  /\ want' = [want EXCEPT ![p] = NoImage]
  /\ UNCHANGED <<rows, stores, workers, outside, crashes>>

Enqueue == \E p \in Producers :
  \/ \E i \in Images : EnqueueCheckMapping(p, i)
  \/ EnqueueCheckQueue(p)
  \/ EnqueueInsert(p)
  \/ EnqueueFails(p)

-----------------------------------------------------------------------------
(* recover_stuck_tasks: five statements, run when the scheduler starts and *)
(* at the beginning of each of worker A's ticks                            *)

\* Where the scan returns to, with or without an error.
RecoverReturns ==
  /\ Goto("A", IF starting THEN "recover_unsent" ELSE "select_failed")
  /\ starting' = FALSE

\* A statement fails: the rest of the scan is skipped.
RecoverAborts ==
  /\ pc["A"] \in RecoverPcs
  /\ Fault
  /\ RecoverReturns
  /\ UNCHANGED <<rows, stores, held, due, callers, outside, crashes>>

\* One UPDATE of the scan: the stuck rows of `from` with this receipt.
RecoverUpdate(at, S, to, next) ==
  /\ pc["A"] = at
  /\ Move({r \in S : Stuck(r)}, to)
  /\ Goto("A", next)
  /\ UNCHANGED <<stores, held, starting, due, callers, outside, faults, crashes>>

\* Mutant: every stuck row of stage 1 starts again.
RecoverUnsentAll ==
  RecoverUpdate("recover_unsent", {r \in Ids : status[r] = "stage1_running"},
                "pending", "recover_sent")

RecoverUnsent ==
  RecoverUpdate("recover_unsent",
                {r \in Ids : status[r] = "stage1_running" /\ ~hasMsgId[r]},
                "pending", "recover_sent")

RecoverSent ==
  RecoverUpdate("recover_sent",
                {r \in Ids : status[r] = "stage1_running" /\ hasMsgId[r]},
                "awaiting_bot", "recover_stage2")

\* Mutants: the check of file_id is dropped; the statement matches no row.
RecoverStage2All ==
  RecoverUpdate("recover_stage2", {r \in Ids : status[r] = "stage2_running"},
                "awaiting_bot", "recover_mapping")

RecoverStage2None == RecoverUpdate("recover_stage2", {}, "awaiting_bot", "recover_mapping")

RecoverStage2 ==
  RecoverUpdate("recover_stage2",
                {r \in Ids : status[r] = "stage2_running" /\ ~hasFileId[r]},
                "awaiting_bot", "recover_mapping")

ForwardedButRunning == {r \in Ids : status[r] = "stage2_running" /\ hasFileId[r] /\ Stuck(r)}

\* The SELECT of the rows already forwarded, and the INSERT of each of their
\* mappings; the error of an INSERT is discarded.
RecoverMapping ==
  /\ pc["A"] = "recover_mapping"
  /\ LET found == {remote_id[r] : r \in ForwardedButRunning} IN
       \/ mapped' = mapped \cup found /\ UNCHANGED faults
       \/ \E i \in found : Fault /\ mapped' = mapped \cup (found \ {i})
  /\ Goto("A", "recover_forwarded")
  /\ UNCHANGED <<rows, shown, held, starting, due, callers, outside, crashes>>

RecoverForwarded ==
  /\ pc["A"] = "recover_forwarded"
  /\ Move(ForwardedButRunning, "forwarded")
  /\ RecoverReturns
  /\ UNCHANGED <<stores, held, due, callers, outside, faults, crashes>>

-----------------------------------------------------------------------------
(* Retries of failed rows                                                  *)

\* retry_eligible_failed, its SELECT: the failed rows whose back-off is over
\* and the status each of them is to get.
SelectFailed ==
  /\ pc["A"] = "select_failed"
  /\ LET eligible == {r \in Ids : /\ status[r] = "failed"
                                  /\ retry_count[r] < MaxRetries
                                  /\ age[r] >= 1}
     IN \/ /\ due' = [r \in Ids |-> IF r \in eligible THEN RetryTarget(r) ELSE "none"]
           /\ Goto("A", IF eligible = {} THEN FirstFetch ELSE "revive")
           /\ UNCHANGED faults
        \/ Fault /\ Goto("A", FirstFetch) /\ UNCHANGED due
  /\ UNCHANGED <<rows, stores, held, starting, callers, outside, crashes>>

\* ... and its UPDATE of one SELECTed row, by id alone; an error is discarded.
Revive(r) ==
  /\ pc["A"] = "revive"
  /\ due[r] # "none"
  /\ \/ /\ Move({r} \ {q \in Ids : status[q] = "deleted"}, due[r])
        /\ UNCHANGED faults
     \/ Fault /\ UNCHANGED rows
  /\ due' = [due EXCEPT ![r] = "none"]
  /\ Goto("A", IF \A q \in Ids \ {r} : due[q] = "none" THEN FirstFetch ELSE "revive")
  /\ UNCHANGED <<stores, held, starting, callers, outside, crashes>>

\* Mutant: a retry starts from scratch.
RetryFromScratch(r) ==
  /\ status[r] = "failed"
  /\ status' = [status EXCEPT ![r] = "pending"]
  /\ hasMsgId' = [hasMsgId EXCEPT ![r] = FALSE]
  /\ UNCHANGED <<remote_id, hasFileId, retry_count, age,
                 stores, workers, callers, outside, faults, crashes>>

\* retry_task, from the administration page.
RetryTask(r) ==
  /\ status[r] = "failed"
  /\ Move({r}, RetryTarget(r))
  /\ UNCHANGED <<stores, workers, callers, outside, faults, crashes>>

\* retry_all_failed: MaxRows is below its batch of 100 rows.
RetryAllFailed ==
  LET failed == {r \in Ids : status[r] = "failed"} IN
  /\ failed # {}
  /\ status' = [r \in Ids |-> IF r \in failed THEN RetryTarget(r) ELSE status[r]]
  /\ age' = [r \in Ids |-> IF r \in failed THEN 0 ELSE age[r]]
  /\ UNCHANGED <<remote_id, hasMsgId, hasFileId, retry_count,
                 stores, workers, callers, outside, faults, crashes>>

-----------------------------------------------------------------------------
(* Fetching a row: UPDATE ... WHERE id = (SELECT ...) RETURNING, atomic     *)

FetchRow(w, at, r, s, to, next) ==
  /\ pc[w] = at /\ Up(w)
  /\ IsFirst(r, s)
  /\ Move({r}, to)
  /\ held' = [held EXCEPT ![w] = r]
  /\ Goto(w, next)
  /\ UNCHANGED <<stores, starting, due, callers, outside, faults, crashes>>

\* No row has this status: go on to `next`.
FetchNothing(w, at, s, next) ==
  /\ pc[w] = at
  /\ \A r \in Ids : status[r] # s
  /\ Goto(w, next)
  /\ UNCHANGED <<rows, stores, held, starting, due, callers, outside, faults, crashes>>

\* In single mode a worker that finds no row here looks for a pending one.
FetchAwaitingBot(w) ==
  \/ \E r \in Ids :
       FetchRow(w, "fetch_awaiting", r, "awaiting_bot", "stage2_running", "forward")
  \/ w = "A" /\ FetchNothing(w, "fetch_awaiting", "awaiting_bot", "fetch_pending")

FetchPending(w) ==
  \/ \E r \in Ids :
       FetchRow(w, "fetch_pending", r, "pending", "stage1_running", "send_album")
  \/ FetchNothing(w, "fetch_pending", "pending", NextTick(w))

\* The fetch, or the read of the bot's token before it, fails.
FetchFails(w) ==
  /\ pc[w] \in {"fetch_awaiting", "fetch_pending"} /\ Up(w)
  /\ Fault
  /\ Goto(w, NextTick(w))
  /\ UNCHANGED <<rows, stores, held, starting, due, callers, outside, crashes>>

-----------------------------------------------------------------------------
(* Stage 1: execute_stage1                                                 *)

\* run_stage_1_client_forward.  It may fail before the album is posted, or
\* post it and fail to read the answer.
SendAlbum(w) ==
  /\ pc[w] = "send_album"
  /\ \/ Goto(w, "mark_failed") /\ UNCHANGED <<albumsA, orphanA>>
     \/ /\ albumsA' = AddOne(albumsA, held[w])
        /\ \/ Goto(w, "persist_stage1") /\ UNCHANGED orphanA
           \/ Goto(w, "mark_failed") /\ orphanA' = AddOne(orphanA, held[w])
  /\ UNCHANGED <<rows, stores, held, starting, due, callers,
                 forwardsB, orphanB, faults, crashes>>

\* persist_stage1_marker: writes image_message_id WHERE status = 'stage1_running'.
\* When it fails the album is an orphan, and the task is left as it is.
PersistStage1(w) ==
  /\ pc[w] = "persist_stage1"
  /\ \/ /\ IF status[held[w]] = "stage1_running"
           THEN /\ hasMsgId' = [hasMsgId EXCEPT ![held[w]] = TRUE]
                /\ age' = [age EXCEPT ![held[w]] = 0]
           ELSE UNCHANGED <<hasMsgId, age>>
        /\ Goto(w, "mark_awaiting")
        /\ UNCHANGED <<held, orphanA, faults>>
     \/ /\ Fault
        /\ orphanA' = AddOne(orphanA, held[w])
        /\ EndTask(w)
        /\ UNCHANGED <<hasMsgId, age>>
  /\ UNCHANGED <<status, remote_id, hasFileId, retry_count, stores, starting, due,
                 callers, albumsA, forwardsB, orphanB, crashes>>

\* mark_task_awaiting_bot; an error is left to the recovery scan.
MarkAwaitingBot(w) ==
  /\ pc[w] = "mark_awaiting"
  /\ \/ /\ status' = [status EXCEPT ![held[w]] = "awaiting_bot"]
        /\ hasMsgId' = [hasMsgId EXCEPT ![held[w]] = TRUE]
        /\ age' = [age EXCEPT ![held[w]] = 0]
        /\ UNCHANGED faults
     \/ Fault /\ UNCHANGED <<status, hasMsgId, age>>
  /\ EndTask(w)
  /\ UNCHANGED <<remote_id, hasFileId, retry_count,
                 stores, starting, due, callers, outside, crashes>>

-----------------------------------------------------------------------------
(* Stage 2: execute_stage2                                                 *)

\* run_stage_2_bot_fetch_file_id.  An unset group B or a missing message id
\* fails before the call; a forwarded message without a photo, and an answer
\* that is lost, fail after it.
Forward(w) ==
  /\ pc[w] = "forward"
  /\ \/ Goto(w, "mark_failed") /\ UNCHANGED <<forwardsB, orphanB>>
     \/ /\ Groups # "none" /\ hasMsgId[held[w]]
        /\ forwardsB' = AddOne(forwardsB, held[w])
        /\ \/ Goto(w, "persist_stage2") /\ UNCHANGED orphanB
           \/ Goto(w, "mark_failed") /\ orphanB' = AddOne(orphanB, held[w])
  /\ UNCHANGED <<rows, stores, held, starting, due, callers,
                 albumsA, orphanA, faults, crashes>>

\* persist_stage2_marker: writes file_id WHERE status = 'stage2_running'.
PersistStage2(w) ==
  /\ pc[w] = "persist_stage2"
  /\ \/ /\ IF status[held[w]] = "stage2_running"
           THEN /\ hasFileId' = [hasFileId EXCEPT ![held[w]] = TRUE]
                /\ age' = [age EXCEPT ![held[w]] = 0]
           ELSE UNCHANGED <<hasFileId, age>>
        /\ Goto(w, "save_mapping")
        /\ UNCHANGED <<held, orphanB, faults>>
     \/ /\ Fault
        /\ orphanB' = AddOne(orphanB, held[w])
        /\ EndTask(w)
        /\ UNCHANGED <<hasFileId, age>>
  /\ UNCHANGED <<status, remote_id, hasMsgId, retry_count, stores, starting, due,
                 callers, albumsA, forwardsB, orphanA, crashes>>

\* save_mapping: INSERT OR IGNORE; an error is only logged.
SaveMapping(w) ==
  /\ pc[w] = "save_mapping"
  /\ \/ /\ mapped' = mapped \cup {remote_id[held[w]]}
        /\ UNCHANGED faults
     \/ Fault /\ UNCHANGED mapped
  /\ Goto(w, "mark_forwarded")
  /\ UNCHANGED <<rows, shown, held, starting, due, callers, outside, crashes>>

\* mark_task_forwarded, by id alone; an error is left to the recovery scan.
MarkForwarded(w) ==
  /\ pc[w] = "mark_forwarded"
  /\ \/ /\ status' = [status EXCEPT ![held[w]] = "forwarded"]
        /\ hasFileId' = [hasFileId EXCEPT ![held[w]] = TRUE]
        /\ age' = [age EXCEPT ![held[w]] = 0]
        /\ UNCHANGED faults
     \/ Fault /\ UNCHANGED <<status, hasFileId, age>>
  /\ EndTask(w)
  /\ UNCHANGED <<remote_id, hasMsgId, retry_count,
                 stores, starting, due, callers, outside, crashes>>

-----------------------------------------------------------------------------
\* mark_task_failed, of either stage: one transaction that counts the failure
\* and, at the limit, clears the image of every resource that shows it and
\* deletes the row.  The transaction may fail as a whole.
FailWithLimit(w, limit) ==
  /\ pc[w] = "mark_failed"
  /\ LET r == held[w]
         n == retry_count[r] + 1
     IN \/ /\ retry_count' = [retry_count EXCEPT ![r] = n]
           /\ status' = [status EXCEPT ![r] = IF n >= limit THEN "deleted" ELSE "failed"]
           /\ age' = [age EXCEPT ![r] = 0]
           /\ shown' = IF n >= limit THEN shown \ {remote_id[r]} ELSE shown
           /\ UNCHANGED faults
        \/ Fault /\ UNCHANGED <<status, retry_count, age, shown>>
  /\ EndTask(w)
  /\ UNCHANGED <<remote_id, hasMsgId, hasFileId, mapped,
                 starting, due, callers, outside, crashes>>

\* Mutants: the limit is off by one.
MarkFailedEarly(w) == FailWithLimit(w, MaxRetries - 1)
MarkFailedLate(w)  == FailWithLimit(w, MaxRetries + 1)

MarkFailed(w) == FailWithLimit(w, MaxRetries)

-----------------------------------------------------------------------------
(* The process and the clock                                               *)

InFlight(at, r) == \E w \in Workers : pc[w] = at /\ held[w] = r

\* The process dies (or stop_forward_scheduler aborts its workers) and starts
\* again.  A call that was made but whose receipt was not stored is an orphan.
Crash ==
  /\ crashes < MaxCrashes
  /\ crashes' = crashes + 1
  /\ pc' = [w \in Workers |-> NextTick(w)]
  /\ held' = [w \in Workers |-> 0]
  /\ starting' = TRUE
  /\ due' = [r \in Ids |-> "none"]
  /\ prod' = [p \in Producers |-> "idle"]
  /\ want' = [p \in Producers |-> NoImage]
  /\ orphanA' = [r \in Ids |-> orphanA[r] + IF InFlight("persist_stage1", r) THEN 1 ELSE 0]
  /\ orphanB' = [r \in Ids |-> orphanB[r] + IF InFlight("persist_stage2", r) THEN 1 ELSE 0]
  /\ UNCHANGED <<rows, stores, albumsA, forwardsB, faults>>

\* Time passes: a running row grows stuck, a failed row leaves its back-off.
\* Only worker A reads the age, between two tasks: the time its own task takes
\* is counted when it is over.
Age(r) ==
  /\ held["A"] # r
  /\ \/ status[r] \in Running /\ age[r] < 2
     \/ status[r] = "failed" /\ age[r] < 1
  /\ age' = [age EXCEPT ![r] = @ + 1]
  /\ UNCHANGED <<status, remote_id, hasMsgId, hasFileId, retry_count,
                 stores, workers, callers, outside, faults, crashes>>

-----------------------------------------------------------------------------
Recover == \/ RecoverUnsent \/ RecoverSent \/ RecoverStage2
           \/ RecoverMapping \/ RecoverForwarded \/ RecoverAborts

Stage1(w) == SendAlbum(w) \/ PersistStage1(w) \/ MarkAwaitingBot(w)
Stage2(w) == Forward(w) \/ PersistStage2(w) \/ SaveMapping(w) \/ MarkForwarded(w)

\* One task, from the fetch of its row to its end.
Task(w) == \/ FetchAwaitingBot(w) \/ FetchPending(w) \/ FetchFails(w)
           \/ Stage1(w) \/ Stage2(w) \/ MarkFailed(w)

\* A tick of worker A scans, revives and runs one task; B only runs tasks.
WorkerA == Recover \/ SelectFailed \/ (\E r \in Ids : Revive(r)) \/ Task("A")
WorkerB == \E w \in Workers \ {"A"} : Task(w)

Admin == RetryAllFailed \/ \E r \in Ids : RetryTask(r)

Next == \/ WorkerA
        \/ WorkerB
        \/ Enqueue
        \/ Admin
        \/ Crash
        \/ \E r \in Ids : Age(r)

Spec == Init /\ [][Next]_vars

\* The tokio timers drive both workers, and time passes; nobody is bound to
\* call enqueue or to retry by hand.
Fairness == /\ WF_vars(WorkerA)
            /\ WF_vars(WorkerB)
            /\ \A r \in Ids : WF_vars(Age(r))

FairSpec == Spec /\ Fairness

-----------------------------------------------------------------------------
(* Properties *)

One(b) == IF b THEN 1 ELSE 0

\* SC-001, with crashes and lost answers: every copy of an image in group A is
\* either the one whose message id the row keeps, one whose receipt is still
\* on its way to the row, or the orphan of a receipt that was lost.  So a row
\* that knows its message id is never posted again.
AlbumCopiesAccounted ==
  \A r \in Ids :
    albumsA[r] = orphanA[r] + One(hasMsgId[r]) + One(InFlight("persist_stage1", r))

\* SC-002 in single mode: the same for the forwards to group B and file_id.
ForwardCopiesAccounted ==
  ~Dual => \A r \in Ids :
    forwardsB[r] = orphanB[r] + One(hasFileId[r]) + One(InFlight("persist_stage2", r))

\* SC-004: the two workers never work on the same row.
WorkersDisjoint ==
  \A v, w \in Workers : v # w /\ held[v] # 0 => held[v] # held[w]

\* Stage 2 never meets a row without the message it is to forward, whichever
\* of the seven statements that set awaiting_bot sent the row there.
BotStageHasMessage ==
  \A r \in Ids : status[r] \in {"awaiting_bot", "stage2_running", "forwarded"} => hasMsgId[r]

\* The image of a resource is cleared only by the failure that uses up the
\* attempts of a row of that image, and (single mode) of one never delivered.
ClearedOnlyByDeadLetter ==
  [][\A i \in shown \ shown' :
       \E r \in Ids : /\ remote_id[r] = i
                      /\ status[r] \in Live /\ status'[r] = "deleted"
                      /\ retry_count[r] = MaxRetries - 1
                      /\ Dual \/ ~hasFileId[r]]_vars

\* Every row that was queued is eventually forwarded or given up: nothing stays
\* stuck after a crash or a failing statement, and in single mode, where one
\* worker serves the rows of both stages, neither stage starves the other (SC-003).
Settles ==
  \A r \in Ids : []<>(status[r] \in {"free", "forwarded", "deleted"})

\* A row of single mode is one delivery of the abstract specification: its
\* receipts give its phase.
Phase == [r \in Ids |-> CASE status[r] = "free"    -> "absent"
                          [] status[r] = "deleted" -> "dropped"
                          [] status[r] \notin {"free", "deleted"} /\ hasFileId[r] -> "delivered"
                          [] status[r] \notin {"free", "deleted"} /\ ~hasFileId[r] /\ hasMsgId[r] -> "posted"
                          [] OTHER -> "queued"]

Delivery == INSTANCE ImageDelivery
              WITH Items <- Ids, MaxTries <- MaxRetries,
                   phase <- Phase, tries <- retry_count

ImplementsDelivery == Delivery!Spec

=============================================================================
