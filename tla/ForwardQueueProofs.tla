------------------------- MODULE ForwardQueueProofs -------------------------
(***************************************************************************)
(* Proofs about the image forward queue, for every set of images and       *)
(* producers, every configuration of the groups and every bound.           *)
(*                                                                         *)
(* The inductive invariant says, of every row, which receipts its status   *)
(* allows; of every worker, which row it holds and in which status that    *)
(* row can be (worker B's row can be moved under it by the recovery scan   *)
(* and by a late revival, never to pending or stage1_running); and of the  *)
(* revival list, that its targets agree with the receipts.                 *)
(*                                                                         *)
(* The proofs about the push configurations follow.                        *)
(***************************************************************************)
EXTENDS ForwardQueue, PushConfigs, TLAPS

BotStatus == {"awaiting_bot", "stage2_running", "forwarded"}

\* What a row's status says about its columns.
RowInv ==
  \A r \in Ids :
    /\ status[r] \in {"free", "pending"} => ~hasMsgId[r]
    /\ status[r] \in BotStatus => hasMsgId[r]
    /\ status[r] # "free" => remote_id[r] \in Images
    /\ status[r] # "deleted" => retry_count[r] < MaxRetries

\* An enqueue call past its first check knows its image.
CallInv == \A p \in Producers : prod[p] # "idle" => want[p] \in Images

\* Where each worker can be, and what it knows of the row it holds.
HeldInvA ==
  /\ pc["A"] \in Stage1Pcs \cup {"mark_failed"} \cup Stage2Pcs => held["A"] \in Ids
  /\ pc["A"] \notin Stage1Pcs \cup {"mark_failed"} \cup Stage2Pcs => held["A"] = 0
  /\ pc["A"] \in Stage1Pcs => status[held["A"]] = "stage1_running"
  /\ pc["A"] \in {"send_album", "persist_stage1"} => ~hasMsgId[held["A"]]
  /\ pc["A"] = "mark_awaiting" => hasMsgId[held["A"]]
  /\ pc["A"] \in Stage2Pcs => status[held["A"]] = "stage2_running"
  /\ pc["A"] = "mark_failed" => status[held["A"]] \in Running
  /\ Dual => /\ pc["A"] \notin Stage2Pcs \cup {"fetch_awaiting"}
             /\ pc["A"] = "mark_failed" => status[held["A"]] = "stage1_running"

HeldInvB ==
  Dual => /\ pc["B"] \in {"fetch_awaiting", "mark_failed"} \cup Stage2Pcs
          /\ pc["B"] = "fetch_awaiting" => held["B"] = 0
          /\ pc["B"] # "fetch_awaiting" => /\ held["B"] \in Ids
                                           /\ status[held["B"]] \in BotStatus

\* The revival list holds rows only while worker A goes through it.
DueInv ==
  \A r \in Ids :
    /\ due[r] # "none" => pc["A"] = "revive"
    /\ due[r] = "pending" => status[r] \in {"failed", "pending"} /\ ~hasMsgId[r]
    /\ due[r] = "awaiting_bot" => /\ status[r] \in BotStatus \cup {"failed", "deleted"}
                                  /\ hasMsgId[r]

\* AlbumCopiesAccounted, knowing that only worker A posts albums.
AlbumInv ==
  \A r \in Ids :
    albumsA[r] = orphanA[r] + One(hasMsgId[r])
                 + One(pc["A"] = "persist_stage1" /\ held["A"] = r)

IInv == TypeOK /\ RowInv /\ CallInv /\ HeldInvA /\ HeldInvB /\ DueInv /\ AlbumInv

\* The workers are A and, in dual mode, B; 0 is the id of no row.
LEMMA Names ==
  /\ "A" \in Workers
  /\ Dual => "B" \in Workers
  /\ \A w \in Workers : w = "A" \/ (w = "B" /\ Dual)
  /\ 0 \notin Ids
BY BoundAssumption DEF Workers, Ids

\* Only worker A runs stage 1, and the row it then holds is stage1_running.
LEMMA Stage1Row ==
  ASSUME IInv, NEW w \in Workers, pc[w] \in Stage1Pcs
  PROVE  /\ w = "A"
         /\ held[w] \in Ids
         /\ status[held[w]] = "stage1_running"
BY Names DEF IInv, HeldInvA, HeldInvB, Stage1Pcs, Stage2Pcs

\* A worker in stage 2 holds a row whose message was posted to group A.
LEMMA Stage2Row ==
  ASSUME IInv, NEW w \in Workers, pc[w] \in Stage2Pcs
  PROVE  /\ held[w] \in Ids
         /\ status[held[w]] \in BotStatus
<1>1. CASE w = "A" BY <1>1 DEF IInv, HeldInvA, BotStatus
<1>2. CASE w = "B" /\ Dual BY <1>2 DEF IInv, HeldInvB, Stage2Pcs
<1> QED BY <1>1, <1>2, Names

\* The one album whose receipt is on its way is worker A's.
LEMMA AlbumInFlight ==
  ASSUME IInv, NEW r \in Ids
  PROVE  InFlight("persist_stage1", r) <=> pc["A"] = "persist_stage1" /\ held["A"] = r
BY Names DEF IInv, HeldInvB, InFlight, Stage2Pcs

\* A worker that is to count a failure holds a row, in a live status.
LEMMA FailedRow ==
  ASSUME IInv, NEW w \in Workers, pc[w] = "mark_failed"
  PROVE  /\ held[w] \in Ids
         /\ status[held[w]] \in Running \cup BotStatus
<1>1. CASE w = "A" BY <1>1 DEF IInv, HeldInvA
<1>2. CASE w = "B" /\ Dual BY <1>2 DEF IInv, HeldInvB
<1> QED BY <1>1, <1>2, Names

\* enqueue's first check only moves the caller, who now knows its image.
LEMMA KeepEnqueueCheckMapping ==
  ASSUME NEW p \in Producers, NEW i \in Images, IInv, EnqueueCheckMapping(p, i)
  PROVE  IInv'
<1>1. /\ TypeRows' /\ TypeWorkers' /\ TypeOutside' /\ TypeBounds' /\ RowInv'
      /\ HeldInvA' /\ HeldInvB' /\ DueInv' /\ AlbumInv'
  BY DEF IInv, TypeOK, TypeRows, TypeWorkers, TypeOutside, TypeBounds, RowInv,
           HeldInvA, HeldInvB, DueInv, AlbumInv, EnqueueCheckMapping, rows,
           stores, workers, callers, outside
<1>2. TypeStores'
  BY DEF IInv, TypeOK, TypeStores, EnqueueCheckMapping
<1>3. TypeCallers'
  BY DEF IInv, TypeOK, TypeCallers, EnqueueCheckMapping, rows, callers,
           outside
<1>4. CallInv'
  BY DEF IInv, TypeOK, TypeCallers, CallInv, EnqueueCheckMapping, rows,
           callers, outside
<1> QED BY <1>1, <1>2, <1>3, <1>4 DEF IInv, TypeOK

\* enqueue's second check only moves the caller.
LEMMA KeepEnqueueCheckQueue ==
  ASSUME NEW p \in Producers, IInv, EnqueueCheckQueue(p)
  PROVE  IInv'
<1>1. /\ TypeRows' /\ TypeStores' /\ TypeWorkers' /\ TypeOutside'
      /\ TypeBounds' /\ RowInv' /\ HeldInvA' /\ HeldInvB' /\ DueInv'
      /\ AlbumInv'
  BY DEF IInv, TypeOK, TypeRows, TypeStores, TypeWorkers, TypeOutside,
           TypeBounds, RowInv, HeldInvA, HeldInvB, DueInv, AlbumInv,
           EnqueueCheckQueue, rows, stores, workers, callers, outside
<1>2. TypeCallers'
  BY DEF IInv, TypeOK, TypeCallers, EnqueueCheckQueue
<1>3. CallInv'
  BY DEF IInv, TypeOK, TypeCallers, CallInv, EnqueueCheckQueue
<1> QED BY <1>1, <1>2, <1>3 DEF IInv, TypeOK

\* The INSERT takes a free id: no worker holds it, it has no receipt.
LEMMA KeepEnqueueInsert ==
  ASSUME NEW p \in Producers, IInv, EnqueueInsert(p)
  PROVE  IInv'
<1>1. TypeStores' /\ TypeWorkers' /\ TypeOutside' /\ TypeBounds'
  BY DEF IInv, TypeOK, TypeStores, TypeWorkers, TypeOutside, TypeBounds,
           EnqueueInsert, IsFirst, rows, stores, workers, callers, outside
<1>2. TypeRows'
  BY DEF IInv, TypeOK, TypeRows, Status, Live, TypeCallers, EnqueueInsert,
           IsFirst
<1>3. TypeCallers'
  BY DEF IInv, TypeOK, TypeCallers, EnqueueInsert, IsFirst
<1>4. RowInv'
  BY DEF IInv, TypeOK, TypeRows, BotStatus, RowInv, CallInv, EnqueueInsert,
           IsFirst
<1>5. CallInv'
  BY DEF IInv, TypeOK, TypeCallers, CallInv, EnqueueInsert, IsFirst
<1>6. HeldInvA'
  BY DEF IInv, TypeOK, Live, Running, HeldInvA, EnqueueInsert, IsFirst,
           stores, workers
<1>7. HeldInvB'
  BY DEF IInv, TypeOK, BotStatus, HeldInvB, EnqueueInsert, IsFirst, stores,
           workers
<1>8. DueInv'
  BY DEF IInv, TypeOK, BotStatus, DueInv, EnqueueInsert, IsFirst, stores,
           workers
<1>9. AlbumInv'
  BY DEF IInv, TypeOK, AlbumInv, One, EnqueueInsert, IsFirst, rows, stores,
           workers, callers, outside
<1> QED BY <1>1, <1>2, <1>3, <1>4, <1>5, <1>6, <1>7, <1>8, <1>9
    DEF IInv, TypeOK

\* A failing statement of enqueue only ends the call.
LEMMA KeepEnqueueFails ==
  ASSUME NEW p \in Producers, IInv, EnqueueFails(p)
  PROVE  IInv'
<1>1. /\ TypeRows' /\ TypeStores' /\ TypeWorkers' /\ TypeOutside' /\ RowInv'
      /\ HeldInvA' /\ HeldInvB' /\ DueInv' /\ AlbumInv'
  BY DEF IInv, TypeOK, TypeRows, TypeStores, TypeWorkers, TypeOutside, RowInv,
           HeldInvA, HeldInvB, DueInv, AlbumInv, EnqueueFails, rows, stores,
           workers, callers, outside
<1>2. TypeCallers'
  BY DEF IInv, TypeOK, TypeCallers, EnqueueFails
<1>3. TypeBounds'
  BY BoundAssumption DEF IInv, TypeOK, TypeBounds, EnqueueFails, Fault
<1>4. CallInv'
  BY DEF IInv, TypeOK, TypeCallers, CallInv, EnqueueFails
<1> QED BY <1>1, <1>2, <1>3, <1>4 DEF IInv, TypeOK

\* The scan sends back to pending only rows without a message, none of
\* which a worker holds.
LEMMA KeepRecoverUnsent ==
  ASSUME IInv, RecoverUnsent
  PROVE  IInv'
<1>1. TypeStores' /\ TypeCallers' /\ TypeOutside' /\ TypeBounds' /\ CallInv'
  BY DEF IInv, TypeOK, TypeStores, TypeCallers, TypeOutside, TypeBounds,
           CallInv, RecoverUnsent, RecoverUpdate, rows, stores, workers,
           callers, outside
<1>2. TypeRows'
  BY DEF IInv, TypeOK, TypeRows, Status, Live, RecoverUnsent, RecoverUpdate,
           Move
<1>3. TypeWorkers'
  BY DEF IInv, TypeOK, TypeWorkers, Pcs, RecoverPcs, RecoverUnsent,
           RecoverUpdate, Goto
<1>4. RowInv'
  BY DEF IInv, TypeOK, BotStatus, RowInv, RecoverUnsent, RecoverUpdate, Move
<1>5. HeldInvA'
  BY DEF IInv, TypeOK, Pcs, Stage1Pcs, Stage2Pcs, HeldInvA, RecoverUnsent,
           RecoverUpdate, Goto
<1>6. HeldInvB'
  BY DEF IInv, TypeOK, BotStatus, HeldInvB, RecoverUnsent, RecoverUpdate,
           Move, Goto
<1>7. DueInv'
  BY DEF IInv, TypeOK, DueInv, RecoverUnsent, RecoverUpdate
<1>8. AlbumInv'
  BY DEF IInv, TypeOK, AlbumInv, One, RecoverUnsent, RecoverUpdate, Move,
           Goto, rows, callers, outside
<1> QED BY <1>1, <1>2, <1>3, <1>4, <1>5, <1>6, <1>7, <1>8 DEF IInv, TypeOK

\* The scan sends a row with its message to stage 2, and duplicates none.
LEMMA KeepRecoverSent ==
  ASSUME IInv, RecoverSent
  PROVE  IInv'
<1>1. TypeStores' /\ TypeCallers' /\ TypeOutside' /\ TypeBounds' /\ CallInv'
  BY DEF IInv, TypeOK, TypeStores, TypeCallers, TypeOutside, TypeBounds,
           CallInv, RecoverSent, RecoverUpdate, rows, stores, workers,
           callers, outside
<1>2. TypeRows'
  BY DEF IInv, TypeOK, TypeRows, Status, Live, RecoverSent, RecoverUpdate,
           Move
<1>3. TypeWorkers'
  BY DEF IInv, TypeOK, TypeWorkers, Pcs, RecoverPcs, RecoverSent,
           RecoverUpdate, Goto
<1>4. RowInv'
  BY DEF IInv, TypeOK, RowInv, RecoverSent, RecoverUpdate, Move
<1>5. HeldInvA'
  BY DEF IInv, TypeOK, Pcs, Stage1Pcs, Stage2Pcs, HeldInvA, RecoverSent,
           RecoverUpdate, Goto
<1>6. HeldInvB'
  BY DEF IInv, TypeOK, BotStatus, HeldInvB, RecoverSent, RecoverUpdate, Move,
           Goto
<1>7. DueInv'
  BY DEF IInv, TypeOK, DueInv, RecoverSent, RecoverUpdate
<1>8. AlbumInv'
  BY DEF IInv, TypeOK, AlbumInv, One, RecoverSent, RecoverUpdate, Move, Goto,
           rows, callers, outside
<1> QED BY <1>1, <1>2, <1>3, <1>4, <1>5, <1>6, <1>7, <1>8 DEF IInv, TypeOK

\* The scan may move the row worker B holds, but keeps it in a status of
\* stage 2.
LEMMA KeepRecoverStage2 ==
  ASSUME IInv, RecoverStage2
  PROVE  IInv'
<1>1. TypeStores' /\ TypeCallers' /\ TypeOutside' /\ TypeBounds' /\ CallInv'
  BY DEF IInv, TypeOK, TypeStores, TypeCallers, TypeOutside, TypeBounds,
           CallInv, RecoverStage2, RecoverUpdate, rows, stores, workers,
           callers, outside
<1>2. TypeRows'
  BY DEF IInv, TypeOK, TypeRows, Status, Live, RecoverStage2, RecoverUpdate,
           Move
<1>3. TypeWorkers'
  BY DEF IInv, TypeOK, TypeWorkers, Pcs, RecoverPcs, RecoverStage2,
           RecoverUpdate, Goto
<1>4. RowInv'
  BY DEF IInv, TypeOK, BotStatus, RowInv, RecoverStage2, RecoverUpdate, Move
<1>5. HeldInvA'
  BY DEF IInv, TypeOK, Pcs, Stage1Pcs, Stage2Pcs, HeldInvA, RecoverStage2,
           RecoverUpdate, Goto
<1>6. HeldInvB'
  BY DEF IInv, TypeOK, BotStatus, HeldInvB, RecoverStage2, RecoverUpdate,
           Move, Goto
<1>7. DueInv'
  BY DEF IInv, TypeOK, DueInv, RecoverStage2, RecoverUpdate
<1>8. AlbumInv'
  BY DEF IInv, TypeOK, AlbumInv, One, RecoverStage2, RecoverUpdate, Move,
           Goto, rows, callers, outside
<1> QED BY <1>1, <1>2, <1>3, <1>4, <1>5, <1>6, <1>7, <1>8 DEF IInv, TypeOK

\* The scan's mappings are of images of rows.
LEMMA KeepRecoverMapping ==
  ASSUME IInv, RecoverMapping
  PROVE  IInv'
<1>1. TypeRows' /\ TypeCallers' /\ TypeOutside' /\ RowInv' /\ CallInv'
  BY DEF IInv, TypeOK, TypeRows, TypeCallers, TypeOutside, RowInv, CallInv,
           RecoverMapping, ForwardedButRunning, rows, callers, outside
<1>2. TypeStores'
  BY DEF IInv, TypeOK, TypeStores, RowInv, RecoverMapping, ForwardedButRunning
<1>3. TypeWorkers'
  BY DEF IInv, TypeOK, TypeWorkers, Pcs, RecoverPcs, RecoverMapping, Goto,
           ForwardedButRunning
<1>4. TypeBounds'
  BY BoundAssumption
       DEF IInv, TypeOK, TypeBounds, RecoverMapping, Fault,
           ForwardedButRunning
<1>5. HeldInvA'
  BY DEF IInv, TypeOK, Pcs, Stage1Pcs, Stage2Pcs, HeldInvA, RecoverMapping,
           Goto, ForwardedButRunning
<1>6. HeldInvB'
  BY DEF IInv, TypeOK, HeldInvB, RecoverMapping, Goto, ForwardedButRunning,
           rows, callers, outside
<1>7. DueInv'
  BY DEF IInv, TypeOK, DueInv, RecoverMapping, ForwardedButRunning
<1>8. AlbumInv'
  BY DEF IInv, TypeOK, AlbumInv, One, RecoverMapping, Goto,
           ForwardedButRunning, rows, callers, outside
<1> QED BY <1>1, <1>2, <1>3, <1>4, <1>5, <1>6, <1>7, <1>8 DEF IInv, TypeOK

\* The scan marks as forwarded only rows of stage 2.
LEMMA KeepRecoverForwarded ==
  ASSUME IInv, RecoverForwarded
  PROVE  IInv'
<1>1. TypeStores' /\ TypeCallers' /\ TypeOutside' /\ TypeBounds' /\ CallInv'
  BY DEF IInv, TypeOK, TypeStores, TypeCallers, TypeOutside, TypeBounds,
           CallInv, RecoverForwarded, ForwardedButRunning, RecoverReturns,
           rows, stores, workers, callers, outside
<1>2. TypeRows'
  BY DEF IInv, TypeOK, TypeRows, Status, Live, RecoverForwarded,
           ForwardedButRunning, Move, RecoverReturns
<1>3. TypeWorkers'
  BY DEF IInv, TypeOK, TypeWorkers, Pcs, RecoverPcs, RecoverForwarded,
           ForwardedButRunning, RecoverReturns, Goto
<1>4. RowInv'
  BY DEF IInv, TypeOK, BotStatus, RowInv, RecoverForwarded,
           ForwardedButRunning, Move, RecoverReturns
<1>5. HeldInvA'
  BY DEF IInv, TypeOK, Pcs, Stage1Pcs, Stage2Pcs, HeldInvA, RecoverForwarded,
           ForwardedButRunning, RecoverReturns, Goto
<1>6. HeldInvB'
  BY Names
       DEF IInv, TypeOK, BotStatus, HeldInvB, RecoverForwarded,
           ForwardedButRunning, Move, RecoverReturns, Goto
<1>7. DueInv'
  BY DEF IInv, TypeOK, DueInv, RecoverForwarded, ForwardedButRunning,
           RecoverReturns
<1>8. AlbumInv'
  BY DEF IInv, TypeOK, AlbumInv, One, RecoverForwarded, ForwardedButRunning,
           Move, RecoverReturns, Goto, rows, callers, outside
<1> QED BY <1>1, <1>2, <1>3, <1>4, <1>5, <1>6, <1>7, <1>8 DEF IInv, TypeOK

\* An aborted scan changes no row.
LEMMA KeepRecoverAborts ==
  ASSUME IInv, RecoverAborts
  PROVE  IInv'
<1>1. /\ TypeRows' /\ TypeStores' /\ TypeCallers' /\ TypeOutside' /\ RowInv'
      /\ CallInv'
  BY DEF IInv, TypeOK, TypeRows, TypeStores, TypeCallers, TypeOutside, RowInv,
           CallInv, RecoverAborts, RecoverReturns, rows, stores, workers,
           callers, outside
<1>2. TypeWorkers'
  BY DEF IInv, TypeOK, TypeWorkers, Pcs, RecoverPcs, RecoverAborts,
           RecoverReturns, Goto
<1>3. TypeBounds'
  BY BoundAssumption
       DEF IInv, TypeOK, TypeBounds, RecoverAborts, Fault, RecoverReturns
<1>4. HeldInvA'
  BY DEF IInv, TypeOK, Pcs, RecoverPcs, Stage1Pcs, Stage2Pcs, HeldInvA,
           RecoverAborts, RecoverReturns, Goto
<1>5. HeldInvB'
  BY DEF IInv, TypeOK, HeldInvB, RecoverAborts, RecoverReturns, Goto, rows,
           callers, outside
<1>6. DueInv'
  BY DEF IInv, TypeOK, Pcs, RecoverPcs, DueInv, RecoverAborts, RecoverReturns
<1>7. AlbumInv'
  BY DEF IInv, TypeOK, AlbumInv, RecoverPcs, One, RecoverAborts,
           RecoverReturns, Goto, rows, callers, outside
<1> QED BY <1>1, <1>2, <1>3, <1>4, <1>5, <1>6, <1>7 DEF IInv, TypeOK

\* The targets of the SELECTed rows agree with their receipts.
LEMMA KeepSelectFailed ==
  ASSUME IInv, SelectFailed
  PROVE  IInv'
<1>1. /\ TypeRows' /\ TypeStores' /\ TypeCallers' /\ TypeOutside' /\ RowInv'
      /\ CallInv'
  BY DEF IInv, TypeOK, TypeRows, TypeStores, TypeCallers, TypeOutside, RowInv,
           CallInv, SelectFailed, FirstFetch, RetryTarget, rows, stores,
           workers, callers, outside
<1>2. TypeWorkers'
  BY DEF IInv, TypeOK, TypeWorkers, Pcs, SelectFailed, Goto, FirstFetch,
           RetryTarget
<1>3. TypeBounds'
  BY BoundAssumption
       DEF IInv, TypeOK, TypeBounds, SelectFailed, Fault, FirstFetch,
           RetryTarget
<1>4. HeldInvA'
  BY DEF IInv, TypeOK, TypeWorkers, Pcs, Stage1Pcs, Stage2Pcs, HeldInvA,
           SelectFailed, Goto, FirstFetch, RetryTarget
<1>5. HeldInvB'
  BY Names
       DEF IInv, TypeOK, TypeWorkers, HeldInvB, SelectFailed, Goto,
           FirstFetch, RetryTarget, rows, callers, outside
<1>6. DueInv'
  BY Names
       DEF IInv, TypeOK, TypeWorkers, DueInv, SelectFailed, Goto, FirstFetch,
           RetryTarget, rows, callers, outside
<1>7. AlbumInv'
  BY DEF IInv, TypeOK, TypeWorkers, AlbumInv, One, SelectFailed, Goto,
           FirstFetch, RetryTarget, rows, callers, outside
<1> QED BY <1>1, <1>2, <1>3, <1>4, <1>5, <1>6, <1>7 DEF IInv, TypeOK

\* A late revival writes a status its row's receipts allow, even when the
\* row was moved after the SELECT.
LEMMA KeepRevive ==
  ASSUME NEW r \in Ids, IInv, Revive(r)
  PROVE  IInv'
<1>1. TypeStores' /\ TypeCallers' /\ TypeOutside' /\ CallInv'
  BY DEF IInv, TypeOK, TypeStores, TypeCallers, TypeOutside, CallInv, Revive,
           FirstFetch, rows, stores, workers, callers, outside
<1>2. TypeRows'
  BY DEF IInv, TypeOK, TypeRows, Status, Live, TypeWorkers, Revive,
           FirstFetch, Move, rows, callers, outside
<1>3. TypeWorkers'
  BY DEF IInv, TypeOK, TypeWorkers, Pcs, Revive, Goto, FirstFetch
<1>4. TypeBounds'
  BY BoundAssumption DEF IInv, TypeOK, TypeBounds, Revive, Fault, FirstFetch
<1>5. RowInv'
  BY DEF IInv, TypeOK, BotStatus, RowInv, DueInv, TypeWorkers, Revive,
           FirstFetch, Move, rows, callers, outside
<1>6. HeldInvA'
  BY DEF IInv, TypeOK, Pcs, Stage1Pcs, Stage2Pcs, HeldInvA, Revive, Goto,
           FirstFetch
<1>7. HeldInvB'
  BY DEF IInv, TypeOK, BotStatus, TypeWorkers, HeldInvB, DueInv, Revive, Goto,
           FirstFetch, Move, rows, callers, outside
<1>8. DueInv'
  BY DEF IInv, TypeOK, TypeWorkers, DueInv, Revive, Goto, FirstFetch, Move,
           rows, callers, outside
<1>9. AlbumInv'
  BY DEF IInv, TypeOK, AlbumInv, One, Revive, Goto, FirstFetch, Move, rows,
           callers, outside
<1> QED BY <1>1, <1>2, <1>3, <1>4, <1>5, <1>6, <1>7, <1>8, <1>9
    DEF IInv, TypeOK

\* A retry by hand writes a status the row's receipts allow.
LEMMA KeepRetryTask ==
  ASSUME NEW r \in Ids, IInv, RetryTask(r)
  PROVE  IInv'
<1>1. /\ TypeStores' /\ TypeWorkers' /\ TypeCallers' /\ TypeOutside'
      /\ TypeBounds' /\ CallInv'
  BY DEF IInv, TypeOK, TypeStores, TypeWorkers, TypeCallers, TypeOutside,
           TypeBounds, CallInv, RetryTask, RetryTarget, rows, stores, workers,
           callers, outside
<1>2. TypeRows'
  BY DEF IInv, TypeOK, TypeRows, Status, Live, RetryTask, Move, RetryTarget
<1>3. RowInv'
  BY Names DEF IInv, TypeOK, BotStatus, RowInv, RetryTask, Move, RetryTarget
<1>4. HeldInvA'
  BY DEF IInv, TypeOK, Live, Running, HeldInvA, RetryTask, Move, RetryTarget,
           stores, workers
<1>5. HeldInvB'
  BY Names
       DEF IInv, TypeOK, BotStatus, HeldInvB, RetryTask, Move, RetryTarget,
           stores, workers
<1>6. DueInv'
  BY DEF IInv, TypeOK, BotStatus, DueInv, RetryTask, Move, RetryTarget,
           stores, workers
<1>7. AlbumInv'
  BY DEF IInv, TypeOK, AlbumInv, One, RetryTask, Move, RetryTarget, rows,
           stores, workers, callers, outside
<1> QED BY <1>1, <1>2, <1>3, <1>4, <1>5, <1>6, <1>7 DEF IInv, TypeOK

\* So does a retry of all failed rows.
LEMMA KeepRetryAllFailed ==
  ASSUME IInv, RetryAllFailed
  PROVE  IInv'
<1>1. /\ TypeStores' /\ TypeWorkers' /\ TypeCallers' /\ TypeOutside'
      /\ TypeBounds' /\ CallInv'
  BY DEF IInv, TypeOK, TypeStores, TypeWorkers, TypeCallers, TypeOutside,
           TypeBounds, CallInv, RetryAllFailed, RetryTarget, rows, stores,
           workers, callers, outside
<1>2. TypeRows'
  BY DEF IInv, TypeOK, TypeRows, Status, Live, RetryAllFailed, RetryTarget
<1>3. RowInv'
  BY DEF IInv, TypeOK, BotStatus, RowInv, RetryAllFailed, RetryTarget
<1>4. HeldInvA'
  BY DEF IInv, TypeOK, Live, Running, HeldInvA, RetryAllFailed, RetryTarget,
           stores, workers
<1>5. HeldInvB'
  BY DEF IInv, TypeOK, BotStatus, HeldInvB, RetryAllFailed, RetryTarget,
           stores, workers
<1>6. DueInv'
  BY DEF IInv, TypeOK, BotStatus, DueInv, RetryAllFailed, RetryTarget, stores,
           workers
<1>7. AlbumInv'
  BY DEF IInv, TypeOK, AlbumInv, One, RetryAllFailed, RetryTarget, rows,
           stores, workers, callers, outside
<1> QED BY <1>1, <1>2, <1>3, <1>4, <1>5, <1>6, <1>7 DEF IInv, TypeOK

\* A fetch for stage 2 takes a row no other worker holds.
LEMMA KeepFetchAwaitingBot ==
  ASSUME NEW w \in Workers, IInv, FetchAwaitingBot(w)
  PROVE  IInv'
<1>1. TypeStores' /\ TypeCallers' /\ TypeOutside' /\ TypeBounds' /\ CallInv'
  BY DEF IInv, TypeOK, TypeStores, TypeCallers, TypeOutside, TypeBounds,
           CallInv, FetchAwaitingBot, FetchRow, FetchNothing, IsFirst, Up,
           rows, stores, workers, callers, outside
<1>2. TypeRows'
  BY DEF IInv, TypeOK, TypeRows, Status, Live, Running, FetchAwaitingBot,
           FetchRow, FetchNothing, IsFirst, Move, Up, rows, callers, outside
<1>3. TypeWorkers'
  BY DEF IInv, TypeOK, TypeWorkers, Pcs, Stage2Pcs, FetchAwaitingBot,
           FetchRow, FetchNothing, IsFirst, Goto, Up
<1>4. RowInv'
  BY DEF IInv, TypeOK, BotStatus, RowInv, FetchAwaitingBot, FetchRow,
           FetchNothing, IsFirst, Move, Up, rows, callers, outside
<1>5. HeldInvA'
  BY Names
       DEF IInv, TypeOK, TypeWorkers, Pcs, Stage1Pcs, Stage2Pcs, HeldInvA,
           HeldInvB, FetchAwaitingBot, FetchRow, FetchNothing, IsFirst, Move,
           Goto, Up
<1>6. HeldInvB'
  BY Names
       DEF IInv, TypeOK, BotStatus, TypeWorkers, Pcs, Stage2Pcs, HeldInvB,
           FetchAwaitingBot, FetchRow, FetchNothing, IsFirst, Move, Goto, Up,
           rows, callers, outside
<1>7. DueInv'
  BY Names
       DEF IInv, TypeOK, BotStatus, TypeWorkers, DueInv, FetchAwaitingBot,
           FetchRow, FetchNothing, IsFirst, Move, Goto, Up
<1>8. AlbumInv'
  BY Names
       DEF IInv, TypeOK, TypeWorkers, AlbumInv, One, FetchAwaitingBot,
           FetchRow, FetchNothing, IsFirst, Move, Goto, Up, rows, callers,
           outside
<1> QED BY <1>1, <1>2, <1>3, <1>4, <1>5, <1>6, <1>7, <1>8 DEF IInv, TypeOK

\* A fetch for stage 1 takes a row without a message.
LEMMA KeepFetchPending ==
  ASSUME NEW w \in Workers, IInv, FetchPending(w)
  PROVE  IInv'
<1>1. w = "A" BY Names
    DEF IInv, HeldInvB, Stage2Pcs, Up, FetchPending, FetchRow, FetchNothing
<1>2. TypeStores' /\ TypeCallers' /\ TypeOutside' /\ TypeBounds' /\ CallInv'
  BY DEF IInv, TypeOK, TypeStores, TypeCallers, TypeOutside, TypeBounds,
           CallInv, FetchPending, FetchRow, FetchNothing, IsFirst, Up, rows,
           stores, workers, callers, outside
<1>3. TypeRows'
  BY DEF IInv, TypeOK, TypeRows, Status, Live, Running, FetchPending,
           FetchRow, FetchNothing, IsFirst, Move, Up, rows, callers, outside
<1>4. TypeWorkers'
  BY DEF IInv, TypeOK, TypeWorkers, Pcs, RecoverPcs, Stage1Pcs, FetchPending,
           FetchRow, FetchNothing, IsFirst, Goto, Up, NextTick
<1>5. RowInv'
  BY DEF IInv, TypeOK, BotStatus, RowInv, FetchPending, FetchRow,
           FetchNothing, IsFirst, Move, Up, rows, callers, outside
<1>6. HeldInvA'
  BY <1>1
       DEF IInv, TypeOK, TypeWorkers, Pcs, Stage1Pcs, Stage2Pcs, HeldInvA,
           RowInv, FetchPending, FetchRow, FetchNothing, IsFirst, Move, Goto,
           Up, NextTick
<1>7. HeldInvB'
  BY Names
       DEF IInv, TypeOK, BotStatus, TypeWorkers, Pcs, Stage2Pcs, HeldInvB,
           FetchPending, FetchRow, FetchNothing, IsFirst, Move, Goto, Up,
           NextTick, rows, callers, outside
<1>8. DueInv'
  BY <1>1
       DEF IInv, TypeOK, DueInv, FetchPending, FetchRow, FetchNothing,
           IsFirst, Up
<1>9. AlbumInv'
  BY <1>1
       DEF IInv, TypeOK, TypeWorkers, AlbumInv, One, FetchPending, FetchRow,
           FetchNothing, IsFirst, Move, Goto, Up, NextTick, rows, callers,
           outside
<1> QED BY <1>2, <1>3, <1>4, <1>5, <1>6, <1>7, <1>8, <1>9 DEF IInv, TypeOK

\* A failing fetch leaves the worker without a row.
LEMMA KeepFetchFails ==
  ASSUME NEW w \in Workers, IInv, FetchFails(w)
  PROVE  IInv'
<1>1. /\ TypeRows' /\ TypeStores' /\ TypeCallers' /\ TypeOutside' /\ RowInv'
      /\ CallInv'
  BY DEF IInv, TypeOK, TypeRows, TypeStores, TypeCallers, TypeOutside, RowInv,
           CallInv, FetchFails, Up, rows, stores, workers, callers, outside
<1>2. TypeWorkers'
  BY DEF IInv, TypeOK, TypeWorkers, Pcs, RecoverPcs, FetchFails, Goto,
           NextTick, Up
<1>3. TypeBounds'
  BY BoundAssumption DEF IInv, TypeOK, TypeBounds, FetchFails, Fault, Up
<1>4. HeldInvA'
  BY DEF IInv, TypeOK, Pcs, Stage1Pcs, Stage2Pcs, HeldInvA, FetchFails, Goto,
           NextTick, Up, rows, callers, outside
<1>5. HeldInvB'
  BY DEF IInv, TypeOK, Pcs, Stage2Pcs, HeldInvB, FetchFails, Goto, NextTick,
           Up, rows, callers, outside
<1>6. DueInv'
  BY DEF IInv, TypeOK, DueInv, FetchFails, Goto, NextTick, Up, rows, callers,
           outside
<1>7. AlbumInv'
  BY DEF IInv, TypeOK, AlbumInv, One, FetchFails, Goto, NextTick, Up, rows,
           callers, outside
<1> QED BY <1>1, <1>2, <1>3, <1>4, <1>5, <1>6, <1>7 DEF IInv, TypeOK

\* The posted album is in flight, or its receipt is lost.
LEMMA KeepSendAlbum ==
  ASSUME NEW w \in Workers, IInv, SendAlbum(w)
  PROVE  IInv'
<1>1. w = "A" /\ held[w] \in Ids /\ status[held[w]] = "stage1_running"
  BY Stage1Row DEF Stage1Pcs, SendAlbum
<1>2. /\ TypeRows' /\ TypeStores' /\ TypeCallers' /\ TypeBounds' /\ RowInv'
      /\ CallInv'
  BY DEF IInv, TypeOK, TypeRows, TypeStores, TypeCallers, TypeBounds, RowInv,
           CallInv, SendAlbum, AddOne, rows, stores, workers, callers, outside
<1>3. TypeWorkers'
  BY DEF IInv, TypeOK, TypeWorkers, Pcs, Stage1Pcs, SendAlbum, AddOne, Goto
<1>4. TypeOutside'
  BY DEF IInv, TypeOK, TypeOutside, SendAlbum, AddOne
<1>5. HeldInvA'
  BY <1>1
       DEF IInv, TypeOK, Live, Running, TypeWorkers, Pcs, Stage1Pcs,
           Stage2Pcs, HeldInvA, SendAlbum, AddOne, Goto, rows, callers,
           outside
<1>6. HeldInvB'
  BY Names
       DEF IInv, TypeOK, TypeWorkers, Pcs, Stage2Pcs, HeldInvB, SendAlbum,
           AddOne, Goto, rows, callers, outside
<1>7. DueInv'
  BY <1>1 DEF IInv, TypeOK, DueInv, SendAlbum, AddOne
<1>8. AlbumInv'
  BY <1>1
       DEF IInv, TypeOK, TypeWorkers, TypeOutside, AlbumInv, One, SendAlbum,
           AddOne, Goto, rows, callers, outside
<1> QED BY <1>2, <1>3, <1>4, <1>5, <1>6, <1>7, <1>8 DEF IInv, TypeOK

\* The receipt in flight becomes the row's message id, or an orphan.
LEMMA KeepPersistStage1 ==
  ASSUME NEW w \in Workers, IInv, PersistStage1(w)
  PROVE  IInv'
<1>1. w = "A" /\ held[w] \in Ids /\ status[held[w]] = "stage1_running"
  BY Stage1Row DEF Stage1Pcs, PersistStage1
<1>2. TypeStores' /\ TypeCallers' /\ CallInv'
  BY DEF IInv, TypeOK, TypeStores, TypeCallers, CallInv, PersistStage1,
           AddOne, rows, stores, workers, callers, outside
<1>3. TypeRows'
  <2>1. hasMsgId' \in [Ids -> BOOLEAN]
    BY DEF IInv, TypeOK, TypeRows, PersistStage1
  <2>2. age' \in [Ids -> 0..2]
    BY DEF IInv, TypeOK, TypeRows, PersistStage1
  <2> QED BY <2>1, <2>2 DEF IInv, TypeOK, TypeRows, PersistStage1
<1>4. TypeWorkers'
  BY DEF IInv, TypeOK, TypeWorkers, Pcs, RecoverPcs, Stage1Pcs, PersistStage1,
           AddOne, Goto, EndTask, NextTick
<1>5. TypeOutside'
  BY DEF IInv, TypeOK, TypeOutside, PersistStage1, AddOne
<1>6. TypeBounds'
  BY BoundAssumption
       DEF IInv, TypeOK, TypeBounds, PersistStage1, Fault, AddOne
<1>7. RowInv'
  BY DEF IInv, TypeOK, TypeRows, RowInv, PersistStage1, AddOne
<1>8. HeldInvA'
  BY <1>1
       DEF IInv, TypeOK, TypeRows, TypeWorkers, Pcs, Stage1Pcs, Stage2Pcs,
           HeldInvA, PersistStage1, AddOne, Goto, EndTask, NextTick
<1>9. HeldInvB'
  BY Names
       DEF IInv, TypeOK, TypeWorkers, Pcs, Stage2Pcs, HeldInvB, PersistStage1,
           AddOne, Goto, EndTask, NextTick
<1>10. DueInv'
  BY <1>1 DEF IInv, TypeOK, DueInv, PersistStage1, AddOne
<1>11. AlbumInv'
  BY <1>1
       DEF IInv, TypeOK, TypeRows, TypeWorkers, TypeOutside, AlbumInv,
           HeldInvA, One, PersistStage1, AddOne, Goto, EndTask, NextTick
<1> QED BY <1>2, <1>3, <1>4, <1>5, <1>6, <1>7, <1>8, <1>9, <1>10, <1>11
    DEF IInv, TypeOK

\* Stage 1 ends with the row it ran, whose message id is stored.
LEMMA KeepMarkAwaitingBot ==
  ASSUME NEW w \in Workers, IInv, MarkAwaitingBot(w)
  PROVE  IInv'
<1>1. w = "A" /\ held[w] \in Ids /\ status[held[w]] = "stage1_running"
  BY Stage1Row DEF Stage1Pcs, MarkAwaitingBot
<1>2. TypeStores' /\ TypeCallers' /\ TypeOutside' /\ CallInv'
  BY DEF IInv, TypeOK, TypeStores, TypeCallers, TypeOutside, CallInv,
           MarkAwaitingBot, rows, stores, workers, callers, outside
<1>3. TypeRows'
  <2>1. status' \in [Ids -> Status]
    BY DEF IInv, TypeOK, TypeRows, Status, Live, MarkAwaitingBot
  <2>2. hasMsgId' \in [Ids -> BOOLEAN]
    BY DEF IInv, TypeOK, TypeRows, MarkAwaitingBot
  <2>3. age' \in [Ids -> 0..2]
    BY DEF IInv, TypeOK, TypeRows, MarkAwaitingBot
  <2> QED BY <2>1, <2>2, <2>3 DEF IInv, TypeOK, TypeRows, MarkAwaitingBot
<1>4. TypeWorkers'
  BY DEF IInv, TypeOK, TypeWorkers, Pcs, RecoverPcs, MarkAwaitingBot, Goto,
           EndTask, NextTick
<1>5. TypeBounds'
  BY BoundAssumption DEF IInv, TypeOK, TypeBounds, MarkAwaitingBot, Fault
<1>6. RowInv'
  BY <1>1 DEF IInv, TypeOK, TypeRows, RowInv, MarkAwaitingBot
<1>7. HeldInvA'
  BY <1>1
       DEF IInv, TypeOK, TypeWorkers, Pcs, Stage1Pcs, Stage2Pcs, HeldInvA,
           MarkAwaitingBot, Goto, EndTask, NextTick
<1>8. HeldInvB'
  BY DEF IInv, TypeOK, TypeRows, BotStatus, TypeWorkers, HeldInvB,
           MarkAwaitingBot, Goto, EndTask, NextTick
<1>9. DueInv'
  BY <1>1 DEF IInv, TypeOK, DueInv, MarkAwaitingBot
<1>10. AlbumInv'
  BY <1>1
       DEF IInv, TypeOK, TypeRows, AlbumInv, HeldInvA, One, MarkAwaitingBot,
           Goto, EndTask, NextTick, rows, callers, outside
<1> QED BY <1>2, <1>3, <1>4, <1>5, <1>6, <1>7, <1>8, <1>9, <1>10
    DEF IInv, TypeOK

\* Stage 2's call changes no row.
LEMMA KeepForward ==
  ASSUME NEW w \in Workers, IInv, Forward(w)
  PROVE  IInv'
<1>1. held[w] \in Ids /\ status[held[w]] \in BotStatus
  BY Stage2Row DEF Stage2Pcs, Forward
<1>2. /\ TypeRows' /\ TypeStores' /\ TypeCallers' /\ TypeBounds' /\ RowInv'
      /\ CallInv'
  BY DEF IInv, TypeOK, TypeRows, TypeStores, TypeCallers, TypeBounds, RowInv,
           CallInv, Forward, AddOne, rows, stores, workers, callers, outside
<1>3. TypeWorkers'
  BY DEF IInv, TypeOK, TypeWorkers, Pcs, Stage2Pcs, Forward, AddOne, Goto
<1>4. TypeOutside'
  BY DEF IInv, TypeOK, TypeOutside, Forward, AddOne
<1>5. HeldInvA'
  BY Names
       DEF IInv, TypeOK, Live, Running, TypeWorkers, Pcs, Stage1Pcs,
           Stage2Pcs, HeldInvA, Forward, AddOne, Goto, rows, callers, outside
<1>6. HeldInvB'
  BY Names
       DEF IInv, TypeOK, TypeWorkers, Pcs, Stage2Pcs, HeldInvB, Forward,
           AddOne, Goto, rows, callers, outside
<1>7. DueInv'
  BY Names
       DEF IInv, TypeOK, TypeWorkers, DueInv, Forward, AddOne, Goto, rows,
           callers, outside
<1>8. AlbumInv'
  BY Names
       DEF IInv, TypeOK, TypeWorkers, AlbumInv, One, Forward, AddOne, Goto,
           rows, callers, outside
<1> QED BY <1>2, <1>3, <1>4, <1>5, <1>6, <1>7, <1>8 DEF IInv, TypeOK

\* The file_id changes nothing the invariant reads.
LEMMA KeepPersistStage2 ==
  ASSUME NEW w \in Workers, IInv, PersistStage2(w)
  PROVE  IInv'
<1>1. held[w] \in Ids /\ status[held[w]] \in BotStatus
  BY Stage2Row DEF Stage2Pcs, PersistStage2
<1>2. TypeStores' /\ TypeCallers' /\ CallInv'
  BY DEF IInv, TypeOK, TypeStores, TypeCallers, CallInv, PersistStage2,
           AddOne, rows, stores, workers, callers, outside
<1>3. TypeRows'
  <2>1. hasFileId' \in [Ids -> BOOLEAN]
    BY DEF IInv, TypeOK, TypeRows, PersistStage2
  <2>2. age' \in [Ids -> 0..2]
    BY DEF IInv, TypeOK, TypeRows, PersistStage2
  <2> QED BY <2>1, <2>2 DEF IInv, TypeOK, TypeRows, PersistStage2
<1>4. TypeWorkers'
  BY DEF IInv, TypeOK, TypeWorkers, Pcs, RecoverPcs, Stage2Pcs, PersistStage2,
           AddOne, Goto, EndTask, NextTick
<1>5. TypeOutside'
  BY DEF IInv, TypeOK, TypeOutside, PersistStage2, AddOne
<1>6. TypeBounds'
  BY BoundAssumption
       DEF IInv, TypeOK, TypeBounds, PersistStage2, Fault, AddOne
<1>7. RowInv'
  BY DEF IInv, TypeOK, RowInv, PersistStage2, AddOne
<1>8. HeldInvA'
  BY Names
       DEF IInv, TypeOK, TypeWorkers, Pcs, Stage1Pcs, Stage2Pcs, HeldInvA,
           PersistStage2, AddOne, Goto, EndTask, NextTick
<1>9. HeldInvB'
  BY Names
       DEF IInv, TypeOK, TypeWorkers, Pcs, Stage2Pcs, HeldInvB, PersistStage2,
           AddOne, Goto, EndTask, NextTick
<1>10. DueInv'
  BY Names
       DEF IInv, TypeOK, TypeWorkers, DueInv, PersistStage2, AddOne, Goto,
           EndTask, NextTick
<1>11. AlbumInv'
  BY Names
       DEF IInv, TypeOK, TypeWorkers, AlbumInv, One, PersistStage2, AddOne,
           Goto, EndTask, NextTick
<1> QED BY <1>2, <1>3, <1>4, <1>5, <1>6, <1>7, <1>8, <1>9, <1>10, <1>11
    DEF IInv, TypeOK

\* The mapping is of the image of the row held.
LEMMA KeepSaveMapping ==
  ASSUME NEW w \in Workers, IInv, SaveMapping(w)
  PROVE  IInv'
<1>1. held[w] \in Ids /\ status[held[w]] \in BotStatus
  BY Stage2Row DEF Stage2Pcs, SaveMapping
<1>2. TypeRows' /\ TypeCallers' /\ TypeOutside' /\ RowInv' /\ CallInv'
  BY DEF IInv, TypeOK, TypeRows, TypeCallers, TypeOutside, RowInv, CallInv,
           SaveMapping, rows, callers, outside
<1>3. TypeStores'
  BY <1>1 DEF IInv, TypeOK, TypeStores, RowInv, SaveMapping
<1>4. TypeWorkers'
  BY DEF IInv, TypeOK, TypeWorkers, Pcs, Stage2Pcs, SaveMapping, Goto
<1>5. TypeBounds'
  BY BoundAssumption DEF IInv, TypeOK, TypeBounds, SaveMapping, Fault
<1>6. HeldInvA'
  BY DEF IInv, TypeOK, Pcs, Stage1Pcs, Stage2Pcs, HeldInvA, SaveMapping, Goto,
           rows, callers, outside
<1>7. HeldInvB'
  BY DEF IInv, TypeOK, Pcs, Stage2Pcs, HeldInvB, SaveMapping, Goto, rows,
           callers, outside
<1>8. DueInv'
  BY DEF IInv, TypeOK, DueInv, SaveMapping, Goto, rows, callers, outside
<1>9. AlbumInv'
  BY DEF IInv, TypeOK, AlbumInv, One, SaveMapping, Goto, rows, callers,
           outside
<1> QED BY <1>2, <1>3, <1>4, <1>5, <1>6, <1>7, <1>8, <1>9 DEF IInv, TypeOK

\* A row marked as forwarded was in a status of stage 2, whoever moved it.
LEMMA KeepMarkForwarded ==
  ASSUME NEW w \in Workers, IInv, MarkForwarded(w)
  PROVE  IInv'
<1>1. held[w] \in Ids /\ status[held[w]] \in BotStatus
  BY Stage2Row DEF Stage2Pcs, MarkForwarded
<1>2. TypeStores' /\ TypeCallers' /\ TypeOutside' /\ CallInv'
  BY DEF IInv, TypeOK, TypeStores, TypeCallers, TypeOutside, CallInv,
           MarkForwarded, rows, stores, workers, callers, outside
<1>3. TypeRows'
  <2>1. status' \in [Ids -> Status]
    BY DEF IInv, TypeOK, TypeRows, Status, Live, MarkForwarded
  <2>2. hasFileId' \in [Ids -> BOOLEAN]
    BY DEF IInv, TypeOK, TypeRows, MarkForwarded
  <2>3. age' \in [Ids -> 0..2]
    BY DEF IInv, TypeOK, TypeRows, MarkForwarded
  <2> QED BY <2>1, <2>2, <2>3 DEF IInv, TypeOK, TypeRows, MarkForwarded
<1>4. TypeWorkers'
  BY DEF IInv, TypeOK, TypeWorkers, Pcs, RecoverPcs, MarkForwarded, Goto,
           EndTask, NextTick
<1>5. TypeBounds'
  BY BoundAssumption DEF IInv, TypeOK, TypeBounds, MarkForwarded, Fault
<1>6. RowInv'
  BY <1>1 DEF IInv, TypeOK, TypeRows, BotStatus, RowInv, MarkForwarded
<1>7. HeldInvA'
  BY Names, <1>1
       DEF IInv, TypeOK, TypeRows, BotStatus, TypeWorkers, Pcs, Stage1Pcs,
           Stage2Pcs, HeldInvA, MarkForwarded, Goto, EndTask, NextTick
<1>8. HeldInvB'
  BY DEF IInv, TypeOK, TypeRows, BotStatus, TypeWorkers, HeldInvB,
           MarkForwarded, Goto, EndTask, NextTick
<1>9. DueInv'
  BY <1>1
       DEF IInv, TypeOK, TypeRows, BotStatus, DueInv, MarkForwarded, Goto,
           EndTask, NextTick
<1>10. AlbumInv'
  BY DEF IInv, TypeOK, AlbumInv, One, MarkForwarded, Goto, EndTask, NextTick,
           rows, callers, outside
<1> QED BY <1>2, <1>3, <1>4, <1>5, <1>6, <1>7, <1>8, <1>9, <1>10
    DEF IInv, TypeOK

\* A counted failure stays below the limit, or deletes the row; it may hit
\* a row that the scan or a revival gave to the other stage meanwhile.
LEMMA KeepMarkFailed ==
  ASSUME NEW w \in Workers, IInv, MarkFailed(w)
  PROVE  IInv'
<1>1. held[w] \in Ids /\ status[held[w]] \in Running \cup BotStatus
  BY FailedRow DEF MarkFailed, FailWithLimit
<1>2. TypeCallers' /\ TypeOutside' /\ CallInv'
  BY DEF IInv, TypeOK, TypeCallers, TypeOutside, CallInv, MarkFailed,
           FailWithLimit, rows, callers, outside
<1>3. TypeRows'
  <2>1. status' \in [Ids -> Status]
    BY DEF IInv, TypeOK, TypeRows, Status, MarkFailed, FailWithLimit
  <2>2. retry_count' \in [Ids -> 0..MaxRetries]
    BY BoundAssumption, <1>1
         DEF IInv, TypeOK, TypeRows, RowInv, Running, BotStatus, MarkFailed,
             FailWithLimit
  <2>3. age' \in [Ids -> 0..2]
    BY DEF IInv, TypeOK, TypeRows, MarkFailed, FailWithLimit
  <2> QED BY <2>1, <2>2, <2>3
      DEF IInv, TypeOK, TypeRows, MarkFailed, FailWithLimit
<1>4. TypeStores'
  BY DEF IInv, TypeOK, TypeStores, MarkFailed, FailWithLimit
<1>5. TypeWorkers'
  BY DEF IInv, TypeOK, TypeWorkers, Pcs, RecoverPcs, MarkFailed,
           FailWithLimit, Goto, EndTask, NextTick
<1>6. TypeBounds'
  BY BoundAssumption
       DEF IInv, TypeOK, TypeBounds, MarkFailed, FailWithLimit, Fault
<1>7. RowInv'
  BY BoundAssumption, <1>1
       DEF IInv, TypeOK, TypeRows, Live, Running, BotStatus, RowInv,
           MarkFailed, FailWithLimit
<1>8. HeldInvA'
  <2>1. CASE w = "A"
    BY <2>1
         DEF IInv, TypeOK, TypeWorkers, HeldInvA, HeldInvB, Stage1Pcs,
             Stage2Pcs, MarkFailed, FailWithLimit, Goto, EndTask, NextTick
  <2>2. CASE w = "B" /\ Dual
    BY <2>2
         DEF IInv, TypeOK, TypeRows, HeldInvA, HeldInvB, BotStatus,
             MarkFailed, FailWithLimit, Goto, EndTask, NextTick
  <2> QED BY <2>1, <2>2, Names
<1>9. HeldInvB'
  <2>1. CASE w = "A"
    BY <2>1
         DEF IInv, TypeOK, TypeRows, HeldInvA, HeldInvB, BotStatus,
             MarkFailed, FailWithLimit, Goto, EndTask, NextTick
  <2>2. CASE w = "B" /\ Dual
    BY <2>2
         DEF IInv, TypeOK, TypeWorkers, HeldInvA, HeldInvB, MarkFailed,
             FailWithLimit, Goto, EndTask, NextTick
  <2> QED BY <2>1, <2>2, Names
<1>10. DueInv'
  BY <1>1
       DEF IInv, TypeOK, TypeRows, Live, Running, BotStatus, DueInv,
           MarkFailed, FailWithLimit, Goto, EndTask, NextTick
<1>11. AlbumInv'
  BY DEF IInv, TypeOK, AlbumInv, One, MarkFailed, FailWithLimit, Goto,
           EndTask, NextTick, rows, callers, outside
<1> QED BY <1>2, <1>3, <1>4, <1>5, <1>6, <1>7, <1>8, <1>9, <1>10, <1>11
    DEF IInv, TypeOK

\* A crash makes an orphan of the receipt in flight and frees the workers.
LEMMA KeepCrash ==
  ASSUME IInv, Crash
  PROVE  IInv'
<1>1. TypeRows' /\ TypeStores' /\ RowInv'
  BY DEF IInv, TypeOK, TypeRows, TypeStores, RowInv, Crash, rows, stores,
           workers, callers, outside
<1>2. TypeWorkers'
  BY DEF TypeWorkers, Pcs, RecoverPcs, Crash, NextTick
<1>3. TypeCallers'
  BY DEF TypeCallers, Crash
<1>4. TypeOutside'
  BY DEF IInv, TypeOK, TypeOutside, Crash
<1>5. TypeBounds'
  BY BoundAssumption DEF IInv, TypeOK, TypeBounds, Crash
<1>6. CallInv'
  BY DEF TypeOK, CallInv, Crash
<1>7. HeldInvA'
  BY Names DEF TypeOK, Pcs, Stage1Pcs, Stage2Pcs, HeldInvA, Crash, NextTick
<1>8. HeldInvB'
  BY Names DEF TypeOK, HeldInvB, Crash, NextTick
<1>9. DueInv'
  BY DEF TypeOK, DueInv, Crash
<1>10. AlbumInv'
  BY Names, AlbumInFlight
       DEF IInv, TypeOK, TypeOutside, AlbumInv, One, Crash, rows
<1> QED BY <1>1, <1>2, <1>3, <1>4, <1>5, <1>6, <1>7, <1>8, <1>9, <1>10
    DEF IInv, TypeOK

\* The clock changes no status and no receipt.
LEMMA KeepAge ==
  ASSUME NEW r \in Ids, IInv, Age(r)
  PROVE  IInv'
<1>1. /\ TypeStores' /\ TypeWorkers' /\ TypeCallers' /\ TypeOutside'
      /\ TypeBounds' /\ CallInv'
  BY DEF IInv, TypeOK, TypeStores, TypeWorkers, TypeCallers, TypeOutside,
           TypeBounds, CallInv, Age, rows, stores, workers, callers, outside
<1>2. TypeRows'
  BY DEF IInv, TypeOK, TypeRows, Age
<1>3. RowInv'
  BY DEF IInv, TypeOK, RowInv, Age
<1>4. HeldInvA'
  BY DEF IInv, TypeOK, HeldInvA, Age, stores, workers
<1>5. HeldInvB'
  BY DEF IInv, TypeOK, HeldInvB, Age, stores, workers
<1>6. DueInv'
  BY DEF IInv, TypeOK, DueInv, Age, stores, workers
<1>7. AlbumInv'
  BY DEF IInv, TypeOK, AlbumInv, One, Age, rows, stores, workers, callers,
           outside
<1> QED BY <1>1, <1>2, <1>3, <1>4, <1>5, <1>6, <1>7 DEF IInv, TypeOK

-----------------------------------------------------------------------------
\* The invariant holds when the program starts on an empty database.
LEMMA InitIInv == Init => IInv
<1> SUFFICES ASSUME Init PROVE IInv
  OBVIOUS
<1>1. TypeOK
  BY BoundAssumption
       DEF Init, TypeOK, TypeRows, TypeStores, TypeWorkers, TypeCallers,
           TypeOutside, TypeBounds, Status, NextTick, Pcs, RecoverPcs
<1>2. RowInv /\ CallInv /\ DueInv
  BY BoundAssumption DEF Init, RowInv, CallInv, DueInv, BotStatus
<1>3. HeldInvA /\ HeldInvB
  BY Names DEF Init, HeldInvA, HeldInvB, NextTick, Stage1Pcs, Stage2Pcs
<1>4. AlbumInv
  BY Names DEF Init, AlbumInv, One
<1> QED BY <1>1, <1>2, <1>3, <1>4 DEF IInv

\* It is kept by every step of a task, by either worker.
LEMMA KeepTask ==
  ASSUME NEW w \in Workers, IInv, Task(w)
  PROVE  IInv'
BY KeepFetchAwaitingBot, KeepFetchPending, KeepFetchFails, KeepSendAlbum,
     KeepPersistStage1, KeepMarkAwaitingBot, KeepForward, KeepPersistStage2,
     KeepSaveMapping, KeepMarkForwarded, KeepMarkFailed
     DEF Task, Stage1, Stage2

\* The invariant is inductive.
LEMMA NextIInv == IInv /\ [Next]_vars => IInv'
<1> SUFFICES ASSUME IInv, [Next]_vars PROVE IInv'
  OBVIOUS
<1>1. CASE Recover
  BY <1>1, KeepRecoverUnsent, KeepRecoverSent, KeepRecoverStage2,
       KeepRecoverMapping, KeepRecoverForwarded, KeepRecoverAborts
       DEF Recover
<1>2. CASE SelectFailed \/ \E r \in Ids : Revive(r)
  BY <1>2, KeepSelectFailed, KeepRevive
<1>3. CASE \E w \in Workers : Task(w)
  BY <1>3, KeepTask
<1>4. CASE Enqueue
  BY <1>4, KeepEnqueueCheckMapping, KeepEnqueueCheckQueue, KeepEnqueueInsert,
       KeepEnqueueFails
       DEF Enqueue
<1>5. CASE Admin
  BY <1>5, KeepRetryTask, KeepRetryAllFailed DEF Admin
<1>6. CASE Crash
  BY <1>6, KeepCrash
<1>7. CASE \E r \in Ids : Age(r)
  BY <1>7, KeepAge
<1>8. CASE UNCHANGED vars
  BY <1>8
       DEF vars, rows, stores, workers, callers, outside, IInv, TypeOK,
           TypeRows, TypeStores, TypeWorkers, TypeCallers, TypeOutside,
           TypeBounds, RowInv, CallInv, HeldInvA, HeldInvB, DueInv, AlbumInv
<1> QED BY <1>1, <1>2, <1>3, <1>4, <1>5, <1>6, <1>7, <1>8, Names
    DEF Next, WorkerA, WorkerB

\* The inductive invariant holds in every behaviour of the queue.
THEOREM Invariance == Spec => []IInv
BY InitIInv, NextIInv, PTL DEF Spec

\* Every column, program counter and count keeps its type; in particular
\* retry_count never exceeds MAX_RETRIES.
THEOREM TypeCorrect == Spec => []TypeOK
<1>1. IInv => TypeOK BY DEF IInv
<1> QED BY <1>1, Invariance, PTL

\* SC-001 for every number of rows, crashes and faults, in every mode: a row
\* that knows its message id is never posted again, and every other copy in
\* group A is the orphan of a receipt that was lost.
THEOREM AlbumCopies == Spec => []AlbumCopiesAccounted
<1>1. IInv => AlbumCopiesAccounted
  BY AlbumInFlight DEF IInv, AlbumInv, AlbumCopiesAccounted, One
<1> QED BY <1>1, Invariance, PTL

\* SC-004: the atomic fetches keep the two workers apart, although the scan
\* and late revivals move the rows worker B holds.
THEOREM Disjoint == Spec => []WorkersDisjoint
<1>1. ASSUME IInv PROVE WorkersDisjoint
  <2>1. ASSUME Dual, held["A"] # 0 PROVE held["A"] # held["B"]
    BY <1>1, <2>1 DEF IInv, HeldInvA, HeldInvB, BotStatus
  <2> QED BY <2>1, Names DEF WorkersDisjoint
<1> QED BY <1>1, Invariance, PTL

\* Stage 2 never meets a row without the message it is to forward, whichever
\* statement sent the row there.
THEOREM BotStage == Spec => []BotStageHasMessage
<1>1. IInv => BotStageHasMessage
  BY DEF IInv, RowInv, BotStatus, BotStageHasMessage
<1> QED BY <1>1, Invariance, PTL

-----------------------------------------------------------------------------
(***************************************************************************)
(* Stage 2, and the refinement of ImageDelivery.                           *)
(*                                                                         *)
(* In single mode (group B unset, or the same chat as group A) the row of  *)
(* stage 2 is moved by nobody else while the only worker holds it.         *)
(* SingleInv says what follows: a stored file_id means stage2_running or   *)
(* forwarded, so no scan and no revival sends a row that has one back to   *)
(* stage 2.  In dual mode this is false: the scan of worker A may move the *)
(* row that worker B holds.                                                *)
(***************************************************************************)

\* Which rows have their file_id.
ReceiptInv ==
  \A r \in Ids :
    /\ hasFileId[r] => status[r] \in {"stage2_running", "forwarded"}
    /\ status[r] = "forwarded" => hasFileId[r]

\* A row on the revival list was at most retried by hand since the SELECT.
QuietInv ==
  \A r \in Ids : due[r] # "none" => status[r] \in {"failed", "pending", "awaiting_bot"}

\* Whether the row of the worker has its file_id, by step of stage 2.
StageInv ==
  /\ pc["A"] \in {"forward", "persist_stage2", "mark_failed"} => ~hasFileId[held["A"]]
  /\ pc["A"] \in {"save_mapping", "mark_forwarded"} => hasFileId[held["A"]]

\* ForwardCopiesAccounted, of the only worker.
ForwardInv ==
  \A r \in Ids :
    forwardsB[r] = orphanB[r] + One(hasFileId[r])
                   + One(pc["A"] = "persist_stage2" /\ held["A"] = r)

SingleInv == ReceiptInv /\ QuietInv /\ StageInv /\ ForwardInv

\* The worker of single mode is A.
LEMMA OnlyA == ~Dual => Workers = {"A"}
BY DEF Workers

\* The enqueue calls insert rows without a receipt and touch no other row.
LEMMA SingleEnqueue ==
  ASSUME IInv, SingleInv, Enqueue
  PROVE  SingleInv'
<1>1. UNCHANGED <<hasFileId, pc, held, due, forwardsB, orphanB>>
  BY DEF Enqueue, EnqueueCheckMapping, EnqueueCheckQueue, EnqueueInsert,
       EnqueueFails, rows, workers, outside
<1>2. ASSUME NEW r \in Ids, status'[r] # status[r]
      PROVE  status[r] = "free" /\ status'[r] = "pending"
  BY <1>2 DEF IInv, TypeOK, TypeRows, Enqueue, EnqueueCheckMapping,
       EnqueueCheckQueue, EnqueueInsert, EnqueueFails, IsFirst, rows
<1> QED BY <1>1, <1>2 DEF SingleInv, ReceiptInv, QuietInv, StageInv, ForwardInv
\* The scan runs between two tasks, and leaves every file_id where it was.
LEMMA SingleRecover ==
  ASSUME IInv, SingleInv, ~Dual, Recover
  PROVE  SingleInv'
BY DEF IInv, TypeOK, TypeWorkers, SingleInv, ReceiptInv, QuietInv, StageInv,
     ForwardInv, Recover, RecoverUnsent, RecoverSent, RecoverStage2,
     RecoverMapping, RecoverForwarded, RecoverAborts, RecoverUpdate,
     RecoverReturns, ForwardedButRunning, Move, Goto, RecoverPcs, rows, outside

\* The SELECT lists failed rows only.
LEMMA SingleSelect ==
  ASSUME IInv, SingleInv, ~Dual, SelectFailed
  PROVE  SingleInv'
BY DEF IInv, TypeOK, TypeWorkers, SingleInv, ReceiptInv, QuietInv, StageInv,
     ForwardInv, SelectFailed, FirstFetch, Goto, rows, outside

\* A revived row has no file_id.
LEMMA SingleRevive ==
  ASSUME IInv, SingleInv, ~Dual, NEW r \in Ids, Revive(r)
  PROVE  SingleInv'
BY DEF IInv, TypeOK, TypeWorkers, SingleInv, ReceiptInv, QuietInv, StageInv,
     ForwardInv, Revive, FirstFetch, Goto, Move, rows, outside

\* Nor has a row retried by hand.
LEMMA SingleAdmin ==
  ASSUME IInv, SingleInv, ~Dual, Admin
  PROVE  SingleInv'
BY DEF SingleInv, ReceiptInv, QuietInv, StageInv, ForwardInv, Admin, RetryTask,
     RetryAllFailed, RetryTarget, Move, workers, outside

\* A fetched row has no file_id yet.
LEMMA SingleFetchAwaitingBot ==
  ASSUME IInv, SingleInv, ~Dual, FetchAwaitingBot("A")
  PROVE  SingleInv'
BY DEF IInv, TypeOK, TypeWorkers, SingleInv, ReceiptInv, QuietInv, StageInv,
     ForwardInv, FetchAwaitingBot, FetchRow, FetchNothing, IsFirst, Move, Goto,
     DueInv, rows, outside

\* A pending row has no receipt at all.
LEMMA SingleFetchPending ==
  ASSUME IInv, SingleInv, ~Dual, FetchPending("A")
  PROVE  SingleInv'
BY DEF IInv, TypeOK, TypeWorkers, SingleInv, ReceiptInv, QuietInv, StageInv,
     ForwardInv, FetchPending, FetchRow, FetchNothing, IsFirst, Move, NextTick,
     Goto, DueInv, rows, outside

\* A failing fetch moves no row.
LEMMA SingleFetchFails ==
  ASSUME IInv, SingleInv, ~Dual, FetchFails("A")
  PROVE  SingleInv'
BY DEF SingleInv, ReceiptInv, QuietInv, StageInv, ForwardInv, FetchFails,
     NextTick, Goto, rows, outside

\* Stage 1 works on a row without a file_id.
LEMMA SingleSendAlbum ==
  ASSUME IInv, SingleInv, ~Dual, SendAlbum("A")
  PROVE  SingleInv'
BY DEF IInv, TypeOK, TypeWorkers, SingleInv, ReceiptInv, QuietInv, StageInv,
     ForwardInv, SendAlbum, Stage1Pcs, HeldInvA, Goto, rows

\* The receipt of stage 1 is another column.
LEMMA SinglePersistStage1 ==
  ASSUME IInv, SingleInv, ~Dual, PersistStage1("A")
  PROVE  SingleInv'
BY DEF IInv, TypeOK, TypeWorkers, SingleInv, ReceiptInv, QuietInv, StageInv,
     ForwardInv, PersistStage1, EndTask, NextTick, Goto

\* A row leaves stage 1 without a file_id.
LEMMA SingleMarkAwaitingBot ==
  ASSUME IInv, SingleInv, ~Dual, MarkAwaitingBot("A")
  PROVE  SingleInv'
BY DEF IInv, TypeOK, TypeRows, SingleInv, ReceiptInv, QuietInv, StageInv,
     ForwardInv, MarkAwaitingBot, Stage1Pcs, HeldInvA, EndTask, NextTick, Goto,
     outside

\* A forward is in flight, or an orphan at once.
LEMMA SingleForward ==
  ASSUME IInv, SingleInv, ~Dual, Forward("A")
  PROVE  SingleInv'
<1>1. ReceiptInv'
  BY DEF SingleInv, Forward, ReceiptInv, rows
<1>2. QuietInv'
  BY DEF SingleInv, Forward, QuietInv, rows
<1>3. StageInv'
  BY DEF IInv, SingleInv, TypeOK, TypeWorkers, Forward, StageInv, Goto, rows
<1>4. ForwardInv'
  BY Names DEF IInv, SingleInv, TypeOK, TypeWorkers, Forward, TypeOutside,
       ForwardInv, One, AddOne, Goto, rows
<1> QED BY <1>1, <1>2, <1>3, <1>4 DEF SingleInv

\* The receipt in flight is stored, or lost.
LEMMA SinglePersistStage2 ==
  ASSUME IInv, SingleInv, ~Dual, PersistStage2("A")
  PROVE  SingleInv'
<1>1. ReceiptInv'
  BY DEF IInv, SingleInv, TypeOK, TypeRows, PersistStage2, ReceiptInv
<1>2. QuietInv'
  BY DEF SingleInv, PersistStage2, QuietInv
<1>3. StageInv'
  BY Names DEF IInv, TypeOK, TypeRows, TypeWorkers, PersistStage2, EndTask,
       NextTick, StageInv, HeldInvA, Stage2Pcs, Goto
<1>4. ForwardInv'
  BY Names DEF IInv, SingleInv, TypeOK, TypeRows, TypeWorkers, PersistStage2,
       EndTask, TypeOutside, ForwardInv, StageInv, One, AddOne, HeldInvA,
       Stage2Pcs, Goto
<1> QED BY <1>1, <1>2, <1>3, <1>4 DEF SingleInv

\* The mapping is another table.
LEMMA SingleSaveMapping ==
  ASSUME IInv, SingleInv, ~Dual, SaveMapping("A")
  PROVE  SingleInv'
BY DEF SingleInv, ReceiptInv, QuietInv, StageInv, ForwardInv, SaveMapping, Goto,
     rows, outside

\* A row is marked forwarded with its file_id.
LEMMA SingleMarkForwarded ==
  ASSUME IInv, SingleInv, ~Dual, MarkForwarded("A")
  PROVE  SingleInv'
<1>1. ReceiptInv'
  BY DEF IInv, SingleInv, TypeOK, TypeRows, MarkForwarded, ReceiptInv
<1>2. QuietInv'
  BY DEF IInv, MarkForwarded, QuietInv, DueInv
<1>3. StageInv'
  BY Names DEF IInv, TypeOK, TypeWorkers, MarkForwarded, EndTask, NextTick,
       StageInv, Goto
<1>4. ForwardInv'
  BY Names DEF IInv, SingleInv, TypeOK, TypeRows, TypeWorkers, MarkForwarded,
       EndTask, ForwardInv, StageInv, outside
<1> QED BY <1>1, <1>2, <1>3, <1>4 DEF SingleInv

\* A failure is counted on a row without a file_id.
LEMMA SingleMarkFailed ==
  ASSUME IInv, SingleInv, ~Dual, MarkFailed("A")
  PROVE  SingleInv'
BY DEF IInv, TypeOK, TypeRows, TypeWorkers, SingleInv, ReceiptInv, QuietInv,
     StageInv, ForwardInv, MarkFailed, EndTask, NextTick, FailWithLimit, Goto,
     DueInv, outside

\* A crash makes an orphan of the forward in flight.
LEMMA SingleCrash ==
  ASSUME IInv, SingleInv, ~Dual, Crash
  PROVE  SingleInv'
<1>1. ReceiptInv'
  BY DEF SingleInv, Crash, rows, ReceiptInv
<1>2. QuietInv'
  BY DEF Crash, QuietInv
<1>3. StageInv'
  BY Names DEF Crash, StageInv, NextTick
<1>4. ForwardInv'
  BY Names DEF IInv, SingleInv, TypeOK, Crash, rows, TypeOutside, ForwardInv,
       One, InFlight
<1> QED BY <1>1, <1>2, <1>3, <1>4 DEF SingleInv

\* The clock moves no row.
LEMMA SingleAge ==
  ASSUME IInv, SingleInv, ~Dual, NEW r \in Ids, Age(r)
  PROVE  SingleInv'
BY DEF SingleInv, ReceiptInv, QuietInv, StageInv, ForwardInv, Age, workers,
     outside

-----------------------------------------------------------------------------
\* Nothing was forwarded when the program starts on an empty database.
LEMMA InitSingle == Init => SingleInv
BY Names DEF Init, SingleInv, ReceiptInv, QuietInv, StageInv, ForwardInv,
     NextTick, One

\* With one worker, SingleInv is inductive relative to IInv.
LEMMA NextSingle ==
  ASSUME IInv, SingleInv, ~Dual, [Next]_vars
  PROVE  SingleInv'
<1>1. CASE Recover \/ SelectFailed \/ \E r \in Ids : Revive(r)
  BY <1>1, SingleRecover, SingleSelect, SingleRevive
<1>2. CASE Task("A")
  BY <1>2, SingleFetchAwaitingBot, SingleFetchPending, SingleFetchFails,
       SingleSendAlbum, SinglePersistStage1, SingleMarkAwaitingBot,
       SingleForward, SinglePersistStage2, SingleSaveMapping,
       SingleMarkForwarded, SingleMarkFailed DEF Task, Stage1, Stage2
<1>3. CASE Enqueue \/ Admin \/ Crash \/ \E r \in Ids : Age(r)
  BY <1>3, SingleEnqueue, SingleAdmin, SingleCrash, SingleAge
<1>4. CASE UNCHANGED vars
  BY <1>4 DEF vars, rows, workers, outside, SingleInv, ReceiptInv, QuietInv,
       StageInv, ForwardInv
<1> QED BY <1>1, <1>2, <1>3, <1>4, OnlyA DEF Next, WorkerA, WorkerB

\* SingleInv holds in every behaviour of single mode.
LEMMA SingleInvariance ==
  ASSUME ~Dual
  PROVE  Spec => [](IInv /\ SingleInv)
<1>1. Init => IInv /\ SingleInv
  BY InitIInv, InitSingle
<1>2. IInv /\ SingleInv /\ [Next]_vars => (IInv /\ SingleInv)'
  BY NextIInv, NextSingle
<1> QED BY <1>1, <1>2, PTL DEF Spec

\* SC-002 for every number of rows, crashes and faults: in single mode a row
\* that knows its file_id is never forwarded again, and every other forward
\* in group B is one whose answer was lost.
THEOREM ForwardCopies == Spec => []ForwardCopiesAccounted
<1>1. CASE Dual
  <2>1. ForwardCopiesAccounted BY <1>1 DEF ForwardCopiesAccounted
  <2> QED BY <2>1, PTL
<1>2. CASE ~Dual
  <2>1. SingleInv => ForwardCopiesAccounted
    BY <1>2, OnlyA DEF SingleInv, ForwardInv, ForwardCopiesAccounted, InFlight
  <2> QED BY <1>2, <2>1, SingleInvariance, PTL
<1> QED BY <1>1, <1>2

-----------------------------------------------------------------------------
\* What a step does to the resources' images, when the invariants hold.
LEMMA ClearStep ==
  ASSUME IInv, ~Dual => SingleInv, [Next]_vars, NEW i \in shown \ shown'
  PROVE  \E r \in Ids : /\ remote_id[r] = i
                        /\ status[r] \in Live /\ status'[r] = "deleted"
                        /\ retry_count[r] = MaxRetries - 1
                        /\ Dual \/ ~hasFileId[r]
<1>1. PICK w \in Workers : MarkFailed(w)
  BY DEF Next, WorkerA, WorkerB, Task, Stage1, Stage2, Recover, Enqueue, Admin,
       vars, stores, RecoverUnsent, RecoverSent, RecoverStage2, RecoverMapping,
       RecoverForwarded, RecoverAborts, RecoverUpdate, SelectFailed, Revive,
       FetchAwaitingBot, FetchPending, FetchRow, FetchNothing, FetchFails,
       SendAlbum, PersistStage1, MarkAwaitingBot, Forward, PersistStage2,
       SaveMapping, MarkForwarded, EnqueueCheckMapping, EnqueueCheckQueue,
       EnqueueInsert, EnqueueFails, RetryTask, RetryAllFailed, Crash, Age,
       Workers
<1>2. pc[w] = "mark_failed"
  BY <1>1 DEF MarkFailed, FailWithLimit
<1>3. held[w] \in Ids /\ status[held[w]] \in Live
  BY <1>2, FailedRow DEF Live, Running, BotStatus
<1>4. /\ retry_count[held[w]] + 1 >= MaxRetries
      /\ remote_id[held[w]] = i
      /\ status'[held[w]] = "deleted"
  BY <1>1, <1>3 DEF MarkFailed, FailWithLimit, IInv, TypeOK, TypeRows
<1>5. retry_count[held[w]] = MaxRetries - 1
  BY <1>3, <1>4, BoundAssumption DEF IInv, RowInv, TypeOK, TypeRows, Live,
       Running
<1>6. Dual \/ ~hasFileId[held[w]]
  BY <1>2, OnlyA DEF SingleInv, StageInv
<1> QED BY <1>3, <1>4, <1>5, <1>6

\* A failure clears the image of a resource only when it uses up the attempts
\* of a row of that image; in single mode, of one that was never delivered.
THEOREM ClearedByDeadLetter == Spec => ClearedOnlyByDeadLetter
<1>1. ASSUME IInv, ~Dual => SingleInv, [Next]_vars
      PROVE  [\A i \in shown \ shown' :
                \E r \in Ids : /\ remote_id[r] = i
                               /\ status[r] \in Live /\ status'[r] = "deleted"
                               /\ retry_count[r] = MaxRetries - 1
                               /\ Dual \/ ~hasFileId[r]]_vars
  BY <1>1, ClearStep
<1>2. Spec => [](IInv /\ (~Dual => SingleInv))
  <2>1. CASE Dual
    <3>1. ~Dual => SingleInv BY <2>1
    <3> QED BY <3>1, Invariance, PTL
  <2>2. CASE ~Dual BY <2>2, SingleInvariance, PTL
  <2> QED BY <2>1, <2>2
<1> QED BY <1>1, <1>2, PTL DEF Spec, ClearedOnlyByDeadLetter

-----------------------------------------------------------------------------
(* The refinement: a row of single mode is one delivery of ImageDelivery *)

\* The phase of a row, from its status and receipts.
LEMMA PhaseOf ==
  ASSUME NEW r \in Ids
  PROVE  /\ status[r] = "free" => Phase[r] = "absent"
         /\ status[r] = "deleted" => Phase[r] = "dropped"
         /\ status[r] \notin {"free", "deleted"} =>
              Phase[r] = IF hasFileId[r] THEN "delivered"
                         ELSE IF hasMsgId[r] THEN "posted" ELSE "queued"
BY DEF Phase

\* The same after a step.
LEMMA PhaseOfNext ==
  ASSUME NEW r \in Ids
  PROVE  /\ status'[r] = "free" => Phase'[r] = "absent"
         /\ status'[r] = "deleted" => Phase'[r] = "dropped"
         /\ status'[r] \notin {"free", "deleted"} =>
              Phase'[r] = IF hasFileId'[r] THEN "delivered"
                          ELSE IF hasMsgId'[r] THEN "posted" ELSE "queued"
BY DEF Phase

\* A step that moves the phase of one row only.
LEMMA PhaseExcept ==
  ASSUME NEW r \in Ids, \A q \in Ids \ {r} : Phase'[q] = Phase[q]
  PROVE  Phase' = [Phase EXCEPT ![r] = Phase'[r]]
BY DEF Phase

\* A step that stores no receipt, admits no row and deletes none is a stutter.
LEMMA SamePhases ==
  ASSUME UNCHANGED <<hasMsgId, hasFileId, retry_count>>,
         \A r \in Ids : \/ status'[r] = status[r]
                        \/ /\ status[r] \notin {"free", "deleted"}
                           /\ status'[r] \notin {"free", "deleted"}
  PROVE  UNCHANGED Delivery!vars
<1>1. ASSUME NEW r \in Ids PROVE Phase'[r] = Phase[r]
  BY PhaseOf, PhaseOfNext
<1>2. Phase' = Phase
  BY <1>1 DEF Phase
<1> QED BY <1>2 DEF Delivery!vars

\* What the steps of a task do to the delivery of its row.
LEMMA TaskRefines ==
  ASSUME IInv, SingleInv, ~Dual, Task("A")
  PROVE  [Delivery!Next]_(Delivery!vars)
<1> DEFINE h == held["A"]
<1> USE Names
<1>1. CASE FetchAwaitingBot("A") \/ FetchPending("A") \/ FetchFails("A")
  BY <1>1, SamePhases DEF FetchAwaitingBot, FetchPending, FetchFails, FetchRow,
       FetchNothing, IsFirst, Move, rows
<1>2. CASE SendAlbum("A") \/ Forward("A") \/ SaveMapping("A")
  BY <1>2, SamePhases DEF SendAlbum, Forward, SaveMapping, rows
<1>3. CASE MarkAwaitingBot("A")
  <2>1. h \in Ids /\ status[h] = "stage1_running" /\ hasMsgId[h]
    BY <1>3 DEF MarkAwaitingBot, IInv, HeldInvA, Stage1Pcs
  <2>2. UNCHANGED <<hasMsgId, hasFileId, retry_count>>
    <3>1. hasMsgId \in [Ids -> BOOLEAN] /\ hasMsgId[h] = TRUE
      BY <2>1 DEF IInv, TypeOK, TypeRows
    <3>2. [hasMsgId EXCEPT ![h] = TRUE] = hasMsgId
      BY <3>1
    <3> QED BY <1>3, <3>2 DEF MarkAwaitingBot
  <2>3. status' \in {status, [status EXCEPT ![h] = "awaiting_bot"]}
    BY <1>3 DEF MarkAwaitingBot
  <2>4. \A r \in Ids : status'[r] = status[r] \/ (r = h /\ status'[r] = "awaiting_bot")
    BY <2>3 DEF IInv, TypeOK, TypeRows
  <2> QED BY <2>1, <2>2, <2>4, SamePhases
<1>4. CASE MarkForwarded("A")
  <2>1. h \in Ids /\ status[h] = "stage2_running" /\ hasFileId[h]
    BY <1>4 DEF MarkForwarded, IInv, HeldInvA, Stage2Pcs, SingleInv, StageInv
  <2>2. UNCHANGED <<hasMsgId, hasFileId, retry_count>>
    <3>1. hasFileId \in [Ids -> BOOLEAN] /\ hasFileId[h] = TRUE
      BY <2>1 DEF IInv, TypeOK, TypeRows
    <3>2. [hasFileId EXCEPT ![h] = TRUE] = hasFileId
      BY <3>1
    <3> QED BY <1>4, <3>2 DEF MarkForwarded
  <2>3. status' \in {status, [status EXCEPT ![h] = "forwarded"]}
    BY <1>4 DEF MarkForwarded
  <2>4. \A r \in Ids : status'[r] = status[r] \/ (r = h /\ status'[r] = "forwarded")
    BY <2>3 DEF IInv, TypeOK, TypeRows
  <2> QED BY <2>1, <2>2, <2>4, SamePhases
<1>5. CASE PersistStage1("A")
  <2>1. h \in Ids /\ status[h] = "stage1_running" /\ ~hasMsgId[h] /\ ~hasFileId[h]
    BY <1>5 DEF PersistStage1, IInv, HeldInvA, Stage1Pcs, SingleInv, ReceiptInv
  <2>2. UNCHANGED <<status, hasFileId, retry_count>>
    BY <1>5 DEF PersistStage1
  <2>3. CASE hasMsgId' = hasMsgId
    BY <2>2, <2>3, SamePhases
  <2>4. CASE hasMsgId' = [hasMsgId EXCEPT ![h] = TRUE]
    <3>1. Phase[h] = "queued" /\ Phase'[h] = "posted"
      BY <2>1, <2>2, <2>4, PhaseOf, PhaseOfNext DEF IInv, TypeOK, TypeRows
    <3>2. ASSUME NEW q \in Ids \ {h} PROVE Phase'[q] = Phase[q]
      BY <2>2, <2>4 DEF Phase
    <3>3. Phase' = [Phase EXCEPT ![h] = "posted"]
      BY <2>1, <3>1, <3>2, PhaseExcept
    <3> QED BY <2>1, <2>2, <3>1, <3>3 DEF Delivery!Next, Delivery!Post,
                 Delivery!Advance
  <2> QED BY <1>5, <2>1, <2>3, <2>4 DEF PersistStage1
<1>6. CASE PersistStage2("A")
  <2>1. h \in Ids /\ status[h] = "stage2_running" /\ hasMsgId[h] /\ ~hasFileId[h]
    BY <1>6 DEF PersistStage2, IInv, HeldInvA, RowInv, BotStatus, Stage2Pcs,
         SingleInv, StageInv
  <2>2. UNCHANGED <<status, hasMsgId, retry_count>>
    BY <1>6 DEF PersistStage2
  <2>3. CASE hasFileId' = hasFileId
    BY <2>2, <2>3, SamePhases
  <2>4. CASE hasFileId' = [hasFileId EXCEPT ![h] = TRUE]
    <3>1. Phase[h] = "posted" /\ Phase'[h] = "delivered"
      BY <2>1, <2>2, <2>4, PhaseOf, PhaseOfNext DEF IInv, TypeOK, TypeRows
    <3>2. ASSUME NEW q \in Ids \ {h} PROVE Phase'[q] = Phase[q]
      BY <2>2, <2>4 DEF Phase
    <3>3. Phase' = [Phase EXCEPT ![h] = "delivered"]
      BY <2>1, <3>1, <3>2, PhaseExcept
    <3> QED BY <2>1, <2>2, <3>1, <3>3 DEF Delivery!Next, Delivery!Deliver,
                 Delivery!Advance
  <2> QED BY <1>6, <2>1, <2>3, <2>4 DEF PersistStage2
<1>7. CASE MarkFailed("A")
  <2>1. h \in Ids /\ status[h] \in Running /\ ~hasFileId[h]
    BY <1>7 DEF MarkFailed, FailWithLimit, IInv, HeldInvA, SingleInv, StageInv
  <2>2. UNCHANGED <<hasMsgId, hasFileId>>
    BY <1>7 DEF MarkFailed, FailWithLimit
  <2>3. CASE UNCHANGED <<status, retry_count>>
    BY <2>2, <2>3, SamePhases
  <2>4. CASE /\ retry_count' = [retry_count EXCEPT ![h] = retry_count[h] + 1]
             /\ status' = [status EXCEPT ![h] = IF retry_count[h] + 1 >= MaxRetries
                                                THEN "deleted" ELSE "failed"]
    <3>1. Phase[h] \in {"queued", "posted"}
      BY <2>1, PhaseOf DEF Running
    <3>2. Phase'[h] = IF retry_count[h] + 1 >= MaxRetries THEN "dropped" ELSE Phase[h]
      BY <2>1, <2>2, <2>4, PhaseOf, PhaseOfNext DEF Running, IInv, TypeOK,
           TypeRows
    <3>3. ASSUME NEW q \in Ids \ {h} PROVE Phase'[q] = Phase[q]
      BY <2>2, <2>4 DEF Phase
    <3>4. Phase' = [Phase EXCEPT ![h] = Phase'[h]]
      BY <2>1, <3>3, PhaseExcept
    <3>5. Phase' = IF retry_count[h] + 1 >= MaxRetries
                   THEN [Phase EXCEPT ![h] = "dropped"] ELSE Phase
      BY <3>2, <3>4 DEF Phase
    <3> QED BY <2>1, <2>4, <3>1, <3>5 DEF Delivery!Next, Delivery!Miss
  <2> QED BY <1>7, <2>3, <2>4 DEF MarkFailed, FailWithLimit
<1> QED BY <1>1, <1>2, <1>3, <1>4, <1>5, <1>6, <1>7 DEF Task, Stage1, Stage2

\* An INSERT admits its row; the other steps of enqueue touch no row.
LEMMA EnqueueRefines ==
  ASSUME IInv, SingleInv, Enqueue
  PROVE  [Delivery!Next]_(Delivery!vars)
<1>1. CASE \E p \in Producers : EnqueueInsert(p)
  <2>1. PICK r \in Ids : status[r] = "free" /\ status' = [status EXCEPT ![r] = "pending"]
    BY <1>1 DEF EnqueueInsert, IsFirst
  <2>2. UNCHANGED <<hasMsgId, hasFileId, retry_count>>
    BY <1>1 DEF EnqueueInsert
  <2>3. ~hasMsgId[r] /\ ~hasFileId[r]
    BY <2>1 DEF IInv, RowInv, SingleInv, ReceiptInv
  <2>4. Phase[r] = "absent" /\ Phase'[r] = "queued"
    BY <2>1, <2>2, <2>3, PhaseOf, PhaseOfNext DEF IInv, TypeOK, TypeRows
  <2>5. ASSUME NEW q \in Ids \ {r} PROVE Phase'[q] = Phase[q]
    BY <2>1, <2>2 DEF Phase
  <2>6. Phase' = [Phase EXCEPT ![r] = "queued"]
    BY <2>4, <2>5, PhaseExcept
  <2> QED BY <2>2, <2>4, <2>6 DEF Delivery!Next, Delivery!Admit,
               Delivery!Advance
<1>2. CASE UNCHANGED rows
  BY <1>2, SamePhases DEF rows
<1> QED BY <1>1, <1>2 DEF Enqueue, EnqueueCheckMapping, EnqueueCheckQueue,
             EnqueueFails

\* The scan, the revivals and the retries by hand move rows between the
\* statuses of one phase.
LEMMA MoveRefines ==
  ASSUME IInv, Recover \/ SelectFailed \/ (\E r \in Ids : Revive(r)) \/ Admin
  PROVE  UNCHANGED Delivery!vars
<1>1. CASE Recover \/ SelectFailed
  BY <1>1, SamePhases DEF Recover, RecoverUnsent, RecoverSent, RecoverStage2,
       RecoverMapping, RecoverForwarded, RecoverAborts, RecoverUpdate,
       ForwardedButRunning, Move, SelectFailed, rows
<1>2. CASE \E r \in Ids : Revive(r)
  <2>1. PICK r \in Ids : Revive(r) BY <1>2
  <2>2. due[r] \in {"pending", "awaiting_bot"}
    BY <2>1 DEF Revive, IInv, TypeOK, TypeWorkers
  <2>3. status[r] # "free"
    BY <2>2 DEF IInv, DueInv, BotStatus
  <2> QED BY <2>1, <2>2, <2>3, SamePhases DEF Revive, Move, rows
<1>3. CASE Admin
  BY <1>3, SamePhases DEF Admin, RetryTask, RetryAllFailed, RetryTarget, Move
<1> QED BY <1>1, <1>2, <1>3

\* The whole step.
LEMMA StepRefines ==
  ASSUME IInv, SingleInv, ~Dual, [Next]_vars
  PROVE  [Delivery!Next]_(Delivery!vars)
<1>1. CASE Recover \/ SelectFailed \/ (\E r \in Ids : Revive(r)) \/ Admin
  BY <1>1, MoveRefines
<1>2. CASE Task("A")
  BY <1>2, TaskRefines
<1>3. CASE Enqueue
  BY <1>3, EnqueueRefines
<1>4. CASE Crash \/ (\E r \in Ids : Age(r)) \/ UNCHANGED vars
  BY <1>4, SamePhases DEF Crash, Age, vars, rows
<1> QED BY <1>1, <1>2, <1>3, <1>4, OnlyA DEF Next, WorkerA, WorkerB

\* In single mode the queue implements ImageDelivery, for every number of
\* rows, crashes and faults: an image is posted, delivered, in that order and
\* at most once, or dropped after MAX_RETRIES failures, and a delivered row
\* is never taken back.
THEOREM SingleModeDelivers ==
  ASSUME ~Dual
  PROVE  Spec => ImplementsDelivery
<1>1. Init => Delivery!Init
  BY DEF Init, Phase, Delivery!Init
<1>2. IInv /\ SingleInv /\ [Next]_vars => [Delivery!Next]_(Delivery!vars)
  BY StepRefines
<1> QED BY <1>1, <1>2, SingleInvariance, PTL DEF Spec, ImplementsDelivery, Delivery!Spec

-----------------------------------------------------------------------------
(***************************************************************************)
(* The push configurations, for any bodies of requests and number of       *)
(* administrators.  The inductive invariant says what the one request on a *)
(* configuration has written so far (WorkInv), that between two requests   *)
(* the row and the links are what was asked for (SettledInv), and that a   *)
(* batch on its way holds nothing the migration took over (BatchInv).      *)
(***************************************************************************)

Made  == [step : {"insert", "read", "link"}, conf : Configs \cup {0},
          from : Configs \cup {0}, todo : SUBSET Collectors, what : Wanted]
Edited == [step : {"write", "clear"}, conf : Configs, from : {0}, body : Edits, old : Row]
Gone  == [step : {"detach", "delete"}, conf : Configs, from : {0}]
Jobs  == {NoJob} \cup Made \cup Edited \cup Gone
Batches == {NoPush} \cup [conf : Configs, batch : SUBSET Collectors]
First == [api |-> LegacyApi, source |-> "all", active |-> TRUE, ids |-> {}]

\* The parts of the type invariant.
TypeConfigRows ==
  /\ row \in [Configs -> Row \cup {Absent}] /\ link \in [Configs -> SUBSET Collectors]
  /\ next \in 1..(MaxConfigs + 1) /\ asked \in [Configs -> Wanted]
TypeJobs == job \in [Admins -> Jobs] /\ mixed \subseteq Configs
TypeStatuses ==
  /\ marked \in [Configs -> SUBSET Collectors] /\ isPushed \subseteq Collectors
  /\ before \in [Configs -> SUBSET Collectors] /\ sent \in [Configs -> SUBSET Collectors]
  /\ halfway \subseteq Configs /\ push \in Batches
TypePast ==
  /\ named \subseteq Configs /\ orphan \in BOOLEAN
  /\ boot \in {"count", "create", "histories", "statuses", "up"}

\* What is yet to come is as it began.
FreshRows == \A c \in Configs : c >= next => row[c] = Absent /\ link[c] = {} /\ asked[c] = First
FreshJobs == \A a \in Admins : job[a].conf < next /\ job[a].from < next
FreshStatuses ==
  /\ \A c \in Configs : c >= next => marked[c] = {} /\ sent[c] = {} /\ before[c] = {}
  /\ push.conf < next

\* Until the start of the process is over there are neither requests nor
\* pushes, and the configuration the migration is at was not pushed.
BootInv ==
  /\ boot # "up" => push = NoPush /\ \A a \in Admins : job[a] = NoJob
  /\ boot \in {"histories", "statuses"} =>
       next > 1 /\ before[next - 1] = isPushed /\ sent[next - 1] = {}

\* A batch holds nothing that the migration took over.
BatchInv ==
  (push # NoPush /\ push.conf \notin halfway) => push.batch \cap before[push.conf] = {}

\* A configuration is switched on if it is asked to be.
ActiveInv == \A c \in Configs : Exists(c) => row[c].active = asked[c].active

\* Two requests are on one configuration only if that is known.
AloneInv ==
  \A c \in Configs \ mixed : \A a, b \in Admins :
    (c \in Touched(job[a]) /\ c \in Touched(job[b])) => a = b

\* What a request has written so far, of a configuration no other one works on.
Whole(j) ==
  /\ j.step = "insert" => j.conf = 0 /\ (j.from = 0 => j.todo = j.what.ids)
  /\ j.step \notin {"idle", "insert"} => j.conf # 0
  /\ j.step = "read" => j.from # 0
  /\ j.step = "clear" => j.body.ids # Keep
Written(j) ==
  LET c == j.conf
  IN /\ j.step \in {"read", "link"} => row[c].api = j.what.api /\ row[c].source = j.what.source
     /\ j.step = "read" => link[c] = {}
     /\ j.step = "link" => link[c] \cup j.todo = j.what.ids
     /\ j.step = "write" => j.old.api = row[c].api /\ j.old.source = row[c].source
     /\ j.step = "clear" => /\ row[c].api = Or(j.body.api, asked[c].api)
                            /\ row[c].source = Or(j.body.source, asked[c].source)
WorkInv ==
  \A a \in Admins :
    /\ Whole(job[a])
    /\ (job[a].conf \in Configs \ mixed /\ Exists(job[a].conf)) => Written(job[a])

\* A configuration is as it was asked to be, unless a request is between two of
\* its statements.
Between(c) == \E a \in Admins : job[a].conf = c /\ job[a].step \in {"read", "link", "clear"}
AsAsked(c) == row[c].api = asked[c].api /\ row[c].source = asked[c].source /\ link[c] = asked[c].ids
SettledInv == \A c \in Configs \ mixed : Exists(c) => Between(c) \/ AsAsked(c)

EditInv   == /\ TypeConfigRows /\ TypeJobs /\ FreshRows /\ FreshJobs
             /\ ActiveInv /\ AloneInv /\ WorkInv /\ SettledInv
StatusInv == /\ TypeStatuses /\ TypePast /\ FreshStatuses /\ BootInv /\ BatchInv /\ StatusesAccounted
ConfigInv == EditInv /\ StatusInv

\* The ids.
LEMMA ConfigFact ==
  /\ MaxConfigs \in Nat /\ Configs \subseteq Nat /\ Configs \cup {0} \subseteq Nat
  /\ 0 \notin Configs /\ \A n \in 1..(MaxConfigs + 1) : n \in Nat /\ 0 < n
BY ConfigBoundAssumption DEF Configs

\* An id that was given out stays one.
LEMMA Below ==
  ASSUME NEW n \in Nat, NEW m \in Nat, m >= n
  PROVE  \A x \in Nat : x < n => x < m
OBVIOUS

\* The bodies of requests, and what a configuration begins as.
LEMMA BodyFact ==
  /\ \A e \in Edits : /\ e.api \in Apis \cup {Keep} /\ e.source \in Sources \cup {Keep}
                      /\ e.ids \in (SUBSET Collectors) \cup {Keep}
  /\ \A b \in Creations : b.api \in Apis /\ b.source \in Sources /\ b.ids \in SUBSET Collectors
  /\ First \in Wanted
BY LegacyAssumption, BodyAssumption DEF Body, First, Wanted, Sources

\* The shape of a request.
LEMMA JobShape ==
  ASSUME NEW j \in Jobs
  PROVE  /\ j.step \in {"idle", "insert", "read", "link", "write", "clear", "detach", "delete"}
         /\ j.conf \in Configs \cup {0} /\ j.from \in Configs \cup {0}
         /\ j.step = "idle" => j = NoJob
         /\ j.step \in {"insert", "read", "link"} => j \in Made
         /\ j.step \in {"write", "clear"} => j \in Edited
         /\ j.step \in {"detach", "delete"} => j \in Gone
<1>1. CASE j = NoJob
  BY <1>1 DEF NoJob
<1>2. CASE j \in Made
  BY <1>2 DEF Made
<1>3. CASE j \in Edited
  BY <1>3 DEF Edited
<1>4. CASE j \in Gone
  BY <1>4 DEF Gone
<1> QED
  BY <1>1, <1>2, <1>3, <1>4 DEF Jobs

\* There are no configurations.
LEMMA ConfigInitInv == ConfigInit => ConfigInv
<1> SUFFICES ASSUME ConfigInit PROVE ConfigInv
  OBVIOUS
<1> USE ConfigFact, BodyFact, LegacyAssumption DEF ConfigInit
<1>1. TypeConfigRows /\ FreshRows /\ ActiveInv /\ SettledInv
  BY DEF TypeConfigRows, FreshRows, ActiveInv, SettledInv, Exists, First
<1>2. TypeJobs /\ \A a \in Admins : job[a] = NoJob
  BY DEF TypeJobs, Jobs
<1>4. \A a \in Admins : Whole(job[a]) /\ Touched(job[a]) = {} /\ job[a].conf = 0 /\ job[a].from = 0
  BY <1>2 DEF NoJob, Whole, Touched
<1>5. FreshJobs /\ AloneInv /\ WorkInv
  BY <1>4 DEF FreshJobs, AloneInv, WorkInv
<1>3. TypeStatuses /\ TypePast /\ FreshStatuses /\ BootInv /\ BatchInv /\ StatusesAccounted
  BY DEF TypeStatuses, Batches, NoPush, TypePast, FreshStatuses, BootInv, BatchInv,
         StatusesAccounted, Exists
<1> QED
  BY <1>1, <1>2, <1>3, <1>5 DEF ConfigInv, EditInv, StatusInv

-----------------------------------------------------------------------------
(* What the steps have in common *)

\* Nothing of the edits changes.
LEMMA KeepEdits ==
  ASSUME EditInv, UNCHANGED <<row, link, next, asked, job, mixed>>
  PROVE  EditInv'
<1>1. TypeConfigRows' /\ TypeJobs' /\ FreshRows' /\ FreshJobs'
  BY DEF EditInv, TypeConfigRows, TypeJobs, FreshRows, FreshJobs
<1>2. ActiveInv' /\ AloneInv'
  BY DEF EditInv, ActiveInv, AloneInv, Exists, Touched
<1>3. WorkInv' /\ SettledInv'
  BY DEF EditInv, WorkInv, Whole, Written, SettledInv, Between, AsAsked, Exists
<1> QED
  BY <1>1, <1>2, <1>3 DEF EditInv

\* No status changes, and no configuration comes into being but as it began.
LEMMA KeepStatuses ==
  ASSUME StatusInv, EditInv, boot = "up", next' \in Nat, next' >= next,
         UNCHANGED <<marked, isPushed, before, sent, halfway, push, boot>>,
         named' \subseteq Configs, orphan' \in BOOLEAN,
         \A c \in Configs : Exists(c)' => Exists(c) \/ c >= next
  PROVE  StatusInv'
<1>1. next \in Nat /\ push.conf \in Nat
  <2>1. next \in 1..(MaxConfigs + 1)
    BY DEF EditInv, TypeConfigRows
  <2>2. push.conf \in Configs \cup {0}
    BY DEF StatusInv, TypeStatuses, Batches, NoPush
  <2> QED
    BY <2>1, <2>2, ConfigFact
<1>2. TypeStatuses' /\ TypePast'
  BY DEF StatusInv, TypeStatuses, TypePast
<1>3. FreshStatuses'
  <2>1. push.conf < next'
    BY <1>1 DEF StatusInv, FreshStatuses
  <2>2. \A c \in Configs : c >= next' => c >= next
    BY <1>1, ConfigFact
  <2> QED
    BY <2>1, <2>2 DEF StatusInv, FreshStatuses
<1>4. BootInv' /\ BatchInv'
  BY DEF StatusInv, BootInv, BatchInv
<1>5. StatusesAccounted'
  BY DEF StatusInv, StatusesAccounted, FreshStatuses
<1> QED
  BY <1>2, <1>3, <1>4, <1>5 DEF StatusInv

\* The request of a turns to j.
Turned(a, j) ==
  job' \in [Admins -> Jobs] /\ job'[a] = j /\ \A b \in Admins \ {a} : job'[b] = job[b]

\* The EXCEPT of the model, as a request that turns.
LEMMA TurnFact ==
  ASSUME EditInv, NEW a \in Admins, NEW j \in Jobs, job' = [job EXCEPT ![a] = j]
  PROVE  Turned(a, j)
BY DEF EditInv, TypeJobs, Turned

\* A request turns to j and changes nothing but the configuration c it is on, or
\* makes.
LEMMA JobMove ==
  ASSUME EditInv, NEW a \in Admins, NEW c \in Configs, NEW j \in Jobs,
         Turned(a, j), TypeConfigRows', mixed \subseteq mixed', mixed' \subseteq Configs,
         \A d \in Configs \ {c} : /\ row'[d] = row[d] /\ link'[d] = link[d] /\ asked'[d] = asked[d],
         job[a].conf \in {0, c}, j.conf \in {0, c}, j.from \in {0, job[a].from},
         \A b \in Admins \ {a} : c \in mixed' \/ c \notin Touched(job[b]),
         FreshRows', next' >= next, c < next', Whole(j),
         Exists(c)' => /\ row'[c].active = asked'[c].active
                       /\ c \in mixed' \/ (j.conf = c => Written(j)')
                       /\ \/ c \in mixed' \/ AsAsked(c)'
                          \/ j.conf = c /\ j.step \in {"read", "link", "clear"}
  PROVE  EditInv'
<1>1. job \in [Admins -> Jobs] /\ job' \in [Admins -> Jobs] /\ job'[a] = j
      /\ \A b \in Admins \ {a} : job'[b] = job[b]
  BY DEF EditInv, TypeJobs, Turned
<1>2. TypeJobs'
  BY <1>1 DEF TypeJobs
<1>3. FreshJobs'
  <2>1. next \in Nat /\ next' \in Nat /\ c \in Nat /\ 0 < next'
    <3>1. next \in 1..(MaxConfigs + 1) /\ next' \in 1..(MaxConfigs + 1)
      BY DEF EditInv, TypeConfigRows
    <3> QED
      BY <3>1, ConfigFact
  <2>2. \A b \in Admins : job[b].conf \in Nat /\ job[b].from \in Nat
                          /\ job[b].conf < next /\ job[b].from < next
    <3> SUFFICES ASSUME NEW b \in Admins
                 PROVE  /\ job[b].conf \in Nat /\ job[b].from \in Nat
                        /\ job[b].conf < next /\ job[b].from < next
      OBVIOUS
    <3>1. job[b].conf \in Configs \cup {0} /\ job[b].from \in Configs \cup {0}
      BY <1>1, JobShape
    <3>2. job[b].conf < next /\ job[b].from < next
      BY DEF EditInv, FreshJobs
    <3> QED
      BY <3>1, <3>2, ConfigFact
  <2> SUFFICES ASSUME NEW b \in Admins
               PROVE  job'[b].conf < next' /\ job'[b].from < next'
    BY DEF FreshJobs
  <2>3. CASE b = a
    <3>1. job'[b] = j /\ j.conf \in {0, c} /\ j.from \in {0, job[a].from}
      BY <1>1, <2>3
    <3>2. job[a].from < next'
      BY <2>1, <2>2, Below
    <3> QED
      BY <2>1, <3>1, <3>2
  <2>4. CASE b # a
    <3>1. job'[b] = job[b]
      BY <1>1, <2>4
    <3> QED
      BY <2>1, <2>2, <3>1, Below
  <2> QED
    BY <2>3, <2>4
<1>4. ActiveInv'
  <2> SUFFICES ASSUME NEW d \in Configs, row'[d] # Absent
               PROVE  row'[d].active = asked'[d].active
    BY DEF ActiveInv, Exists
  <2> QED
    BY DEF EditInv, ActiveInv, Exists
<1>5. \A d \in Configs \ {c} : Exists(d)' <=> Exists(d)
  BY DEF Exists
<1>6. AloneInv'
  <2> SUFFICES ASSUME NEW d \in Configs \ mixed', NEW b \in Admins, NEW e \in Admins,
                      d \in Touched(job'[b]), d \in Touched(job'[e])
               PROVE  b = e
    BY DEF AloneInv, Touched
  <2>1. d \notin mixed
    OBVIOUS
  <2>2. CASE d = c
    BY <1>1, <2>2
  <2>3. CASE d # c
    <3>1. d \in Touched(j) => d \in Touched(job[a])
      BY <2>3, ConfigFact DEF Touched
    <3>2. \A f \in Admins : d \in Touched(job'[f]) => d \in Touched(job[f])
      BY <1>1, <3>1
    <3> QED
      BY <2>1, <3>2 DEF EditInv, AloneInv
  <2> QED
    BY <2>2, <2>3
<1>7. WorkInv'
  <2> SUFFICES ASSUME NEW b \in Admins
               PROVE  /\ Whole(job'[b])
                      /\ (job'[b].conf \in Configs \ mixed' /\ row'[job'[b].conf] # Absent)
                           => Written(job[b])' 
    BY DEF WorkInv, Exists, Whole
  <2>1. CASE b = a
    <3> SUFFICES ASSUME j.conf \in Configs \ mixed', row'[j.conf] # Absent
                 PROVE  Written(job[b])'
      BY <1>1, <2>1
    <3>1. j.conf = c
      BY ConfigFact
    <3>2. Written(j)'
      BY <3>1 DEF Exists
    <3> QED
      BY <1>1, <2>1, <3>2 DEF Written
  <2>2. CASE b # a
    <3>1. job'[b] = job[b] /\ Whole(job[b])
      BY <1>1, <2>2 DEF EditInv, WorkInv
    <3> SUFFICES ASSUME job[b].conf \in Configs \ mixed', row'[job[b].conf] # Absent
                 PROVE  Written(job[b])'
      BY <3>1
    <3>2. job[b].conf # c
      BY <2>2 DEF Touched
    <3>3. Exists(job[b].conf) /\ Written(job[b])
      BY <3>2 DEF EditInv, WorkInv, Exists
    <3>4. UNCHANGED <<row[job[b].conf], link[job[b].conf], asked[job[b].conf], job[b]>>
      BY <3>1, <3>2
    <3> QED
      BY <3>3, <3>4 DEF Written
  <2> QED
    BY <2>1, <2>2
<1>8. SettledInv'
  <2> SUFFICES ASSUME NEW d \in Configs \ mixed', row'[d] # Absent
               PROVE  Between(d)' \/ AsAsked(d)'
    BY DEF SettledInv, Exists
  <2>1. CASE d = c
    BY <1>1, <2>1 DEF Between, Exists
  <2>2. CASE d # c
    <3>1. Between(d) \/ AsAsked(d)
      BY <2>2 DEF EditInv, SettledInv, Exists
    <3>2. ASSUME Between(d) PROVE Between(d)'
      <4>1. PICK b \in Admins : job[b].conf = d /\ job[b].step \in {"read", "link", "clear"}
        BY <3>2 DEF Between
      <4>2. b # a
        BY <2>2, <4>1, ConfigFact
      <4> QED
        BY <1>1, <4>1, <4>2 DEF Between
    <3>3. AsAsked(d) => AsAsked(d)'
      BY <2>2 DEF AsAsked
    <3> QED
      BY <3>1, <3>2, <3>3
  <2> QED
    BY <2>1, <2>2
<1> QED
  BY <1>2, <1>3, <1>4, <1>6, <1>7, <1>8 DEF EditInv

\* A request that makes a configuration, as it goes on.
Making(step, c, f, todo, what) == [step |-> step, conf |-> c, from |-> f, todo |-> todo, what |-> what]

\* The fields of a request that makes a configuration.
LEMMA MakingFact ==
  ASSUME NEW step, NEW c, NEW f, NEW todo, NEW what
  PROVE  /\ Making(step, c, f, todo, what).step = step /\ Making(step, c, f, todo, what).conf = c
         /\ Making(step, c, f, todo, what).from = f /\ Making(step, c, f, todo, what).todo = todo
         /\ Making(step, c, f, todo, what).what = what
BY DEF Making

\* It comes to another step, ...
LEMMA MakingStep ==
  ASSUME NEW step, NEW c, NEW f, NEW todo, NEW what, NEW s
  PROVE  [Making(step, c, f, todo, what) EXCEPT !.step = s] = Making(s, c, f, todo, what)
BY DEF Making

\* ... gets its id, ...
LEMMA MakingConf ==
  ASSUME NEW step, NEW c, NEW f, NEW todo, NEW what, NEW d
  PROVE  [Making(step, c, f, todo, what) EXCEPT !.conf = d] = Making(step, d, f, todo, what)
BY DEF Making

\* ... and has other collectors left to link.
LEMMA MakingTodo ==
  ASSUME NEW step, NEW c, NEW f, NEW todo, NEW what, NEW t
  PROVE  [Making(step, c, f, todo, what) EXCEPT !.todo = t] = Making(step, c, f, t, what)
BY DEF Making

\* Every request that makes a configuration is of that form, ...
LEMMA MadeFact ==
  ASSUME NEW j \in Made
  PROVE  /\ j = Making(j.step, j.conf, j.from, j.todo, j.what)
         /\ j.todo \in SUBSET Collectors /\ j.what \in Wanted
         /\ j.conf \in Configs \cup {0} /\ j.from \in Configs \cup {0}
BY DEF Made, Making

\* ... and what is of that form is a request.
LEMMA IsMade ==
  ASSUME NEW step \in {"insert", "read", "link"}, NEW c \in Configs \cup {0},
         NEW f \in Configs \cup {0}, NEW todo \in SUBSET Collectors, NEW what \in Wanted
  PROVE  Making(step, c, f, todo, what) \in Jobs
BY DEF Making, Made, Jobs

\* A request is done, which leaves whether it is switched on.
LEMMA DoneFact ==
  ASSUME EditInv, NEW a \in Admins, NEW c \in Configs, NEW w \in Wanted, Done(a, c, w)
  PROVE  /\ Turned(a, NoJob) /\ job' = [job EXCEPT ![a] = NoJob]
         /\ mixed \subseteq mixed' /\ mixed' \subseteq Configs
         /\ NoJob \in Jobs /\ NoJob.conf = 0 /\ NoJob.from = 0 /\ Whole(NoJob)
         /\ asked' \in [Configs -> Wanted] /\ \A d \in Configs \ {c} : asked'[d] = asked[d]
         /\ asked'[c].active = asked[c].active /\ asked'[c].api = w.api
         /\ asked'[c].source = w.source /\ asked'[c].ids = w.ids
<1>1. /\ job' = [job EXCEPT ![a] = NoJob] /\ mixed \subseteq mixed' /\ mixed' \subseteq Configs
      /\ asked' = [asked EXCEPT ![c] = [w EXCEPT !.active = asked[c].active]]
  BY DEF Done, EditInv, TypeJobs
<1>2. asked \in [Configs -> Wanted] /\ asked[c].active \in BOOLEAN
  BY Zenon DEF EditInv, TypeConfigRows, Wanted
<1>3. PICK v \in Wanted : v = [w EXCEPT !.active = asked[c].active]
  BY <1>2 DEF Wanted
<1>4. v.active = asked[c].active /\ v.api = w.api /\ v.source = w.source /\ v.ids = w.ids
  BY <1>3 DEF Wanted
<1>5. asked' \in [Configs -> Wanted] /\ asked'[c] = v /\ \A d \in Configs \ {c} : asked'[d] = asked[d]
  BY <1>1, <1>2, <1>3
<1>6. NoJob \in Jobs /\ NoJob.conf = 0 /\ NoJob.from = 0 /\ Whole(NoJob)
  BY DEF Jobs, NoJob, Whole
<1> QED
  BY <1>1, <1>4, <1>5, <1>6, TurnFact

\* One whose configuration is made and whose collectors are to be linked.
Linking == [step : {"insert", "read", "link", "clear"}, conf : Configs, from : Configs \cup {0},
            todo : SUBSET Collectors, what : Wanted]

\* So is one whose collectors are to be linked.
LEMMA IsLinking ==
  ASSUME NEW step \in {"insert", "read", "link", "clear"}, NEW c \in Configs,
         NEW f \in Configs \cup {0}, NEW todo \in SUBSET Collectors, NEW what \in Wanted
  PROVE  Making(step, c, f, todo, what) \in Linking
BY DEF Making, Linking

\* The collectors are linked, or the request is done.
LEMMA ThenLinkFact ==
  ASSUME EditInv, NEW a \in Admins, NEW j \in Linking, ThenLink(a, j)
  PROVE  \E n \in Jobs :
           /\ Turned(a, n) /\ mixed \subseteq mixed' /\ mixed' \subseteq Configs
           /\ n.conf \in {0, j.conf} /\ n.from \in {0, j.from} /\ Whole(n)
           /\ asked' \in [Configs -> Wanted]
           /\ \A d \in Configs \ {j.conf} : asked'[d] = asked[d]
           /\ asked'[j.conf].active = asked[j.conf].active
           /\ \/ /\ n.conf = 0 /\ j.todo = {} /\ asked'[j.conf].api = j.what.api
                 /\ asked'[j.conf].source = j.what.source /\ asked'[j.conf].ids = j.what.ids
              \/ /\ n.conf = j.conf /\ n.step = "link" /\ n.todo = j.todo /\ n.what = j.what
                 /\ asked' = asked
<1> DEFINE c == j.conf f == j.from todo == j.todo what == j.what
<1>1. /\ c \in Configs /\ f \in Configs \cup {0} /\ todo \in SUBSET Collectors /\ what \in Wanted
      /\ [j EXCEPT !.step = "link"] = Making("link", c, f, todo, what)
  BY DEF Linking, Making
<1>2. IF todo = {} THEN Done(a, c, what) ELSE Continue(a, Making("link", c, f, todo, what))
  BY <1>1 DEF ThenLink
<1> HIDE DEF c, f, todo, what
<1>3. asked \in [Configs -> Wanted] /\ asked[c] \in Wanted
  BY <1>1 DEF EditInv, TypeConfigRows
<1>4. CASE todo = {}
  <2>1. Done(a, c, what)
    BY <1>2, <1>4
  <2> QED
    BY <1>1, <1>4, <2>1, DoneFact DEF c, f, todo, what
<1>5. CASE todo # {}
  <2>1. /\ job' = [job EXCEPT ![a] = Making("link", c, f, todo, what)] /\ asked' = asked
        /\ mixed \subseteq mixed' /\ mixed' \subseteq Configs
    BY <1>2, <1>5 DEF Continue, EditInv, TypeJobs
  <2>2. PICK n \in Jobs : n = Making("link", c, f, todo, what)
    BY <1>1, IsMade
  <2>3. n.conf = c /\ n.from = f /\ n.step = "link" /\ n.todo = todo /\ n.what = what
    BY <2>2, MakingFact
  <2>4. Whole(n)
    BY <1>1, <2>3, ConfigFact DEF Whole
  <2>5. Turned(a, n)
    BY <2>1, <2>2, TurnFact
  <2> QED
    BY <1>3, <2>1, <2>2, <2>3, <2>4, <2>5 DEF c, f, todo, what
<1> QED
  BY <1>4, <1>5

\* A request ends or goes on with nothing written to a configuration, which is as
\* asked.
LEMMA QuietJob ==
  ASSUME EditInv, NEW a \in Admins, NEW c \in Configs, NEW j \in Jobs, job[a].conf = c,
         job' = [job EXCEPT ![a] = j], UNCHANGED <<row, link, next, asked>>,
         mixed \subseteq mixed', mixed' \subseteq Configs,
         j.conf \in {0, c}, j.from \in {0, job[a].from}, Whole(j),
         c \in mixed' \/ ~Exists(c) \/ ((j.conf = c => Written(j)) /\ AsAsked(c))
  PROVE  EditInv'
<1>1. TypeConfigRows' /\ FreshRows' /\ next \in Nat /\ next' >= next /\ c < next'
  <2>1. next \in Nat /\ c < next
    BY ConfigFact DEF EditInv, TypeConfigRows, FreshJobs
  <2> QED
    BY <2>1 DEF EditInv, TypeConfigRows, FreshRows
<1>2. \A b \in Admins \ {a} : c \in mixed' \/ c \notin Touched(job[b])
  BY DEF EditInv, AloneInv, Touched
<1>3. Written(j)' <=> Written(j)
  BY DEF Written
<1>4. (Exists(c)' <=> Exists(c)) /\ (AsAsked(c)' <=> AsAsked(c))
  BY DEF Exists, AsAsked
<1>5. Exists(c) => row'[c].active = asked'[c].active
  BY DEF EditInv, ActiveInv
<1> QED
  BY <1>1, <1>2, <1>3, <1>4, <1>5, JobMove, TurnFact

\* A request ends, and a configuration it was between two statements on is known
\* to be unfinished.
LEMMA EndJob ==
  ASSUME EditInv, NEW a \in Admins, job' = [job EXCEPT ![a] = NoJob],
         UNCHANGED <<row, link, next, asked>>, mixed \subseteq mixed', mixed' \subseteq Configs,
         job[a].step \in {"read", "link", "clear"} => job[a].conf \in mixed'
  PROVE  EditInv'
<1>1. /\ job' \in [Admins -> Jobs] /\ job'[a] = NoJob /\ NoJob \in Jobs
      /\ \A b \in Admins \ {a} : job'[b] = job[b]
  BY DEF EditInv, TypeJobs, Jobs
<1>2. TypeConfigRows' /\ TypeJobs' /\ FreshRows' /\ ActiveInv'
  BY <1>1 DEF EditInv, TypeConfigRows, TypeJobs, FreshRows, ActiveInv, Exists
<1>3. NoJob.conf = 0 /\ NoJob.from = 0 /\ NoJob.step = "idle" /\ Touched(NoJob) = {} /\ Whole(NoJob)
  BY ConfigFact DEF NoJob, Touched, Whole
<1>4. FreshJobs'
  <2>1. 0 < next
    BY ConfigFact DEF EditInv, TypeConfigRows
  <2> QED
    BY <1>1, <1>3, <2>1 DEF EditInv, FreshJobs
<1>5. AloneInv'
  <2> SUFFICES ASSUME NEW c \in Configs \ mixed', NEW b \in Admins, NEW d \in Admins,
                      c \in Touched(job'[b]), c \in Touched(job'[d])
               PROVE  b = d
    BY DEF AloneInv, Touched
  <2> QED
    BY <1>1, <1>3 DEF EditInv, AloneInv
<1>6. WorkInv'
  <2>1. \A b \in Admins :
          /\ Written(job[b])' <=> Written(job'[b])
          /\ Whole(job[b])' <=> Whole(job'[b])
          /\ Exists(job[b].conf)' <=> Exists(job'[b].conf)
    BY DEF Written, Whole, Exists
  <2> SUFFICES ASSUME NEW b \in Admins
               PROVE  /\ Whole(job'[b])
                      /\ (job'[b].conf \in Configs \ mixed' /\ Exists(job'[b].conf)) => Written(job'[b])
    BY <2>1 DEF WorkInv
  <2> QED
    BY <1>1, <1>3, ConfigFact DEF EditInv, WorkInv
<1>7. SettledInv'
  <2> SUFFICES ASSUME NEW c \in Configs \ mixed', Exists(c)
               PROVE  Between(c)' \/ AsAsked(c)
    BY DEF SettledInv, Exists, AsAsked
  <2>1. CASE Between(c)
    <3>1. PICK b \in Admins : job[b].conf = c /\ job[b].step \in {"read", "link", "clear"}
      BY <2>1 DEF Between
    <3>2. b # a
      BY <3>1
    <3> QED
      BY <1>1, <3>1, <3>2 DEF Between
  <2> QED
    BY <2>1 DEF EditInv, SettledInv
<1> QED
  BY <1>2, <1>4, <1>5, <1>6, <1>7 DEF EditInv

\* A request begins, on what is there.
LEMMA BeginJob ==
  ASSUME EditInv, NEW a \in Admins, NEW j \in Jobs, Begin(a, j), Whole(j), j.conf < next, j.from < next,
         j.step \in {"insert", "write", "detach"},
         (j.conf \in Configs /\ Exists(j.conf)) => Written(j)
  PROVE  EditInv'
<1>1. /\ job[a] = NoJob /\ job' = [job EXCEPT ![a] = j] /\ UNCHANGED <<row, link, next, asked>>
      /\ mixed' = mixed \cup UNION {Touched(j) \cup Touched(job[b]) :
                                     b \in {d \in Admins : Touched(j) \cap Touched(job[d]) # {}}}
  BY DEF Begin, table
<1>2. /\ job' \in [Admins -> Jobs] /\ job'[a] = j
      /\ \A b \in Admins \ {a} : job'[b] = job[b]
  BY <1>1 DEF EditInv, TypeJobs
<1>3. mixed \subseteq mixed' /\ mixed' \subseteq Configs
  BY <1>1 DEF EditInv, TypeJobs, Touched
<1>4. TypeConfigRows' /\ TypeJobs' /\ FreshRows' /\ FreshJobs' /\ ActiveInv'
  BY <1>1, <1>2, <1>3 DEF EditInv, TypeConfigRows, TypeJobs, FreshRows, FreshJobs, ActiveInv, Exists
<1>5. AloneInv'
  <2> SUFFICES ASSUME NEW c \in Configs \ mixed', NEW b \in Admins, NEW d \in Admins,
                      c \in Touched(job'[b]), c \in Touched(job'[d])
               PROVE  b = d
    BY DEF AloneInv, Touched
  <2>1. \A e \in Admins : ~(c \in Touched(j) /\ c \in Touched(job[e]))
    BY <1>1
  <2> QED
    BY <1>2, <1>3, <2>1 DEF EditInv, AloneInv
<1>6. WorkInv'
  <2>1. \A b \in Admins :
          /\ Written(job[b])' <=> Written(job'[b])
          /\ Whole(job[b])' <=> Whole(job'[b])
          /\ Exists(job[b].conf)' <=> Exists(job'[b].conf)
    BY <1>1 DEF Written, Whole, Exists
  <2> SUFFICES ASSUME NEW b \in Admins
               PROVE  /\ Whole(job'[b])
                      /\ (job'[b].conf \in Configs \ mixed' /\ Exists(job'[b].conf)) => Written(job'[b])
    BY <2>1 DEF WorkInv
  <2> QED
    BY <1>2, <1>3 DEF EditInv, WorkInv
<1>7. SettledInv'
  <2> SUFFICES ASSUME NEW c \in Configs \ mixed', Exists(c)
               PROVE  Between(c)' \/ AsAsked(c)
    BY <1>1 DEF SettledInv, Exists, AsAsked
  <2>1. CASE Between(c)
    <3>1. PICK b \in Admins : job[b].conf = c /\ job[b].step \in {"read", "link", "clear"}
      BY <2>1 DEF Between
    <3>2. job[a].step = "idle"
      BY <1>1 DEF NoJob
    <3>3. b # a
      BY <3>1, <3>2
    <3> QED
      BY <1>2, <3>1, <3>3 DEF Between
  <2> QED
    BY <1>3, <2>1 DEF EditInv, SettledInv
<1> QED
  BY <1>4, <1>5, <1>6, <1>7 DEF EditInv

\* A request on a configuration no other one works on knows what it wrote.
LEMMA OnlyJob ==
  ASSUME EditInv, NEW a \in Admins, NEW c \in Configs \ mixed, job[a].conf = c, Exists(c)
  PROVE  /\ Written(job[a])
         /\ job[a].step \notin {"read", "link", "clear"} => AsAsked(c)
<1>1. Written(job[a])
  BY DEF EditInv, WorkInv
<1>2. ASSUME Between(c) PROVE job[a].step \in {"read", "link", "clear"}
  <2>1. PICK b \in Admins : job[b].conf = c /\ job[b].step \in {"read", "link", "clear"}
    BY <1>2 DEF Between
  <2>2. b = a
    BY <2>1 DEF EditInv, AloneInv, Touched
  <2> QED
    BY <2>1, <2>2
<1> QED
  BY <1>1, <1>2 DEF EditInv, SettledInv

\* A request is open: the process has started, and its configuration is one.
LEMMA OpenJob ==
  ASSUME ConfigInv, NEW a \in Admins, job[a].step # "idle"
  PROVE  /\ boot = "up" /\ job[a] \in Jobs /\ Whole(job[a]) /\ next \in Nat
         /\ job[a].step # "insert" => job[a].conf \in Configs
         /\ \A b \in Admins \ {a} : \A c \in Configs \ mixed :
              c \in Touched(job[a]) => c \notin Touched(job[b])
         /\ job[a].conf < next
<1>1. boot = "up"
  BY DEF ConfigInv, StatusInv, BootInv, NoJob
<1>2. job[a] \in Jobs /\ Whole(job[a]) /\ job[a].conf < next
  BY DEF ConfigInv, EditInv, TypeJobs, WorkInv, FreshJobs
<1>3. next \in Nat
  BY ConfigFact DEF ConfigInv, EditInv, TypeConfigRows
<1>4. job[a].step # "insert" => job[a].conf \in Configs
  BY <1>2, JobShape DEF Whole
<1> QED
  BY <1>1, <1>2, <1>3, <1>4 DEF ConfigInv, EditInv, AloneInv

-----------------------------------------------------------------------------
(* The requests *)

\* The steps of a request that make no configuration and change no status.
LEMMA KeepOthers ==
  ASSUME ConfigInv, boot = "up",
         UNCHANGED <<next, marked, isPushed, before, sent, halfway, push, boot>>,
         named' \subseteq Configs, orphan' \in BOOLEAN,
         \A c \in Configs : Exists(c)' => Exists(c)
  PROVE  StatusInv'
<1>1. next' \in Nat /\ next' >= next
  BY ConfigFact DEF ConfigInv, EditInv, TypeConfigRows
<1> QED
  BY <1>1, KeepStatuses DEF ConfigInv

\* A request begins with what it read, and nothing is written.
LEMMA KeepBegin ==
  ASSUME ConfigInv, NEW a \in Admins, StartCreate(a) \/ StartUpdate(a) \/ StartDuplicate(a) \/ StartDelete(a)
  PROVE  ConfigInv'
<1>1. \E j : Begin(a, j)
  BY DEF StartCreate, StartUpdate, StartDuplicate, StartDelete
<1>2. /\ UNCHANGED <<row, next, marked, isPushed, before, sent, halfway, push, boot, named, orphan>>
      /\ boot = "up"
  BY <1>1 DEF Begin, table, statuses, past
<1>3. StatusInv'
  BY <1>2, KeepOthers DEF ConfigInv, StatusInv, TypePast, Exists
<1>4. 0 < next
  BY ConfigFact DEF ConfigInv, EditInv, TypeConfigRows
<1>5. CASE StartCreate(a)
  <2>1. PICK b \in Creations :
          LET wanted == IF b.source = "selected" THEN b.ids ELSE {}
          IN Begin(a, [step |-> "insert", conf |-> 0, from |-> 0, todo |-> wanted,
                       what |-> [api |-> b.api, source |-> b.source, active |-> TRUE, ids |-> wanted]])
    BY <1>5 DEF StartCreate
  <2>2. PICK wanted \in SUBSET Collectors : wanted = IF b.source = "selected" THEN b.ids ELSE {}
    BY BodyFact
  <2> DEFINE j == [step |-> "insert", conf |-> 0, from |-> 0, todo |-> wanted,
                   what |-> [api |-> b.api, source |-> b.source, active |-> TRUE, ids |-> wanted]]
  <2>3. j \in Jobs
    BY BodyFact DEF Jobs, Made, Wanted
  <2>4. Begin(a, j)
    BY <2>1, <2>2
  <2>5. Whole(j) /\ j.conf = 0 /\ j.from = 0 /\ j.step = "insert"
    BY DEF Whole
  <2> HIDE DEF j
  <2> QED
    BY <1>3, <1>4, <2>3, <2>4, <2>5, BeginJob, ConfigFact DEF ConfigInv
<1>6. CASE StartUpdate(a)
  <2>1. PICK c \in Configs, b \in Edits :
          /\ Exists(c)
          /\ Begin(a, [step |-> "write", conf |-> c, from |-> 0, body |-> b, old |-> row[c]])
    BY <1>6 DEF StartUpdate
  <2>2. PICK old \in Row : old = row[c]
    BY <2>1 DEF ConfigInv, EditInv, TypeConfigRows, Exists
  <2> DEFINE j == [step |-> "write", conf |-> c, from |-> 0, body |-> b, old |-> old]
  <2>3. j \in Jobs
    BY DEF Jobs, Edited
  <2>4. Begin(a, j)
    BY <2>1, <2>2
  <2>5. Whole(j) /\ j.conf = c /\ j.from = 0 /\ j.step = "write" /\ Written(j)
    BY <2>2, ConfigFact DEF Whole, Written
  <2>6. c < next
    <3>1. c \in Nat /\ next \in Nat /\ ~(c >= next)
      BY <2>1, ConfigFact DEF ConfigInv, EditInv, TypeConfigRows, FreshRows, Exists
    <3> QED
      BY <3>1
  <2> HIDE DEF j
  <2> QED
    BY <1>3, <1>4, <2>3, <2>4, <2>5, <2>6, BeginJob, ConfigFact DEF ConfigInv
<1>7. CASE StartDuplicate(a)
  <2>1. PICK c \in Configs :
          /\ Exists(c)
          /\ Begin(a, [step |-> "insert", conf |-> 0, from |-> c, todo |-> {},
                       what |-> [api |-> row[c].api, source |-> row[c].source, active |-> TRUE, ids |-> {}]])
    BY <1>7 DEF StartDuplicate
  <2>2. PICK old \in Row : old = row[c]
    BY <2>1 DEF ConfigInv, EditInv, TypeConfigRows, Exists
  <2> DEFINE j == [step |-> "insert", conf |-> 0, from |-> c, todo |-> {},
                   what |-> [api |-> old.api, source |-> old.source, active |-> TRUE, ids |-> {}]]
  <2>3. j \in Jobs
    BY DEF Jobs, Made, Wanted, Row
  <2>4. Begin(a, j)
    BY <2>1, <2>2
  <2>5. Whole(j) /\ j.conf = 0 /\ j.from = c /\ j.step = "insert"
    BY DEF Whole
  <2>6. c < next
    <3>1. c \in Nat /\ next \in Nat /\ ~(c >= next)
      BY <2>1, ConfigFact DEF ConfigInv, EditInv, TypeConfigRows, FreshRows, Exists
    <3> QED
      BY <3>1
  <2> HIDE DEF j
  <2> QED
    BY <1>3, <1>4, <2>3, <2>4, <2>5, <2>6, BeginJob, ConfigFact DEF ConfigInv
<1>8. CASE StartDelete(a)
  <2>1. PICK c \in Configs : Exists(c) /\ Begin(a, [step |-> "detach", conf |-> c, from |-> 0])
    BY <1>8 DEF StartDelete
  <2> DEFINE j == [step |-> "detach", conf |-> c, from |-> 0]
  <2>3. j \in Jobs
    BY DEF Jobs, Gone
  <2>4. Begin(a, j)
    BY <2>1
  <2>5. Whole(j) /\ j.conf = c /\ j.from = 0 /\ j.step = "detach" /\ Written(j)
    BY ConfigFact DEF Whole, Written
  <2>6. c < next
    <3>1. c \in Nat /\ next \in Nat /\ ~(c >= next)
      BY <2>1, ConfigFact DEF ConfigInv, EditInv, TypeConfigRows, FreshRows, Exists
    <3> QED
      BY <3>1
  <2> HIDE DEF j
  <2> QED
    BY <1>3, <1>4, <2>3, <2>4, <2>5, <2>6, BeginJob, ConfigFact DEF ConfigInv
<1> QED
  BY <1>5, <1>6, <1>7, <1>8

\* The new configuration is what the request knows of it.
LEMMA KeepInsert ==
  ASSUME ConfigInv, NEW a \in Admins, Insert(a)
  PROVE  ConfigInv'
<1>1. /\ job[a].step = "insert" /\ boot = "up"
      /\ UNCHANGED <<link, marked, isPushed, before, sent, halfway, push, boot, named, orphan>>
  BY OpenJob DEF Insert, statuses, past
<1>2. PICK j \in Made : j = job[a] /\ j \in Jobs /\ Whole(j)
  BY <1>1, OpenJob, JobShape
<1>3. /\ j.step = "insert" /\ j.conf = 0 /\ j.from \in Configs \cup {0} /\ j.todo \in SUBSET Collectors
      /\ j.what \in Wanted /\ (j.from = 0 => j.todo = j.what.ids)
  BY <1>1, <1>2 DEF Made, Whole
<1>4. next \in Nat /\ next \in 1..(MaxConfigs + 1)
  BY ConfigFact DEF ConfigInv, EditInv, TypeConfigRows
<1>5. CASE InsertRow(j.what.api, j.what.source)
  <2>1. /\ next \in Configs /\ next' = next + 1
        /\ row' = [row EXCEPT ![next] = [api |-> j.what.api, source |-> j.what.source, active |-> TRUE]]
    BY <1>4, <1>5, ConfigFact DEF InsertRow, Configs
  <2>2. PICK c \in Configs : c = next
    BY <2>1
  <2>3. /\ row[c] = Absent /\ link[c] = {} /\ asked[c] = First
        /\ First.active = TRUE
    <3>1. c >= next
      BY <1>4, <2>2
    <3>2. First.active = TRUE
      BY DEF First
    <3> QED
      BY <3>1, <3>2 DEF ConfigInv, EditInv, FreshRows
  <2> DEFINE r == [api |-> j.what.api, source |-> j.what.source, active |-> TRUE]
             new == Making("insert", c, j.from, j.todo, j.what)
  <2>4. r \in Row /\ r.api = j.what.api /\ r.source = j.what.source /\ r.active = TRUE
    BY <1>3 DEF Row, Wanted
  <2>5. [job[a] EXCEPT !.conf = next] = new
    <3>1. j = Making("insert", 0, j.from, j.todo, j.what)
      BY <1>3, MadeFact
    <3> QED
      BY <1>2, <2>2, <3>1, MakingConf
  <2>6. /\ new.conf = c /\ new.from = j.from /\ new.todo = j.todo /\ new.what = j.what
        /\ [new EXCEPT !.step = "read"] = Making("read", c, j.from, j.todo, j.what)
    BY MakingFact, MakingStep
  <2> HIDE DEF r, new
  <2>7. /\ row' = [row EXCEPT ![c] = r]
        /\ IF new.from = 0 THEN ThenLink(a, new)
                           ELSE Continue(a, [new EXCEPT !.step = "read"])
    <3>1. \/ /\ InsertRow(new.what.api, new.what.source)
             /\ IF new.from = 0 THEN ThenLink(a, new)
                                ELSE Continue(a, [new EXCEPT !.step = "read"])
          \/ UNCHANGED table
      BY <2>5 DEF Insert
    <3>2. ~UNCHANGED table
      BY <1>4, <2>1 DEF table
    <3> QED
      BY <2>1, <2>2, <3>1, <3>2 DEF r
  <2>8. /\ row' \in [Configs -> Row \cup {Absent}] /\ row'[c] = r
        /\ \A d \in Configs \ {c} : row'[d] = row[d]
    BY <2>4, <2>7 DEF ConfigInv, EditInv, TypeConfigRows
  <2>9. next' \in 1..(MaxConfigs + 1) /\ next' \in Nat /\ next' >= next /\ c < next'
    BY <1>4, <2>1, <2>2, ConfigFact DEF Configs
  <2>10. StatusInv'
    <3>1. \A d \in Configs : Exists(d)' => Exists(d) \/ d >= next
      BY <1>4, <2>2, <2>8 DEF Exists
    <3> QED
      BY <1>1, <2>9, <3>1, KeepStatuses DEF ConfigInv, StatusInv, TypePast
  <2>11. \A b \in Admins \ {a} : c \notin Touched(job[b])
    <3>1. \A b \in Admins : job[b].conf < next /\ job[b].from < next
      BY DEF ConfigInv, EditInv, FreshJobs
    <3> QED
      BY <1>4, <2>2, <3>1 DEF Touched
  <2>12. PICK n \in Jobs :
          /\ Turned(a, n) /\ mixed \subseteq mixed' /\ mixed' \subseteq Configs
          /\ n.conf \in {0, c} /\ n.from \in {0, j.from} /\ Whole(n)
          /\ asked' \in [Configs -> Wanted] /\ \A d \in Configs \ {c} : asked'[d] = asked[d]
          /\ asked'[c].active = TRUE
          /\ \/ /\ n.conf = 0
                /\ asked'[c].api = r.api /\ asked'[c].source = r.source /\ asked'[c].ids = {}
             \/ /\ n.conf = c /\ n.what = j.what
                /\ \/ n.step = "link" /\ n.todo = n.what.ids
                   \/ n.step = "read"
    <3>1. asked \in [Configs -> Wanted] /\ asked[c].active = TRUE
      BY <2>3 DEF ConfigInv, EditInv, TypeConfigRows
    <3>2. CASE j.from = 0
      <4>1. PICK k \in Linking : k = new
        BY <1>3, IsLinking DEF new
      <4>4. ThenLink(a, k) /\ EditInv
        BY <2>6, <2>7, <3>2, <4>1 DEF ConfigInv
      <4>2. PICK n \in Jobs :
              /\ Turned(a, n) /\ mixed \subseteq mixed' /\ mixed' \subseteq Configs
              /\ n.conf \in {0, k.conf} /\ n.from \in {0, k.from} /\ Whole(n)
              /\ asked' \in [Configs -> Wanted]
              /\ \A d \in Configs \ {k.conf} : asked'[d] = asked[d]
              /\ asked'[k.conf].active = asked[k.conf].active
              /\ \/ /\ n.conf = 0 /\ k.todo = {} /\ asked'[k.conf].api = k.what.api
                    /\ asked'[k.conf].source = k.what.source /\ asked'[k.conf].ids = k.what.ids
                 \/ /\ n.conf = k.conf /\ n.step = "link" /\ n.todo = k.todo /\ n.what = k.what
                    /\ asked' = asked
        BY <4>4, ThenLinkFact
      <4>3. j.todo = j.what.ids
        BY <1>3, <3>2
      <4> QED
        BY <2>4, <2>6, <3>1, <4>1, <4>2, <4>3
    <3>3. CASE j.from # 0
      <4>1. PICK n \in Jobs : n = Making("read", c, j.from, j.todo, j.what)
        BY <1>3, IsMade
      <4>2. n.conf = c /\ n.from = j.from /\ n.step = "read" /\ n.what = j.what
        BY <4>1, MakingFact
      <4>3. job' = [job EXCEPT ![a] = n] /\ UNCHANGED <<asked, mixed>>
        BY <2>6, <2>7, <3>3, <4>1 DEF Continue
      <4>4. Whole(n)
        BY <3>3, <4>2, ConfigFact DEF Whole
      <4>5. mixed \subseteq mixed' /\ mixed' \subseteq Configs /\ Turned(a, n)
        BY <4>3, TurnFact DEF ConfigInv, EditInv, TypeJobs
      <4> QED
        BY <3>1, <4>2, <4>3, <4>4, <4>5
    <3> QED
      BY <3>2, <3>3
  <2>13. TypeConfigRows'
    BY <1>1, <2>8, <2>9, <2>12 DEF ConfigInv, EditInv, TypeConfigRows
  <2>14. FreshRows'
    <3>1. \A d \in Configs : d >= next' => d >= next /\ d # c
      BY <1>4, <2>9, ConfigFact
    <3> QED
      BY <1>1, <2>8, <2>12, <3>1 DEF ConfigInv, EditInv, FreshRows
  <2>15. row'[c].active = asked'[c].active
    BY <2>4, <2>8, <2>12
  <2>16. n.conf = c => Written(n)'
    <3> SUFFICES ASSUME n.conf = c
                 PROVE  Written(n)'
      OBVIOUS
    <3>1. n.what = j.what /\ ((n.step = "link" /\ n.todo = n.what.ids) \/ n.step = "read")
      BY <2>12, ConfigFact
    <3>2. row'[c] = r /\ link'[c] = {}
      BY <1>1, <2>3, <2>8
    <3> QED
      BY <2>4, <3>1, <3>2 DEF Written
  <2>17. AsAsked(c)' \/ (n.conf = c /\ n.step \in {"read", "link", "clear"})
    BY <1>1, <2>3, <2>8, <2>12 DEF AsAsked
  <2>18. EditInv'
    BY <1>1, <1>2, <1>3, <2>8, <2>9, <2>11, <2>12, <2>13, <2>14, <2>15, <2>16, <2>17, JobMove
       DEF ConfigInv
  <2> QED
    BY <2>10, <2>18 DEF ConfigInv
<1>6. CASE ~InsertRow(j.what.api, j.what.source)
  <2>1. job' = [job EXCEPT ![a] = NoJob] /\ UNCHANGED <<row, next, asked, mixed>>
    <3>1. [job[a] EXCEPT !.conf = next].what = j.what
      BY <1>2 DEF Made
    <3> QED
      BY <1>6, <3>1 DEF Insert, table
  <2>2. EditInv'
    BY <1>1, <2>1, EndJob DEF ConfigInv, EditInv, TypeJobs
  <2>3. StatusInv'
    BY <1>1, <2>1, KeepOthers DEF ConfigInv, StatusInv, TypePast, Exists
  <2> QED
    BY <2>2, <2>3 DEF ConfigInv
<1> QED
  BY <1>5, <1>6

\* The copy gets the original's collectors, or is done.
LEMMA KeepReadLinks ==
  ASSUME ConfigInv, NEW a \in Admins, ReadLinks(a)
  PROVE  ConfigInv'
<1>1. /\ job[a].step = "read" /\ boot = "up"
      /\ UNCHANGED <<row, next, link, marked, isPushed, before, sent, halfway, push, boot, named, orphan>>
  BY OpenJob DEF ReadLinks, table, statuses, past
<1>2. PICK j \in Made : j = job[a] /\ Whole(j) /\ j.conf \in Configs /\ j.conf < next
  BY <1>1, OpenJob, JobShape
<1>3. PICK c \in Configs : c = j.conf
  BY <1>2
<1>4. /\ j = Making("read", c, j.from, j.todo, j.what) /\ j.from \in Configs /\ j.what \in Wanted
      /\ j.todo \in SUBSET Collectors
  BY <1>1, <1>2, <1>3, MadeFact DEF Whole
<1>5. PICK ids \in SUBSET Collectors : ids = IF j.what.source = "selected" THEN link[j.from] ELSE {}
  BY <1>4 DEF ConfigInv, EditInv, TypeConfigRows
<1>6. PICK what \in Wanted : what = [j.what EXCEPT !.ids = ids]
  BY <1>4 DEF Wanted
<1>7. what.api = j.what.api /\ what.source = j.what.source /\ what.ids = ids
  BY <1>4, <1>6 DEF Wanted
<1>8. PICK k \in Linking : k = Making("read", c, j.from, ids, what)
  BY <1>4, IsLinking
<1>9. [[j EXCEPT !.todo = ids] EXCEPT !.what.ids = ids] = k
  <2>1. [j EXCEPT !.todo = ids] = Making("read", c, j.from, ids, j.what)
    BY <1>4, MakingTodo
  <2>2. [Making("read", c, j.from, ids, j.what) EXCEPT !.what.ids = ids]
          = Making("read", c, j.from, ids, [j.what EXCEPT !.ids = ids])
    BY DEF Making
  <2> QED
    BY <1>6, <1>8, <2>1, <2>2
<1>10. k.conf = c /\ k.from = j.from /\ k.todo = ids /\ k.what = what
  BY <1>8, MakingFact
<1>11. ThenLink(a, k)
  BY <1>2, <1>5, <1>9 DEF ReadLinks
<1>12. PICK n \in Jobs :
         /\ Turned(a, n) /\ mixed \subseteq mixed' /\ mixed' \subseteq Configs
         /\ n.conf \in {0, c} /\ n.from \in {0, j.from} /\ Whole(n)
         /\ asked' \in [Configs -> Wanted]
         /\ \A d \in Configs \ {c} : asked'[d] = asked[d]
         /\ asked'[c].active = asked[c].active
         /\ \/ /\ n.conf = 0 /\ ids = {} /\ asked'[c].api = what.api
               /\ asked'[c].source = what.source /\ asked'[c].ids = what.ids
            \/ /\ n.conf = c /\ n.step = "link" /\ n.todo = ids /\ n.what = what
               /\ asked' = asked
  BY <1>10, <1>11, ThenLinkFact DEF ConfigInv
<1>13. StatusInv'
  BY <1>1, KeepOthers DEF ConfigInv, StatusInv, TypePast, Exists
<1>14. TypeConfigRows' /\ next' \in Nat /\ next \in Nat /\ next' >= next
  BY <1>1, <1>12, ConfigFact DEF ConfigInv, EditInv, TypeConfigRows
<1>15. FreshRows'
  <2>1. \A d \in Configs : d >= next => d # c
    BY <1>2, <1>3, <1>14, ConfigFact
  <2> QED
    BY <1>1, <1>12, <2>1 DEF ConfigInv, EditInv, FreshRows
<1>16. ASSUME c \notin mixed', Exists(c)
       PROVE  row[c].api = what.api /\ row[c].source = what.source /\ link[c] = {}
  <2>1. Written(job[a])
    BY <1>2, <1>3, <1>12, <1>16, OnlyJob DEF ConfigInv
  <2> QED
    BY <1>1, <1>2, <1>3, <1>7, <2>1 DEF Written
<1>17. Exists(c)' => row'[c].active = asked'[c].active
  BY <1>1, <1>12 DEF ConfigInv, EditInv, ActiveInv, Exists
<1>18. ASSUME c \notin mixed', Exists(c)'
       PROVE  /\ n.conf = c => Written(n)'
              /\ AsAsked(c)' \/ (n.conf = c /\ n.step \in {"read", "link", "clear"})
  <2>1. row[c].api = what.api /\ row[c].source = what.source /\ link[c] = {}
    BY <1>1, <1>16, <1>18 DEF Exists
  <2>2. CASE n.conf = 0
    BY <1>1, <1>7, <1>12, <2>1, <2>2, ConfigFact DEF AsAsked
  <2>3. CASE n.conf = c
    <3>1. n.step = "link" /\ n.todo = ids /\ n.what = what
      BY <1>12, <2>3, ConfigFact
    <3> QED
      BY <1>1, <1>7, <2>1, <2>3, <3>1 DEF Written
  <2> QED
    BY <1>12, <2>2, <2>3
<1>19. \A b \in Admins \ {a} : c \in mixed' \/ c \notin Touched(job[b])
  BY <1>1, <1>2, <1>3, <1>12, OpenJob DEF Touched
<1>20. EditInv'
  BY <1>1, <1>2, <1>3, <1>12, <1>14, <1>15, <1>17, <1>18, <1>19, JobMove DEF ConfigInv
<1> QED
  BY <1>13, <1>20 DEF ConfigInv

\* The histories let go, which no configuration notices.
LEMMA KeepDetach ==
  ASSUME ConfigInv, NEW a \in Admins, Detach(a)
  PROVE  ConfigInv'
<1>1. /\ job[a].step = "detach" /\ boot = "up"
      /\ UNCHANGED <<row, next, link, marked, isPushed, before, sent, halfway, push, boot, asked, mixed>>
  BY OpenJob DEF Detach, table, statuses, Continue
<1>2. PICK j \in Gone : j = job[a] /\ j \in Jobs /\ j.conf \in Configs
  BY <1>1, OpenJob, JobShape
<1>3. PICK c \in Configs : c = j.conf
  BY <1>2
<1>4. named' \subseteq Configs /\ orphan' \in BOOLEAN
  BY <1>1, Zenon DEF Detach, past, ConfigInv, StatusInv, TypePast
<1>5. StatusInv'
  BY <1>1, <1>4, KeepOthers DEF Exists
<1>6. \/ job' = [job EXCEPT ![a] = NoJob]
      \/ job' = [job EXCEPT ![a] = [job[a] EXCEPT !.step = "delete"]]
  BY DEF Detach, Continue
<1>7. CASE job' = [job EXCEPT ![a] = NoJob]
  <2>1. EditInv'
    BY <1>1, <1>7, EndJob DEF ConfigInv, EditInv, TypeJobs
  <2> QED
    BY <1>5, <2>1 DEF ConfigInv
<1>8. CASE job' = [job EXCEPT ![a] = [job[a] EXCEPT !.step = "delete"]]
  <2>1. PICK n \in Jobs : n = [j EXCEPT !.step = "delete"] /\ n.conf = c /\ n.from = 0 /\ n.step = "delete"
    <3>1. j = [step |-> j.step, conf |-> c, from |-> 0]
      BY <1>3 DEF Gone
    <3>2. [step |-> "delete", conf |-> c, from |-> 0] \in Jobs
      BY DEF Gone, Jobs
    <3> QED
      BY <3>1, <3>2
  <2>2. job' = [job EXCEPT ![a] = n]
    BY <1>2, <1>8, <2>1
  <2>3. Whole(n) /\ Written(n)
    BY <2>1, ConfigFact DEF Whole, Written
  <2>4. c \in mixed \/ ~Exists(c) \/ AsAsked(c)
    BY <1>1, <1>2, <1>3, OnlyJob DEF ConfigInv
  <2>5. EditInv'
    BY <1>1, <1>2, <1>3, <2>1, <2>2, <2>3, <2>4, QuietJob DEF ConfigInv, EditInv, TypeJobs
  <2> QED
    BY <1>5, <2>5 DEF ConfigInv
<1> QED
  BY <1>6, <1>7, <1>8

\* A configuration goes with its links and statuses, or stays whole.
LEMMA KeepDeleteRow ==
  ASSUME ConfigInv, NEW a \in Admins, DeleteRow(a)
  PROVE  ConfigInv'
<1>1. /\ job[a].step = "delete" /\ boot = "up" /\ job' = [job EXCEPT ![a] = NoJob]
      /\ UNCHANGED <<next, isPushed, before, sent, halfway, push, boot, named, orphan, asked, mixed>>
  BY OpenJob DEF DeleteRow, past, Refused
<1>2. PICK c \in Configs : c = job[a].conf /\ c < next
  BY <1>1, OpenJob
<1>3. CASE UNCHANGED <<row, link, marked>>
  <2>1. EditInv'
    BY <1>1, <1>3, EndJob DEF ConfigInv, EditInv, TypeJobs
  <2>2. StatusInv'
    BY <1>1, <1>3, KeepOthers DEF ConfigInv, StatusInv, TypePast, Exists
  <2> QED
    BY <2>1, <2>2 DEF ConfigInv
<1>4. CASE /\ row' = [row EXCEPT ![c] = Absent] /\ link' = [link EXCEPT ![c] = {}]
           /\ marked' = [marked EXCEPT ![c] = {}]
  <2>1. /\ row' \in [Configs -> Row \cup {Absent}] /\ row'[c] = Absent
        /\ link' \in [Configs -> SUBSET Collectors] /\ link'[c] = {}
        /\ marked' \in [Configs -> SUBSET Collectors] /\ marked'[c] = {}
        /\ \A d \in Configs \ {c} : row'[d] = row[d] /\ link'[d] = link[d] /\ marked'[d] = marked[d]
    BY <1>4 DEF ConfigInv, EditInv, TypeConfigRows, StatusInv, TypeStatuses
  <2>2. TypeConfigRows' /\ FreshRows' /\ next \in Nat /\ next' >= next /\ c < next'
    <3>1. next \in Nat /\ next' >= next /\ c < next'
      BY <1>1, <1>2, ConfigFact DEF ConfigInv, EditInv, TypeConfigRows
    <3>2. \A d \in Configs : d >= next => d # c
      BY <1>2, <3>1, ConfigFact
    <3> QED
      BY <1>1, <2>1, <3>1, <3>2 DEF ConfigInv, EditInv, TypeConfigRows, FreshRows
  <2>3. /\ Turned(a, NoJob) /\ NoJob \in Jobs /\ NoJob.conf = 0 /\ NoJob.from = 0 /\ Whole(NoJob)
    BY <1>1, TurnFact DEF ConfigInv, Jobs, NoJob, Whole
  <2>4. \A b \in Admins \ {a} : c \in mixed' \/ c \notin Touched(job[b])
    BY <1>1, <1>2, OpenJob DEF Touched
  <2>5. EditInv'
    BY <1>1, <1>2, <2>1, <2>2, <2>3, <2>4, JobMove DEF ConfigInv, EditInv, TypeJobs, Exists
  <2>6. StatusInv'
    <3>1. TypeStatuses' /\ TypePast' /\ BootInv' /\ BatchInv'
      BY <1>1, <2>1 DEF ConfigInv, StatusInv, TypeStatuses, TypePast, BootInv, BatchInv
    <3>2. FreshStatuses' /\ StatusesAccounted'
      BY <1>1, <2>1 DEF ConfigInv, StatusInv, FreshStatuses, StatusesAccounted, Exists
    <3> QED
      BY <3>1, <3>2 DEF StatusInv
  <2> QED
    BY <2>5, <2>6 DEF ConfigInv
<1> QED
  BY <1>2, <1>3, <1>4 DEF DeleteRow

\* One more collector is linked, or the request stops with less.
LEMMA KeepInsertLink ==
  ASSUME ConfigInv, NEW a \in Admins, InsertLink(a)
  PROVE  ConfigInv'
<1>1. /\ job[a].step = "link" /\ boot = "up"
      /\ UNCHANGED <<row, next, marked, isPushed, before, sent, halfway, push, boot, named, orphan>>
  BY OpenJob DEF InsertLink, table, statuses, past
<1>2. PICK j \in Made : j = job[a] /\ Whole(j) /\ j.conf \in Configs /\ j.conf < next
  BY <1>1, OpenJob, JobShape
<1>3. PICK c \in Configs : c = j.conf
  BY <1>2
<1>4. /\ j = Making("link", c, j.from, j.todo, j.what) /\ j.from \in Configs \cup {0}
      /\ j.what \in Wanted /\ j.todo \in SUBSET Collectors
  BY <1>1, <1>2, <1>3, MadeFact
<1>5. PICK l \in j.todo :
        \/ /\ Exists(c) /\ link' = [link EXCEPT ![c] = @ \cup {l}]
           /\ ThenLink(a, [j EXCEPT !.todo = @ \ {l}])
        \/ Torn(a) /\ UNCHANGED link
  BY <1>2, <1>3 DEF InsertLink
<1>6. StatusInv'
  BY <1>1, KeepOthers DEF ConfigInv, StatusInv, TypePast, Exists
<1>7. CASE Torn(a) /\ UNCHANGED link
  <2>1. EditInv'
    BY <1>1, <1>2, <1>7, EndJob DEF Torn, ConfigInv, EditInv, TypeJobs
  <2> QED
    BY <1>6, <2>1 DEF ConfigInv
<1>8. CASE /\ Exists(c) /\ link' = [link EXCEPT ![c] = @ \cup {l}]
           /\ ThenLink(a, [j EXCEPT !.todo = @ \ {l}])
  <2>1. PICK rest \in SUBSET Collectors : rest = j.todo \ {l} /\ rest \cup {l} = j.todo
    <3>1. (j.todo \ {l}) \cup {l} = j.todo
      OBVIOUS
    <3>2. j.todo \ {l} \in SUBSET Collectors
      BY <1>4
    <3> QED
      BY <3>1, <3>2
  <2>2. PICK k \in Linking : k = Making("link", c, j.from, rest, j.what)
    BY <1>4, IsLinking
  <2>3. [j EXCEPT !.todo = @ \ {l}] = k
    <3>1. [Making("link", c, j.from, j.todo, j.what) EXCEPT !.todo = @ \ {l}]
            = Making("link", c, j.from, Making("link", c, j.from, j.todo, j.what).todo \ {l}, j.what)
      BY DEF Making
    <3> QED
      BY <1>4, <2>1, <2>2, <3>1
  <2>4. k.conf = c /\ k.from = j.from /\ k.todo = rest /\ k.what = j.what
    BY <2>2, MakingFact
  <2>5. ThenLink(a, k)
    BY <1>8, <2>3
  <2>6. PICK n \in Jobs :
          /\ Turned(a, n) /\ mixed \subseteq mixed' /\ mixed' \subseteq Configs
          /\ n.conf \in {0, c} /\ n.from \in {0, j.from} /\ Whole(n)
          /\ asked' \in [Configs -> Wanted]
          /\ \A d \in Configs \ {c} : asked'[d] = asked[d]
          /\ asked'[c].active = asked[c].active
          /\ \/ /\ n.conf = 0 /\ rest = {} /\ asked'[c].api = j.what.api
                /\ asked'[c].source = j.what.source /\ asked'[c].ids = j.what.ids
             \/ /\ n.conf = c /\ n.step = "link" /\ n.todo = rest /\ n.what = j.what
                /\ asked' = asked
    BY <2>4, <2>5, ThenLinkFact DEF ConfigInv
  <2>7. /\ link' \in [Configs -> SUBSET Collectors] /\ link'[c] = link[c] \cup {l}
        /\ \A d \in Configs \ {c} : link'[d] = link[d]
    BY <1>4, <1>8 DEF ConfigInv, EditInv, TypeConfigRows
  <2>8. TypeConfigRows' /\ next' \in Nat /\ next \in Nat /\ next' >= next
    BY <1>1, <2>6, <2>7, ConfigFact DEF ConfigInv, EditInv, TypeConfigRows
  <2>9. FreshRows'
    <3>1. \A d \in Configs : d >= next => d # c
      BY <1>2, <1>3, <2>8, ConfigFact
    <3> QED
      BY <1>1, <2>6, <2>7, <3>1 DEF ConfigInv, EditInv, FreshRows
  <2>10. row'[c].active = asked'[c].active
    BY <1>1, <1>8, <2>6 DEF ConfigInv, EditInv, ActiveInv, Exists
  <2>11. ASSUME c \notin mixed'
         PROVE  /\ n.conf = c => Written(n)'
                /\ AsAsked(c)' \/ (n.conf = c /\ n.step \in {"read", "link", "clear"})
    <3>1. Written(job[a])
      BY <1>2, <1>3, <1>8, <2>6, <2>11, OnlyJob DEF ConfigInv
    <3>2. row[c].api = j.what.api /\ row[c].source = j.what.source /\ link[c] \cup j.todo = j.what.ids
      BY <1>1, <1>2, <1>3, <3>1 DEF Written
    <3>3. link'[c] \cup rest = j.what.ids
      BY <2>1, <2>7, <3>2
    <3>4. CASE n.conf = 0
      BY <1>1, <2>6, <3>2, <3>3, <3>4, ConfigFact DEF AsAsked
    <3>5. CASE n.conf = c
      <4>1. n.step = "link" /\ n.todo = rest /\ n.what = j.what
        BY <2>6, <3>5, ConfigFact
      <4> QED
        BY <1>1, <3>2, <3>3, <3>5, <4>1 DEF Written
    <3> QED
      BY <2>6, <3>4, <3>5
  <2>12. \A b \in Admins \ {a} : c \in mixed' \/ c \notin Touched(job[b])
    BY <1>1, <1>2, <1>3, <2>6, OpenJob DEF Touched
  <2>13. EditInv'
    BY <1>1, <1>2, <1>3, <2>6, <2>7, <2>8, <2>9, <2>10, <2>11, <2>12, JobMove DEF ConfigInv
  <2> QED
    BY <1>6, <2>13 DEF ConfigInv
<1> QED
  BY <1>5, <1>7, <1>8

\* A field the body has or leaves out.
LEMMA OrFact ==
  ASSUME NEW b \in Edits, NEW r \in Row
  PROVE  Or(b.api, r.api) \in Apis /\ Or(b.source, r.source) \in Sources
BY BodyFact DEF Or, Row

\* An update as it adds to what was asked for.
LEMMA EditFact ==
  ASSUME NEW b \in Edits, NEW w \in Wanted
  PROVE  \E n \in Wanted : /\ n = Add(w, b) /\ n.active = w.active /\ n.api = Or(b.api, w.api)
                           /\ n.source = Or(b.source, w.source) /\ n.ids = Or(b.ids, w.ids)
<1>1. /\ Or(b.api, w.api) \in Apis /\ Or(b.source, w.source) \in Sources
      /\ Or(b.ids, w.ids) \in SUBSET Collectors
  BY BodyFact DEF Or, Wanted
<1> DEFINE n == [api |-> Or(b.api, w.api), source |-> Or(b.source, w.source), active |-> w.active,
                 ids |-> Or(b.ids, w.ids)]
<1>2. w.active \in BOOLEAN
  BY Zenon DEF Wanted
<1>3. n \in Wanted
  BY <1>1, <1>2 DEF Wanted
<1>4. n = Add(w, b)
  BY DEF Add
<1> QED
  BY <1>1, <1>3, <1>4

\* The row is as the update wants it; the links come next, or are kept.
LEMMA KeepUpdateRow ==
  ASSUME ConfigInv, NEW a \in Admins, UpdateRow(a)
  PROVE  ConfigInv'
<1>1. /\ job[a].step = "write" /\ boot = "up"
      /\ UNCHANGED <<next, link, marked, isPushed, before, sent, halfway, push, boot, named, orphan>>
  BY OpenJob DEF UpdateRow, statuses, past
<1>2. PICK j \in Edited : j = job[a] /\ j \in Jobs /\ j.conf \in Configs /\ j.conf < next
  BY <1>1, OpenJob, JobShape
<1>3. PICK c \in Configs : c = j.conf
  BY <1>2
<1>4. PICK b \in Edits, old \in Row :
        b = j.body /\ old = j.old /\ j = [step |-> "write", conf |-> c, from |-> 0, body |-> b, old |-> old]
  BY <1>1, <1>2, <1>3 DEF Edited
<1>5. \/ /\ Exists(c) /\ row' = [row EXCEPT ![c] = Merge(old, row[c], b)]
         /\ \/ b.ids = Keep /\ Done(a, c, Add(asked[c], b))
            \/ b.ids # Keep /\ Continue(a, [j EXCEPT !.step = "clear"])
      \/ job' = [job EXCEPT ![a] = NoJob] /\ UNCHANGED <<row, asked, mixed>>
  BY <1>2, <1>3, <1>4 DEF UpdateRow, Refused
<1>6. CASE job' = [job EXCEPT ![a] = NoJob] /\ UNCHANGED <<row, asked, mixed>>
  <2>1. EditInv'
    BY <1>1, <1>6, EndJob DEF ConfigInv, EditInv, TypeJobs
  <2>2. StatusInv'
    BY <1>1, <1>6, KeepOthers DEF ConfigInv, StatusInv, TypePast, Exists
  <2> QED
    BY <2>1, <2>2 DEF ConfigInv
<1>7. CASE /\ Exists(c) /\ row' = [row EXCEPT ![c] = Merge(old, row[c], b)]
           /\ \/ b.ids = Keep /\ Done(a, c, Add(asked[c], b))
              \/ b.ids # Keep /\ Continue(a, [j EXCEPT !.step = "clear"])
  <2>1. PICK now \in Row : now = row[c]
    BY <1>7 DEF ConfigInv, EditInv, TypeConfigRows, Exists
  <2>2. PICK w \in Wanted : w = asked[c]
    BY DEF ConfigInv, EditInv, TypeConfigRows
  <2>3. now.active \in BOOLEAN
    BY Zenon DEF Row
  <2>4. PICK r \in Row : r = Merge(old, now, b) /\ r.api = Or(b.api, old.api)
                          /\ r.source = Or(b.source, old.source) /\ r.active = now.active
    <3>1. Or(b.api, old.api) \in Apis /\ Or(b.source, old.source) \in Sources
      BY OrFact
    <3> DEFINE r == [api |-> Or(b.api, old.api), source |-> Or(b.source, old.source),
                     active |-> now.active]
    <3>2. r \in Row
      BY <2>3, <3>1 DEF Row
    <3>3. r = Merge(old, now, b)
      BY DEF Merge
    <3> QED
      BY <3>2, <3>3
  <2>5. /\ row' \in [Configs -> Row \cup {Absent}] /\ row'[c] = r
        /\ \A d \in Configs \ {c} : row'[d] = row[d]
    BY <1>7, <2>1, <2>4 DEF ConfigInv, EditInv, TypeConfigRows
  <2>6. StatusInv'
    BY <1>1, <1>7, <2>5, KeepOthers DEF ConfigInv, StatusInv, TypePast, Exists
  <2>7. PICK v \in Wanted : /\ v = Add(w, b) /\ v.active = w.active /\ v.api = Or(b.api, w.api)
                            /\ v.source = Or(b.source, w.source) /\ v.ids = Or(b.ids, w.ids)
    BY EditFact
  <2>8. PICK n \in Jobs :
          /\ Turned(a, n) /\ mixed \subseteq mixed' /\ mixed' \subseteq Configs
          /\ n.conf \in {0, c} /\ n.from = 0 /\ Whole(n)
          /\ asked' \in [Configs -> Wanted] /\ \A d \in Configs \ {c} : asked'[d] = asked[d]
          /\ asked'[c].active = w.active
          /\ \/ /\ n.conf = 0 /\ b.ids = Keep
                /\ asked'[c].api = v.api /\ asked'[c].source = v.source /\ asked'[c].ids = v.ids
             \/ n.conf = c /\ n.step = "clear" /\ n.body = b /\ asked' = asked
    <3>1. CASE b.ids = Keep /\ Done(a, c, Add(asked[c], b))
      <4>1. Done(a, c, v)
        BY <2>2, <2>7, <3>1
      <4> QED
        BY <2>2, <3>1, <4>1, DoneFact DEF ConfigInv
    <3>2. CASE b.ids # Keep /\ Continue(a, [j EXCEPT !.step = "clear"])
      <4> DEFINE n == [step |-> "clear", conf |-> c, from |-> 0, body |-> b, old |-> old]
      <4>1. n \in Jobs /\ n.conf = c /\ n.from = 0 /\ n.step = "clear" /\ n.body = b
        BY DEF Jobs, Edited
      <4>2. n = [j EXCEPT !.step = "clear"]
        BY <1>4
      <4> HIDE DEF n
      <4>3. job' = [job EXCEPT ![a] = n] /\ UNCHANGED <<asked, mixed>>
        BY <3>2, <4>2 DEF Continue
      <4>4. Whole(n)
        BY <3>2, <4>1, ConfigFact DEF Whole
      <4>5. mixed \subseteq mixed' /\ mixed' \subseteq Configs /\ Turned(a, n)
        BY <4>1, <4>3, TurnFact DEF ConfigInv, EditInv, TypeJobs
      <4> QED
        BY <2>2, <4>1, <4>3, <4>4, <4>5 DEF ConfigInv, EditInv, TypeConfigRows
    <3> QED
      BY <1>7, <3>1, <3>2
  <2>9. TypeConfigRows' /\ next' \in Nat /\ next \in Nat /\ next' >= next
    BY <1>1, <2>5, <2>8, ConfigFact DEF ConfigInv, EditInv, TypeConfigRows
  <2>10. FreshRows'
    <3>1. \A d \in Configs : d >= next => d # c
      BY <1>2, <1>3, <2>9, ConfigFact
    <3> QED
      BY <1>1, <2>5, <2>8, <3>1 DEF ConfigInv, EditInv, FreshRows
  <2>11. row'[c].active = asked'[c].active
    BY <1>7, <2>1, <2>2, <2>4, <2>5, <2>8 DEF ConfigInv, EditInv, ActiveInv
  <2>12. ASSUME c \notin mixed'
         PROVE  /\ n.conf = c => Written(n)'
                /\ AsAsked(c)' \/ (n.conf = c /\ n.step \in {"read", "link", "clear"})
    <3>1. Written(job[a]) /\ AsAsked(c)
      BY <1>1, <1>2, <1>3, <1>7, <2>8, <2>12, OnlyJob DEF ConfigInv
    <3>2. old.api = w.api /\ old.source = w.source /\ link[c] = w.ids
      BY <1>1, <1>2, <1>3, <1>4, <2>2, <3>1 DEF Written, AsAsked
    <3>3. CASE n.conf = 0
      <4>1. b.ids = Keep /\ asked'[c].api = v.api /\ asked'[c].source = v.source /\ asked'[c].ids = v.ids
        BY <2>8, <3>3, ConfigFact
      <4>2. v.ids = w.ids
        BY <2>7, <4>1 DEF Or
      <4> QED
        BY <1>1, <2>4, <2>5, <2>7, <3>2, <3>3, <4>1, <4>2, ConfigFact DEF AsAsked
    <3>4. CASE n.conf = c
      <4>1. n.step = "clear" /\ n.body = b /\ asked' = asked
        BY <2>8, <3>4, ConfigFact
      <4> QED
        BY <2>2, <2>4, <2>5, <3>2, <3>4, <4>1 DEF Written
    <3> QED
      BY <2>8, <3>3, <3>4
  <2>13. \A e \in Admins \ {a} : c \in mixed' \/ c \notin Touched(job[e])
    BY <1>1, <1>2, <1>3, <2>8, OpenJob DEF Touched
  <2>14. EditInv'
    BY <1>1, <1>2, <1>3, <2>5, <2>8, <2>9, <2>10, <2>11, <2>12, <2>13, JobMove DEF ConfigInv
  <2> QED
    BY <2>6, <2>14 DEF ConfigInv
<1> QED
  BY <1>5, <1>6, <1>7

\* The links go, and those the update wants come next.
LEMMA KeepClearLinks ==
  ASSUME ConfigInv, NEW a \in Admins, ClearLinks(a)
  PROVE  ConfigInv'
<1>1. /\ job[a].step = "clear" /\ boot = "up"
      /\ UNCHANGED <<row, next, marked, isPushed, before, sent, halfway, push, boot, named, orphan>>
  BY OpenJob DEF ClearLinks, table, statuses, past
<1>2. PICK j \in Edited : j = job[a] /\ j \in Jobs /\ Whole(j) /\ j.conf \in Configs /\ j.conf < next
  BY <1>1, OpenJob, JobShape
<1>3. PICK c \in Configs : c = j.conf
  BY <1>2
<1>4. PICK b \in Edits : b = j.body /\ b.ids # Keep
  BY <1>1, <1>2 DEF Edited, Whole
<1>5. PICK w \in Wanted : w = asked[c]
  BY DEF ConfigInv, EditInv, TypeConfigRows
<1>6. PICK v \in Wanted : /\ v = Add(w, b) /\ v.active = w.active /\ v.api = Or(b.api, w.api)
                          /\ v.source = Or(b.source, w.source) /\ v.ids = Or(b.ids, w.ids)
  BY EditFact
<1>7. v.ids = b.ids /\ b.ids \in SUBSET Collectors
  BY <1>4, <1>6, BodyFact DEF Or
<1>8. PICK k \in Linking : k = Making("clear", c, 0, b.ids, v)
  BY <1>7, IsLinking
<1>9. k.conf = c /\ k.from = 0 /\ k.todo = b.ids /\ k.what = v
  BY <1>8, MakingFact
<1>10. \/ link' = [link EXCEPT ![c] = {}] /\ ThenLink(a, k)
       \/ Torn(a) /\ UNCHANGED link
  BY <1>2, <1>3, <1>4, <1>5, <1>6, <1>8 DEF ClearLinks, Making
<1>11. StatusInv'
  BY <1>1, KeepOthers DEF ConfigInv, StatusInv, TypePast, Exists
<1>12. CASE Torn(a) /\ UNCHANGED link
  <2>1. EditInv'
    BY <1>1, <1>2, <1>12, EndJob DEF Torn, ConfigInv, EditInv, TypeJobs
  <2> QED
    BY <1>11, <2>1 DEF ConfigInv
<1>13. CASE link' = [link EXCEPT ![c] = {}] /\ ThenLink(a, k)
  <2>1. PICK n \in Jobs :
          /\ Turned(a, n) /\ mixed \subseteq mixed' /\ mixed' \subseteq Configs
          /\ n.conf \in {0, c} /\ n.from = 0 /\ Whole(n)
          /\ asked' \in [Configs -> Wanted]
          /\ \A d \in Configs \ {c} : asked'[d] = asked[d]
          /\ asked'[c].active = asked[c].active
          /\ \/ /\ n.conf = 0 /\ b.ids = {} /\ asked'[c].api = v.api
                /\ asked'[c].source = v.source /\ asked'[c].ids = v.ids
             \/ /\ n.conf = c /\ n.step = "link" /\ n.todo = b.ids /\ n.what = v
                /\ asked' = asked
    BY <1>9, <1>13, ThenLinkFact DEF ConfigInv
  <2>2. /\ link' \in [Configs -> SUBSET Collectors] /\ link'[c] = {}
        /\ \A d \in Configs \ {c} : link'[d] = link[d]
    BY <1>13 DEF ConfigInv, EditInv, TypeConfigRows
  <2>3. TypeConfigRows' /\ next' \in Nat /\ next \in Nat /\ next' >= next
    BY <1>1, <2>1, <2>2, ConfigFact DEF ConfigInv, EditInv, TypeConfigRows
  <2>4. FreshRows'
    <3>1. \A d \in Configs : d >= next => d # c
      BY <1>2, <1>3, <2>3, ConfigFact
    <3> QED
      BY <1>1, <2>1, <2>2, <3>1 DEF ConfigInv, EditInv, FreshRows
  <2>5. Exists(c)' => row'[c].active = asked'[c].active
    BY <1>1, <2>1 DEF ConfigInv, EditInv, ActiveInv, Exists
  <2>6. ASSUME c \notin mixed', Exists(c)'
        PROVE  /\ n.conf = c => Written(n)'
               /\ AsAsked(c)' \/ (n.conf = c /\ n.step \in {"read", "link", "clear"})
    <3>1. Written(job[a])
      BY <1>1, <1>2, <1>3, <2>1, <2>6, OnlyJob DEF ConfigInv, Exists
    <3>2. row[c].api = v.api /\ row[c].source = v.source
      BY <1>1, <1>2, <1>3, <1>4, <1>5, <1>6, <3>1 DEF Written
    <3>3. CASE n.conf = 0
      BY <1>1, <1>7, <2>1, <2>2, <3>2, <3>3, ConfigFact DEF AsAsked
    <3>4. CASE n.conf = c
      <4>1. n.step = "link" /\ n.todo = b.ids /\ n.what = v
        BY <2>1, <3>4, ConfigFact
      <4> QED
        BY <1>1, <1>7, <2>2, <3>2, <3>4, <4>1 DEF Written
    <3> QED
      BY <2>1, <3>3, <3>4
  <2>7. \A e \in Admins \ {a} : c \in mixed' \/ c \notin Touched(job[e])
    BY <1>1, <1>2, <1>3, <2>1, OpenJob DEF Touched
  <2>8. EditInv'
    BY <1>1, <1>2, <1>3, <2>1, <2>2, <2>3, <2>4, <2>5, <2>6, <2>7, JobMove DEF ConfigInv
  <2> QED
    BY <1>11, <2>8 DEF ConfigInv
<1> QED
  BY <1>10, <1>12, <1>13

\* What is accepted of a batch is taken over from nowhere.
LEMMA BatchFact ==
  ASSUME ConfigInv, push # NoPush
  PROVE  /\ push.conf \in Configs /\ push.batch \in SUBSET Collectors
         /\ boot = "up" /\ push.conf < next
         /\ \A c \in Configs : c >= next => c # push.conf
         /\ push.conf \notin halfway => push.batch \cap before[push.conf] = {}
<1>1. push.conf \in Configs /\ push.batch \in SUBSET Collectors
  BY DEF ConfigInv, StatusInv, TypeStatuses, Batches
<1>2. boot = "up" /\ push.conf < next
  BY DEF ConfigInv, StatusInv, BootInv, FreshStatuses
<1>3. \A c \in Configs : c >= next => c # push.conf
  BY <1>1, <1>2, ConfigFact DEF ConfigInv, EditInv, TypeConfigRows
<1> QED
  BY <1>1, <1>2, <1>3 DEF ConfigInv, StatusInv, BatchInv

\* A collector goes: what is asked for goes with its links, and the requests at
\* work are known to be mixed up with its deletion.
LEMMA KeepDeleteCollector ==
  ASSUME ConfigInv, NEW k \in Collectors, DeleteCollector(k)
  PROVE  ConfigInv'
<1>1. /\ UNCHANGED <<row, next, job, halfway, sent, push, boot, named, orphan>> /\ boot = "up"
      /\ link' = [c \in Configs |-> link[c] \ {k}]
      /\ asked' = [c \in Configs |-> [asked[c] EXCEPT !.ids = asked[c].ids \ {k}]]
      /\ mixed' = mixed \cup UNION {Touched(job[a]) : a \in Admins}
      /\ marked' = [c \in Configs |-> marked[c] \ {k}]
      /\ before' = [c \in Configs |-> before[c] \ {k}] /\ isPushed' = isPushed \ {k}
  BY DEF DeleteCollector, table, past
<1>2. /\ asked' \in [Configs -> Wanted]
      /\ \A c \in Configs :
           /\ asked'[c].api = asked[c].api /\ asked'[c].source = asked[c].source
           /\ asked'[c].active = asked[c].active /\ asked'[c].ids = asked[c].ids \ {k}
           /\ asked[c] = First => asked'[c] = First
  <2>1. ASSUME NEW c \in Configs
        PROVE  \E w \in Wanted : /\ w = [asked[c] EXCEPT !.ids = asked[c].ids \ {k}]
                                 /\ w.api = asked[c].api /\ w.source = asked[c].source
                                 /\ w.active = asked[c].active /\ w.ids = asked[c].ids \ {k}
                                 /\ asked[c] = First => w = First
    <3>1. PICK old \in Wanted : old = asked[c]
      BY DEF ConfigInv, EditInv, TypeConfigRows
    <3>2. old.ids \ {k} \in SUBSET Collectors
      BY DEF Wanted
    <3>3. PICK ids \in SUBSET Collectors : ids = old.ids \ {k}
      BY <3>2
    <3>4. /\ [old EXCEPT !.ids = ids] \in Wanted
          /\ [old EXCEPT !.ids = ids].api = old.api /\ [old EXCEPT !.ids = ids].source = old.source
          /\ [old EXCEPT !.ids = ids].active = old.active /\ [old EXCEPT !.ids = ids].ids = ids
      BY DEF Wanted
    <3>5. ASSUME old = First PROVE [old EXCEPT !.ids = ids] = First
      <4>1. ids = {}
        BY <3>3, <3>5 DEF First
      <4> DEFINE new == [old EXCEPT !.ids = ids]
      <4>2. /\ new \in Wanted /\ new.api = old.api /\ new.source = old.source
            /\ new.active = old.active /\ new.ids = {}
        BY <3>4, <4>1
      <4>3. old.api = LegacyApi /\ old.source = "all" /\ old.active = TRUE
        BY <3>5 DEF First
      <4> HIDE DEF new
      <4>4. new = First
        BY <4>2, <4>3 DEF Wanted, First
      <4> QED
        BY <4>4 DEF new
    <3> QED
      BY <3>1, <3>3, <3>4, <3>5
  <2>2. \A c \in Configs : asked'[c] = [asked[c] EXCEPT !.ids = asked[c].ids \ {k}]
    BY <1>1
  <2>3. DOMAIN asked' = Configs /\ asked' = [c \in Configs |-> asked'[c]]
    BY <1>1
  <2>4. \A c \in Configs : asked'[c] \in Wanted
    BY <2>1, <2>2
  <2> QED
    BY <2>1, <2>2, <2>3, <2>4
<1>3. TypeConfigRows' /\ TypeJobs' /\ FreshRows' /\ FreshJobs' /\ ActiveInv'
  <2>1. link' \in [Configs -> SUBSET Collectors] /\ \A c \in Configs : link'[c] = link[c] \ {k}
    BY <1>1 DEF ConfigInv, EditInv, TypeConfigRows
  <2>2. mixed' \subseteq Configs
    BY <1>1 DEF ConfigInv, EditInv, TypeJobs, Touched
  <2>3. ActiveInv'
    BY <1>1, <1>2 DEF ConfigInv, EditInv, ActiveInv, Exists
  <2>4. FreshRows'
    BY <1>1, <1>2, <2>1 DEF ConfigInv, EditInv, FreshRows
  <2> QED
    BY <1>1, <1>2, <2>1, <2>2, <2>3, <2>4
       DEF ConfigInv, EditInv, TypeConfigRows, TypeJobs, FreshJobs
<1>4. \A c \in Configs \ mixed' : c \notin mixed /\ \A a \in Admins : c \notin Touched(job[a])
  BY <1>1
<1>5. AloneInv'
  BY <1>1, <1>4 DEF AloneInv, Touched
<1>6. WorkInv'
  <2> SUFFICES ASSUME NEW a \in Admins
               PROVE  Whole(job[a]) /\ job[a].conf \notin Configs \ mixed'
    BY <1>1 DEF WorkInv, Whole
  <2>1. job[a].conf \in Configs => job[a].conf \in Touched(job[a])
    BY DEF Touched
  <2> QED
    BY <1>4, <2>1 DEF ConfigInv, EditInv, WorkInv
<1>7. SettledInv'
  <2> SUFFICES ASSUME NEW c \in Configs \ mixed', Exists(c)
               PROVE  AsAsked(c)'
    BY <1>1 DEF SettledInv, Exists
  <2>1. ~Between(c)
    BY <1>4 DEF Between, Touched
  <2>2. AsAsked(c)
    BY <1>4, <2>1 DEF ConfigInv, EditInv, SettledInv
  <2>3. link'[c] = link[c] \ {k} /\ row'[c] = row[c]
    BY <1>1
  <2> QED
    BY <1>2, <2>2, <2>3 DEF AsAsked
<1>8. /\ \A c \in Configs : marked'[c] = marked[c] \ {k} /\ before'[c] = before[c] \ {k}
      /\ marked' \in [Configs -> SUBSET Collectors] /\ before' \in [Configs -> SUBSET Collectors]
      /\ isPushed' \subseteq Collectors
  BY <1>1 DEF ConfigInv, StatusInv, TypeStatuses
<1>9. TypeStatuses' /\ TypePast' /\ FreshStatuses' /\ BootInv'
  BY <1>1, <1>8 DEF ConfigInv, StatusInv, TypeStatuses, TypePast, FreshStatuses, BootInv
<1>10. BatchInv'
  <2> SUFFICES ASSUME push # NoPush, push.conf \notin halfway
               PROVE  push.batch \cap before'[push.conf] = {}
    BY <1>1 DEF BatchInv
  <2>1. push.conf \in Configs /\ push.batch \cap before[push.conf] = {}
    BY BatchFact
  <2> QED
    BY <1>8, <2>1
<1>11. StatusesAccounted'
  BY <1>1, <1>8 DEF ConfigInv, StatusInv, StatusesAccounted, Exists
<1> QED
  BY <1>3, <1>5, <1>6, <1>7, <1>9, <1>10, <1>11 DEF ConfigInv, EditInv, StatusInv

\* A configuration is switched, and nothing else of it or of a request changes.
LEMMA KeepToggle ==
  ASSUME ConfigInv, Toggle
  PROVE  ConfigInv'
<1>1. PICK c \in Configs : /\ Exists(c)
                           /\ row' = [row EXCEPT ![c] = [row[c] EXCEPT !.active = ~row[c].active]]
                           /\ asked' = [asked EXCEPT ![c] = [asked[c] EXCEPT !.active = ~asked[c].active]]
  BY Zenon DEF Toggle
<1>2. /\ UNCHANGED <<next, link, job, mixed, marked, isPushed, before, sent, halfway, push, boot,
                     named, orphan>>
      /\ boot = "up"
  BY DEF Toggle, statuses, past
<1>3. PICK r \in Row : /\ r = [row[c] EXCEPT !.active = ~row[c].active]
                       /\ r.api = row[c].api /\ r.source = row[c].source
  <2>1. row[c] \in Row
    BY <1>1 DEF ConfigInv, EditInv, TypeConfigRows, Exists
  <2>2. PICK old \in Row, v \in BOOLEAN : old = row[c] /\ v = ~row[c].active
    BY <2>1
  <2>3. /\ [old EXCEPT !.active = v] \in Row
        /\ [old EXCEPT !.active = v].api = old.api /\ [old EXCEPT !.active = v].source = old.source
    BY DEF Row
  <2> QED
    BY <2>2, <2>3
<1>4. r.active = ~row[c].active
  <2>1. row[c] \in Row
    BY <1>1 DEF ConfigInv, EditInv, TypeConfigRows, Exists
  <2> QED
    BY <1>3, <2>1 DEF Row
<1>5. PICK w \in Wanted : /\ w = [asked[c] EXCEPT !.active = ~asked[c].active]
                          /\ w.api = asked[c].api /\ w.source = asked[c].source /\ w.ids = asked[c].ids
  <2>1. asked[c] \in Wanted
    BY DEF ConfigInv, EditInv, TypeConfigRows
  <2>2. PICK old \in Wanted, v \in BOOLEAN : old = asked[c] /\ v = ~asked[c].active
    BY <2>1
  <2>3. /\ [old EXCEPT !.active = v] \in Wanted
        /\ [old EXCEPT !.active = v].api = old.api /\ [old EXCEPT !.active = v].source = old.source
        /\ [old EXCEPT !.active = v].ids = old.ids
    BY DEF Wanted
  <2> QED
    BY <2>2, <2>3
<1>6. w.active = ~asked[c].active
  <2>1. asked[c] \in Wanted
    BY DEF ConfigInv, EditInv, TypeConfigRows
  <2> QED
    BY <1>5, <2>1 DEF Wanted
<1>7. /\ row' \in [Configs -> Row \cup {Absent}] /\ row'[c] = r
      /\ asked' \in [Configs -> Wanted] /\ asked'[c] = w
      /\ \A d \in Configs \ {c} : row'[d] = row[d] /\ asked'[d] = asked[d]
  BY <1>1, <1>3, <1>5 DEF ConfigInv, EditInv, TypeConfigRows
<1>8. \A d \in Configs : Exists(d)' => Exists(d)
  BY <1>1, <1>7 DEF Exists
<1>9. \A d \in Configs : Exists(d) =>
        /\ row'[d].api = row[d].api /\ row'[d].source = row[d].source
        /\ asked'[d].api = asked[d].api /\ asked'[d].source = asked[d].source
        /\ asked'[d].ids = asked[d].ids
  BY <1>3, <1>5, <1>7
<1>10. TypeConfigRows' /\ TypeJobs' /\ FreshRows' /\ FreshJobs' /\ AloneInv'
  <2>1. c < next
    BY <1>1, ConfigFact DEF ConfigInv, EditInv, TypeConfigRows, FreshRows, Exists
  <2>2. \A d \in Configs : d >= next => d # c
    BY <2>1, ConfigFact DEF ConfigInv, EditInv, TypeConfigRows
  <2> QED
    BY <1>2, <1>7, <2>2 DEF ConfigInv, EditInv, TypeConfigRows, TypeJobs, FreshRows, FreshJobs, AloneInv,
                            Touched
<1>11. ActiveInv'
  <2> SUFFICES ASSUME NEW d \in Configs, Exists(d)
               PROVE  row'[d].active = asked'[d].active
    BY <1>8 DEF ActiveInv
  <2>1. row[d].active = asked[d].active
    BY DEF ConfigInv, EditInv, ActiveInv
  <2>2. CASE d = c
    BY <1>4, <1>6, <1>7, <2>1, <2>2
  <2>3. CASE d # c
    BY <1>7, <2>1, <2>3
  <2> QED
    BY <2>2, <2>3
<1>12. WorkInv'
  <2> SUFFICES ASSUME NEW a \in Admins
               PROVE  /\ Whole(job[a])
                      /\ (job[a].conf \in Configs \ mixed /\ Exists(job[a].conf)) => Written(job[a])'
    BY <1>2, <1>8 DEF WorkInv, Whole
  <2>1. Whole(job[a]) /\ ((job[a].conf \in Configs \ mixed /\ Exists(job[a].conf)) => Written(job[a]))
    BY DEF ConfigInv, EditInv, WorkInv
  <2> QED
    BY <1>2, <1>9, <2>1 DEF Written
<1>13. SettledInv'
  <2> SUFFICES ASSUME NEW d \in Configs \ mixed, Exists(d)
               PROVE  Between(d)' \/ AsAsked(d)'
    BY <1>2, <1>8 DEF SettledInv
  <2>1. Between(d) \/ AsAsked(d)
    BY DEF ConfigInv, EditInv, SettledInv
  <2> QED
    BY <1>2, <1>9, <2>1 DEF Between, AsAsked
<1>14. StatusInv'
  BY <1>2, <1>8, KeepOthers DEF ConfigInv, StatusInv, TypePast
<1> QED
  BY <1>10, <1>11, <1>12, <1>13, <1>14 DEF ConfigInv, EditInv

-----------------------------------------------------------------------------
(* The start of the process and its end *)

\* No request is left, and those that were are known to be unfinished.
LEMMA KeepRestart ==
  ASSUME ConfigInv, Restart
  PROVE  ConfigInv'
<1>1. /\ mixed' = mixed \cup ({job[a].conf : a \in Admins} \cap Configs)
      /\ job' = [a \in Admins |-> NoJob] /\ push' = NoPush /\ boot' = "count"
      /\ UNCHANGED <<row, link, next, asked, marked, isPushed, named, orphan, before, halfway>>
      /\ \/ UNCHANGED sent
         \/ push # NoPush /\ sent' = [sent EXCEPT ![push.conf] = @ \cup push.batch]
  BY DEF Restart, table, statuses, past
<1>2. /\ NoJob \in Jobs /\ NoJob.conf = 0 /\ NoJob.from = 0 /\ Touched(NoJob) = {} /\ Whole(NoJob)
      /\ NoPush \in Batches /\ NoPush.conf = 0
  BY ConfigFact DEF Jobs, NoJob, Touched, Whole, Batches, NoPush
<1>3. 0 < next
  BY ConfigFact DEF ConfigInv, EditInv, TypeConfigRows
<1>4. \A a \in Admins : job'[a] = NoJob
  BY <1>1
<1>5. TypeConfigRows' /\ TypeJobs' /\ FreshRows' /\ FreshJobs' /\ ActiveInv'
  BY <1>1, <1>2, <1>3 DEF ConfigInv, EditInv, TypeConfigRows, TypeJobs, FreshRows, FreshJobs, ActiveInv,
                          Exists
<1>6. \A a \in Admins : Touched(job[a])' = {} /\ Whole(job[a])' /\ job'[a].conf = 0
  BY <1>2, <1>4 DEF Touched, Whole
<1>7. AloneInv' /\ WorkInv'
  BY <1>6, ConfigFact DEF AloneInv, WorkInv
<1>8. SettledInv'
  <2> SUFFICES ASSUME NEW c \in Configs \ mixed', Exists(c)
               PROVE  AsAsked(c)
    BY <1>1 DEF SettledInv, Exists, AsAsked
  <2>1. c \notin mixed /\ ~Between(c)
    BY <1>1 DEF Between
  <2> QED
    BY <2>1 DEF ConfigInv, EditInv, SettledInv
<1>9. /\ sent' \in [Configs -> SUBSET Collectors]
      /\ \A c \in Configs : sent[c] \subseteq sent'[c]
      /\ \A c \in Configs : c >= next => sent'[c] = sent[c]
      /\ \A c \in Configs \ halfway : sent[c] \cap before[c] = {} => sent'[c] \cap before[c] = {}
  <2>1. CASE UNCHANGED sent
    BY <2>1 DEF ConfigInv, StatusInv, TypeStatuses
  <2>2. CASE push # NoPush /\ sent' = [sent EXCEPT ![push.conf] = @ \cup push.batch]
    BY <2>2, BatchFact DEF ConfigInv, StatusInv, TypeStatuses
  <2> QED
    BY <1>1, <2>1, <2>2
<1>10. TypeStatuses' /\ TypePast' /\ FreshStatuses'
  BY <1>1, <1>2, <1>3, <1>9 DEF ConfigInv, StatusInv, TypeStatuses, TypePast, FreshStatuses
<1>11. BootInv' /\ BatchInv'
  BY <1>1, <1>4 DEF BootInv, BatchInv
<1>12. StatusesAccounted'
  BY <1>1, <1>9 DEF ConfigInv, StatusInv, StatusesAccounted, Exists
<1> QED
  BY <1>5, <1>7, <1>8, <1>10, <1>11, <1>12 DEF ConfigInv, EditInv, StatusInv

\* The start goes on, with nothing written but what the histories name.
LEMMA QuietBoot ==
  ASSUME ConfigInv, boot # "up", boot' \in {"create", "up", "statuses"},
         boot' = "statuses" => boot = "histories",
         named' \subseteq Configs, orphan' \in BOOLEAN,
         UNCHANGED <<row, link, next, asked, job, mixed, marked, isPushed, push, before, halfway, sent>>
  PROVE  ConfigInv'
<1>1. EditInv'
  BY KeepEdits DEF ConfigInv
<1>2. TypeStatuses' /\ TypePast' /\ FreshStatuses' /\ BatchInv' /\ StatusesAccounted'
  BY DEF ConfigInv, StatusInv, TypeStatuses, TypePast, FreshStatuses, BatchInv, StatusesAccounted,
         Exists
<1>3. BootInv'
  BY DEF ConfigInv, StatusInv, BootInv
<1> QED
  BY <1>1, <1>2, <1>3 DEF ConfigInv, StatusInv

\* No configuration is made or touched by the count.
LEMMA KeepBootCount ==
  ASSUME ConfigInv, BootCount
  PROVE  ConfigInv'
<1>1. /\ boot = "count" /\ boot' \in {"create", "up"} /\ UNCHANGED <<named, orphan>>
      /\ UNCHANGED <<row, link, next, asked, job, mixed, marked, isPushed, push, before, halfway, sent>>
  BY DEF BootCount, table, statuses, past
<1>2. named' \subseteq Configs /\ orphan' \in BOOLEAN
  BY <1>1 DEF ConfigInv, StatusInv, TypePast
<1> QED
  BY <1>1, <1>2, QuietBoot

\* The migration makes a configuration, as all begin.
LEMMA KeepBootCreate ==
  ASSUME ConfigInv, BootCreate
  PROVE  ConfigInv'
<1>1. /\ boot = "create"
      /\ UNCHANGED <<link, marked, isPushed, named, orphan, job, push, asked, mixed, sent>>
      /\ \/ /\ InsertRow(LegacyApi, "all") /\ before' = [before EXCEPT ![next] = isPushed]
            /\ halfway' = halfway \cup {next} /\ boot' = "histories"
         \/ boot' = "up" /\ UNCHANGED <<row, next, before, halfway>>
  BY DEF BootCreate, table, statuses, past
<1>2. CASE boot' = "up" /\ UNCHANGED <<row, next, before, halfway>>
  <2>1. named' \subseteq Configs /\ orphan' \in BOOLEAN
    BY <1>1 DEF ConfigInv, StatusInv, TypePast
  <2> QED
    BY <1>1, <1>2, <2>1, QuietBoot
<1>3. CASE /\ InsertRow(LegacyApi, "all") /\ before' = [before EXCEPT ![next] = isPushed]
           /\ halfway' = halfway \cup {next} /\ boot' = "histories"
  <2> DEFINE r == [api |-> LegacyApi, source |-> "all", active |-> TRUE]
  <2>1. r \in Row /\ r.api = First.api /\ r.source = First.source /\ r.active = First.active
        /\ First.ids = {}
    BY LegacyAssumption DEF Row, First, Sources
  <2>2. row' = [row EXCEPT ![next] = r] /\ next' = next + 1 /\ next <= MaxConfigs
    BY <1>3 DEF InsertRow
  <2> HIDE DEF r
  <2>3. PICK c \in Configs : c = next
    BY <2>2, ConfigFact DEF ConfigInv, EditInv, TypeConfigRows, Configs
  <2>4. /\ next' \in 1..(MaxConfigs + 1) /\ next' - 1 = c /\ next' > 1
        /\ \A d \in Configs : d >= next' => d >= next /\ d # c
        /\ next \in Nat /\ next' \in Nat /\ next' >= next /\ c < next'
    BY <2>2, <2>3, ConfigFact DEF ConfigInv, EditInv, TypeConfigRows, Configs
  <2>5. /\ row' \in [Configs -> Row \cup {Absent}] /\ row'[c] = r
        /\ \A d \in Configs \ {c} : row'[d] = row[d]
    BY <2>1, <2>2, <2>3 DEF ConfigInv, EditInv, TypeConfigRows
  <2>6. asked[c] = First /\ link[c] = {} /\ marked[c] = {} /\ sent[c] = {} /\ before[c] = {}
    BY <2>3, <2>4 DEF ConfigInv, EditInv, FreshRows, StatusInv, FreshStatuses
  <2>7. push = NoPush /\ \A a \in Admins : job[a] = NoJob
    BY <1>1 DEF ConfigInv, StatusInv, BootInv
  <2>8. NoJob.conf = 0 /\ NoJob.from = 0 /\ NoPush.conf = 0 /\ NoJob.step = "idle" /\ Whole(NoJob)
    BY DEF NoJob, NoPush, Whole
  <2>9. TypeConfigRows' /\ TypeJobs' /\ FreshRows' /\ AloneInv'
    BY <1>1, <2>4, <2>5 DEF ConfigInv, EditInv, TypeConfigRows, TypeJobs, FreshRows, AloneInv, Touched
  <2>10. FreshJobs'
    BY <1>1, <2>4, <2>7, <2>8 DEF FreshJobs
  <2>11. ActiveInv'
    BY <1>1, <2>1, <2>5, <2>6 DEF ConfigInv, EditInv, ActiveInv, Exists
  <2>12. WorkInv'
    <3>1. \A a \in Admins : Whole(job[a])' <=> Whole(job[a])
      BY <1>1 DEF Whole
    <3> QED
      BY <1>1, <2>7, <2>8, <3>1, ConfigFact DEF WorkInv
  <2>13. SettledInv'
    <3> SUFFICES ASSUME NEW d \in Configs \ mixed, Exists(d)'
                 PROVE  AsAsked(d)'
      BY <1>1 DEF SettledInv
    <3>1. CASE d = c
      BY <1>1, <2>1, <2>5, <2>6, <3>1 DEF AsAsked
    <3>2. CASE d # c
      <4>1. ~Between(d) /\ Exists(d)
        BY <2>5, <2>7, <2>8, <3>2, ConfigFact DEF Between, Exists
      <4> QED
        BY <1>1, <2>5, <3>2, <4>1 DEF ConfigInv, EditInv, SettledInv, AsAsked
    <3> QED
      BY <3>1, <3>2
  <2>14. /\ before' \in [Configs -> SUBSET Collectors] /\ before'[c] = isPushed
         /\ \A d \in Configs \ {c} : before'[d] = before[d]
         /\ halfway' = halfway \cup {c}
    BY <1>3, <2>3 DEF ConfigInv, StatusInv, TypeStatuses
  <2>15. TypeStatuses' /\ TypePast'
    BY <1>1, <1>3, <2>14 DEF ConfigInv, StatusInv, TypeStatuses, TypePast
  <2>16. FreshStatuses'
    <3>1. push'.conf < next'
      BY <1>1, <2>4, <2>7, <2>8
    <3> QED
      BY <1>1, <2>4, <2>14, <3>1 DEF ConfigInv, StatusInv, FreshStatuses
  <2>17. BootInv' /\ BatchInv'
    BY <1>1, <1>3, <2>4, <2>6, <2>7, <2>14 DEF BootInv, BatchInv
  <2>18. StatusesAccounted'
    <3> SUFFICES ASSUME NEW d \in Configs, Exists(d)'
                 PROVE  /\ marked[d] \subseteq sent[d] \cup before'[d]
                        /\ d \in halfway' \/ (before'[d] \subseteq marked[d] /\ sent[d] \cap before'[d] = {})
      BY <1>1 DEF StatusesAccounted
    <3>1. CASE d = c
      BY <2>6, <2>14, <3>1
    <3>2. CASE d # c
      <4>1. Exists(d)
        BY <2>5, <3>2 DEF Exists
      <4> QED
        BY <2>14, <3>2, <4>1 DEF ConfigInv, StatusInv, StatusesAccounted
    <3> QED
      BY <3>1, <3>2
  <2> QED
    BY <2>9, <2>10, <2>11, <2>12, <2>13, <2>15, <2>16, <2>17, <2>18 DEF ConfigInv, EditInv, StatusInv
<1> QED
  BY <1>1, <1>2, <1>3

\* The configuration the migration is at.
LEMMA MigratedFact ==
  ASSUME ConfigInv, boot \in {"histories", "statuses"}
  PROVE  /\ next - 1 \in Configs /\ before[next - 1] = isPushed /\ sent[next - 1] = {}
         /\ \A c \in Configs : c >= next => c # next - 1
<1>1. next > 1 /\ before[next - 1] = isPushed /\ sent[next - 1] = {}
  BY DEF ConfigInv, StatusInv, BootInv
<1> QED
  BY <1>1, ConfigFact DEF ConfigInv, EditInv, TypeConfigRows, Configs

\* The histories without a configuration get the new one.
LEMMA KeepBootHistories ==
  ASSUME ConfigInv, BootHistories
  PROVE  ConfigInv'
<1>1. /\ boot = "histories" /\ boot' = "statuses"
      /\ UNCHANGED <<row, link, next, asked, job, mixed, marked, isPushed, push, before, halfway, sent>>
  BY DEF BootHistories, table, statuses
<1>2. named' \subseteq Configs /\ orphan' \in BOOLEAN
  BY <1>1, MigratedFact DEF BootHistories, ConfigInv, StatusInv, TypePast, past
<1> QED
  BY <1>1, <1>2, QuietBoot

\* The new configuration is marked with what it was made of.
LEMMA KeepBootStatuses ==
  ASSUME ConfigInv, BootStatuses
  PROVE  ConfigInv'
<1>1. /\ boot = "statuses" /\ boot' = "up"
      /\ UNCHANGED <<row, link, next, asked, job, mixed, isPushed, named, orphan, push, before, sent>>
      /\ \/ /\ marked' = [marked EXCEPT ![next - 1] = @ \cup isPushed]
            /\ halfway' = halfway \ {next - 1}
         \/ UNCHANGED <<marked, halfway>>
  BY DEF BootStatuses, table, past
<1>2. CASE UNCHANGED <<marked, halfway>>
  BY <1>1, <1>2, QuietBoot DEF ConfigInv, StatusInv, TypePast
<1>3. CASE /\ marked' = [marked EXCEPT ![next - 1] = @ \cup isPushed]
           /\ halfway' = halfway \ {next - 1}
  <2>1. PICK c \in Configs : /\ c = next - 1 /\ before[c] = isPushed /\ sent[c] = {}
                             /\ \A d \in Configs : d >= next => d # c
    BY <1>1, MigratedFact
  <2>2. /\ marked' \in [Configs -> SUBSET Collectors] /\ marked'[c] = marked[c] \cup isPushed
        /\ \A d \in Configs \ {c} : marked'[d] = marked[d]
        /\ halfway' = halfway \ {c}
    BY <1>3, <2>1 DEF ConfigInv, StatusInv, TypeStatuses
  <2>3. EditInv'
    BY <1>1, KeepEdits DEF ConfigInv
  <2>4. TypeStatuses' /\ TypePast'
    BY <1>1, <2>2 DEF ConfigInv, StatusInv, TypeStatuses, TypePast
  <2>5. FreshStatuses'
    BY <1>1, <2>1, <2>2 DEF ConfigInv, StatusInv, FreshStatuses
  <2>6. BootInv' /\ BatchInv'
    BY <1>1 DEF ConfigInv, StatusInv, BootInv, BatchInv
  <2>7. StatusesAccounted'
    <3> SUFFICES ASSUME NEW d \in Configs, Exists(d)
                 PROVE  /\ marked'[d] \subseteq sent[d] \cup before[d]
                        /\ d \in halfway' \/ (before[d] \subseteq marked'[d] /\ sent[d] \cap before[d] = {})
      BY <1>1 DEF StatusesAccounted, Exists
    <3>1. /\ marked[d] \subseteq sent[d] \cup before[d]
          /\ d \in halfway \/ (before[d] \subseteq marked[d] /\ sent[d] \cap before[d] = {})
      BY DEF ConfigInv, StatusInv, StatusesAccounted
    <3>2. CASE d = c
      BY <2>1, <2>2, <3>1, <3>2
    <3>3. CASE d # c
      BY <2>2, <3>1, <3>3
    <3> QED
      BY <3>2, <3>3
  <2> QED
    BY <2>3, <2>4, <2>5, <2>6, <2>7 DEF ConfigInv, StatusInv
<1> QED
  BY <1>1, <1>2, <1>3

-----------------------------------------------------------------------------
(* The pushes *)

\* A batch holds nothing that is marked, hence nothing the migration took over.
LEMMA KeepPushRead ==
  ASSUME ConfigInv, NEW c \in Configs, PushRead(c)
  PROVE  ConfigInv'
<1>1. /\ boot = "up" /\ Exists(c)
      /\ UNCHANGED <<row, link, next, asked, job, mixed, marked, isPushed, orphan, boot, before,
                     halfway, sent>>
  BY DEF PushRead, table, statuses
<1>2. PICK batch \in SUBSET Collectors :
        /\ batch \cap marked[c] = {}
        /\ \/ named' = named \cup {c} /\ UNCHANGED push
           \/ push' = [conf |-> c, batch |-> batch] /\ UNCHANGED named
  <2> DEFINE batch == (IF row[c].source = "all" THEN Collectors \ removed ELSE link[c]) \ marked[c]
  <2>1. batch \in SUBSET Collectors /\ batch \cap marked[c] = {}
    BY DEF ConfigInv, EditInv, TypeConfigRows
  <2>2. \/ named' = named \cup {c} /\ UNCHANGED push
        \/ push' = [conf |-> c, batch |-> batch] /\ UNCHANGED named
    BY DEF PushRead
  <2> HIDE DEF batch
  <2> QED
    BY <2>1, <2>2
<1>3. c < next
  BY <1>1, ConfigFact DEF ConfigInv, EditInv, TypeConfigRows, FreshRows, Exists
<1>4. EditInv'
  BY <1>1, KeepEdits DEF ConfigInv
<1>5. TypeStatuses' /\ TypePast'
  BY <1>1, <1>2 DEF ConfigInv, StatusInv, TypeStatuses, TypePast, Batches
<1>6. FreshStatuses'
  BY <1>1, <1>2, <1>3 DEF ConfigInv, StatusInv, FreshStatuses
<1>7. BootInv' /\ StatusesAccounted'
  BY <1>1 DEF ConfigInv, StatusInv, BootInv, StatusesAccounted, Exists
<1>8. BatchInv'
  <2>1. CASE UNCHANGED push
    BY <1>1, <2>1 DEF ConfigInv, StatusInv, BatchInv
  <2>2. CASE push' = [conf |-> c, batch |-> batch]
    <3>1. c \notin halfway => before[c] \subseteq marked[c]
      BY <1>1 DEF ConfigInv, StatusInv, StatusesAccounted
    <3> QED
      BY <1>1, <1>2, <2>2, <3>1 DEF BatchInv
  <2> QED
    BY <1>2, <2>1, <2>2
<1> QED
  BY <1>4, <1>5, <1>6, <1>7, <1>8 DEF ConfigInv, StatusInv

\* What is accepted is recorded.
LEMMA KeepPushSend ==
  ASSUME ConfigInv, PushSend
  PROVE  ConfigInv'
<1>1. /\ push # NoPush /\ push' = NoPush
      /\ UNCHANGED <<row, link, next, asked, job, mixed, orphan, boot, before, halfway>>
  BY DEF PushSend, table
<1>2. PICK c \in Configs, batch \in SUBSET Collectors :
        /\ c = push.conf /\ batch = push.batch /\ boot = "up"
        /\ \A d \in Configs : d >= next => d # c
        /\ c \notin halfway => batch \cap before[c] = {}
  BY <1>1, BatchFact
<1>3. EditInv'
  BY <1>1, KeepEdits DEF ConfigInv
<1>4. named' \subseteq Configs
  BY <1>2 DEF PushSend, ConfigInv, StatusInv, TypePast
<1>5. /\ sent' \in [Configs -> SUBSET Collectors] /\ marked' \in [Configs -> SUBSET Collectors]
      /\ isPushed' \subseteq Collectors
      /\ \A d \in Configs \ {c} : sent'[d] = sent[d] /\ marked'[d] = marked[d]
      /\ \/ sent'[c] = sent[c] /\ marked'[c] = marked[c]
         \/ /\ sent'[c] = sent[c] \cup batch
            /\ marked[c] \subseteq marked'[c] /\ marked'[c] \subseteq marked[c] \cup batch
  <2>1. CASE UNCHANGED <<statuses, sent>>
    BY <2>1 DEF ConfigInv, StatusInv, TypeStatuses, statuses
  <2>2. CASE /\ sent' = [sent EXCEPT ![c] = @ \cup batch]
             /\ isPushed' = isPushed \cup (batch \ removed)
             /\ \E done \in SUBSET (batch \ removed) :
                  marked' = [marked EXCEPT ![c] = IF Exists(c) THEN @ \cup done ELSE @]
    <3>1. PICK more \in SUBSET batch : marked' = [marked EXCEPT ![c] = marked[c] \cup more]
      <4>1. PICK done \in SUBSET (batch \ removed) :
              marked' = [marked EXCEPT ![c] = IF Exists(c) THEN @ \cup done ELSE @]
        BY <2>2
      <4>2. CASE Exists(c)
        BY <4>1, <4>2
      <4>3. CASE ~Exists(c)
        <5>1. marked' = [marked EXCEPT ![c] = marked[c] \cup {}]
          BY <4>1, <4>3
        <5> QED
          BY <5>1
      <4> QED
        BY <4>2, <4>3
    <3> QED
      BY <2>2, <3>1 DEF ConfigInv, StatusInv, TypeStatuses
  <2> QED
    BY <1>2, <2>1, <2>2 DEF PushSend
<1>6. NoPush \in Batches /\ NoPush.conf < next
  BY ConfigFact DEF Batches, NoPush, ConfigInv, EditInv, TypeConfigRows
<1>7. TypeStatuses' /\ TypePast' /\ FreshStatuses'
  BY <1>1, <1>2, <1>4, <1>5, <1>6 DEF ConfigInv, StatusInv, TypeStatuses, TypePast, FreshStatuses
<1>8. BootInv' /\ BatchInv'
  BY <1>1, <1>2 DEF BootInv, BatchInv
<1>9. StatusesAccounted'
  <2> SUFFICES ASSUME NEW d \in Configs, Exists(d)
               PROVE  /\ marked'[d] \subseteq sent'[d] \cup before[d]
                      /\ d \in halfway \/ (before[d] \subseteq marked'[d] /\ sent'[d] \cap before[d] = {})
    BY <1>1 DEF StatusesAccounted, Exists
  <2>1. /\ marked[d] \subseteq sent[d] \cup before[d]
        /\ d \in halfway \/ (before[d] \subseteq marked[d] /\ sent[d] \cap before[d] = {})
    BY DEF ConfigInv, StatusInv, StatusesAccounted
  <2>2. CASE d = c
    BY <1>2, <1>5, <2>1, <2>2
  <2>3. CASE d # c
    BY <1>5, <2>1, <2>3
  <2> QED
    BY <2>2, <2>3
<1> QED
  BY <1>3, <1>7, <1>8, <1>9 DEF ConfigInv, StatusInv

-----------------------------------------------------------------------------
(* The theorems *)

\* Every step keeps the invariant.
LEMMA ConfigStep ==
  ASSUME ConfigInv, [ConfigNext]_configVars
  PROVE  ConfigInv'
<1>1. CASE Boot
  BY <1>1, KeepBootCount, KeepBootCreate, KeepBootHistories, KeepBootStatuses DEF Boot
<1>2. CASE Restart \/ Toggle \/ PushSend
  BY <1>2, KeepRestart, KeepToggle, KeepPushSend
<1>3. ASSUME NEW a \in Admins, StartCreate(a) \/ StartUpdate(a) \/ StartDuplicate(a) \/ StartDelete(a)
      PROVE  ConfigInv'
  BY <1>3, KeepBegin
<1>4. ASSUME NEW a \in Admins, Step(a) PROVE ConfigInv'
  BY <1>4, KeepInsert, KeepReadLinks, KeepInsertLink, KeepUpdateRow, KeepClearLinks, KeepDetach,
     KeepDeleteRow DEF Step
<1>5. ASSUME NEW c \in Configs, PushRead(c) PROVE ConfigInv'
  BY <1>5, KeepPushRead
<1>7. ASSUME NEW k \in Collectors, DeleteCollector(k) PROVE ConfigInv'
  BY <1>7, KeepDeleteCollector
<1>6. CASE UNCHANGED configVars
  <2>1. EditInv'
    BY <1>6, KeepEdits DEF ConfigInv, configVars, table
  <2>2. UNCHANGED <<next, row, job, marked, isPushed, before, sent, halfway, push, boot, named, orphan>>
    BY <1>6 DEF configVars, table, statuses, past
  <2>3. StatusInv'
    BY <2>2 DEF ConfigInv, StatusInv, TypeStatuses, TypePast, FreshStatuses, BootInv, BatchInv,
                StatusesAccounted, Exists
  <2> QED
    BY <2>1, <2>3 DEF ConfigInv
<1> QED
  BY <1>1, <1>2, <1>3, <1>4, <1>5, <1>6, <1>7 DEF ConfigNext

\* What the requests know of their configurations, and what is marked of what
\* was sent, holds throughout.
THEOREM ConfigInvariance == ConfigSpec => []ConfigInv
<1>1. ConfigInit => ConfigInv
  BY ConfigInitInv
<1>2. ConfigInv /\ [ConfigNext]_configVars => ConfigInv'
  BY ConfigStep
<1> QED
  BY <1>1, <1>2, PTL DEF ConfigSpec

\* Only collectors are removed.
LEMMA RemovedFact ==
  ASSUME [ConfigNext]_configVars
  PROVE  removed' = removed \/ \E k \in Collectors : removed' = removed \cup {k}
<1>1. CASE Boot \/ Restart \/ Toggle \/ PushSend
  BY <1>1 DEF Boot, BootCount, BootCreate, BootHistories, BootStatuses, Restart, Toggle, PushSend
<1>2. ASSUME NEW a \in Admins, StartCreate(a) \/ StartUpdate(a) \/ StartDuplicate(a) \/ StartDelete(a)
      PROVE  removed' = removed
  <2>1. \E j : Begin(a, j)
    BY <1>2 DEF StartCreate, StartUpdate, StartDuplicate, StartDelete
  <2> QED
    BY <2>1 DEF Begin
<1>3. ASSUME NEW a \in Admins, Step(a) PROVE removed' = removed
  BY <1>3 DEF Step, Insert, ReadLinks, InsertLink, UpdateRow, ClearLinks, Detach, DeleteRow
<1>4. ASSUME NEW c \in Configs, PushRead(c) PROVE removed' = removed
  BY <1>4 DEF PushRead
<1>5. ASSUME NEW k \in Collectors, DeleteCollector(k) PROVE removed' = removed \cup {k}
  BY <1>5 DEF DeleteCollector
<1>6. CASE UNCHANGED configVars
  BY <1>6 DEF configVars
<1> QED
  BY <1>1, <1>2, <1>3, <1>4, <1>5, <1>6 DEF ConfigNext

\* Every variable keeps its type: a request at work is on a configuration that
\* was given an id (push_config.rs).
THEOREM ConfigTypeCorrect == ConfigSpec => []ConfigTypeOK
<1>1. ConfigInv /\ removed \subseteq Collectors => ConfigTypeOK
  <2> SUFFICES ASSUME ConfigInv, removed \subseteq Collectors PROVE ConfigTypeOK
    OBVIOUS
  <2>1. TypeConfigRows /\ TypeJobs /\ TypeStatuses /\ TypePast
    BY DEF ConfigInv, EditInv, StatusInv
  <2>2. ASSUME NEW a \in Admins
        PROVE  /\ job[a].step \in {"idle", "insert", "write", "clear", "read", "link", "detach", "delete"}
               /\ job[a].conf \in Configs \cup {0}
    BY <2>1, JobShape DEF TypeJobs
  <2>3. push.conf \in Configs \cup {0} /\ push.batch \subseteq Collectors
    BY <2>1 DEF TypeStatuses, Batches, NoPush
  <2> QED
    BY <2>1, <2>2, <2>3 DEF ConfigTypeOK, TypeConfigRows, TypeJobs, TypeStatuses, TypePast
<1>2. ConfigInit => removed \subseteq Collectors
  BY DEF ConfigInit
<1>3. removed \subseteq Collectors /\ [ConfigNext]_configVars => (removed \subseteq Collectors)'
  BY RemovedFact
<1> QED
  BY <1>1, <1>2, <1>3, ConfigInvariance, PTL DEF ConfigSpec

\* A configuration no request works on is what its requests add up to, unless
\* two of them overlapped, and none of it is pushed again that the migration
\* took over.
THEOREM ConfigsHold == ConfigSpec => []ConfigsAccounted
<1>1. ConfigInv => ConfigsAccounted
  <2> SUFFICES ASSUME ConfigInv PROVE ConfigsAccounted
    OBVIOUS
  <2>1. ASSUME NEW c \in Configs, Exists(c)
        PROVE  /\ row[c].active = asked[c].active
               /\ Worked(c) \/ c \in mixed
                  \/ /\ row[c].api = asked[c].api /\ row[c].source = asked[c].source
                     /\ link[c] = asked[c].ids
    <3>1. row[c].active = asked[c].active
      BY <2>1 DEF ConfigInv, EditInv, ActiveInv
    <3>2. c \in mixed \/ Between(c) \/ AsAsked(c)
      BY <2>1 DEF ConfigInv, EditInv, SettledInv
    <3>3. Between(c) => Worked(c)
      BY DEF Between, Worked, Touched
    <3> QED
      BY <3>1, <3>2, <3>3 DEF AsAsked
  <2> QED
    BY <2>1 DEF ConfigsAccounted, EditsKept, ConfigInv, StatusInv
<1> QED
  BY <1>1, ConfigInvariance, PTL

=============================================================================
