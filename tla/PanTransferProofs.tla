-------------------------- MODULE PanTransferProofs --------------------------
(***************************************************************************)
(* Proofs about the transfer tasks, for any keys, any finite number of     *)
(* runs alive at once, any number of concurrent requests, and any number   *)
(* of tasks, faults and crashes.                                           *)
(*                                                                         *)
(* The inductive invariant follows the staging file of a task that never   *)
(* had two runs at once: its only run truncated it, and wrote it whole     *)
(* before it reads it.                                                     *)
(*                                                                         *)
(* The proofs about the pan accounts and the drive follow.                 *)
(***************************************************************************)
EXTENDS PanTransfer, PanAccounts, PanDrive, FiniteSetTheorems, WellFoundedInduction, TLAPS

\* The parts of the type invariant: the rows and files, the runs, the requests,
\* the shares, what befell the tasks, and the bounds.
TypeRows ==
  /\ status \in [Ids -> {"none", "pending", "processing", "succeeded", "failed", "deleted"}]
  /\ idem \in [Ids -> Keys \cup {NoKey}]
  /\ hasShare \in [Ids -> BOOLEAN]
  /\ retries \in [Ids -> Nat]
  /\ account \in BOOLEAN

TypeFiles == file \in [Ids -> [by : Slots \cup {NoSlot}, whole : BOOLEAN]]

TypeRuns ==
  /\ at \in [Slots -> RunPcs]
  /\ on \in [Slots -> Ids \cup {0}]
  /\ read \in [Slots -> {"nothing", "part", "whole"}]

TypeRequests ==
  /\ req \in [Callers -> {"idle", "find", "insert", "update", "reload"}]
  /\ reqKey \in [Callers -> Keys \cup {NoKey}]
  /\ reqTask \in [Callers -> Ids \cup {0}]

TypeCounts == made \in [Ids -> Nat] /\ recorded \in [Ids -> Nat] /\ lost \in [Ids -> Nat]

TypeHistory == /\ cut \subseteq Ids /\ overlapped \subseteq Ids
               /\ truncated \subseteq Ids /\ broken \subseteq Ids

TypeBounds == accepted \in 0..MaxRequests /\ faults \in 0..MaxFaults /\ crashes \in 0..MaxCrashes

\* A slot is free, or it runs a task.
RunInv == \A s \in Slots : at[s] = "off" <=> on[s] = 0

\* A request that is to update or to reload a task has one.
RequestInv == \A c \in Callers : req[c] \in {"update", "reload"} => reqTask[c] \in Ids

\* Until two runs of a task overlap, a run of it is the only one; the file it
\* writes or reads is the one it truncated, and it reads it when it is whole.
AloneInv ==
  \A r \in Ids \ overlapped : \A s \in Live(r) :
    /\ \A t \in Live(r) : t = s
    /\ at[s] \in {"fetch", "upload"} => file[r].by = s
    /\ at[s] = "upload" => file[r].whole
    /\ at[s] \in {"cleanup", "share"} => read[s] = "whole"

IInv == /\ TypeRows /\ TypeFiles /\ TypeRuns /\ TypeRequests /\ TypeCounts
        /\ TypeHistory /\ TypeBounds /\ RunInv /\ RequestInv /\ OneTaskPerKey /\ SharesAccounted
        /\ AloneInv /\ WholeUnlessOverlapped /\ StagingOwned

-----------------------------------------------------------------------------
(* What the operators of the model return *)

\* Together the parts are the type invariant.
LEMMA TypeParts ==
  TypeOK <=> /\ TypeRows /\ TypeFiles /\ TypeRuns /\ TypeRequests
             /\ TypeCounts /\ TypeHistory /\ TypeBounds
BY DEF TypeOK, TypeRows, TypeFiles, TypeRuns, TypeRequests, TypeCounts,
     TypeHistory, TypeBounds

\* No task has the number of no task.
LEMMA IdsFact == 0 \notin Ids /\ Ids \subseteq Nat
BY DEF Ids

\* The runs that are about to record a share of r.
Recording(r) == {s \in Live(r) : at[s] = "record"}

\* They can be counted.
LEMMA RecordingFact ==
  ASSUME NEW r
  PROVE  IsFiniteSet(Recording(r)) /\ Cardinality(Recording(r)) \in Nat
<1>1. Recording(r) \in SUBSET Slots
  BY DEF Recording, Live
<1>2. IsFiniteSet(Recording(r))
  BY <1>1, SlotsAssumption, FS_Subset
<1> QED
  BY <1>2, FS_CardinalityType

\* The shares stay accounted for when no run begins or ends to record one.
LEMMA SharesStay ==
  ASSUME SharesAccounted, UNCHANGED <<made, recorded, lost>>,
         \A s \in Slots : \/ at[s] # "record" /\ at'[s] # "record"
                          \/ at'[s] = at[s] /\ on'[s] = on[s]
  PROVE  SharesAccounted'
<1> SUFFICES ASSUME NEW r \in Ids
             PROVE  made'[r] = recorded'[r] + lost'[r] + Cardinality(Recording(r)')
  BY DEF SharesAccounted, Recording
<1>1. Recording(r)' = Recording(r)
  BY DEF Recording, Live
<1> QED
  BY <1>1 DEF SharesAccounted, Recording

\* A run that moves on leaves the others where they are.
LEMMA RecordingMoves ==
  ASSUME TypeRuns, NEW s \in Slots, NEW pc \in RunPcs \ {"off"}, at[s] # "off", Goto(s, pc)
  PROVE  \A r \in Ids :
           Recording(r)' = IF r # on[s] THEN Recording(r)
                           ELSE IF pc = "record" THEN Recording(r) \cup {s} ELSE Recording(r) \ {s}
BY DEF TypeRuns, Goto, Recording, Live

\* The staging files stay owned when a run moves on that takes over, removes or
\* gives up the file it was responsible for.
LEMMA StagingMoves ==
  ASSUME IInv, NEW s \in Slots, NEW pc \in RunPcs \ {"off"}, at[s] # "off", Goto(s, pc),
         \A r \in Ids : file'[r] = file[r] \/ r = on[s],
         broken \subseteq broken',
         \/ pc \in Staging
         \/ file'[on[s]] = NoFile
         \/ on[s] \in broken'
  PROVE  StagingOwned'
<1> SUFFICES ASSUME NEW r \in Ids, file'[r] # NoFile, r \notin broken'
             PROVE  \E t \in Live(r)' : at'[t] \in Staging
  BY DEF StagingOwned
<1>1. CASE r = on[s]
  BY <1>1 DEF IInv, TypeRuns, Goto, Live
<1>2. CASE r # on[s]
  BY <1>2 DEF IInv, StagingOwned, Goto, Live
<1> QED
  BY <1>1, <1>2

\* A spawned run takes a free slot; two runs of a task overlap.
LEMMA SpawnFact ==
  ASSUME NEW r, Spawn(r)
  PROVE  \E s \in Slots :
           /\ at[s] = "off"
           /\ at' = [at EXCEPT ![s] = "mark_processing"]
           /\ on' = [on EXCEPT ![s] = r]
           /\ read' = [read EXCEPT ![s] = "nothing"]
           /\ cut' = cut \ {r}
           /\ overlapped' = IF Live(r) = {} THEN overlapped ELSE overlapped \cup {r}
BY DEF Spawn

\* What a spawned run leaves as it was: it is not yet at any file or share.
LEMMA SpawnKeeps ==
  ASSUME IInv, NEW r \in Ids, Spawn(r), UNCHANGED <<file, made, recorded, lost, truncated, broken>>
  PROVE  /\ TypeRuns' /\ TypeHistory'
         /\ RunInv' /\ SharesAccounted' /\ AloneInv'
         /\ WholeUnlessOverlapped' /\ StagingOwned'
<1>1. PICK s \in Slots :
        /\ at[s] = "off"
        /\ at' = [at EXCEPT ![s] = "mark_processing"]
        /\ on' = [on EXCEPT ![s] = r]
        /\ read' = [read EXCEPT ![s] = "nothing"]
        /\ cut' = cut \ {r}
        /\ overlapped' = IF Live(r) = {} THEN overlapped ELSE overlapped \cup {r}
  BY SpawnFact
<1>2. TypeRuns' /\ TypeHistory'
  BY <1>1 DEF IInv, TypeRuns, TypeHistory, RunPcs
<1>3. RunInv'
  BY <1>1 DEF IInv, TypeRuns, RunInv, Ids
<1>4. SharesAccounted'
  BY <1>1, SharesStay DEF IInv
<1>5. AloneInv'
  <2>1. Live(r)' = Live(r) \cup {s} /\ \A q \in Ids \ {r} : Live(q)' = Live(q)
    BY <1>1 DEF IInv, TypeRuns, Live
  <2> QED
    BY <1>1, <2>1 DEF IInv, AloneInv
<1>6. WholeUnlessOverlapped' /\ StagingOwned'
  BY <1>1 DEF IInv, WholeUnlessOverlapped, StagingOwned, Live
<1> QED
  BY <1>2, <1>3, <1>4, <1>5, <1>6

\* The same holds where nothing of the runs, files and shares changes.
LEMMA RunsStay ==
  ASSUME IInv, UNCHANGED <<file, at, on, read, made, recorded, lost>>,
         UNCHANGED <<cut, overlapped, truncated, broken>>
  PROVE  /\ TypeRuns' /\ TypeHistory'
         /\ RunInv' /\ SharesAccounted' /\ AloneInv'
         /\ WholeUnlessOverlapped' /\ StagingOwned'
<1>1. SharesAccounted'
  BY SharesStay DEF IInv
<1> QED
  BY <1>1 DEF IInv, TypeRuns, TypeHistory, RunInv, AloneInv,
       WholeUnlessOverlapped, StagingOwned, Live

-----------------------------------------------------------------------------
(* Each action preserves the invariant *)

\* The initial states.
LEMMA InitHolds == Init => IInv
<1> SUFFICES ASSUME Init PROVE IInv
  OBVIOUS
<1>1. /\ TypeRows /\ TypeFiles /\ TypeRuns /\ TypeRequests
      /\ TypeCounts /\ TypeHistory /\ TypeBounds
  BY BoundAssumption DEF Init, TypeRows, TypeFiles, TypeRuns, TypeRequests,
       TypeCounts, TypeHistory, TypeBounds, RunPcs, NoFile
<1>2. RunInv /\ RequestInv /\ OneTaskPerKey
  BY DEF Init, RunInv, RequestInv, OneTaskPerKey, Present
<1>3. SharesAccounted
  <2> SUFFICES ASSUME NEW r \in Ids
               PROVE  made[r] = recorded[r] + lost[r] + Cardinality(Recording(r))
    BY DEF SharesAccounted, Recording
  <2>1. Recording(r) = {}
    BY DEF Init, Recording, Live
  <2> QED
    BY <2>1, FS_EmptySet DEF Init
<1>4. AloneInv /\ WholeUnlessOverlapped /\ StagingOwned
  BY DEF Init, AloneInv, WholeUnlessOverlapped, StagingOwned, Live
<1> QED
  BY <1>1, <1>2, <1>3, <1>4 DEF IInv

\* A request for a new task comes in.
LEMMA KeepCreate ==
  ASSUME IInv, NEW c \in Callers, NEW k \in Keys, Create(c, k)
  PROVE  IInv'
<1>1. UNCHANGED <<status, idem, hasShare, retries, account, file, at, on, read,
                  reqTask, made, recorded, lost, cut, overlapped, truncated,
                  broken, faults, crashes>>
  BY DEF Create, table, runs, counts, history
<1>2. TypeRequests'
  BY <1>1 DEF IInv, TypeRequests, Create
<1>3. TypeBounds'
  BY <1>1, BoundAssumption DEF IInv, TypeBounds, Create, Accept
<1>4. RequestInv'
  BY <1>1 DEF IInv, RequestInv, Create
<1>5. SharesAccounted'
  BY <1>1, SharesStay DEF IInv
<1>6. /\ TypeRows' /\ TypeFiles' /\ TypeRuns' /\ TypeCounts' /\ TypeHistory'
      /\ RunInv' /\ OneTaskPerKey' /\ AloneInv' /\ WholeUnlessOverlapped'
      /\ StagingOwned'
  BY <1>1 DEF IInv, TypeRows, TypeFiles, TypeRuns, TypeCounts, TypeHistory,
       RunInv, OneTaskPerKey, AloneInv, WholeUnlessOverlapped, StagingOwned,
       Present, Live
<1> QED
  BY <1>2, <1>3, <1>4, <1>5, <1>6 DEF IInv

\* A task of the key is run again, or one is to be inserted.
LEMMA KeepFind ==
  ASSUME IInv, NEW c \in Callers, Find(c)
  PROVE  IInv'
<1>1. UNCHANGED <<status, idem, hasShare, retries, account, file, made,
                  recorded, lost, truncated, broken, accepted, faults, crashes>>
  BY DEF Find, table, counts, bounds
<1>2. /\ TypeRuns' /\ TypeHistory' /\ RunInv' /\ SharesAccounted'
      /\ AloneInv' /\ WholeUnlessOverlapped' /\ StagingOwned'
  <2>1. CASE \E r \in Ids : Spawn(r)
    BY <1>1, <2>1, SpawnKeeps
  <2>2. CASE UNCHANGED <<at, on, read, cut, overlapped>>
    BY <1>1, <2>2, RunsStay
  <2> QED
    BY <2>1, <2>2 DEF Find, runs
<1>3. TypeRequests'
  BY <1>1 DEF IInv, TypeRequests, Find, Reply
<1>4. RequestInv'
  BY <1>1 DEF IInv, TypeRequests, RequestInv, Find, Reply
<1>5. TypeRows' /\ TypeFiles' /\ TypeCounts' /\ TypeBounds' /\ OneTaskPerKey'
  BY <1>1 DEF IInv, TypeRows, TypeFiles, TypeCounts, TypeBounds, OneTaskPerKey,
       Present
<1> QED
  BY <1>2, <1>3, <1>4, <1>5 DEF IInv

\* A task is inserted when no other has its key, on a row never used.
LEMMA KeepInsert ==
  ASSUME IInv, NEW c \in Callers, Insert(c)
  PROVE  IInv'
<1>1. UNCHANGED <<hasShare, retries, account, file, at, on, read, made,
                  recorded, lost, cut, overlapped, truncated, broken, accepted,
                  faults, crashes>>
  BY DEF Insert, runs, counts, history, bounds
<1>2. TypeRows'
  BY <1>1 DEF IInv, TypeRows, TypeRequests, Insert
<1>3. TypeRequests'
  BY <1>1 DEF IInv, TypeRequests, Insert, Reply
<1>4. RequestInv'
  BY <1>1 DEF IInv, TypeRequests, RequestInv, Insert, Reply
<1>5. OneTaskPerKey'
  <2>1. CASE ~Has(reqKey[c]) /\ \E r \in Ids : /\ status' = [status EXCEPT ![r] = "pending"]
                                              /\ idem' = [idem EXCEPT ![r] = reqKey[c]]
    BY <2>1 DEF IInv, TypeRows, OneTaskPerKey, Present, Has
  <2>2. CASE UNCHANGED <<status, idem>>
    BY <2>2 DEF IInv, OneTaskPerKey, Present
  <2> QED
    BY <2>1, <2>2 DEF Insert
<1>6. SharesAccounted'
  BY <1>1, SharesStay DEF IInv
<1>7. /\ TypeFiles' /\ TypeRuns' /\ TypeCounts' /\ TypeHistory' /\ TypeBounds'
      /\ RunInv' /\ AloneInv' /\ WholeUnlessOverlapped' /\ StagingOwned'
  BY <1>1 DEF IInv, TypeFiles, TypeRuns, TypeCounts, TypeHistory, TypeBounds,
       RunInv, AloneInv, WholeUnlessOverlapped, StagingOwned, Live
<1> QED
  BY <1>2, <1>3, <1>4, <1>5, <1>6, <1>7 DEF IInv

\* The row is read back and its run spawned.
LEMMA KeepReload ==
  ASSUME IInv, NEW c \in Callers, Reload(c)
  PROVE  IInv'
<1>1. UNCHANGED <<status, idem, hasShare, retries, account, file, made,
                  recorded, lost, truncated, broken, accepted, faults, crashes>>
  BY DEF Reload, table, counts, bounds
<1>2. /\ TypeRuns' /\ TypeHistory' /\ RunInv' /\ SharesAccounted'
      /\ AloneInv' /\ WholeUnlessOverlapped' /\ StagingOwned'
  <2>1. CASE Spawn(reqTask[c])
    <3>1. reqTask[c] \in Ids
      BY DEF IInv, RequestInv, Reload
    <3> QED
      BY <1>1, <2>1, <3>1, SpawnKeeps
  <2>2. CASE UNCHANGED <<at, on, read, cut, overlapped>>
    BY <1>1, <2>2, RunsStay
  <2> QED
    BY <2>1, <2>2 DEF Reload, runs
<1>3. TypeRequests'
  BY <1>1 DEF IInv, TypeRequests, Reload, Reply
<1>4. RequestInv'
  BY <1>1 DEF IInv, TypeRequests, RequestInv, Reload, Reply
<1>5. TypeRows' /\ TypeFiles' /\ TypeCounts' /\ TypeBounds' /\ OneTaskPerKey'
  BY <1>1 DEF IInv, TypeRows, TypeFiles, TypeCounts, TypeBounds, OneTaskPerKey,
       Present
<1> QED
  BY <1>2, <1>3, <1>4, <1>5 DEF IInv

\* A retry of a failed task comes in.
LEMMA KeepRetry ==
  ASSUME IInv, NEW c \in Callers, NEW r \in Ids, Retry(c, r)
  PROVE  IInv'
<1>1. UNCHANGED <<status, idem, hasShare, retries, account, file, at, on, read,
                  reqKey, made, recorded, lost, cut, overlapped, truncated,
                  broken, faults, crashes>>
  BY DEF Retry, table, runs, counts, history
<1>2. TypeRequests'
  BY <1>1 DEF IInv, TypeRequests, Retry
<1>3. TypeBounds'
  BY <1>1, BoundAssumption DEF IInv, TypeBounds, Retry, Accept
<1>4. RequestInv'
  BY <1>1 DEF IInv, TypeRequests, RequestInv, Retry
<1>5. SharesAccounted'
  BY <1>1, SharesStay DEF IInv
<1>6. /\ TypeRows' /\ TypeFiles' /\ TypeRuns' /\ TypeCounts' /\ TypeHistory'
      /\ RunInv' /\ OneTaskPerKey' /\ AloneInv' /\ WholeUnlessOverlapped'
      /\ StagingOwned'
  BY <1>1 DEF IInv, TypeRows, TypeFiles, TypeRuns, TypeCounts, TypeHistory,
       RunInv, OneTaskPerKey, AloneInv, WholeUnlessOverlapped, StagingOwned,
       Present, Live
<1> QED
  BY <1>2, <1>3, <1>4, <1>5, <1>6 DEF IInv

\* The task is pending again.
LEMMA KeepRetryUpdate ==
  ASSUME IInv, NEW c \in Callers, RetryUpdate(c)
  PROVE  IInv'
<1>1. UNCHANGED <<idem, hasShare, account, file, at, on, read, reqKey, reqTask,
                  made, recorded, lost, cut, overlapped, truncated, broken,
                  accepted, faults, crashes>>
  BY DEF RetryUpdate, runs, counts, history, bounds
<1>2. TypeRows'
  BY <1>1 DEF IInv, TypeRows, RetryUpdate, Inc
<1>3. TypeRequests'
  BY <1>1 DEF IInv, TypeRequests, RetryUpdate
<1>4. RequestInv'
  BY <1>1 DEF IInv, RequestInv, RetryUpdate
<1>5. OneTaskPerKey'
  BY <1>1 DEF IInv, TypeRows, OneTaskPerKey, Present, RetryUpdate
<1>6. SharesAccounted'
  BY <1>1, SharesStay DEF IInv
<1>7. /\ TypeFiles' /\ TypeRuns' /\ TypeCounts' /\ TypeHistory' /\ TypeBounds'
      /\ RunInv' /\ AloneInv' /\ WholeUnlessOverlapped' /\ StagingOwned'
  BY <1>1 DEF IInv, TypeFiles, TypeRuns, TypeCounts, TypeHistory, TypeBounds,
       RunInv, AloneInv, WholeUnlessOverlapped, StagingOwned, Live
<1> QED
  BY <1>2, <1>3, <1>4, <1>5, <1>6, <1>7 DEF IInv

\* A request that breaks off leaves the tasks as they are.
LEMMA KeepRequestFails ==
  ASSUME IInv, NEW c \in Callers, RequestFails(c)
  PROVE  IInv'
<1>1. UNCHANGED <<status, idem, hasShare, retries, account, file, at, on, read,
                  made, recorded, lost, overlapped, truncated, broken,
                  accepted, crashes>>
  BY DEF RequestFails, table, runs, counts
<1>2. TypeRequests'
  BY <1>1 DEF IInv, TypeRequests, RequestFails, Reply
<1>3. TypeHistory'
  BY <1>1 DEF IInv, TypeHistory, RequestInv, RequestFails
<1>4. TypeBounds'
  BY <1>1, BoundAssumption DEF IInv, TypeBounds, RequestFails, Fault
<1>5. RequestInv'
  BY <1>1 DEF IInv, TypeRequests, RequestInv, RequestFails, Reply
<1>6. SharesAccounted'
  BY <1>1, SharesStay DEF IInv
<1>7. /\ TypeRows' /\ TypeFiles' /\ TypeRuns' /\ TypeCounts' /\ RunInv'
      /\ OneTaskPerKey' /\ AloneInv' /\ WholeUnlessOverlapped' /\ StagingOwned'
  BY <1>1 DEF IInv, TypeRows, TypeFiles, TypeRuns, TypeCounts, RunInv,
       OneTaskPerKey, AloneInv, WholeUnlessOverlapped, StagingOwned, Present,
       Live
<1> QED
  BY <1>2, <1>3, <1>4, <1>5, <1>6, <1>7 DEF IInv

\* A run marks its task.
LEMMA KeepMarkProcessing ==
  ASSUME IInv, NEW s \in Slots, MarkProcessing(s)
  PROVE  IInv'
<1>1. UNCHANGED <<idem, hasShare, retries, account, file, read, req, reqKey,
                  reqTask, made, recorded, lost, cut, overlapped, truncated,
                  broken, accepted, crashes>>
  BY DEF MarkProcessing, requests, counts, history
<1>2. TypeRows'
  BY <1>1 DEF IInv, TypeRows, MarkProcessing
<1>3. TypeRuns'
  BY <1>1 DEF IInv, TypeRuns, RunPcs, MarkProcessing, Goto
<1>4. TypeBounds'
  BY <1>1, BoundAssumption DEF IInv, TypeBounds, MarkProcessing, Fault
<1>5. RunInv'
  BY <1>1 DEF IInv, TypeRuns, RunInv, MarkProcessing, Goto
<1>6. OneTaskPerKey'
  BY <1>1 DEF IInv, TypeRows, OneTaskPerKey, Present, MarkProcessing
<1>7. SharesAccounted'
  BY <1>1, SharesStay DEF IInv, TypeRuns, MarkProcessing, Goto
<1>8. AloneInv'
  BY <1>1 DEF IInv, TypeRuns, AloneInv, Live, MarkProcessing, Goto
<1>9. StagingOwned'
  BY <1>1 DEF IInv, TypeRuns, StagingOwned, Live, Staging, MarkProcessing, Goto
<1>10. /\ TypeFiles' /\ TypeRequests' /\ TypeCounts' /\ TypeHistory'
       /\ RequestInv' /\ WholeUnlessOverlapped'
  BY <1>1 DEF IInv, TypeFiles, TypeRequests, TypeCounts, TypeHistory,
       RequestInv, WholeUnlessOverlapped
<1> QED
  BY <1>2, <1>3, <1>4, <1>5, <1>6, <1>7, <1>8, <1>9, <1>10 DEF IInv

\* A run reads what it needs.
LEMMA KeepLoad ==
  ASSUME IInv, NEW s \in Slots, Load(s)
  PROVE  IInv'
<1>1. UNCHANGED <<status, idem, hasShare, retries, account, file, read, req,
                  reqKey, reqTask, made, recorded, lost, cut, overlapped,
                  truncated, broken, accepted, faults, crashes>>
  BY DEF Load, table, requests, counts, history, bounds
<1>2. TypeRuns'
  BY <1>1 DEF IInv, TypeRuns, RunPcs, Load, Goto
<1>3. RunInv'
  BY <1>1 DEF IInv, TypeRuns, RunInv, Load, Goto
<1>4. SharesAccounted'
  BY <1>1, SharesStay DEF IInv, TypeRuns, Load, Goto
<1>5. AloneInv'
  BY <1>1 DEF IInv, TypeRuns, AloneInv, Live, Load, Goto
<1>6. StagingOwned'
  BY <1>1 DEF IInv, TypeRuns, StagingOwned, Live, Staging, Load, Goto
<1>7. /\ TypeRows' /\ TypeFiles' /\ TypeRequests' /\ TypeCounts' /\ TypeHistory'
      /\ TypeBounds' /\ RequestInv' /\ OneTaskPerKey' /\ WholeUnlessOverlapped'
  BY <1>1 DEF IInv, TypeRows, TypeFiles, TypeRequests, TypeCounts, TypeHistory,
       TypeBounds, RequestInv, OneTaskPerKey, WholeUnlessOverlapped, Present
<1> QED
  BY <1>2, <1>3, <1>4, <1>5, <1>6, <1>7 DEF IInv

\* A shared folder is saved at the provider: the run has it whole.
LEMMA KeepSave ==
  ASSUME IInv, NEW s \in Slots, Save(s)
  PROVE  IInv'
<1>1. UNCHANGED <<status, idem, hasShare, retries, account, file, req, reqKey,
                  reqTask, made, recorded, lost, cut, overlapped, truncated,
                  broken, accepted, faults, crashes>>
  BY DEF Save, table, requests, counts, history, bounds
<1>2. TypeRuns'
  BY <1>1 DEF IInv, TypeRuns, RunPcs, Save, Goto
<1>3. RunInv'
  BY <1>1 DEF IInv, TypeRuns, RunInv, Save, Goto
<1>4. SharesAccounted'
  BY <1>1, SharesStay DEF IInv, TypeRuns, Save, Goto
<1>5. AloneInv'
  BY <1>1 DEF IInv, TypeRuns, AloneInv, Live, Save, Goto
<1>6. StagingOwned'
  BY <1>1 DEF IInv, TypeRuns, StagingOwned, Live, Staging, Save, Goto
<1>7. /\ TypeRows' /\ TypeFiles' /\ TypeRequests' /\ TypeCounts' /\ TypeHistory'
      /\ TypeBounds' /\ RequestInv' /\ OneTaskPerKey' /\ WholeUnlessOverlapped'
  BY <1>1 DEF IInv, TypeRows, TypeFiles, TypeRequests, TypeCounts, TypeHistory,
       TypeBounds, RequestInv, OneTaskPerKey, WholeUnlessOverlapped, Present
<1> QED
  BY <1>2, <1>3, <1>4, <1>5, <1>6, <1>7 DEF IInv

\* A run truncates the staging file of its task.
LEMMA KeepOpen ==
  ASSUME IInv, NEW s \in Slots, Open(s)
  PROVE  IInv'
<1>1. UNCHANGED <<status, idem, hasShare, retries, account, read, req, reqKey,
                  reqTask, made, recorded, lost, cut, overlapped, truncated,
                  broken, accepted, faults, crashes>>
  BY DEF Open, table, requests, counts, history, bounds
<1>2. TypeFiles'
  <2>1. [by |-> s, whole |-> FALSE] \in [by : Slots \cup {NoSlot}, whole : BOOLEAN]
    OBVIOUS
  <2>2. file' = file \/ file' = [file EXCEPT ![on[s]] = [by |-> s, whole |-> FALSE]]
    BY DEF Open
  <2> QED
    BY <2>1, <2>2 DEF IInv, TypeFiles
<1>3. TypeRuns'
  BY <1>1 DEF IInv, TypeRuns, RunPcs, Open, Goto
<1>4. RunInv'
  BY <1>1 DEF IInv, TypeRuns, RunInv, Open, Goto
<1>5. SharesAccounted'
  BY <1>1, SharesStay DEF IInv, TypeRuns, Open, Goto
<1>6. AloneInv'
  BY <1>1 DEF IInv, TypeRuns, TypeFiles, AloneInv, Live, Open, Goto
<1>7. StagingOwned'
  <2>1. CASE Goto(s, "fetch") /\ file' = [file EXCEPT ![on[s]] = [by |-> s, whole |-> FALSE]]
    <3>1. \A r \in Ids : file'[r] = file[r] \/ r = on[s]
      BY <2>1
    <3> QED
      BY <1>1, <2>1, <3>1, StagingMoves DEF Open, RunPcs, Staging
  <2>2. CASE Goto(s, "mark_failed") /\ UNCHANGED file
    BY <1>1, <2>2 DEF IInv, StagingOwned, Goto, Live, Staging, Open
  <2> QED
    BY <2>1, <2>2 DEF Open
<1>8. /\ TypeRows' /\ TypeRequests' /\ TypeCounts' /\ TypeHistory'
      /\ TypeBounds' /\ RequestInv' /\ OneTaskPerKey' /\ WholeUnlessOverlapped'
  BY <1>1 DEF IInv, TypeRows, TypeRequests, TypeCounts, TypeHistory, TypeBounds,
       RequestInv, OneTaskPerKey, WholeUnlessOverlapped, Present
<1> QED
  BY <1>2, <1>3, <1>4, <1>5, <1>6, <1>7, <1>8 DEF IInv

\* A run writes the staging file; alone, it wrote it whole.
LEMMA KeepFetch ==
  ASSUME IInv, NEW s \in Slots, Fetch(s)
  PROVE  IInv'
<1>1. UNCHANGED <<status, idem, hasShare, retries, account, read, req, reqKey,
                  reqTask, made, recorded, lost, cut, overlapped, truncated,
                  accepted, faults, crashes>>
  BY DEF Fetch, table, requests, counts, bounds
<1>2. TypeFiles'
  <2>1. file' = file \/ file' = [file EXCEPT ![on[s]].whole = TRUE]
    BY DEF Fetch
  <2> QED
    BY <2>1 DEF IInv, TypeFiles
<1>3. TypeRuns'
  BY <1>1 DEF IInv, TypeRuns, RunPcs, Fetch, Goto
<1>4. TypeHistory'
  BY <1>1 DEF IInv, TypeHistory, TypeRuns, RunInv, Fetch
<1>5. RunInv'
  BY <1>1 DEF IInv, TypeRuns, RunInv, Fetch, Goto
<1>6. SharesAccounted'
  BY <1>1, SharesStay DEF IInv, TypeRuns, Fetch, Goto
<1>7. AloneInv'
  BY <1>1 DEF IInv, TypeRuns, TypeFiles, AloneInv, Live, Fetch, Goto
<1>8. StagingOwned'
  <2>1. \A r \in Ids : file'[r] = file[r] \/ r = on[s]
    BY DEF Fetch, IInv, TypeFiles
  <2>2. \/ Goto(s, "upload") /\ broken' = broken
        \/ Goto(s, "mark_failed") /\ broken' = broken \cup {on[s]}
    BY DEF Fetch
  <2> QED
    BY <2>1, <2>2, StagingMoves DEF Fetch, RunPcs, Staging
<1>9. /\ TypeRows' /\ TypeRequests' /\ TypeCounts' /\ TypeBounds' /\ RequestInv'
      /\ OneTaskPerKey' /\ WholeUnlessOverlapped'
  BY <1>1 DEF IInv, TypeRows, TypeRequests, TypeCounts, TypeBounds, RequestInv,
       OneTaskPerKey, WholeUnlessOverlapped, Present
<1> QED
  BY <1>2, <1>3, <1>4, <1>5, <1>6, <1>7, <1>8, <1>9 DEF IInv

\* A run reads the staging file; alone, it reads it whole.
LEMMA KeepUpload ==
  ASSUME IInv, NEW s \in Slots, Upload(s)
  PROVE  IInv'
<1>1. UNCHANGED <<status, idem, hasShare, retries, account, file, req, reqKey,
                  reqTask, made, recorded, lost, cut, overlapped, truncated,
                  broken, accepted, faults, crashes>>
  BY DEF Upload, table, requests, counts, history, bounds
<1>2. TypeRuns'
  BY <1>1 DEF IInv, TypeRuns, RunPcs, Upload, Goto
<1>3. RunInv'
  BY <1>1 DEF IInv, RunInv, Upload, Goto
<1>4. SharesAccounted'
  BY <1>1, SharesStay DEF IInv, Upload, Goto
<1>5. AloneInv'
  BY <1>1 DEF IInv, TypeRuns, NoFile, AloneInv, Live, Upload, Goto
<1>6. StagingOwned'
  BY <1>1 DEF IInv, StagingOwned, Live, Staging, Upload, Goto
<1>7. /\ TypeRows' /\ TypeFiles' /\ TypeRequests' /\ TypeCounts' /\ TypeHistory'
      /\ TypeBounds' /\ RequestInv' /\ OneTaskPerKey' /\ WholeUnlessOverlapped'
  BY <1>1 DEF IInv, TypeRows, TypeFiles, TypeRequests, TypeCounts, TypeHistory,
       TypeBounds, RequestInv, OneTaskPerKey, WholeUnlessOverlapped, Present
<1> QED
  BY <1>2, <1>3, <1>4, <1>5, <1>6, <1>7 DEF IInv

\* A run removes the staging file.
LEMMA KeepCleanup ==
  ASSUME IInv, NEW s \in Slots, Cleanup(s)
  PROVE  IInv'
<1>1. UNCHANGED <<status, idem, hasShare, retries, account, read, req, reqKey,
                  reqTask, made, recorded, lost, cut, overlapped, truncated,
                  broken, accepted, faults, crashes>>
  BY DEF Cleanup, table, requests, counts, history, bounds
<1>2. TypeFiles'
  BY <1>1 DEF IInv, TypeFiles, NoFile, Cleanup
<1>3. TypeRuns'
  BY <1>1 DEF IInv, TypeRuns, RunPcs, Cleanup, Goto
<1>4. RunInv'
  BY <1>1 DEF IInv, TypeRuns, RunInv, Cleanup, Goto
<1>5. SharesAccounted'
  BY <1>1, SharesStay DEF IInv, TypeRuns, Cleanup, Goto
<1>6. AloneInv'
  BY <1>1 DEF IInv, TypeRuns, TypeFiles, AloneInv, Live, Cleanup, Goto
<1>7. StagingOwned'
  <2>1. /\ \A r \in Ids : file'[r] = file[r] \/ r = on[s]
        /\ file'[on[s]] = NoFile
    BY DEF Cleanup, IInv, TypeFiles, TypeRuns, RunInv
  <2> QED
    BY <1>1, <2>1, StagingMoves DEF Cleanup, RunPcs
<1>8. /\ TypeRows' /\ TypeRequests' /\ TypeCounts' /\ TypeHistory'
      /\ TypeBounds' /\ RequestInv' /\ OneTaskPerKey' /\ WholeUnlessOverlapped'
  BY <1>1 DEF IInv, TypeRows, TypeRequests, TypeCounts, TypeHistory, TypeBounds,
       RequestInv, OneTaskPerKey, WholeUnlessOverlapped, Present
<1> QED
  BY <1>2, <1>3, <1>4, <1>5, <1>6, <1>7, <1>8 DEF IInv

\* A share is made: it is to be recorded, or its answer was lost.
LEMMA KeepShare ==
  ASSUME IInv, NEW s \in Slots, Share(s)
  PROVE  IInv'
<1>1. UNCHANGED <<status, idem, hasShare, retries, account, file, read, req,
                  reqKey, reqTask, recorded, cut, overlapped, broken, accepted,
                  faults, crashes>>
  BY DEF Share, table, requests, bounds
<1>2. TypeRuns'
  BY <1>1 DEF IInv, TypeRuns, RunPcs, Share, Goto
<1>3. TypeCounts'
  BY <1>1 DEF IInv, TypeCounts, Share, Inc
<1>4. TypeHistory'
  BY <1>1 DEF IInv, TypeHistory, TypeRuns, RunInv, Share
<1>5. RunInv'
  BY <1>1 DEF IInv, TypeRuns, RunInv, Share, Goto
<1>6. SharesAccounted'
  <2> SUFFICES ASSUME NEW r \in Ids
               PROVE  made'[r] = recorded'[r] + lost'[r] + Cardinality(Recording(r)')
    BY DEF SharesAccounted, Recording
  <2>0. /\ made[r] = recorded[r] + lost[r] + Cardinality(Recording(r))
        /\ made[r] \in Nat /\ recorded[r] \in Nat /\ lost[r] \in Nat
    BY DEF IInv, SharesAccounted, Recording, TypeCounts
  <2>1. CASE Goto(s, "record") /\ made' = Inc(made, on[s]) /\ lost' = lost
    <3>1. Recording(r)' = IF r # on[s] THEN Recording(r) ELSE Recording(r) \cup {s}
      BY <2>1, RecordingMoves DEF Share, IInv, RunPcs
    <3>2. s \notin Recording(r)
      BY DEF Share, Recording
    <3>3. Cardinality(Recording(r)') = Cardinality(Recording(r)) + (IF r = on[s] THEN 1 ELSE 0)
      BY <3>1, <3>2, RecordingFact, FS_AddElement
    <3>4. made'[r] = made[r] + (IF r = on[s] THEN 1 ELSE 0)
      BY <2>1 DEF Inc, IInv, TypeCounts
    <3> QED
      BY <1>1, <2>0, <2>1, <3>3, <3>4, RecordingFact
  <2>2. CASE /\ Goto(s, "mark_failed")
             /\ \/ made' = Inc(made, on[s]) /\ lost' = Inc(lost, on[s])
                \/ UNCHANGED <<made, lost>>
    <3>1. Recording(r)' = Recording(r)
      BY <2>2, RecordingMoves DEF Share, IInv, RunPcs, Recording
    <3>2. made'[r] - lost'[r] = made[r] - lost[r]
      BY <2>2 DEF Inc, IInv, TypeCounts
    <3>3. made'[r] \in Nat /\ lost'[r] \in Nat
      BY <2>2 DEF Inc, IInv, TypeCounts
    <3> QED
      BY <1>1, <2>0, <3>1, <3>2, <3>3, RecordingFact
  <2> QED
    BY <2>1, <2>2 DEF Share
<1>7. AloneInv'
  BY <1>1 DEF IInv, TypeRuns, AloneInv, Live, Share, Goto
<1>8. WholeUnlessOverlapped'
  BY <1>1 DEF IInv, TypeRuns, RunInv, AloneInv, Live, WholeUnlessOverlapped,
       Share
<1>9. StagingOwned'
  BY <1>1 DEF IInv, TypeRuns, StagingOwned, Live, Staging, Share, Goto
<1>10. /\ TypeRows' /\ TypeFiles' /\ TypeRequests' /\ TypeBounds' /\ RequestInv'
       /\ OneTaskPerKey'
  BY <1>1 DEF IInv, TypeRows, TypeFiles, TypeRequests, TypeBounds, RequestInv,
       OneTaskPerKey, Present
<1> QED
  BY <1>2, <1>3, <1>4, <1>5, <1>6, <1>7, <1>8, <1>9, <1>10 DEF IInv

\* A share is recorded or lost.
LEMMA KeepRecord ==
  ASSUME IInv, NEW s \in Slots, Record(s)
  PROVE  IInv'
<1>1. UNCHANGED <<status, idem, hasShare, retries, account, file, read, req,
                  reqKey, reqTask, made, cut, overlapped, truncated, broken,
                  accepted, crashes>>
  BY DEF Record, table, requests, history
<1>2. TypeRuns'
  BY <1>1 DEF IInv, TypeRuns, RunPcs, Record, Goto
<1>3. TypeCounts'
  BY <1>1 DEF IInv, TypeCounts, Record, Inc
<1>4. TypeBounds'
  BY <1>1, BoundAssumption DEF IInv, TypeBounds, Record, Fault
<1>5. RunInv'
  BY <1>1 DEF IInv, TypeRuns, RunInv, Record, Goto
<1>6. SharesAccounted'
  <2> SUFFICES ASSUME NEW r \in Ids
               PROVE  made'[r] = recorded'[r] + lost'[r] + Cardinality(Recording(r)')
    BY DEF SharesAccounted, Recording
  <2>0. /\ made[r] = recorded[r] + lost[r] + Cardinality(Recording(r))
        /\ made[r] \in Nat /\ recorded[r] \in Nat /\ lost[r] \in Nat
    BY DEF IInv, SharesAccounted, Recording, TypeCounts
  <2>1. Recording(r)' = IF r # on[s] THEN Recording(r) ELSE Recording(r) \ {s}
    BY RecordingMoves DEF Record, IInv, RunPcs
  <2>2. r = on[s] => s \in Recording(r)
    BY DEF Record, Recording, Live
  <2>3. Cardinality(Recording(r)') = Cardinality(Recording(r)) - (IF r = on[s] THEN 1 ELSE 0)
    BY <2>1, <2>2, RecordingFact, FS_RemoveElement
  <2>4. recorded'[r] + lost'[r] = recorded[r] + lost[r] + (IF r = on[s] THEN 1 ELSE 0)
    BY DEF Record, Inc, IInv, TypeCounts
  <2>5. recorded'[r] \in Nat /\ lost'[r] \in Nat
    BY DEF Record, Inc, IInv, TypeCounts
  <2> QED
    BY <1>1, <2>0, <2>3, <2>4, <2>5, RecordingFact
<1>7. AloneInv'
  BY <1>1 DEF IInv, TypeRuns, AloneInv, Live, Record, Goto
<1>8. StagingOwned'
  BY <1>1 DEF IInv, TypeRuns, StagingOwned, Live, Staging, Record, Goto
<1>9. /\ TypeRows' /\ TypeFiles' /\ TypeRequests' /\ TypeHistory' /\ RequestInv'
      /\ OneTaskPerKey' /\ WholeUnlessOverlapped'
  BY <1>1 DEF IInv, TypeRows, TypeFiles, TypeRequests, TypeHistory, RequestInv,
       OneTaskPerKey, WholeUnlessOverlapped, Present
<1> QED
  BY <1>2, <1>3, <1>4, <1>5, <1>6, <1>7, <1>8, <1>9 DEF IInv

\* A run ends with its task succeeded, or goes on to mark it failed.
LEMMA KeepMarkSucceeded ==
  ASSUME IInv, NEW s \in Slots, MarkSucceeded(s)
  PROVE  IInv'
<1>1. TypeRows'
  BY DEF IInv, TypeRows, MarkSucceeded, SucceedOrElse
<1>2. TypeFiles'
  BY DEF IInv, TypeFiles, MarkSucceeded, SucceedOrElse
<1>3. TypeRuns'
  BY DEF IInv, TypeRuns, RunPcs, MarkSucceeded, SucceedOrElse, EndRun, Goto
<1>4. TypeRequests'
  BY DEF IInv, TypeRequests, MarkSucceeded, SucceedOrElse, requests
<1>5. TypeCounts'
  BY DEF IInv, TypeCounts, MarkSucceeded, SucceedOrElse, counts
<1>6. TypeHistory'
  BY DEF IInv, TypeHistory, MarkSucceeded, SucceedOrElse, history
<1>7. TypeBounds'
  BY BoundAssumption DEF IInv, TypeBounds, MarkSucceeded, SucceedOrElse, Fault
<1>8. RunInv'
  BY DEF IInv, TypeRuns, RunInv, MarkSucceeded, SucceedOrElse, EndRun, Goto
<1>9. RequestInv'
  BY DEF IInv, RequestInv, MarkSucceeded, SucceedOrElse, requests
<1>10. OneTaskPerKey'
  BY DEF IInv, TypeRows, OneTaskPerKey, Present, MarkSucceeded, SucceedOrElse
<1>11. SharesAccounted'
  BY SharesStay DEF IInv, TypeRuns, MarkSucceeded, SucceedOrElse, EndRun, Goto,
       counts
<1>12. AloneInv'
  BY DEF IInv, TypeRuns, AloneInv, Live, MarkSucceeded, SucceedOrElse, EndRun,
       Goto, history
<1>13. WholeUnlessOverlapped'
  BY DEF IInv, WholeUnlessOverlapped, MarkSucceeded, SucceedOrElse, history
<1>14. StagingOwned'
  BY DEF IInv, TypeRuns, StagingOwned, Live, Staging, MarkSucceeded,
       SucceedOrElse, EndRun, Goto, history
<1> QED
  BY <1>1, <1>2, <1>3, <1>4, <1>5, <1>6, <1>7, <1>8, <1>9, <1>10, <1>11, <1>12,
       <1>13, <1>14 DEF IInv

\* A run ends with its task failed.
LEMMA KeepMarkFailed ==
  ASSUME IInv, NEW s \in Slots, MarkFailed(s)
  PROVE  IInv'
<1>1. TypeRows'
  BY DEF IInv, TypeRows, MarkFailed, FailAs
<1>2. TypeFiles'
  BY DEF IInv, TypeFiles, MarkFailed, FailAs
<1>3. TypeRuns'
  BY DEF IInv, TypeRuns, RunPcs, MarkFailed, FailAs, EndRun
<1>4. TypeRequests'
  BY DEF IInv, TypeRequests, MarkFailed, FailAs, requests
<1>5. TypeCounts'
  BY DEF IInv, TypeCounts, MarkFailed, FailAs, counts
<1>6. TypeHistory'
  BY DEF IInv, TypeHistory, TypeRuns, RunInv, MarkFailed, FailAs
<1>7. TypeBounds'
  BY BoundAssumption DEF IInv, TypeBounds, MarkFailed, FailAs, Fault
<1>8. RunInv'
  BY DEF IInv, TypeRuns, RunInv, MarkFailed, FailAs, EndRun
<1>9. RequestInv'
  BY DEF IInv, RequestInv, MarkFailed, FailAs, requests
<1>10. OneTaskPerKey'
  BY DEF IInv, TypeRows, OneTaskPerKey, Present, MarkFailed, FailAs
<1>11. SharesAccounted'
  BY SharesStay DEF IInv, MarkFailed, FailAs, EndRun, counts
<1>12. AloneInv'
  BY IdsFact DEF IInv, AloneInv, Live, MarkFailed, FailAs, EndRun
<1>13. WholeUnlessOverlapped'
  BY DEF IInv, WholeUnlessOverlapped, MarkFailed, FailAs
<1>14. StagingOwned'
  BY DEF IInv, StagingOwned, Live, Staging, MarkFailed, FailAs, EndRun
<1> QED
  BY <1>1, <1>2, <1>3, <1>4, <1>5, <1>6, <1>7, <1>8, <1>9, <1>10, <1>11, <1>12,
       <1>13, <1>14 DEF IInv

\* Settled rows are deleted.
LEMMA KeepCleanupExpired ==
  ASSUME IInv, CleanupExpired
  PROVE  IInv'
<1>1. TypeRows'
  BY DEF IInv, TypeRows, CleanupExpired
<1>2. TypeFiles'
  BY DEF IInv, TypeFiles, CleanupExpired
<1>3. /\ TypeRuns' /\ TypeHistory' /\ RunInv' /\ SharesAccounted'
      /\ AloneInv' /\ WholeUnlessOverlapped' /\ StagingOwned'
  BY RunsStay DEF CleanupExpired, runs, counts, history
<1>4. TypeRequests'
  BY DEF IInv, TypeRequests, CleanupExpired, requests
<1>5. TypeCounts'
  BY DEF IInv, TypeCounts, CleanupExpired, counts
<1>6. TypeBounds'
  BY DEF IInv, TypeBounds, CleanupExpired, bounds
<1>7. RequestInv'
  BY DEF IInv, RequestInv, CleanupExpired, requests
<1>8. OneTaskPerKey'
  BY DEF IInv, OneTaskPerKey, Present, CleanupExpired
<1> QED
  BY <1>1, <1>2, <1>3, <1>4, <1>5, <1>6, <1>7, <1>8 DEF IInv

\* The account is deleted, and its tasks with it.
LEMMA KeepDeleteAccount ==
  ASSUME IInv, DeleteAccount
  PROVE  IInv'
<1>1. UNCHANGED <<idem, hasShare, retries, file, at, on, read, req, reqKey,
                  reqTask, made, recorded, lost, cut, overlapped, truncated,
                  broken, accepted, faults, crashes>>
  BY DEF DeleteAccount, runs, requests, counts, history, bounds
<1>2. TypeRows'
  BY <1>1 DEF IInv, TypeRows, DeleteAccount
<1>3. OneTaskPerKey'
  BY <1>1 DEF OneTaskPerKey, Present, DeleteAccount
<1>4. SharesAccounted'
  BY <1>1, SharesStay DEF IInv
<1>5. /\ TypeFiles' /\ TypeRuns' /\ TypeRequests' /\ TypeCounts' /\ TypeHistory'
      /\ TypeBounds' /\ RunInv' /\ RequestInv' /\ AloneInv'
      /\ WholeUnlessOverlapped' /\ StagingOwned'
  BY <1>1 DEF IInv, TypeFiles, TypeRuns, TypeRequests, TypeCounts, TypeHistory,
       TypeBounds, RunInv, RequestInv, AloneInv, WholeUnlessOverlapped,
       StagingOwned, Live
<1> QED
  BY <1>2, <1>3, <1>4, <1>5 DEF IInv

\* A crash ends the requests and the runs: a share on its way is lost.
LEMMA KeepCrash ==
  ASSUME IInv, Crash
  PROVE  IInv'
<1>1. UNCHANGED <<status, idem, hasShare, retries, account, file, made,
                  recorded, overlapped, truncated, accepted, faults>>
  BY DEF Crash, table
<1>2. TypeRuns'
  BY <1>1 DEF TypeRuns, RunPcs, Crash
<1>3. TypeRequests'
  BY <1>1 DEF TypeRequests, Crash
<1>4. TypeCounts'
  <2>1. lost' = [r \in Ids |-> lost[r] + Cardinality(Recording(r))]
    BY DEF Crash, Recording
  <2> QED
    BY <1>1, <2>1, RecordingFact DEF IInv, TypeCounts
<1>5. TypeHistory'
  BY <1>1 DEF IInv, TypeHistory, TypeRuns, RunInv, RequestInv, Crash, Staging
<1>6. TypeBounds'
  BY <1>1, BoundAssumption DEF IInv, TypeBounds, Crash
<1>7. RunInv'
  BY <1>1 DEF RunInv, Crash
<1>8. RequestInv'
  BY <1>1 DEF RequestInv, Crash
<1>9. SharesAccounted'
  <2> SUFFICES ASSUME NEW r \in Ids
               PROVE  made'[r] = recorded'[r] + lost'[r] + Cardinality(Recording(r)')
    BY DEF SharesAccounted, Recording
  <2>1. /\ made[r] = recorded[r] + lost[r] + Cardinality(Recording(r))
        /\ recorded[r] \in Nat /\ lost[r] \in Nat
    BY DEF IInv, SharesAccounted, Recording, TypeCounts
  <2>2. lost'[r] = lost[r] + Cardinality(Recording(r))
    BY DEF Crash, Recording
  <2>3. Recording(r)' = {}
    BY DEF Crash, Recording, Live
  <2> QED
    BY <1>1, <2>1, <2>2, <2>3, RecordingFact, FS_EmptySet
<1>10. AloneInv'
  BY <1>1 DEF AloneInv, Live, Crash
<1>11. StagingOwned'
  BY <1>1 DEF IInv, StagingOwned, Live, Crash
<1>12. TypeRows' /\ TypeFiles' /\ OneTaskPerKey' /\ WholeUnlessOverlapped'
  BY <1>1 DEF IInv, TypeRows, TypeFiles, OneTaskPerKey, WholeUnlessOverlapped,
       Present
<1> QED
  BY <1>2, <1>3, <1>4, <1>5, <1>6, <1>7, <1>8, <1>9, <1>10, <1>11, <1>12
       DEF IInv
\* Every step of the system preserves the invariant.
LEMMA NextKeeps == IInv /\ [Next]_vars => IInv'
<1> SUFFICES ASSUME IInv, [Next]_vars PROVE IInv'
  OBVIOUS
<1>1. ASSUME NEW c \in Callers, NEW k \in Keys, Create(c, k) PROVE IInv'
  BY <1>1, KeepCreate
<1>2. ASSUME NEW c \in Callers, NEW r \in Ids, Retry(c, r) PROVE IInv'
  BY <1>2, KeepRetry
<1>3. ASSUME NEW c \in Callers, Request(c) PROVE IInv'
  BY <1>3, KeepFind, KeepInsert, KeepReload, KeepRetryUpdate DEF Request
<1>4. ASSUME NEW c \in Callers, RequestFails(c) PROVE IInv'
  BY <1>4, KeepRequestFails
<1>5. ASSUME NEW s \in Slots, Run(s) PROVE IInv'
  BY <1>5, KeepMarkProcessing, KeepLoad, KeepSave, KeepOpen, KeepFetch,
       KeepUpload, KeepCleanup, KeepShare, KeepRecord, KeepMarkSucceeded,
       KeepMarkFailed DEF Run
<1>6. CASE CleanupExpired
  BY <1>6, KeepCleanupExpired
<1>7. CASE DeleteAccount
  BY <1>7, KeepDeleteAccount
<1>8. CASE Crash
  BY <1>8, KeepCrash
<1>9. CASE UNCHANGED vars
  <2>1. /\ UNCHANGED <<status, idem, hasShare, retries, account, file, at, on, read>>
        /\ UNCHANGED <<req, reqKey, reqTask, made, recorded, lost, cut, overlapped>>
        /\ UNCHANGED <<truncated, broken, accepted, faults, crashes>>
    BY <1>9 DEF vars, table, runs, requests, counts, history, bounds
  <2>2. SharesAccounted'
    BY <2>1, SharesStay DEF IInv
  <2>3. \A r : Live(r)' = Live(r) /\ Present(r)' = Present(r)
    BY <2>1 DEF Live, Present
  <2> QED
    BY <2>1, <2>2, <2>3 DEF IInv, TypeRows, TypeFiles, TypeRuns, TypeRequests,
         TypeCounts, TypeHistory, TypeBounds, RunInv, RequestInv, OneTaskPerKey,
         AloneInv, WholeUnlessOverlapped, StagingOwned
<1> QED
  BY <1>1, <1>2, <1>3, <1>4, <1>5, <1>6, <1>7, <1>8, <1>9 DEF Next

-----------------------------------------------------------------------------
(* Theorems *)

\* The inductive invariant holds in every state.
THEOREM TransferInvariance == Spec => []IInv
BY InitHolds, NextKeeps, PTL DEF Spec

\* The rows, files, runs, requests and shares of the transfer tasks keep their
\* types (transfer.rs, handlers/pan_transfer.rs).
THEOREM TransferTypeCorrect == Spec => []TypeOK
<1>1. IInv => TypeOK
  BY TypeParts DEF IInv
<1> QED
  BY <1>1, TransferInvariance, PTL

\* However many requests name one source at once, it has one task: the unique
\* index refuses the second INSERT (create in handlers/pan_transfer.rs).
THEOREM OneTaskHolds == Spec => []OneTaskPerKey
<1>1. IInv => OneTaskPerKey
  BY DEF IInv
<1> QED
  BY <1>1, TransferInvariance, PTL

\* Every share a run made at the provider is recorded, about to be, or lost by a
\* run that failed or died after it (run_task_inner in transfer.rs).
THEOREM SharesHold == Spec => []SharesAccounted
<1>1. IInv => SharesAccounted
  BY DEF IInv
<1> QED
  BY <1>1, TransferInvariance, PTL

\* A task whose runs never overlapped shares no truncated file, whatever broke
\* off or crashed before (download_to_staging and upload_file in transfer.rs).
THEOREM WholeHolds == Spec => []WholeUnlessOverlapped
<1>1. IInv => WholeUnlessOverlapped
  BY DEF IInv
<1> QED
  BY <1>1, TransferInvariance, PTL

\* A staging file without a run that will remove it is what a broken download
\* or a crash left (run_task_inner in transfer.rs).
THEOREM StagingHolds == Spec => []StagingOwned
<1>1. IInv => StagingOwned
  BY DEF IInv
<1> QED
  BY <1>1, TransferInvariance, PTL

-----------------------------------------------------------------------------
(***************************************************************************)
(* The pan accounts, for any credentials, keys and requests.  The          *)
(* inductive invariant says that what a request alone on an account has    *)
(* read is what the account holds (OneRequestInv), and that a credential   *)
(* no verdict is about is being checked, or its check failed (JudgedInv).  *)
(***************************************************************************)

\* The rows, and the requests in each of their steps.
Rows == [platform : Platforms, cred : Credentials, key : SealKeys, dir : Folders,
         status : {"active", "expired", "disabled"}]
Wishes  == [cred : Credentials, dir : Folders]
Inserts == [step : {"insert"}, id : {0}, platform : Platforms, cred : Credentials, dir : Folders]
Changes == [step : {"write"}, id : Accounts, cred : Credentials \cup {Same},
            dir : Folders \cup {Same}, old : Rows]
Checks  == [step : {"read"}, id : Accounts]
Judging == [step : {"judge"}, id : Accounts, cred : Credentials]
Saves   == [step : {"save"}, id : Accounts, cred : Credentials, valid : BOOLEAN]
Asks    == {Idle} \cup Inserts \cup Changes \cup Checks \cup Judging \cup Saves

\* The parts of the type invariant: the process, the accounts, what is known of
\* them, and the requests.
TypeSeal == seal \in SealKeys \cup {NoSeal} /\ honoured \subseteq Credentials

TypePan == /\ pan \in [Accounts -> Rows \cup {NoAccount}]
           /\ fresh \in 1..(MaxAccounts + 1)

TypeWished == /\ DOMAIN wished = Accounts
              /\ \A a \in Accounts : Kept(a) => wished[a] \in Wishes

TypeJudged == /\ judged \in [Accounts -> Credentials \cup {NoVerdict}]
              /\ unjudged \subseteq Accounts /\ entangled \subseteq Accounts

TypeAsks == ask \in [Askers -> Asks]

\* What is to be sealed can be.
SealInv ==
  \A o \in Askers :
    /\ ask[o].step = "insert" => seal # NoSeal
    /\ ask[o].step = "write" /\ ask[o].cred # Same => seal # NoSeal

\* Ids are not used again.
FreshInv == /\ \A a \in Accounts : Kept(a) => a < fresh
            /\ \A o \in Askers : ask[o].id < fresh

Checking(o) == ask[o].step \in {"read", "judge", "save"}

\* An account is disabled if it has no driver, and such a one is not checked.
DrivenInv ==
  \A a \in Accounts : Kept(a) =>
    /\ pan[a].status = "disabled" <=> pan[a].platform \notin Driven
    /\ \A o \in Askers : ask[o].id = a =>
         /\ Checking(o) => pan[a].platform \in Driven
         /\ ask[o].step = "write" => ask[o].old.platform = pan[a].platform

\* What the provider no longer accepts it never accepts again.
ExpiredInv ==
  /\ \A a \in Accounts : Kept(a) /\ pan[a].status = "expired" => judged[a] \notin honoured
  /\ \A o \in Askers : ask[o].step = "save" /\ ~ask[o].valid => ask[o].cred \notin honoured

\* Two requests on one account are known as such.
OneInv ==
  \A o, p \in Askers : (o # p /\ ask[o].id = ask[p].id /\ ask[o].id # 0) => ask[o].id \in entangled

\* What one request on an account alone has read of it is what it holds.
OneRequestInv ==
  \A a \in Accounts \ entangled : Kept(a) =>
    /\ wished[a] = [cred |-> pan[a].cred, dir |-> pan[a].dir]
    /\ \A o \in Askers : ask[o].id = a =>
         /\ ask[o].step = "write" => ask[o].old = pan[a]
         /\ ask[o].step \in {"judge", "save"} => ask[o].cred = pan[a].cred

\* A credential that no verdict is about is being checked, or its check has failed.
JudgedInv ==
  \A a \in Accounts \ entangled : Kept(a) /\ pan[a].platform \in Driven =>
    \/ judged[a] = pan[a].cred \/ a \in unjudged
    \/ \E o \in Askers : ask[o].id = a /\ Checking(o)

AccountInv == /\ TypeSeal /\ TypePan /\ TypeWished /\ TypeJudged /\ TypeAsks
              /\ SealInv /\ FreshInv /\ DrivenInv /\ ExpiredInv /\ OneInv /\ OneRequestInv
              /\ JudgedInv

\* What the step of a request says of its record.
LEMMA AskShape ==
  ASSUME NEW q \in Asks
  PROVE  /\ q.step \in {"none", "insert", "write", "read", "judge", "save"}
         /\ q.step = "none" <=> q = Idle
         /\ q.step = "insert" => q \in Inserts
         /\ q.step = "write" => q \in Changes
         /\ q.step = "read" => q \in Checks
         /\ q.step = "judge" => q \in Judging
         /\ q.step = "save" => q \in Saves
         /\ q.step \in {"none", "insert"} => q.id = 0
         /\ q.step \in {"write", "read", "judge", "save"} => q.id \in Accounts
         /\ q.id \in {0} \cup Accounts
BY DEF Asks, Inserts, Changes, Checks, Judging, Saves, Idle

\* There are no accounts and no requests.
LEMMA AccountInitInv == AccountInit => AccountInv
<1> SUFFICES ASSUME AccountInit PROVE AccountInv
  OBVIOUS
<1> USE AccountAssumption DEF AccountInit, Kept
<1>1. TypeSeal /\ TypePan /\ TypeWished /\ TypeJudged
  BY DEF TypeSeal, TypePan, TypeWished, TypeJudged
<1>2. TypeAsks /\ SealInv /\ FreshInv /\ DrivenInv /\ ExpiredInv /\ OneInv /\ OneRequestInv
      /\ JudgedInv
  BY DEF TypeAsks, Asks, SealInv, FreshInv, DrivenInv, ExpiredInv, OneInv, OneRequestInv, JudgedInv, Idle
<1> QED
  BY <1>1, <1>2 DEF AccountInv

\* A request that begins with what the account holds: if it meets another one,
\* the account is entangled.
LEMMA KeepAsk ==
  ASSUME AccountInv, NEW o \in Askers, NEW q \in Asks, Ask(o, q),
         q.step \in {"insert", "write", "read"},
         q.step = "insert" => seal # NoSeal, q.step # "insert" => Kept(q.id),
         q.step = "write" => q.old = pan[q.id] /\ (q.cred # Same => seal # NoSeal),
         q.step = "read" => pan[q.id].platform \in Driven
  PROVE  AccountInv'
<1>1. UNCHANGED <<pan, seal, honoured, fresh, wished, judged, unjudged>>
  BY DEF Ask
<1>2. ask' = [ask EXCEPT ![o] = q] /\ ask[o] = Idle /\ ask[o].id = 0
  BY DEF Ask, Idle
<1>3. TypeAsks' /\ ask'[o] = q /\ \A p \in Askers \ {o} : ask'[p] = ask[p]
  BY <1>2 DEF AccountInv, TypeAsks
<1>4. \A p \in Askers : ask[p] \in Asks
  BY DEF AccountInv, TypeAsks
<1>5. /\ entangled \subseteq entangled' /\ entangled' \subseteq Accounts
      /\ q.id \in Accounts /\ (\E p \in Askers : ask[p].id = q.id) => q.id \in entangled'
  BY DEF Ask, AccountInv, TypeJudged
<1>6. TypeSeal' /\ TypePan' /\ TypeWished' /\ TypeJudged'
  BY <1>1, <1>5 DEF AccountInv, TypeSeal, TypePan, TypeWished, TypeJudged, Kept
<1>13. SealInv'
  BY <1>1, <1>3 DEF AccountInv, SealInv
<1>7. FreshInv'
  <2>1. q.id < fresh
    BY AskShape, AccountAssumption DEF AccountInv, FreshInv, TypePan
  <2> QED
    BY <1>1, <1>3, <2>1 DEF AccountInv, FreshInv, Kept
<1>8. DrivenInv'
  BY <1>1, <1>3 DEF AccountInv, DrivenInv, Kept, Checking
<1>9. ExpiredInv'
  BY <1>1, <1>3 DEF AccountInv, ExpiredInv, Kept
<1>10. OneInv'
  BY <1>3, <1>4, <1>5, AskShape DEF AccountInv, OneInv
<1>11. OneRequestInv'
  BY <1>1, <1>3, <1>5 DEF AccountInv, OneRequestInv, Kept
<1>12. JudgedInv'
  <2> SUFFICES ASSUME NEW a \in Accounts \ entangled', Kept(a), pan[a].platform \in Driven,
                      judged[a] # pan[a].cred, a \notin unjudged
               PROVE  \E p \in Askers : ask'[p].id = a /\ Checking(p)'
    BY <1>1 DEF JudgedInv, Kept
  <2>1. PICK p \in Askers : ask[p].id = a /\ Checking(p)
    BY <1>5 DEF AccountInv, JudgedInv
  <2> QED
    BY <1>2, <1>3, <2>1, AccountAssumption DEF Checking, Idle
<1> QED
  BY <1>3, <1>6, <1>7, <1>8, <1>9, <1>10, <1>11, <1>12, <1>13 DEF AccountInv

\* An account is asked for.
LEMMA KeepAskAccount ==
  ASSUME AccountInv, NEW o \in Askers, AskAccount(o)
  PROVE  AccountInv'
<1>1. PICK p \in Platforms, c \in Credentials, d \in Folders :
         seal # NoSeal /\ Ask(o, [step |-> "insert", id |-> 0, platform |-> p, cred |-> c, dir |-> d])
  BY DEF AskAccount
<1>2. [step |-> "insert", id |-> 0, platform |-> p, cred |-> c, dir |-> d] \in Asks
  BY DEF Asks, Inserts
<1> QED
  BY <1>1, <1>2, KeepAsk

\* A change is asked for, with the row as it is.
LEMMA KeepAskChange ==
  ASSUME AccountInv, NEW o \in Askers, AskChange(o)
  PROVE  AccountInv'
<1>1. PICK a \in Accounts, c \in Credentials \cup {Same}, d \in Folders \cup {Same} :
        /\ Kept(a) /\ (c # Same => seal # NoSeal)
        /\ Ask(o, [step |-> "write", id |-> a, cred |-> c, dir |-> d, old |-> pan[a]])
  BY DEF AskChange
<1>2. pan[a] \in Rows
  BY <1>1 DEF AccountInv, TypePan, Kept
<1>3. [step |-> "write", id |-> a, cred |-> c, dir |-> d, old |-> pan[a]] \in Asks
  BY <1>2 DEF Asks, Changes
<1> QED
  BY <1>1, <1>3, KeepAsk

\* A check is asked for.
LEMMA KeepAskCheck ==
  ASSUME AccountInv, NEW o \in Askers, AskCheck(o)
  PROVE  AccountInv'
<1>1. PICK a \in Accounts : /\ Kept(a) /\ pan[a].platform \in Driven
                            /\ Ask(o, [step |-> "read", id |-> a])
  BY DEF AskCheck
<1>2. [step |-> "read", id |-> a] \in Asks
  BY DEF Asks, Checks
<1> QED
  BY <1>1, <1>2, KeepAsk

\* A check moves on with what it has read, or ends and is known to have come to
\* nothing.
LEMMA KeepMove ==
  ASSUME AccountInv, NEW o \in Askers, NEW q \in Asks, ask' = [ask EXCEPT ![o] = q],
         UNCHANGED <<pan, seal, honoured, fresh, wished, judged, entangled>>,
         unjudged \subseteq unjudged', unjudged' \subseteq Accounts,
         q.step \in {"none", "judge", "save"},
         q.step \in {"judge", "save"} =>
           /\ Checking(o) /\ q.id = ask[o].id
           /\ (q.id \notin entangled /\ Kept(q.id)) => q.cred = pan[q.id].cred,
         (q.step = "save" /\ ~q.valid) => q.cred \notin honoured,
         (q.step = "none" /\ Checking(o)) => ask[o].id \in unjudged'
  PROVE  AccountInv'
<1>1. UNCHANGED <<pan, seal, honoured, fresh, wished, judged, entangled>>
  OBVIOUS
<1>2. TypeAsks' /\ ask'[o] = q /\ \A p \in Askers \ {o} : ask'[p] = ask[p]
  BY DEF AccountInv, TypeAsks
<1>3. \A p \in Askers : ask[p] \in Asks
  BY DEF AccountInv, TypeAsks
<1>4. TypeSeal' /\ TypePan' /\ TypeWished' /\ TypeJudged'
  BY <1>1 DEF AccountInv, TypeSeal, TypePan, TypeWished, TypeJudged, Kept
<1>5. q.id = 0 \/ q.id = ask[o].id
  BY AskShape
<1>6. SealInv'
  BY <1>1, <1>2 DEF AccountInv, SealInv
<1>7. FreshInv'
  BY <1>1, <1>2, <1>5, AccountAssumption DEF AccountInv, FreshInv, TypePan, Kept
<1>8. DrivenInv'
  BY <1>1, <1>2 DEF AccountInv, DrivenInv, Kept, Checking
<1>9. ExpiredInv'
  BY <1>1, <1>2 DEF AccountInv, ExpiredInv, Kept
<1>10. OneInv'
  BY <1>1, <1>2, <1>5 DEF AccountInv, OneInv
<1>11. OneRequestInv'
  BY <1>1, <1>2 DEF AccountInv, OneRequestInv, Kept
<1>12. JudgedInv'
  <2> SUFFICES ASSUME NEW a \in Accounts \ entangled, Kept(a), pan[a].platform \in Driven,
                      judged[a] # pan[a].cred, a \notin unjudged'
               PROVE  \E p \in Askers : ask'[p].id = a /\ Checking(p)'
    BY <1>1 DEF JudgedInv, Kept
  <2>1. PICK p \in Askers : ask[p].id = a /\ Checking(p)
    BY DEF AccountInv, JudgedInv
  <2> QED
    BY <1>2, <2>1 DEF Checking
<1> QED
  BY <1>2, <1>4, <1>6, <1>7, <1>8, <1>9, <1>10, <1>11, <1>12 DEF AccountInv

\* The credential is read for its check.
LEMMA KeepReadCredential ==
  ASSUME AccountInv, NEW o \in Askers, ReadCredential(o)
  PROVE  AccountInv'
<1> DEFINE a == ask[o].id
<1>1. UNCHANGED <<pan, seal, honoured, fresh, wished, judged, entangled>> /\ ask[o].step = "read"
  BY DEF ReadCredential
<1>2. a \in Accounts /\ Checking(o) /\ unjudged \subseteq Accounts
  BY <1>1, AskShape DEF AccountInv, TypeAsks, TypeJudged, Checking
<1>3. CASE Kept(a) /\ pan[a].key = seal
  <2> DEFINE q == [step |-> "judge", id |-> a, cred |-> pan[a].cred]
  <2>1. pan[a].cred \in Credentials
    BY <1>2, <1>3 DEF AccountInv, TypePan, Kept, Rows
  <2>2. q \in Asks
    BY <1>2, <2>1 DEF Asks, Judging
  <2>3. ask' = [ask EXCEPT ![o] = q] /\ unjudged' = unjudged
    BY <1>3 DEF ReadCredential, Proceed
  <2> QED
    BY <1>1, <1>2, <2>2, <2>3, KeepMove
<1>4. CASE ~(Kept(a) /\ pan[a].key = seal)
  <2>1. ask' = [ask EXCEPT ![o] = Idle] /\ unjudged' = unjudged \cup {a}
    BY <1>4 DEF ReadCredential, Answered
  <2>2. Idle \in Asks /\ Idle.step = "none"
    BY DEF Asks, Idle
  <2> QED
    BY <1>1, <1>2, <2>1, <2>2, KeepMove
<1> QED
  BY <1>3, <1>4

\* The provider says whether it accepts it.
LEMMA KeepJudge ==
  ASSUME AccountInv, NEW o \in Askers, Judge(o)
  PROVE  AccountInv'
<1> DEFINE a == ask[o].id
           c == ask[o].cred
<1>1. UNCHANGED <<pan, seal, honoured, fresh, wished, judged, entangled>> /\ ask[o].step = "judge"
  BY DEF Judge
<1>2. a \in Accounts /\ Checking(o) /\ unjudged \subseteq Accounts
  BY <1>1, AskShape DEF AccountInv, TypeAsks, TypeJudged, Checking
<1>3. ask[o] \in Judging
  BY <1>1, AskShape DEF AccountInv, TypeAsks
<1>4. CASE /\ ask' = [ask EXCEPT ![o] = [step |-> "save", id |-> a, cred |-> c, valid |-> c \in honoured]]
           /\ unjudged' = unjudged
  <2> DEFINE q == [step |-> "save", id |-> a, cred |-> c, valid |-> c \in honoured]
  <2>1. q \in Asks
    BY <1>2, <1>3 DEF Asks, Judging, Saves
  <2>2. (a \notin entangled /\ Kept(a)) => c = pan[a].cred
    BY <1>1, <1>2 DEF AccountInv, OneRequestInv
  <2> QED
    BY <1>1, <1>2, <1>4, <2>1, <2>2, KeepMove
<1>5. CASE ask' = [ask EXCEPT ![o] = Idle] /\ unjudged' = unjudged \cup {a}
  <2>1. Idle \in Asks /\ Idle.step = "none"
    BY DEF Asks, Idle
  <2> QED
    BY <1>1, <1>2, <1>5, <2>1, KeepMove
<1> QED
  BY <1>4, <1>5 DEF Judge, Proceed, Answered

\* A request ends half-way.
LEMMA KeepAskFails ==
  ASSUME AccountInv, NEW o \in Askers, AskFails(o)
  PROVE  AccountInv'
<1>1. /\ UNCHANGED <<pan, seal, honoured, fresh, wished, judged, entangled>>
      /\ ask' = [ask EXCEPT ![o] = Idle]
  BY DEF AskFails, Answered
<1>2. unjudged \subseteq unjudged' /\ unjudged' \subseteq Accounts
  BY AskShape DEF AccountInv, TypeAsks, TypeJudged, AskFails
<1>3. Checking(o) => ask[o].id \in unjudged'
  BY DEF AskFails, Checking
<1>4. Idle \in Asks /\ Idle.step = "none"
  BY DEF Asks, Idle
<1> QED
  BY <1>1, <1>2, <1>3, <1>4, KeepMove

\* An account is inserted, under an id that no request is about.
LEMMA KeepInsertAccount ==
  ASSUME AccountInv, NEW o \in Askers, InsertAccount(o)
  PROVE  AccountInv'
<1> DEFINE q == ask[o]
           driven == q.platform \in Driven
           row == [platform |-> q.platform, cred |-> q.cred, key |-> seal, dir |-> q.dir,
                   status |-> IF driven THEN "active" ELSE "disabled"]
           wish == [cred |-> q.cred, dir |-> q.dir]
           next == IF driven THEN [step |-> "read", id |-> fresh] ELSE Idle
<1>1. q \in Inserts /\ fresh \in Accounts /\ seal \in SealKeys
  BY AskShape, AccountAssumption DEF InsertAccount, AccountInv, TypeAsks, TypePan, TypeSeal, SealInv, Accounts
<1>2. /\ row \in Rows /\ row.platform = q.platform
      /\ row.status = IF driven THEN "active" ELSE "disabled"
      /\ wish \in Wishes /\ wish = [cred |-> row.cred, dir |-> row.dir]
  BY <1>1 DEF Inserts, Rows, Wishes
<1>3. /\ next \in Asks /\ next.step \in {"none", "read"}
      /\ driven => next.step = "read" /\ next.id = fresh
      /\ ~driven => next.step = "none" /\ next.id = 0
  BY <1>1 DEF Asks, Checks, Idle
<1>4. /\ pan' = [pan EXCEPT ![fresh] = row] /\ wished' = [wished EXCEPT ![fresh] = wish]
      /\ ask' = [ask EXCEPT ![o] = next] /\ fresh' = fresh + 1
      /\ UNCHANGED <<seal, honoured, judged, unjudged, entangled>>
  BY DEF InsertAccount, Proceed, Answered
<1> HIDE DEF row, wish, next
<1>5. /\ pan' \in [Accounts -> Rows \cup {NoAccount}]
      /\ pan'[fresh] = row /\ \A a \in Accounts \ {fresh} : pan'[a] = pan[a]
      /\ DOMAIN wished' = Accounts
      /\ wished'[fresh] = wish /\ \A a \in Accounts \ {fresh} : wished'[a] = wished[a]
  BY <1>1, <1>2, <1>4 DEF AccountInv, TypePan, TypeWished
<1>6. TypeAsks' /\ ask'[o] = next /\ \A p \in Askers \ {o} : ask'[p] = ask[p]
  BY <1>3, <1>4 DEF AccountInv, TypeAsks
<1>7. /\ fresh \in Nat /\ \A p \in Askers : ask[p].id \in Nat /\ ask[p].id < fresh
      /\ \A p \in Askers : ask[p].id # fresh
  BY AskShape, AccountAssumption DEF AccountInv, TypeAsks, TypePan, FreshInv, Accounts
<1>8. TypeSeal' /\ TypePan' /\ TypeWished' /\ TypeJudged'
  BY <1>1, <1>2, <1>4, <1>5, AccountAssumption
     DEF AccountInv, TypeSeal, TypePan, TypeWished, TypeJudged, Kept, Accounts
<1>9. SealInv'
  BY <1>3, <1>4, <1>6 DEF AccountInv, SealInv
<1>10. FreshInv'
  BY <1>3, <1>4, <1>5, <1>6, <1>7 DEF AccountInv, FreshInv, Kept, Accounts
<1>11. DrivenInv'
  BY <1>2, <1>3, <1>4, <1>5, <1>6, <1>7 DEF AccountInv, DrivenInv, Kept, Checking
<1>12. ExpiredInv'
  BY <1>2, <1>3, <1>4, <1>5, <1>6 DEF AccountInv, ExpiredInv, Kept
<1>13. OneInv'
  BY <1>3, <1>4, <1>6, <1>7 DEF AccountInv, OneInv
<1>14. OneRequestInv'
  BY <1>2, <1>3, <1>4, <1>5, <1>6, <1>7 DEF AccountInv, OneRequestInv, Kept
<1>15. JudgedInv'
  <2> SUFFICES ASSUME NEW a \in Accounts \ entangled, Kept(a)', pan'[a].platform \in Driven,
                      judged[a] # pan'[a].cred, a \notin unjudged
               PROVE  \E p \in Askers : ask'[p].id = a /\ Checking(p)'
    BY <1>4 DEF JudgedInv
  <2>1. CASE a = fresh
    BY <1>2, <1>3, <1>5, <1>6, <2>1 DEF Checking
  <2>2. CASE a # fresh
    <3>1. PICK p \in Askers : ask[p].id = a /\ Checking(p)
      BY <1>5, <2>2 DEF AccountInv, JudgedInv, Kept
    <3>2. p # o
      BY <3>1 DEF Checking, InsertAccount
    <3> QED
      BY <1>6, <3>1, <3>2 DEF Checking
  <2> QED
    BY <2>1, <2>2
<1> QED
  BY <1>6, <1>8, <1>9, <1>10, <1>11, <1>12, <1>13, <1>14, <1>15 DEF AccountInv

\* An account is changed: what the request alone has read of it is what it holds.
LEMMA KeepWriteAccount ==
  ASSUME AccountInv, NEW o \in Askers, WriteAccount(o)
  PROVE  AccountInv'
<1> DEFINE q == ask[o]
           a == q.id
           row == [pan[a] EXCEPT !.cred = Given(q.cred, q.old.cred),
                                 !.key = IF q.cred = Same THEN q.old.key ELSE seal,
                                 !.dir = Given(q.dir, q.old.dir)]
           wish == [wished[a] EXCEPT !.cred = Given(q.cred, @), !.dir = Given(q.dir, @)]
           next == IF q.cred # Same /\ q.old.platform \in Driven
                   THEN [step |-> "read", id |-> a] ELSE Idle
<1>1. q \in Changes /\ a \in Accounts /\ q.old \in Rows
  BY AskShape DEF WriteAccount, AccountInv, TypeAsks, Changes
<1>2. q.cred # Same => seal \in SealKeys
  BY DEF WriteAccount, AccountInv, SealInv, TypeSeal
<1>3. /\ next \in Asks /\ next.step \in {"none", "read"}
      /\ next.step = "none" => next.id = 0 /\ (q.cred = Same \/ q.old.platform \notin Driven)
      /\ next.step = "read" => next.id = a /\ q.old.platform \in Driven
  BY <1>1 DEF Asks, Checks, Idle
<1>4. /\ ask' = [ask EXCEPT ![o] = next]
      /\ UNCHANGED <<seal, honoured, fresh, judged, unjudged, entangled>>
  BY DEF WriteAccount, Proceed, Answered
<1> HIDE DEF next
<1>5. TypeAsks' /\ ask'[o] = next /\ \A p \in Askers \ {o} : ask'[p] = ask[p]
  BY <1>3, <1>4 DEF AccountInv, TypeAsks
<1>6. TypeSeal' /\ TypeJudged' /\ SealInv'
  BY <1>3, <1>4, <1>5 DEF AccountInv, TypeSeal, TypeJudged, SealInv
<1>7. OneInv'
  BY <1>1, <1>3, <1>4, <1>5 DEF AccountInv, OneInv
<1>8. /\ pan[a] \in Rows \cup {NoAccount}
      /\ q.old.cred \in Credentials /\ q.old.dir \in Folders /\ q.old.key \in SealKeys
      /\ q.cred \in Credentials \cup {Same} /\ q.dir \in Folders \cup {Same}
      /\ q.old.platform \in Platforms
  BY <1>1 DEF AccountInv, TypePan, Rows, Changes
<1>9. CASE ~Kept(a)
  <2>1. pan' = pan /\ wished' = wished
    BY <1>9 DEF WriteAccount
  <2>2. TypePan' /\ TypeWished' /\ ExpiredInv'
    BY <1>3, <1>4, <1>5, <2>1 DEF AccountInv, TypePan, TypeWished, ExpiredInv, Kept
  <2>3. FreshInv'
    BY <1>1, <1>3, <1>4, <1>5, <2>1, AccountAssumption DEF AccountInv, FreshInv, TypePan, Kept
  <2>4. DrivenInv' /\ OneRequestInv'
    BY <1>3, <1>4, <1>5, <1>9, <2>1 DEF AccountInv, DrivenInv, OneRequestInv, Kept, Checking
  <2>5. JudgedInv'
    <3> SUFFICES ASSUME NEW b \in Accounts \ entangled, Kept(b), pan[b].platform \in Driven,
                        judged[b] # pan[b].cred, b \notin unjudged
                 PROVE  \E p \in Askers : ask'[p].id = b /\ Checking(p)'
      BY <1>4, <2>1 DEF JudgedInv, Kept
    <3>1. PICK p \in Askers : ask[p].id = b /\ Checking(p)
      BY DEF AccountInv, JudgedInv
    <3>2. p # o
      BY <3>1 DEF Checking, WriteAccount
    <3> QED
      BY <1>5, <3>1, <3>2 DEF Checking
  <2> QED
    BY <1>5, <1>6, <1>7, <2>2, <2>3, <2>4, <2>5 DEF AccountInv
<1>10. CASE Kept(a)
  <2>1. pan[a] \in Rows /\ wished[a] \in Wishes
    BY <1>1, <1>8, <1>10 DEF AccountInv, TypeWished, Kept
  <2>2. /\ row \in Rows /\ row.platform = pan[a].platform /\ row.status = pan[a].status
        /\ row.cred = Given(q.cred, q.old.cred) /\ row.dir = Given(q.dir, q.old.dir)
    BY <1>2, <1>8, <2>1 DEF Rows, Given
  <2>3. /\ wish \in Wishes /\ wish.cred = Given(q.cred, wished[a].cred)
        /\ wish.dir = Given(q.dir, wished[a].dir)
    BY <1>8, <2>1 DEF Wishes, Given
  <2>4. pan' = [pan EXCEPT ![a] = row] /\ wished' = [wished EXCEPT ![a] = wish]
    BY <1>10 DEF WriteAccount
  <2> HIDE DEF row, wish
  <2>5. /\ pan' \in [Accounts -> Rows \cup {NoAccount}]
        /\ pan'[a] = row /\ \A b \in Accounts \ {a} : pan'[b] = pan[b]
        /\ DOMAIN wished' = Accounts
        /\ wished'[a] = wish /\ \A b \in Accounts \ {a} : wished'[b] = wished[b]
    BY <1>1, <2>2, <2>4 DEF AccountInv, TypePan, TypeWished
  <2>6. TypePan' /\ TypeWished'
    BY <1>1, <1>4, <2>3, <2>5 DEF AccountInv, TypePan, TypeWished, Kept
  <2>7. FreshInv'
    BY <1>1, <1>3, <1>4, <1>5, <1>10, <2>5, AccountAssumption DEF AccountInv, FreshInv, TypePan, Kept
  <2>8. q.old.platform = pan[a].platform
    BY <1>1, <1>10 DEF AccountInv, DrivenInv, WriteAccount
  <2>9. DrivenInv'
    BY <1>3, <1>4, <1>5, <1>10, <2>2, <2>5, <2>8 DEF AccountInv, DrivenInv, Kept, Checking
  <2>10. ExpiredInv'
    BY <1>1, <1>3, <1>4, <1>5, <1>10, <2>2, <2>5 DEF AccountInv, ExpiredInv, Kept
  <2>11. a \notin entangled => /\ q.old = pan[a] /\ wished[a] = [cred |-> pan[a].cred, dir |-> pan[a].dir]
                               /\ \A p \in Askers \ {o} : ask[p].id # a
    BY <1>1, <1>10 DEF AccountInv, OneRequestInv, OneInv, WriteAccount, Accounts
  <2>12. a \notin entangled => wish = [cred |-> row.cred, dir |-> row.dir]
    <3>1. wish = [cred |-> wish.cred, dir |-> wish.dir]
      BY <2>3 DEF Wishes
    <3> QED
      BY <2>2, <2>3, <2>11, <3>1
  <2>13. OneRequestInv'
    <3> SUFFICES ASSUME NEW b \in Accounts \ entangled, Kept(b)'
                 PROVE  /\ wished'[b] = [cred |-> pan'[b].cred, dir |-> pan'[b].dir]
                        /\ \A p \in Askers : ask'[p].id = b =>
                             /\ ask'[p].step = "write" => ask'[p].old = pan'[b]
                             /\ ask'[p].step \in {"judge", "save"} => ask'[p].cred = pan'[b].cred
      BY <1>4 DEF OneRequestInv
    <3>1. CASE b = a
      BY <1>3, <1>5, <2>5, <2>11, <2>12, <3>1
    <3>2. CASE b # a
      <4>1. Kept(b) /\ pan'[b] = pan[b] /\ wished'[b] = wished[b]
        BY <2>5, <3>2 DEF Kept
      <4>2. wished'[b] = [cred |-> pan'[b].cred, dir |-> pan'[b].dir]
        BY <4>1 DEF AccountInv, OneRequestInv
      <4>3. ASSUME NEW p \in Askers, ask'[p].id = b
            PROVE  /\ ask'[p].step = "write" => ask'[p].old = pan'[b]
                   /\ ask'[p].step \in {"judge", "save"} => ask'[p].cred = pan'[b].cred
        <5>1. CASE p = o
          BY <1>3, <1>5, <5>1
        <5>2. CASE p # o
          <6>1. ask'[p] = ask[p]
            BY <1>5, <5>2
          <6> QED
            BY <4>1, <4>3, <6>1 DEF AccountInv, OneRequestInv, Kept
        <5> QED
          BY <5>1, <5>2
      <4> QED
        BY <4>2, <4>3
    <3> QED
      BY <3>1, <3>2
  <2>14. JudgedInv'
    <3> SUFFICES ASSUME NEW b \in Accounts \ entangled, Kept(b)', pan'[b].platform \in Driven,
                        judged[b] # pan'[b].cred, b \notin unjudged
                 PROVE  \E p \in Askers : ask'[p].id = b /\ Checking(p)'
      BY <1>4 DEF JudgedInv
    <3>1. CASE b = a /\ next.step = "read"
      BY <1>3, <1>5, <3>1 DEF Checking
    <3>2. CASE b # a \/ next.step = "none"
      <4>1. Kept(b) /\ pan[b].platform \in Driven /\ judged[b] # pan[b].cred
        BY <1>3, <1>10, <2>2, <2>5, <2>8, <2>11, <3>2 DEF Kept, Given
      <4>2. PICK p \in Askers : ask[p].id = b /\ Checking(p)
        BY <4>1 DEF AccountInv, JudgedInv
      <4>3. p # o
        BY <4>2 DEF Checking, WriteAccount
      <4> QED
        BY <1>5, <4>2, <4>3 DEF Checking
    <3> QED
      BY <1>3, <3>1, <3>2
  <2> QED
    BY <1>5, <1>6, <1>7, <2>6, <2>7, <2>9, <2>10, <2>13, <2>14 DEF AccountInv
<1> QED
  BY <1>9, <1>10

\* The verdict is saved: on one request alone it is about what the account holds.
LEMMA KeepSaveVerdict ==
  ASSUME AccountInv, NEW o \in Askers, SaveVerdict(o)
  PROVE  AccountInv'
<1> DEFINE q == ask[o]
           a == q.id
           row == [pan[a] EXCEPT !.status = IF q.valid THEN "active" ELSE "expired"]
<1>1. q \in Saves /\ a \in Accounts /\ q.cred \in Credentials /\ q.valid \in BOOLEAN
  BY AskShape DEF SaveVerdict, AccountInv, TypeAsks, Saves
<1>2. Idle \in Asks /\ Idle.step = "none" /\ Idle.id = 0
  BY DEF Asks, Idle
<1>3. ask' = [ask EXCEPT ![o] = Idle] /\ UNCHANGED <<seal, honoured, fresh, wished, entangled>>
  BY DEF SaveVerdict, Answered
<1>4. TypeAsks' /\ ask'[o] = Idle /\ \A p \in Askers \ {o} : ask'[p] = ask[p]
  BY <1>2, <1>3 DEF AccountInv, TypeAsks
<1>5. TypeSeal' /\ SealInv' /\ OneInv'
  BY <1>2, <1>3, <1>4 DEF AccountInv, TypeSeal, SealInv, OneInv
<1>6. CASE ~Kept(a)
  <2>1. UNCHANGED <<pan, judged, unjudged>>
    BY <1>6 DEF SaveVerdict
  <2>2. TypePan' /\ TypeWished' /\ TypeJudged' /\ ExpiredInv'
    BY <1>2, <1>3, <1>4, <2>1 DEF AccountInv, TypePan, TypeWished, TypeJudged, ExpiredInv, Kept
  <2>3. FreshInv'
    BY <1>2, <1>3, <1>4, <2>1, AccountAssumption DEF AccountInv, FreshInv, TypePan, Kept
  <2>4. DrivenInv' /\ OneRequestInv'
    BY <1>2, <1>3, <1>4, <1>6, <2>1 DEF AccountInv, DrivenInv, OneRequestInv, Kept, Checking
  <2>5. JudgedInv'
    BY <1>3, <1>4, <1>6, <2>1 DEF AccountInv, JudgedInv, Kept, Checking
  <2> QED
    BY <1>4, <1>5, <2>2, <2>3, <2>4, <2>5 DEF AccountInv
<1>7. CASE Kept(a)
  <2>1. pan[a] \in Rows
    BY <1>1, <1>7 DEF AccountInv, TypePan, Kept
  <2>2. /\ row \in Rows /\ row.platform = pan[a].platform
        /\ row.cred = pan[a].cred /\ row.dir = pan[a].dir
        /\ row.status = IF q.valid THEN "active" ELSE "expired"
    BY <2>1 DEF Rows
  <2>3. /\ pan' = [pan EXCEPT ![a] = row] /\ judged' = [judged EXCEPT ![a] = q.cred]
        /\ unjudged' = unjudged \ {a}
    BY <1>7 DEF SaveVerdict
  <2> HIDE DEF row
  <2>4. /\ pan' \in [Accounts -> Rows \cup {NoAccount}]
        /\ pan'[a] = row /\ \A b \in Accounts \ {a} : pan'[b] = pan[b]
        /\ judged' \in [Accounts -> Credentials \cup {NoVerdict}]
        /\ judged'[a] = q.cred /\ \A b \in Accounts \ {a} : judged'[b] = judged[b]
    BY <1>1, <2>2, <2>3 DEF AccountInv, TypePan, TypeJudged
  <2>5. TypePan' /\ TypeWished' /\ TypeJudged'
    BY <1>1, <1>3, <1>7, <2>3, <2>4 DEF AccountInv, TypePan, TypeWished, TypeJudged, Kept
  <2>6. FreshInv'
    BY <1>1, <1>2, <1>3, <1>4, <1>7, <2>4, AccountAssumption DEF AccountInv, FreshInv, TypePan, Kept
  <2>7. DrivenInv'
    BY <1>1, <1>2, <1>4, <1>7, <2>2, <2>4 DEF AccountInv, DrivenInv, Kept, Checking, SaveVerdict
  <2>8. ExpiredInv'
    BY <1>1, <1>2, <1>3, <1>4, <2>2, <2>4 DEF AccountInv, ExpiredInv, Kept, SaveVerdict
  <2>9. a \notin entangled => q.cred = pan[a].cred /\ \A p \in Askers \ {o} : ask[p].id # a
    <3>1. a # 0
      BY <1>1 DEF Accounts
    <3>2. a \notin entangled => \A p \in Askers \ {o} : ask[p].id # a
      BY <3>1 DEF AccountInv, OneInv
    <3> QED
      BY <1>1, <1>7, <3>2 DEF AccountInv, OneRequestInv, SaveVerdict
  <2>10. OneRequestInv'
    BY <1>1, <1>2, <1>3, <1>4, <1>7, <2>2, <2>4, <2>9 DEF AccountInv, OneRequestInv, Kept
  <2>11. JudgedInv'
    BY <1>3, <1>4, <2>2, <2>3, <2>4, <2>9 DEF AccountInv, JudgedInv, Kept, Checking
  <2> QED
    BY <1>4, <1>5, <2>5, <2>6, <2>7, <2>8, <2>10, <2>11 DEF AccountInv
<1> QED
  BY <1>6, <1>7

-----------------------------------------------------------------------------
\* An account is deleted.
LEMMA KeepDropAccount ==
  ASSUME AccountInv, NEW a \in Accounts, DropAccount(a)
  PROVE  AccountInv'
<1>1. UNCHANGED <<seal, honoured, ask, fresh, troubles, reboots, wished,
                  judged, unjudged, entangled>>
  BY DEF DropAccount, Kept, pastAccounts
<1>2. TypePan'
  BY <1>1, AccountAssumption, AskShape DEF AccountInv, TypePan, TypeAsks,
     TypeSeal, DropAccount, Kept, pastAccounts
<1>3. TypeWished'
  BY <1>1, AccountAssumption, AskShape DEF AccountInv, TypeWished, Kept,
     TypeAsks, TypePan, DropAccount, pastAccounts
<1>4. FreshInv'
  BY <1>1, AccountAssumption, AskShape DEF AccountInv, FreshInv, Kept, TypeAsks,
     TypePan, DropAccount, pastAccounts
<1>5. DrivenInv'
  BY <1>1, AccountAssumption, AskShape DEF AccountInv, DrivenInv, Kept,
     Checking, TypeAsks, TypePan, FreshInv, DropAccount, pastAccounts
<1>6. ExpiredInv'
  BY <1>1, AccountAssumption, AskShape DEF AccountInv, ExpiredInv, Kept,
     TypeAsks, TypePan, TypeSeal, TypeJudged, DropAccount, pastAccounts
<1>7. OneRequestInv'
  BY <1>1, AccountAssumption, AskShape DEF AccountInv, OneRequestInv, Kept, TypeAsks,
     TypePan, OneInv, FreshInv, TypeWished, DropAccount, pastAccounts
<1>8. JudgedInv'
  BY <1>1, AccountAssumption, AskShape DEF AccountInv, JudgedInv, Kept,
     Checking, TypeAsks, TypePan, OneRequestInv, OneInv, FreshInv, TypeJudged,
     DropAccount, pastAccounts
<1>9. TypeSeal' /\ TypeJudged' /\ TypeAsks' /\ SealInv' /\ OneInv'
  BY <1>1 DEF AccountInv, TypeSeal, TypeJudged, TypeAsks, SealInv, OneInv
<1> QED
  BY <1>2, <1>3, <1>4, <1>5, <1>6, <1>7, <1>8, <1>9 DEF AccountInv

\* A session ends.
LEMMA KeepCredentialDies ==
  ASSUME AccountInv, NEW c \in Credentials, CredentialDies(c)
  PROVE  AccountInv'
<1>1. UNCHANGED <<pan, seal, ask, fresh, asks, troubles, reboots, wished,
                  judged, unjudged, entangled>>
  BY DEF CredentialDies, pastAccounts
<1>2. TypeSeal'
  BY <1>1, AccountAssumption, AskShape DEF AccountInv, TypeSeal, CredentialDies,
     pastAccounts
<1>3. ExpiredInv'
  BY <1>1, AccountAssumption, AskShape DEF AccountInv, ExpiredInv, Kept,
     TypeAsks, TypePan, TypeSeal, TypeJudged, CredentialDies, pastAccounts
<1>4. /\ TypePan' /\ TypeWished' /\ TypeJudged' /\ TypeAsks' /\ SealInv'
      /\ FreshInv' /\ DrivenInv' /\ OneInv' /\ OneRequestInv' /\ JudgedInv'
  BY <1>1 DEF AccountInv, TypePan, TypeWished, TypeJudged, TypeAsks, SealInv,
     FreshInv, DrivenInv, OneInv, OneRequestInv, JudgedInv, Kept, Checking
<1> QED
  BY <1>2, <1>3, <1>4 DEF AccountInv

\* The process ends and starts again.
LEMMA KeepReboot ==
  ASSUME AccountInv, Reboot
  PROVE  AccountInv'
<1>1. UNCHANGED <<pan, honoured, fresh, asks, troubles, wished, judged,
                  entangled>>
  BY DEF Reboot, Idle
<1>2. TypeSeal'
  BY <1>1, AccountAssumption, AskShape DEF AccountInv, TypeSeal, Reboot, Idle
<1>3. TypeJudged'
  BY <1>1, AccountAssumption, AskShape DEF AccountInv, TypeJudged, TypeAsks,
     TypePan, Reboot, Idle
<1>4. TypeAsks'
  BY DEF Reboot, TypeAsks, Asks
<1>5. SealInv'
  BY <1>1, AccountAssumption, AskShape DEF AccountInv, SealInv, TypeAsks,
     TypePan, Reboot, Idle
<1>6. FreshInv'
  BY <1>1, AccountAssumption, AskShape DEF AccountInv, FreshInv, Kept, TypeAsks,
     TypePan, Reboot, Idle
<1>7. DrivenInv'
  BY <1>1, AccountAssumption, AskShape DEF AccountInv, DrivenInv, Kept,
     Checking, TypeAsks, TypePan, FreshInv, Reboot, Idle
<1>8. ExpiredInv'
  BY <1>1, AccountAssumption, AskShape DEF AccountInv, ExpiredInv, Kept,
     TypeAsks, TypePan, TypeSeal, TypeJudged, Reboot, Idle
<1>9. OneInv'
  BY <1>1, AccountAssumption, AskShape DEF AccountInv, OneInv, TypeAsks,
     TypePan, FreshInv, Kept, Reboot, Idle
<1>10. OneRequestInv'
  BY <1>1, AccountAssumption, AskShape DEF AccountInv, OneRequestInv, Kept, TypeAsks,
     TypePan, OneInv, FreshInv, TypeWished, Reboot, Idle
<1>11. JudgedInv'
  BY <1>1, AccountAssumption, AskShape DEF AccountInv, JudgedInv, Kept,
     Checking, TypeAsks, TypePan, OneRequestInv, OneInv, FreshInv, TypeJudged,
     Reboot, Idle
<1>12. TypePan' /\ TypeWished'
  BY <1>1 DEF AccountInv, TypePan, TypeWished, Kept
<1> QED
  BY <1>2, <1>3, <1>4, <1>5, <1>6, <1>7, <1>8, <1>9, <1>10, <1>11,
     <1>12 DEF AccountInv

-----------------------------------------------------------------------------
\* Every step keeps the invariant.
LEMMA AccountStep == AccountInv /\ [AccountNext]_accountVars => AccountInv'
<1> SUFFICES ASSUME AccountInv, [AccountNext]_accountVars PROVE AccountInv'
  OBVIOUS
<1>1. CASE UNCHANGED accountVars
  BY <1>1 DEF accountVars, AccountInv, TypeSeal, TypePan, TypeWished, TypeJudged, TypeAsks,
     SealInv, FreshInv, DrivenInv, ExpiredInv, OneInv, OneRequestInv, JudgedInv, Kept, Checking
<1>2. CASE AccountNext
  BY <1>2, KeepAskAccount, KeepAskChange, KeepAskCheck, KeepInsertAccount, KeepWriteAccount,
     KeepReadCredential, KeepJudge, KeepSaveVerdict, KeepAskFails, KeepDropAccount,
     KeepCredentialDies, KeepReboot DEF AccountNext, Asker
<1> QED
  BY <1>1, <1>2

\* The inductive invariant holds in every state.
THEOREM AccountInvariance == AccountSpec => []AccountInv
BY AccountInitInv, AccountStep, PTL DEF AccountSpec

\* The accounts and the requests on them keep their types
\* (services/pan_account.rs).
THEOREM AccountTypeCorrect == AccountSpec => []AccountTypeOK
<1>1. AccountInv => AccountTypeOK
  BY AskShape DEF AccountInv, AccountTypeOK, TypeSeal, TypePan, TypeJudged, TypeAsks, Rows
<1> QED
  BY <1>1, AccountInvariance, PTL

\* An account no request works on is as the requests set it, and its status is
\* a verdict on the credential it has, unless two requests overlapped or its
\* last check failed; and no credential that still works is said to have
\* expired (update_account and refresh_health, pan_account.rs).
THEOREM AccountsHold == AccountSpec => []AccountsKept
<1>1. AccountInv => AccountsKept
  BY DEF AccountInv, AccountsKept, DrivenInv, ExpiredInv, OneRequestInv, JudgedInv
<1> QED
  BY <1>1, AccountInvariance, PTL

-----------------------------------------------------------------------------
(***************************************************************************)
(* The drive, for any runs, files and sizes of pages and shares.  The      *)
(* inductive invariant says how far its task is when a run has come so far *)
(* (ChoreFits), and where in the folder the files are that a run put there *)
(* (FileFits); the listing is searched by the least place, which is found  *)
(* by well-founded induction.                                              *)
(***************************************************************************)

\* Who may have put a file into the folder, its name, and the ids of files.
Hands == Runs \cup {"other"}
Names == FileNames \cup {""}
Files == [name : Names \cup (Names \X Hands), by : Hands]
Fids  == Hands \cup {NoFid} \cup (Runs \X Nat)

Steps == {"hash", "parts", "find", "save", "poll save", "share", "poll share", "password", "ok",
          "error"}
Off   == [at |-> "off"]
Works == [at : Steps, why : {"", "not found", "empty", "no files", "failed", "timeout", "lost", "refused"},
          name : Names, size : Nat, parts : Nat, polls : Nat,
          fids : SUBSET Fids, shared : SUBSET (Runs \X Nat)]
Chores == {NoChore} \cup [what : {"save", "share"}, state : {"open", "done", "failed"}]

Shares == {"share", "poll share", "password", "ok"}

\* How far a run has come is how far its task of the drive has.
ChoreFits(w, c) ==
  /\ w.at \in {"off", "hash", "parts", "find", "save"} => c = NoChore
  /\ w.at \in {"save", "poll save"} => w.shared # {}
  /\ w.at = "poll save" => c.what = "save"
  /\ w.at = "share" => c.what # "share" /\ (w.shared = {} => c = NoChore)
  /\ w.at = "poll share" => c.what = "share"
  /\ w.at \in {"password", "ok"} => c = [what |-> "share", state |-> "done"]
  /\ w.at = "error" =>
       \/ w.why \in {"timeout", "lost"} \/ c.state \in {"none", "failed"}
       \/ w.why = "no files" /\ reissues /\ c.what = "save"

\* What a run that has uploaded a file shares is in the folder, under its name;
\* and a file it did not find is there, too.
FileFits(r, w, files) ==
  /\ w.at = "find" => \E i \in DOMAIN files : files[i].by = r
  /\ (w.at \in Shares /\ w.shared = {}) =>
       \/ w.fids \in {{r}, {NoFid}}
       \/ \E i \in DOMAIN files : files[i].by # r /\ files[i].name = w.name
  /\ (w.at = "error" /\ w.why = "not found") =>
       \E i \in DOMAIN files : files[i].by = r /\ (files[i].name # w.name \/ i > PageSize)

\* The parts of the invariant: the folder, the runs, their tasks, and what joins them.
TypeDrive == /\ renames \in BOOLEAN /\ reissues \in BOOLEAN
             /\ folder \in Seq(Files) /\ dirs \in 0..Len(folder)
             /\ worker \in [Runs -> Works \cup {Off}] /\ chore \in [Runs -> Chores]

DriveInv ==
  /\ TypeDrive
  /\ \A r \in Runs : ChoreFits(worker[r], chore[r]) /\ FileFits(r, worker[r], folder)

\* Something has come in, or nothing.
Put(n, f) == SubSeq(folder, 1, n) \o <<f>> \o SubSeq(folder, n + 1, Len(folder))
Grown == folder' = folder \/ \E n \in 0..Len(folder), f \in Files : folder' = Put(n, f)

\* A page has files, and a file perhaps parts.
LEMMA SizesFact == PageSize \in Nat \ {0} /\ MaxParts \in Nat
BY DriveAssumption

\* In a set of numbers there is a least one.
LEMMA LeastExists ==
  ASSUME NEW S \in SUBSET Nat, S # {}
  PROVE  \E i \in S : \A j \in S : i <= j
<1> DEFINE R == OpToRel(<, Nat)
<1>1. IsWellFoundedOn(R, Nat)
  BY NatLessThanWellFounded, Zenon
<1>2. \A x, y \in Nat : x < y => << x, y >> \in R
  BY DEF OpToRel
<1> HIDE DEF R
<1>3. PICK i \in S : \A j \in S : ~(<<j, i>> \in R)
  BY <1>1, WFMin
<1>4. \A j \in S : ~(j < i)
  BY <1>2, <1>3
<1> QED
  BY <1>3, <1>4

\* FirstOf is the first.
LEMMA FirstOfFact ==
  ASSUME NEW S \in SUBSET Nat, S # {}
  PROVE  FirstOf(S) \in S
BY LeastExists DEF FirstOf

\* What is put in comes after the first n, and the others stay or move on by one.
LEMMA PutFact ==
  ASSUME folder \in Seq(Files), NEW n \in 0..Len(folder), NEW f \in Files, folder' = Put(n, f)
  PROVE  /\ folder' \in Seq(Files) /\ Len(folder') = Len(folder) + 1
         /\ n + 1 \in DOMAIN folder' /\ folder'[n + 1] = f
         /\ \A i \in DOMAIN folder : \E j \in DOMAIN folder' : j >= i /\ folder'[j] = folder[i]
<1> DEFINE front == SubSeq(folder, 1, n)
           back  == SubSeq(folder, n + 1, Len(folder))
<1>1. n \in Nat /\ Len(folder) \in Nat /\ n <= Len(folder)
  OBVIOUS
<1>2. front \in Seq(Files) /\ Len(front) = n /\ \A i \in 1..n : front[i] = folder[i]
  BY <1>1
<1>3. /\ back \in Seq(Files) /\ Len(back) = Len(folder) - n
      /\ \A i \in 1..(Len(folder) - n) : back[i] = folder[n + i]
  BY <1>1
<1>4. folder' = front \o <<f>> \o back
  BY DEF Put
<1> HIDE DEF front, back
<1> DEFINE head == front \o <<f>>
<1>5. head \in Seq(Files) /\ Len(head) = n + 1 /\ head[n + 1] = f /\ \A i \in 1..n : head[i] = front[i]
  BY <1>1, <1>2
<1>6. folder' = head \o back
  BY <1>4
<1> HIDE DEF head
<1>7. /\ folder' \in Seq(Files) /\ Len(folder') = Len(folder) + 1
      /\ \A i \in 1..(n + 1) : folder'[i] = head[i]
      /\ \A i \in 1..(Len(folder) - n) : folder'[n + 1 + i] = back[i]
  BY <1>1, <1>3, <1>5, <1>6
<1>8. n + 1 \in DOMAIN folder' /\ folder'[n + 1] = f
  BY <1>1, <1>5, <1>7
<1>9. ASSUME NEW i \in DOMAIN folder
      PROVE  \E j \in DOMAIN folder' : j >= i /\ folder'[j] = folder[i]
  <2>1. i \in 1..Len(folder) /\ i \in Nat
    OBVIOUS
  <2>2. CASE i <= n
    <3>1. i \in 1..n /\ i \in 1..(n + 1) /\ i \in DOMAIN folder'
      BY <1>1, <1>7, <2>1, <2>2
    <3>2. folder'[i] = folder[i] /\ i >= i
      BY <1>2, <1>5, <1>7, <2>1, <3>1
    <3> QED
      BY <3>1, <3>2
  <2>3. CASE i > n
    <3>1. PICK k \in 1..(Len(folder) - n) : k = i - n /\ n + k = i /\ n + 1 + k = i + 1
      BY <1>1, <2>1, <2>3
    <3>2. folder'[n + 1 + k] = back[k] /\ back[k] = folder[n + k]
      BY <1>3, <1>7
    <3>4. folder'[i + 1] = folder[i]
      BY <3>1, <3>2
    <3>3. i + 1 \in DOMAIN folder' /\ i + 1 >= i
      BY <1>1, <1>7, <2>1
    <3> QED
      BY <3>3, <3>4
  <2> QED
    BY <1>1, <2>1, <2>2, <2>3
<1> QED
  BY <1>7, <1>8, <1>9

\* Something that arrives is put in.
LEMMA ArrivesAtFact ==
  ASSUME TypeDrive, NEW n \in 0..Len(folder), NEW name \in Names, NEW by \in Hands,
         ArrivesAt(n, name, by)
  PROVE  Grown /\ Len(folder') = Len(folder) + 1 /\ \E i \in DOMAIN folder' : folder'[i].by = by
<1> DEFINE taken == \E i \in DOMAIN folder : folder[i].name = name
           f     == [name |-> IF taken /\ renames THEN << name, by >> ELSE name, by |-> by]
<1>1. f \in Files /\ f.by = by
  BY DEF Files
<1>2. folder' = Put(n, f)
  BY DEF ArrivesAt, Put
<1> HIDE DEF f
<1>3. n + 1 \in DOMAIN folder' /\ folder'[n + 1] = f /\ Len(folder') = Len(folder) + 1
  BY <1>1, <1>2, PutFact DEF TypeDrive
<1> QED
  BY <1>1, <1>2, <1>3 DEF Grown

\* A file that arrives is in the folder.
LEMMA ArrivesFact ==
  ASSUME TypeDrive, NEW n \in Names, NEW by \in Hands, Arrives(n, by)
  PROVE  Grown /\ UNCHANGED dirs /\ \E i \in DOMAIN folder' : folder'[i].by = by
BY ArrivesAtFact DEF Arrives, TypeDrive

\* What was in the folder is there still, no earlier than before.
LEMMA GrownFact ==
  ASSUME folder \in Seq(Files), Grown
  PROVE  /\ folder' \in Seq(Files) /\ Len(folder') >= Len(folder)
         /\ \A i \in DOMAIN folder : \E j \in DOMAIN folder' : j >= i /\ folder'[j] = folder[i]
<1>1. CASE folder' = folder
  BY <1>1
<1>2. CASE \E n \in 0..Len(folder), f \in Files : folder' = Put(n, f)
  <2>1. PICK n \in 0..Len(folder), f \in Files : folder' = Put(n, f)
    BY <1>2
  <2>2. Len(folder) \in Nat
    OBVIOUS
  <2> QED
    BY <2>1, <2>2, PutFact
<1> QED
  BY <1>1, <1>2 DEF Grown

\* A folder that grows fits what it fitted.
LEMMA FileFitsOn ==
  ASSUME folder \in Seq(Files), Grown, NEW r \in Runs, NEW w, FileFits(r, w, folder)
  PROVE  FileFits(r, w, folder')
<1>1. \A i \in DOMAIN folder : \E j \in DOMAIN folder' : j >= i /\ folder'[j] = folder[i]
  BY GrownFact
<1>2. PageSize \in Nat /\ DOMAIN folder \subseteq Nat /\ DOMAIN folder' \subseteq Nat
  BY GrownFact, DriveAssumption
<1>3. w.at = "find" => \E i \in DOMAIN folder' : folder'[i].by = r
  BY <1>1 DEF FileFits
<1>4. (w.at \in Shares /\ w.shared = {}) =>
        \/ w.fids \in {{r}, {NoFid}}
        \/ \E i \in DOMAIN folder' : folder'[i].by # r /\ folder'[i].name = w.name
  BY <1>1 DEF FileFits
<1>5. ASSUME w.at = "error", w.why = "not found"
      PROVE  \E i \in DOMAIN folder' : folder'[i].by = r /\ (folder'[i].name # w.name \/ i > PageSize)
  <2>1. PICK i \in DOMAIN folder : folder[i].by = r /\ (folder[i].name # w.name \/ i > PageSize)
    BY <1>5 DEF FileFits
  <2>2. PICK j \in DOMAIN folder' : j >= i /\ folder'[j] = folder[i]
    BY <1>1
  <2> QED
    BY <1>2, <2>1, <2>2
<1> QED
  BY <1>3, <1>4, <1>5 DEF FileFits

\* A step of one run keeps the invariant if what the run and its task are then
\* fits; the others only see the folder grow.
LEMMA KeepRun ==
  ASSUME DriveInv, NEW r \in Runs, NEW w \in Works, NEW c \in Chores,
         worker' = [worker EXCEPT ![r] = w], chore' = [chore EXCEPT ![r] = c],
         UNCHANGED <<renames, reissues, dirs>>, Grown,
         ChoreFits(w, c), FileFits(r, w, folder')
  PROVE  DriveInv'
<1>1. /\ TypeDrive'
      /\ worker'[r] = w /\ \A q \in Runs \ {r} : worker'[q] = worker[q]
      /\ chore'[r] = c /\ \A q \in Runs \ {r} : chore'[q] = chore[q]
  <2>1. dirs' \in 0..Len(folder')
    <3>1. dirs' \in Nat /\ dirs' <= Len(folder) /\ Len(folder) \in Nat
      BY DEF DriveInv, TypeDrive
    <3>2. folder' \in Seq(Files) /\ Len(folder') >= Len(folder) /\ Len(folder') \in Nat
      BY GrownFact DEF DriveInv, TypeDrive
    <3> QED
      BY <3>1, <3>2
  <2> QED
    BY <2>1, GrownFact DEF DriveInv, TypeDrive
<1>2. ASSUME NEW q \in Runs
      PROVE  ChoreFits(worker[q], chore[q])' /\ FileFits(q, worker[q], folder)'
  <2>1. CASE q = r
    BY <1>1, <2>1 DEF ChoreFits, FileFits
  <2>2. CASE q # r
    <3>1. ChoreFits(worker[q], chore[q]) /\ FileFits(q, worker[q], folder')
      BY FileFitsOn DEF DriveInv, TypeDrive
    <3> QED
      BY <1>1, <2>2, <3>1 DEF ChoreFits, FileFits
  <2> QED
    BY <2>1, <2>2
<1> QED
  BY <1>1, <1>2 DEF DriveInv

\* A run that has begun, and what it and its task fit.
LEMMA RunFact ==
  ASSUME DriveInv, NEW r \in Runs
  PROVE  /\ worker[r].at # "off" => worker[r] \in Works
         /\ worker[r].at = "off" => worker[r] = Off
         /\ chore[r] \in Chores /\ chore = [chore EXCEPT ![r] = chore[r]]
         /\ ChoreFits(worker[r], chore[r]) /\ FileFits(r, worker[r], folder)
         /\ folder \in Seq(Files) /\ reissues \in BOOLEAN
<1>1. worker[r] \in Works \cup {Off} /\ chore \in [Runs -> Chores]
  BY DEF DriveInv, TypeDrive
<1>2. Off.at = "off" /\ \A w \in Works : w.at # "off"
  BY DEF Works, Off, Steps
<1>3. chore = [chore EXCEPT ![r] = chore[r]] /\ chore[r] \in Chores
  BY <1>1
<1>4. /\ ChoreFits(worker[r], chore[r]) /\ FileFits(r, worker[r], folder)
      /\ folder \in Seq(Files) /\ reissues \in BOOLEAN
  BY DEF DriveInv, TypeDrive
<1> QED
  BY <1>1, <1>2, <1>3, <1>4

\* A run that gives up has its error.
LEMMA GivesUpFact ==
  ASSUME NEW r \in Runs, worker[r] \in Works,
         NEW why \in {"not found", "empty", "no files", "failed", "timeout", "lost", "refused"},
         GivesUp(r, why)
  PROVE  \E w \in Works : /\ worker' = [worker EXCEPT ![r] = w]
                          /\ w.at = "error" /\ w.why = why /\ w.name = worker[r].name
<1> DEFINE w == [worker[r] EXCEPT !.at = "error", !.why = why]
<1>1. w \in Works /\ w.at = "error" /\ w.why = why /\ w.name = worker[r].name
  BY DEF Works, Steps
<1>2. worker' = [worker EXCEPT ![r] = w]
  BY DEF GivesUp
<1> QED
  BY <1>1, <1>2

\* A run that goes on is what it was in its next step.
LEMMA GoOnFact ==
  ASSUME NEW r \in Runs, worker[r] \in Works, NEW step \in Steps, GoOn(r, step)
  PROVE  \E w \in Works : /\ worker' = [worker EXCEPT ![r] = w]
                          /\ w.at = step /\ w.why = worker[r].why /\ w.name = worker[r].name
                          /\ w.fids = worker[r].fids /\ w.shared = worker[r].shared
<1> DEFINE w == [worker[r] EXCEPT !.at = step]
<1>1. /\ w \in Works /\ w.at = step /\ w.why = worker[r].why /\ w.name = worker[r].name
      /\ w.fids = worker[r].fids /\ w.shared = worker[r].shared
  BY DEF Works
<1>2. worker' = [worker EXCEPT ![r] = w]
  BY DEF GoOn
<1> QED
  BY <1>1, <1>2

\* A run begins.
LEMMA FreshFact ==
  ASSUME NEW kind \in Steps
  PROVE  /\ Fresh(kind) \in Works
         /\ Fresh(kind).at = kind
BY DEF Fresh, Works, Names

-----------------------------------------------------------------------------
\* No file is in the folder and no run has begun.
LEMMA DriveInitInv == DriveInit => DriveInv
<1> SUFFICES ASSUME DriveInit PROVE DriveInv
  OBVIOUS
<1>1. TypeDrive
  BY DriveAssumption DEF DriveInit, TypeDrive, Off, Chores
<1>2. ASSUME NEW r \in Runs PROVE ChoreFits(worker[r], chore[r]) /\ FileFits(r, worker[r], folder)
  BY DEF DriveInit, ChoreFits, FileFits, Shares
<1> QED
  BY <1>1, <1>2 DEF DriveInv

\* An upload begins.
LEMMA KeepStartUpload ==
  ASSUME DriveInv, NEW r \in Runs, StartUpload(r)
  PROVE  DriveInv'
<1>1. PICK n \in FileNames, k \in 0..MaxParts :
        worker' = [worker EXCEPT ![r] = [Fresh("hash") EXCEPT !.name = n, !.size = k]]
  BY DEF StartUpload
<1> DEFINE w == [Fresh("hash") EXCEPT !.name = n, !.size = k]
<1>2. w \in Works /\ w.at = "hash"
  <2>1. Fresh("hash") \in Works /\ Fresh("hash").at = "hash"
    BY FreshFact DEF Steps
  <2>2. k \in Nat
    BY SizesFact
  <2>3. n \in Names
    BY DEF Names
  <2> QED
    BY <2>1, <2>2, <2>3 DEF Works
<1>3. worker' = [worker EXCEPT ![r] = w]
  BY <1>1
<1> HIDE DEF w
<1>4. ChoreFits(w, chore[r]) /\ FileFits(r, w, folder')
  BY <1>2, RunFact DEF ChoreFits, FileFits, StartUpload, At, Shares
<1> QED
  BY <1>2, <1>3, <1>4, RunFact, KeepRun DEF StartUpload, Grown

\* The drive has the contents: the file comes in.
LEMMA KeepInstantHit ==
  ASSUME DriveInv, NEW r \in Runs, InstantHit(r)
  PROVE  DriveInv'
<1>0. PICK fid \in {r, NoFid} : worker' = [worker EXCEPT ![r].at = "share", ![r].fids = {fid}]
  BY DEF InstantHit
<1> DEFINE w == [worker[r] EXCEPT !.at = "share", !.fids = {fid}]
<1>1. worker[r] \in Works /\ worker[r].at = "hash"
  BY RunFact DEF InstantHit, At
<1>2. w \in Works /\ w.at = "share" /\ w.fids \in {{r}, {NoFid}}
  BY <1>0, <1>1 DEF Works, Steps, Fids, Hands
<1>3. worker' = [worker EXCEPT ![r] = w]
  BY <1>0
<1> HIDE DEF w
<1>4. Grown /\ UNCHANGED dirs
  <2>1. worker[r].name \in Names /\ r \in Hands
    BY <1>1 DEF Works, Hands
  <2> QED
    BY <2>1, ArrivesFact DEF InstantHit, DriveInv
<1>5. ChoreFits(w, chore[r])
  <2>1. chore[r] = NoChore
    BY <1>1, RunFact DEF ChoreFits
  <2> QED
    BY <1>2, <2>1 DEF ChoreFits, NoChore
<1>6. FileFits(r, w, folder')
  BY <1>2 DEF FileFits
<1> QED
  BY <1>2, <1>3, <1>4, <1>5, <1>6, RunFact, KeepRun DEF InstantHit

\* A step that only moves the run on.
LEMMA KeepGoOn ==
  ASSUME DriveInv, NEW r \in Runs, worker[r] \in Works, NEW step \in Steps, GoOn(r, step),
         UNCHANGED <<renames, reissues, folder, dirs, chore>>,
         \A w \in Works : (w.at = step /\ w.shared = worker[r].shared) => ChoreFits(w, chore[r]),
         \A w \in Works :
           (w.at = step /\ w.fids = worker[r].fids /\ w.shared = worker[r].shared
              /\ w.name = worker[r].name) => FileFits(r, w, folder)
  PROVE  DriveInv'
<1>1. PICK w \in Works : /\ worker' = [worker EXCEPT ![r] = w]
                         /\ w.at = step /\ w.why = worker[r].why /\ w.name = worker[r].name
                         /\ w.fids = worker[r].fids /\ w.shared = worker[r].shared
  BY GoOnFact
<1>2. ChoreFits(w, chore[r]) /\ FileFits(r, w, folder')
  BY <1>1
<1> QED
  BY <1>1, <1>2, RunFact, KeepRun DEF Grown

\* A run that gives up where its task allows it.
LEMMA KeepGivesUp ==
  ASSUME DriveInv, NEW r \in Runs, worker[r] \in Works,
         NEW why \in {"not found", "empty", "no files", "failed", "timeout", "lost", "refused"},
         GivesUp(r, why), UNCHANGED <<renames, reissues, folder, dirs, chore>>,
         \/ why \in {"timeout", "lost"} \/ chore[r].state \in {"none", "failed"}
         \/ why = "no files" /\ reissues /\ chore[r].what = "save",
         why = "not found" =>
           \E i \in DOMAIN folder :
             folder[i].by = r /\ (folder[i].name # worker[r].name \/ i > PageSize)
  PROVE  DriveInv'
<1>1. PICK w \in Works : /\ worker' = [worker EXCEPT ![r] = w]
                         /\ w.at = "error" /\ w.why = why /\ w.name = worker[r].name
  BY GivesUpFact
<1>2. ChoreFits(w, chore[r]) /\ FileFits(r, w, folder')
  BY <1>1 DEF ChoreFits, FileFits, Shares
<1> QED
  BY <1>1, <1>2, RunFact, KeepRun DEF Grown

\* The drive has not got them.
LEMMA KeepInstantMiss ==
  ASSUME DriveInv, NEW r \in Runs, InstantMiss(r)
  PROVE  DriveInv'
<1>1. worker[r] \in Works /\ worker[r].at = "hash" /\ "parts" \in Steps
  BY RunFact DEF InstantMiss, At, Steps
<1>2. chore[r] = NoChore
  BY <1>1, RunFact DEF ChoreFits
<1>3. \A w : w.at = "parts" => ChoreFits(w, chore[r]) /\ FileFits(r, w, folder)
  BY <1>2 DEF ChoreFits, FileFits, Shares
<1> QED
  BY <1>1, <1>3, KeepGoOn DEF InstantMiss

\* A part is uploaded.
LEMMA KeepUploadPart ==
  ASSUME DriveInv, NEW r \in Runs, UploadPart(r)
  PROVE  DriveInv'
<1> DEFINE w == [worker[r] EXCEPT !.parts = @ + 1]
<1>1. worker[r] \in Works /\ worker[r].at = "parts"
  BY RunFact DEF UploadPart, At
<1>2. w \in Works /\ w.at = "parts"
  <2>1. worker[r].parts \in Nat
    BY <1>1 DEF Works
  <2>2. worker[r].parts + 1 \in Nat
    BY <2>1
  <2> QED
    BY <1>1, <2>2 DEF Works
<1>3. worker' = [worker EXCEPT ![r] = w]
  BY DEF UploadPart
<1> HIDE DEF w
<1>4. chore[r] = NoChore
  BY <1>1, RunFact DEF ChoreFits
<1>5. ChoreFits(w, chore[r]) /\ FileFits(r, w, folder')
  BY <1>2, <1>4 DEF ChoreFits, FileFits, Shares
<1> QED
  BY <1>2, <1>3, <1>5, RunFact, KeepRun DEF UploadPart, Grown

\* The parts are put together: the file comes in.
LEMMA KeepFinishUpload ==
  ASSUME DriveInv, NEW r \in Runs, FinishUpload(r)
  PROVE  DriveInv'
<1>1. worker[r] \in Works /\ worker[r].at = "parts" /\ worker[r].name \in Names /\ r \in Hands
  BY RunFact DEF FinishUpload, At, Works, Hands
<1>2. PICK w \in Works : worker' = [worker EXCEPT ![r] = w] /\ w.at = "find"
  <2>1. "find" \in Steps /\ GoOn(r, "find")
    BY DEF FinishUpload, Steps
  <2> QED
    BY <1>1, <2>1, GoOnFact
<1>3. Grown /\ UNCHANGED dirs /\ \E i \in DOMAIN folder' : folder'[i].by = r
  BY <1>1, ArrivesFact DEF FinishUpload, DriveInv
<1>4. chore[r] = NoChore
  BY <1>1, RunFact DEF ChoreFits
<1>5. ChoreFits(w, chore[r]) /\ FileFits(r, w, folder')
  BY <1>2, <1>3, <1>4 DEF ChoreFits, FileFits, Shares
<1> QED
  BY <1>2, <1>3, <1>5, RunFact, KeepRun DEF FinishUpload

\* The file is looked for: what is found under its name is shared.
LEMMA KeepFindFid ==
  ASSUME DriveInv, NEW r \in Runs, FindFid(r)
  PROVE  DriveInv'
<1> DEFINE hits == {i \in DOMAIN folder : i <= PageSize /\ folder[i].name = worker[r].name}
           found == folder[FirstOf(hits)].by
           w == [worker[r] EXCEPT !.at = "share", !.fids = {found}]
<1>1. /\ worker[r] \in Works /\ worker[r].at = "find" /\ folder \in Seq(Files)
      /\ hits \in SUBSET Nat /\ PageSize \in Nat
  <2>1. worker[r] \in Works /\ worker[r].at = "find" /\ folder \in Seq(Files)
    BY RunFact DEF FindFid, At
  <2>2. hits \in SUBSET Nat
    BY <2>1
  <2> QED
    BY <2>1, <2>2, SizesFact
<1>2. chore[r] = NoChore /\ \E i \in DOMAIN folder : folder[i].by = r
  BY <1>1, RunFact DEF ChoreFits, FileFits
<1>3. CASE hits = {}
  <2>1. PICK i \in DOMAIN folder : folder[i].by = r
    BY <1>2
  <2>2. i \notin hits /\ i \in Nat
    BY <1>1, <1>3
  <2>3. folder[i].name # worker[r].name \/ i > PageSize
    BY <1>1, <2>2
  <2>4. GivesUp(r, "not found")
    BY <1>3 DEF FindFid
  <2>5. chore[r].state = "none"
    BY <1>2 DEF NoChore
  <2> QED
    BY <1>1, <2>1, <2>3, <2>4, <2>5, KeepGivesUp DEF FindFid
<1>4. CASE hits # {}
  <2>1. FirstOf(hits) \in hits
    BY <1>1, <1>4, FirstOfFact
  <2>2. PICK i \in DOMAIN folder : found = folder[i].by /\ folder[i].name = worker[r].name
    BY <2>1
  <2>3. found \in Hands
    <3>1. folder[i] \in Files
      BY <1>1, <2>2
    <3> QED
      BY <2>2, <3>1 DEF Files
  <2>4. worker' = [worker EXCEPT ![r] = w]
    BY <1>4 DEF FindFid
  <2> HIDE DEF found, hits
  <2>5. w \in Works /\ w.at = "share" /\ w.fids = {found} /\ w.name = worker[r].name
    BY <1>1, <2>3 DEF Works, Steps, Fids
  <2> HIDE DEF w
  <2>6. ChoreFits(w, chore[r])
    BY <1>2, <2>5 DEF ChoreFits, NoChore
  <2>7. FileFits(r, w, folder')
    BY <2>2, <2>5 DEF FileFits, FindFid
  <2> QED
    BY <2>4, <2>5, <2>6, <2>7, RunFact, KeepRun DEF FindFid, Grown
<1> QED
  BY <1>3, <1>4

\* A share is read: it is empty, or its files are to be saved.
LEMMA KeepReadShare ==
  ASSUME DriveInv, NEW r \in Runs, ReadShare(r)
  PROVE  DriveInv'
<1>1. PICK n \in ShareSizes :
        worker' = [worker EXCEPT ![r] =
          [Fresh(IF n = 0 THEN "error" ELSE "save") EXCEPT
             !.size = n, !.shared = {<<r, i>> : i \in 1..(IF n < PageSize THEN n ELSE PageSize)},
             !.why = IF n = 0 THEN "empty" ELSE ""]]
  BY DEF ReadShare
<1> DEFINE step == IF n = 0 THEN "error" ELSE "save"
           files == {<<r, i>> : i \in 1..(IF n < PageSize THEN n ELSE PageSize)}
           w == [Fresh(step) EXCEPT !.size = n, !.shared = files, !.why = IF n = 0 THEN "empty" ELSE ""]
<1>2. n \in Nat /\ PageSize \in Nat \ {0}
  BY DriveAssumption
<1>3. files \in SUBSET (Runs \X Nat) /\ (n # 0 => <<r, 1>> \in files)
  BY <1>2
<1>4. step \in Steps
  BY DEF Steps
<1> HIDE DEF files
<1>5. /\ w \in Works /\ w.at = step /\ w.shared = files
      /\ n = 0 => w.why = "empty"
  <2>1. Fresh(step) \in Works /\ Fresh(step).at = step
    BY <1>4, FreshFact
  <2> QED
    BY <1>2, <1>3, <2>1 DEF Works
<1>6. worker' = [worker EXCEPT ![r] = w]
  BY <1>1 DEF files
<1> HIDE DEF w
<1>7. chore[r] = NoChore
  BY RunFact DEF ChoreFits, ReadShare, At
<1>8. ChoreFits(w, chore[r])
  BY <1>3, <1>5, <1>7 DEF ChoreFits, NoChore
<1>9. FileFits(r, w, folder')
  BY <1>5 DEF FileFits, Shares
<1> QED
  BY <1>5, <1>6, <1>8, <1>9, RunFact, KeepRun DEF ReadShare, Grown

\* The drive is asked for a task.
LEMMA KeepAskChore ==
  ASSUME DriveInv, NEW r \in Runs, NEW from, NEW what \in {"save", "share"}, NEW to \in Steps,
         AskChore(r, from, what, to), from # "off",
         \A w \in Works : (w.at = to /\ w.shared = worker[r].shared) =>
           ChoreFits(w, [what |-> what, state |-> "open"]),
         \A w \in Works :
           (w.at = to /\ w.fids = worker[r].fids /\ w.shared = worker[r].shared
              /\ w.name = worker[r].name) => FileFits(r, w, folder)
  PROVE  DriveInv'
<1> DEFINE w == [worker[r] EXCEPT !.at = to, !.polls = 0]
           c == [what |-> what, state |-> "open"]
<1>1. worker[r] \in Works
  BY RunFact DEF AskChore, At
<1>2. /\ w \in Works /\ w.at = to /\ w.fids = worker[r].fids /\ w.shared = worker[r].shared
      /\ w.name = worker[r].name
  BY <1>1 DEF Works
<1>3. c \in Chores
  BY DEF Chores
<1>4. worker' = [worker EXCEPT ![r] = w] /\ chore' = [chore EXCEPT ![r] = c]
  BY DEF AskChore
<1>5. ChoreFits(w, c) /\ FileFits(r, w, folder')
  BY <1>2 DEF AskChore
<1> HIDE DEF w, c
<1> QED
  BY <1>2, <1>3, <1>4, <1>5, KeepRun DEF AskChore, Grown

\* The files of a share are to be saved.
LEMMA KeepSaveShare ==
  ASSUME DriveInv, NEW r \in Runs, SaveShare(r)
  PROVE  DriveInv'
<1>1. worker[r].at = "save" /\ worker[r].shared # {}
  BY RunFact DEF SaveShare, AskChore, At, ChoreFits
<1>2. \A w : (w.at = "poll save" /\ w.shared = worker[r].shared) =>
         ChoreFits(w, [what |-> "save", state |-> "open"]) /\ FileFits(r, w, folder)
  BY <1>1 DEF ChoreFits, FileFits, Shares
<1>3. "poll save" \in Steps
  BY DEF Steps
<1> QED
  BY <1>2, <1>3, KeepAskChore DEF SaveShare

\* A share is to be made by a task.
LEMMA KeepShareLater ==
  ASSUME DriveInv, NEW r \in Runs, ShareLater(r)
  PROVE  DriveInv'
<1>1. worker[r].at = "share"
  BY DEF ShareLater, AskChore, At
<1>2. \A w : w.at = "poll share" => ChoreFits(w, [what |-> "share", state |-> "open"])
  BY DEF ChoreFits
<1>3. ASSUME NEW w, w.at = "poll share", w.fids = worker[r].fids, w.shared = worker[r].shared,
              w.name = worker[r].name
      PROVE  FileFits(r, w, folder)
  <2>1. FileFits(r, worker[r], folder)
    BY RunFact
  <2> QED
    BY <1>1, <1>3, <2>1 DEF FileFits, Shares
<1>4. "poll share" \in Steps
  BY DEF Steps
<1> QED
  BY <1>2, <1>3, <1>4, KeepAskChore DEF ShareLater

\* The drive comes to the end of a task: only a run that polls, or one that gave
\* up on it, has an open one.
LEMMA KeepChoreEnds ==
  ASSUME DriveInv, NEW r \in Runs, ChoreEnds(r)
  PROVE  DriveInv'
<1>1. PICK s \in {"done", "failed"} : chore' = [chore EXCEPT ![r].state = s]
  BY DEF ChoreEnds
<1> DEFINE c == [chore[r] EXCEPT !.state = s]
<1>2. chore[r] \in [what : {"save", "share"}, state : {"open", "done", "failed"}] /\ chore[r].state = "open"
  BY RunFact DEF ChoreEnds, Chores, NoChore
<1>3. c \in Chores /\ c.what = chore[r].what
  BY <1>2 DEF Chores
<1>4. chore' = [chore EXCEPT ![r] = c]
  BY <1>1
<1> HIDE DEF c
<1>5. ChoreFits(worker[r], chore[r]) /\ chore[r] # NoChore
  BY <1>2, RunFact DEF NoChore
<1>6. worker[r] \in Works /\ worker' = [worker EXCEPT ![r] = worker[r]]
  <2>1. worker[r] \in Works
    BY <1>5, RunFact DEF ChoreFits
  <2> QED
    BY <2>1 DEF ChoreEnds, DriveInv, TypeDrive
<1>7. ChoreFits(worker[r], c)
  <2>1. chore[r] # [what |-> "share", state |-> "done"]
    BY <1>2
  <2> QED
    BY <1>2, <1>3, <1>5, <2>1 DEF ChoreFits
<1>8. FileFits(r, worker[r], folder')
  BY RunFact DEF ChoreEnds
<1> QED
  BY <1>3, <1>4, <1>6, <1>7, <1>8, KeepRun DEF ChoreEnds, Grown

\* A poll of a task that is not done.
LEMMA KeepStillOpen ==
  ASSUME DriveInv, NEW r \in Runs, worker[r] \in Works, StillOpen(r, "timeout"),
         UNCHANGED <<renames, reissues, folder, dirs, chore>>
  PROVE  DriveInv'
<1> DEFINE w == [worker[r] EXCEPT !.polls = @ + 1]
<1>1. CASE GivesUp(r, "timeout")
  BY <1>1, KeepGivesUp
<1>2. CASE worker' = [worker EXCEPT ![r].polls = @ + 1]
  <2>1. worker[r].polls \in Nat
    BY DEF Works
  <2>2. worker[r].polls + 1 \in Nat
    BY <2>1
  <2>3. /\ w \in Works /\ w.at = worker[r].at /\ w.why = worker[r].why /\ w.name = worker[r].name
        /\ w.fids = worker[r].fids /\ w.shared = worker[r].shared
    BY <2>2 DEF Works
  <2>4. worker' = [worker EXCEPT ![r] = w]
    BY <1>2
  <2> HIDE DEF w
  <2>5. ChoreFits(w, chore[r])
    BY <2>3, RunFact DEF ChoreFits
  <2>6. FileFits(r, w, folder')
    <3>1. FileFits(r, worker[r], folder)
      BY RunFact
    <3> QED
      BY <2>3, <3>1 DEF FileFits
  <2> QED
    BY <2>3, <2>4, <2>5, <2>6, RunFact, KeepRun DEF Grown
<1> QED
  BY <1>1, <1>2 DEF StillOpen

\* A run that polls has a task that is open or at its end.
LEMMA PollFact ==
  ASSUME DriveInv, NEW r \in Runs, worker[r].at \in {"poll save", "poll share"}
  PROVE  /\ worker[r] \in Works
         /\ chore[r] \in [what : {"save", "share"}, state : {"open", "done", "failed"}]
         /\ chore[r].what = "save" <=> worker[r].at = "poll save"
<1>1. worker[r] \in Works /\ chore[r] \in Chores
  BY RunFact
<1>2. /\ worker[r].at = "poll save" => chore[r].what = "save"
      /\ worker[r].at = "poll share" => chore[r].what = "share"
  BY RunFact DEF ChoreFits
<1>3. chore[r] # NoChore
  <2>1. NoChore.what \notin {"save", "share"}
    BY DEF NoChore
  <2> QED
    BY <1>2, <2>1
<1>4. chore[r] \in [what : {"save", "share"}, state : {"open", "done", "failed"}]
  BY <1>1, <1>3 DEF Chores
<1> QED
  BY <1>1, <1>2, <1>4

\* The files are saved: those whose ids are known are shared.
LEMMA KeepPollSave ==
  ASSUME DriveInv, NEW r \in Runs, PollSave(r)
  PROVE  DriveInv'
<1> DEFINE saved == IF reissues THEN {} ELSE worker[r].shared
           w == [worker[r] EXCEPT !.at = "share", !.fids = saved]
<1>1. worker[r].at = "poll save"
  BY DEF PollSave, At
<1>2. /\ worker[r] \in Works /\ chore[r].what = "save"
      /\ chore[r] \in [what : {"save", "share"}, state : {"open", "done", "failed"}]
  BY <1>1, PollFact
<1>3. chore[r].state \in {"open", "done", "failed"}
  BY <1>2
<1>4. worker[r].shared # {} /\ worker[r].shared \in SUBSET (Runs \X Nat)
  BY <1>1, <1>2, RunFact DEF ChoreFits, Works
<1>5. CASE chore[r].state = "open"
  BY <1>2, <1>5, KeepStillOpen DEF PollSave
<1>6. CASE chore[r].state = "failed"
  <2>1. GivesUp(r, "failed")
    BY <1>6 DEF PollSave
  <2> QED
    BY <1>2, <1>6, <2>1, KeepGivesUp DEF PollSave
<1>7. CASE chore[r].state = "done" /\ saved = {}
  <2>1. GivesUp(r, "no files") /\ reissues
    BY <1>4, <1>7 DEF PollSave
  <2> QED
    BY <1>2, <1>7, <2>1, KeepGivesUp DEF PollSave
<1>8. CASE chore[r].state = "done" /\ saved # {}
  <2>1. worker' = [worker EXCEPT ![r] = w]
    BY <1>8 DEF PollSave
  <2>2. saved \in SUBSET Fids
    BY <1>4 DEF Fids
  <2> HIDE DEF saved
  <2>3. w \in Works /\ w.at = "share" /\ w.shared # {}
    BY <1>2, <1>4, <2>2 DEF Works, Steps
  <2> HIDE DEF w
  <2>4. ChoreFits(w, chore[r]) /\ FileFits(r, w, folder')
    BY <1>2, <2>3 DEF ChoreFits, FileFits
  <2> QED
    BY <2>1, <2>3, <2>4, RunFact, KeepRun DEF PollSave, Grown
<1> QED
  BY <1>3, <1>5, <1>6, <1>7, <1>8

\* The share is made by the task.
LEMMA KeepPollShare ==
  ASSUME DriveInv, NEW r \in Runs, PollShare(r)
  PROVE  DriveInv'
<1>1. worker[r].at = "poll share"
  BY DEF PollShare, At
<1>2. /\ worker[r] \in Works /\ chore[r].what # "save"
      /\ chore[r] \in [what : {"save", "share"}, state : {"open", "done", "failed"}]
  BY <1>1, PollFact
<1>3. chore[r].state \in {"open", "done", "failed"}
  BY <1>2
<1>4. CASE chore[r].state = "open"
  BY <1>2, <1>4, KeepStillOpen DEF PollShare
<1>5. CASE chore[r].state = "failed"
  <2>1. GivesUp(r, "failed")
    BY <1>5 DEF PollShare
  <2> QED
    BY <1>2, <1>5, <2>1, KeepGivesUp DEF PollShare
<1>6. CASE chore[r].state = "done"
  <2>1. GoOn(r, "password") /\ "password" \in Steps
    BY <1>6 DEF PollShare, Steps
  <2>2. chore[r] = [what |-> "share", state |-> "done"]
    BY <1>2, <1>6
  <2>3. \A v : v.at = "password" => ChoreFits(v, chore[r])
    BY <2>2 DEF ChoreFits
  <2>4. ASSUME NEW v, v.at = "password", v.fids = worker[r].fids, v.shared = worker[r].shared,
               v.name = worker[r].name
        PROVE  FileFits(r, v, folder)
    <3>1. FileFits(r, worker[r], folder)
      BY RunFact
    <3> QED
      BY <1>1, <2>4, <3>1 DEF FileFits, Shares
  <2> QED
    BY <1>2, <2>1, <2>3, <2>4, KeepGoOn DEF PollShare
<1> QED
  BY <1>3, <1>4, <1>5, <1>6

\* A share is made at once.
LEMMA KeepShareAtOnce ==
  ASSUME DriveInv, NEW r \in Runs, ShareAtOnce(r)
  PROVE  DriveInv'
<1> DEFINE c == [what |-> "share", state |-> "done"]
<1>1. worker[r].at = "share" /\ worker[r] \in Works
  BY RunFact DEF ShareAtOnce, At
<1>2. PICK w \in Works : /\ worker' = [worker EXCEPT ![r] = w]
                         /\ w.at = "password" /\ w.name = worker[r].name
                         /\ w.fids = worker[r].fids /\ w.shared = worker[r].shared
  <2>1. GoOn(r, "password") /\ "password" \in Steps
    BY DEF ShareAtOnce, Steps
  <2> QED
    BY <1>1, <2>1, GoOnFact
<1>3. c \in Chores /\ ChoreFits(w, c)
  BY <1>2 DEF Chores, ChoreFits
<1>4. FileFits(r, w, folder')
  <2>1. FileFits(r, worker[r], folder)
    BY RunFact
  <2> QED
    BY <1>1, <1>2, <2>1 DEF FileFits, Shares, ShareAtOnce
<1> QED
  BY <1>2, <1>3, <1>4, KeepRun DEF ShareAtOnce, Grown

\* The drive refuses to share what has no id: it never had a task for the run.
LEMMA KeepShareRefused ==
  ASSUME DriveInv, NEW r \in Runs, ShareRefused(r)
  PROVE  DriveInv'
<1>1. worker[r].at = "share" /\ worker[r].shared = {} /\ worker[r] \in Works
  BY RunFact DEF ShareRefused, At
<1>2. chore[r] = NoChore
  BY <1>1, RunFact DEF ChoreFits
<1>3. chore[r].state = "none"
  BY <1>2 DEF NoChore
<1> QED
  BY <1>1, <1>3, KeepGivesUp DEF ShareRefused

\* The address and the code are read.
LEMMA KeepSharePassword ==
  ASSUME DriveInv, NEW r \in Runs, SharePassword(r)
  PROVE  DriveInv'
<1>1. worker[r].at = "password" /\ worker[r] \in Works /\ GoOn(r, "ok") /\ "ok" \in Steps
  BY RunFact DEF SharePassword, At, Steps
<1>2. chore[r] = [what |-> "share", state |-> "done"] /\ FileFits(r, worker[r], folder)
  BY <1>1, RunFact DEF ChoreFits
<1>3. \A v : v.at = "ok" => ChoreFits(v, chore[r])
  BY <1>2 DEF ChoreFits
<1>4. ASSUME NEW v, v.at = "ok", v.fids = worker[r].fids, v.shared = worker[r].shared,
             v.name = worker[r].name
      PROVE  FileFits(r, v, folder)
  BY <1>1, <1>2, <1>4 DEF FileFits, Shares
<1> QED
  BY <1>1, <1>3, <1>4, KeepGoOn DEF SharePassword

\* A request fails, and the drive has done it or not.
LEMMA KeepRequestLost ==
  ASSUME DriveInv, NEW r \in Runs, RequestLost(r)
  PROVE  DriveInv'
<1>1. worker[r] \in Works /\ worker[r].name \in Names /\ r \in Hands
  BY RunFact DEF RequestLost, Works, Hands
<1>2. PICK w \in Works : worker' = [worker EXCEPT ![r] = w] /\ w.at = "error" /\ w.why = "lost"
  BY <1>1, GivesUpFact DEF RequestLost
<1>3. \A c : ChoreFits(w, c)
  BY <1>2 DEF ChoreFits
<1>4. FileFits(r, w, folder')
  BY <1>2 DEF FileFits, Shares
<1>5. CASE UNCHANGED <<folder, dirs, chore>>
  BY <1>2, <1>3, <1>4, <1>5, RunFact, KeepRun DEF RequestLost, Grown
<1>6. CASE Arrives(worker[r].name, r) /\ UNCHANGED chore
  <2>1. Grown /\ UNCHANGED dirs
    BY <1>1, <1>6, ArrivesFact DEF DriveInv
  <2> QED
    BY <1>2, <1>3, <1>4, <1>6, <2>1, RunFact, KeepRun DEF RequestLost
<1>7. CASE /\ worker[r].at \in {"save", "share"}
           /\ chore' = [chore EXCEPT ![r] = [what |-> worker[r].at, state |-> "open"]]
           /\ UNCHANGED <<folder, dirs>>
  <2>1. [what |-> worker[r].at, state |-> "open"] \in Chores
    BY <1>7 DEF Chores
  <2> QED
    BY <1>2, <1>3, <1>4, <1>7, <2>1, KeepRun DEF RequestLost, Grown
<1> QED
  BY <1>5, <1>6, <1>7 DEF RequestLost

\* Somebody else's file comes in.
LEMMA KeepSomeoneUploads ==
  ASSUME DriveInv, SomeoneUploads
  PROVE  DriveInv'
<1>1. PICK n \in FileNames : Arrives(n, "other") \/ (ArrivesAt(0, n, "other") /\ dirs' = dirs + 1)
  BY DEF SomeoneUploads
<1>2. TypeDrive /\ n \in Names /\ "other" \in Hands /\ Len(folder) \in Nat /\ dirs \in 0..Len(folder)
  <2>1. folder \in Seq(Files) /\ dirs \in 0..Len(folder) /\ TypeDrive
    BY DEF DriveInv, TypeDrive
  <2>2. Len(folder) \in Nat
    BY <2>1
  <2> QED
    BY <2>1, <2>2 DEF Names, Hands
<1>3. Grown /\ TypeDrive'
  <2>1. Grown /\ dirs' \in 0..Len(folder')
    <3>1. CASE Arrives(n, "other")
      BY <1>2, <3>1, ArrivesAtFact DEF Arrives
    <3>2. CASE ArrivesAt(0, n, "other") /\ dirs' = dirs + 1
      <4>1. 0 \in 0..Len(folder)
        BY <1>2
      <4>2. Grown /\ Len(folder') = Len(folder) + 1
        BY <1>2, <3>2, <4>1, ArrivesAtFact
      <4> QED
        BY <1>2, <3>2, <4>2
    <3> QED
      BY <1>1, <3>1, <3>2
  <2> QED
    BY <2>1, GrownFact DEF DriveInv, TypeDrive, SomeoneUploads
<1>4. ASSUME NEW r \in Runs
      PROVE  ChoreFits(worker[r], chore[r])' /\ FileFits(r, worker[r], folder)'
  <2>1. ChoreFits(worker[r], chore[r]) /\ FileFits(r, worker[r], folder')
    BY <1>3, FileFitsOn DEF DriveInv, TypeDrive
  <2> QED
    BY <2>1 DEF SomeoneUploads, ChoreFits, FileFits
<1> QED
  BY <1>3, <1>4 DEF DriveInv

-----------------------------------------------------------------------------
\* Every step keeps the invariant.
LEMMA DriveStep == DriveInv /\ [DriveNext]_driveVars => DriveInv'
<1> SUFFICES ASSUME DriveInv, [DriveNext]_driveVars PROVE DriveInv'
  OBVIOUS
<1>1. CASE UNCHANGED driveVars
  BY <1>1 DEF driveVars, DriveInv, TypeDrive, ChoreFits, FileFits
<1>2. CASE DriveNext
  BY <1>2, KeepSomeoneUploads, KeepStartUpload, KeepInstantHit, KeepInstantMiss, KeepUploadPart,
     KeepFinishUpload, KeepFindFid, KeepReadShare, KeepSaveShare, KeepChoreEnds, KeepPollSave,
     KeepShareAtOnce, KeepShareLater, KeepPollShare, KeepShareRefused, KeepSharePassword, KeepRequestLost
     DEF DriveNext
<1> QED
  BY <1>1, <1>2

\* The inductive invariant holds in every state.
THEOREM DriveInvariance == DriveSpec => []DriveInv
BY DriveInitInv, DriveStep, PTL DEF DriveSpec

\* A run shares the file it uploaded unless another has its name or the drive
\* told it no id, and what the drive did for a run that failed is known to be
\* lost (upload_file, find_fid_by_name, transfer_share, poll_task and
\* poll_share_task, quark.rs).
THEOREM DriveHolds == DriveSpec => []DriveAccounted
<1>1. DriveInv => UploadsAccounted
  <2> SUFFICES ASSUME DriveInv, NEW r \in Runs
               PROVE  /\ (worker[r].at \in Shares /\ worker[r].shared = {})
                          => worker[r].fids \in {{r}, {NoFid}} \/ OthersNamed(r) # {}
                      /\ (worker[r].at = "error" /\ worker[r].why = "not found") =>
                           \E i \in Uploaded(r) : folder[i].name # worker[r].name \/ i > PageSize
    BY DEF UploadsAccounted, Shares
  <2>1. FileFits(r, worker[r], folder)
    BY RunFact
  <2> QED
    BY <2>1 DEF FileFits, OthersNamed, Uploaded
<1>2. DriveInv => ChoresAccounted
  <2> SUFFICES ASSUME DriveInv, NEW r \in Runs
               PROVE  /\ (worker[r].at = "error" /\ chore[r].state = "done") =>
                           \/ worker[r].why \in {"timeout", "lost"}
                           \/ worker[r].why = "no files" /\ reissues /\ chore[r].what = "save"
                      /\ worker[r].at = "ok" => chore[r] = [what |-> "share", state |-> "done"]
    BY DEF ChoresAccounted
  <2>1. ChoreFits(worker[r], chore[r])
    BY RunFact
  <2> QED
    BY <2>1 DEF ChoreFits
<1> QED
  BY <1>1, <1>2, DriveInvariance, PTL DEF DriveAccounted

=============================================================================
