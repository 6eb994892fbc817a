------------------------------- MODULE PanDrive -------------------------------
(***************************************************************************)
(* The protocol with the cloud drive (services/pan/quark.rs): a share is   *)
(* saved by a task of the drive that is polled, a file is uploaded in      *)
(* parts and then looked for by its name, and what came in is shared, by   *)
(* another task.  PanTransfer has the runs that do this, and takes each of *)
(* the three as one step that may fail.                                    *)
(*                                                                         *)
(* The drive is not ours: it works on its tasks in its own time, other     *)
(* people put files and directories into the folder, and any answer may be *)
(* lost.  The listing has the directories first and then the files, each   *)
(* with the newest first (_sort); that a file is touched later, which puts *)
(* it in front again, is left out.                                         *)
(***************************************************************************)
EXTENDS Naturals, Sequences, FiniteSets

CONSTANTS
  Runs,           \* runs of transfer tasks
  FileNames,
  Renames,        \* does the drive rename a file whose name is taken?
  Reissues,       \* do saved files get ids of their own?
  ShareSizes,     \* numbers of files in a share
  PageSize,       \* files of one page: 50 of a share, 100 of a folder
  MaxParts,       \* parts of a file
  MaxPolls,       \* polls of a task: 30
  MaxOthers,      \* bound: files and directories other people put into the folder
  MaxLost         \* bound: requests that fail

ASSUME DriveAssumption ==
  /\ Renames \subseteq BOOLEAN /\ Reissues \subseteq BOOLEAN /\ ShareSizes \subseteq Nat
  /\ {PageSize, MaxParts, MaxPolls} \subseteq Nat \ {0} /\ {MaxOthers, MaxLost} \subseteq Nat

VARIABLES
  renames, reissues,  \* what the drive does
  folder,     \* the listing of the target folder
  dirs,       \* how many of it are directories: they come first
  worker,     \* the runs
  chore,      \* the drive's task for each run
  others, lostAnswers

driveVars == <<renames, reissues, folder, dirs, worker, chore, others, lostAnswers>>

NoChore == [what |-> "none", state |-> "none"]

NoFid == "none"   \* the empty fid

DriveInit ==
  /\ renames \in Renames /\ reissues \in Reissues
  /\ folder = <<>> /\ dirs = 0
  /\ worker = [r \in Runs |-> [at |-> "off"]]
  /\ chore = [r \in Runs |-> NoChore]
  /\ others = 0 /\ lostAnswers = 0

At(r, step) == worker[r].at = step
GoOn(r, step) == worker' = [worker EXCEPT ![r].at = step]

\* The call returns an error.
GivesUp(r, why) == worker' = [worker EXCEPT ![r] = [@ EXCEPT !.at = "error", !.why = why]]

Fresh(kind) == [at |-> kind, why |-> "", name |-> "", size |-> 0, parts |-> 0, polls |-> 0,
                fids |-> {}, shared |-> {}]

\* Something arrives, as the entry after the first n; the drive may give it
\* another name.
ArrivesAt(n, name, by) ==
  LET taken == \E i \in DOMAIN folder : folder[i].name = name
      entry == [name |-> IF taken /\ renames THEN <<name, by>> ELSE name, by |-> by]
  IN folder' = SubSeq(folder, 1, n) \o <<entry>> \o SubSeq(folder, n + 1, Len(folder))

\* A file comes first of the files.
Arrives(name, by) == ArrivesAt(dirs, name, by) /\ UNCHANGED dirs

-----------------------------------------------------------------------------
(* upload_file                                                             *)

StartUpload(r) ==
  /\ At(r, "off")
  /\ \E n \in FileNames, k \in 0..MaxParts :
       worker' = [worker EXCEPT ![r] = [Fresh("hash") EXCEPT !.name = n, !.size = k]]
  /\ UNCHANGED <<renames, reissues, folder, dirs, chore, others, lostAnswers>>

\* upHash: the drive has the contents already and tells the id of the file, or
\* leaves it out and an empty one goes on in its place.
InstantHit(r) ==
  /\ At(r, "hash")
  /\ Arrives(worker[r].name, r)
  /\ \E fid \in {r, NoFid} : worker' = [worker EXCEPT ![r].at = "share", ![r].fids = {fid}]
  /\ UNCHANGED <<renames, reissues, chore, others, lostAnswers>>

InstantMiss(r) ==
  /\ At(r, "hash") /\ GoOn(r, "parts")
  /\ UNCHANGED <<renames, reissues, folder, dirs, chore, others, lostAnswers>>

\* The parts one after the other, ...
UploadPart(r) ==
  /\ At(r, "parts") /\ worker[r].parts < worker[r].size
  /\ worker' = [worker EXCEPT ![r].parts = @ + 1]
  /\ UNCHANGED <<renames, reissues, folder, dirs, chore, others, lostAnswers>>

\* ... upCommit and upFinish put them together, ...
FinishUpload(r) ==
  /\ At(r, "parts") /\ worker[r].parts = worker[r].size
  /\ Arrives(worker[r].name, r)
  /\ GoOn(r, "find")
  /\ UNCHANGED <<renames, reissues, chore, others, lostAnswers>>

FirstOf(S) == CHOOSE i \in S : \A j \in S : i <= j

\* ... and find_fid_by_name takes the first file of that name on the first page.
FindFid(r) ==
  /\ At(r, "find")
  /\ LET hits == {i \in DOMAIN folder : i <= PageSize /\ folder[i].name = worker[r].name}
     IN IF hits = {} THEN GivesUp(r, "not found")
        ELSE worker' = [worker EXCEPT ![r].at = "share", ![r].fids = {folder[FirstOf(hits)].by}]
  /\ UNCHANGED <<renames, reissues, folder, dirs, chore, others, lostAnswers>>

-----------------------------------------------------------------------------
(* transfer_share                                                          *)

\* fetch_share_token_and_detail: the first page of the share's files.
ReadShare(r) ==
  /\ At(r, "off")
  /\ \E n \in ShareSizes :
       LET files == 1..(IF n < PageSize THEN n ELSE PageSize)
       IN worker' = [worker EXCEPT ![r] =
            [Fresh(IF n = 0 THEN "error" ELSE "save") EXCEPT
               !.size = n, !.shared = {<<r, i>> : i \in files},
               !.why = IF n = 0 THEN "empty" ELSE ""]]
  /\ UNCHANGED <<renames, reissues, folder, dirs, chore, others, lostAnswers>>

\* The request that makes a task of the drive.
AskChore(r, from, what, to) ==
  /\ At(r, from)
  /\ chore' = [chore EXCEPT ![r] = [what |-> what, state |-> "open"]]
  /\ worker' = [worker EXCEPT ![r].at = to, ![r].polls = 0]
  /\ UNCHANGED <<renames, reissues, folder, dirs, others, lostAnswers>>

SaveShare(r) == AskChore(r, "save", "save", "poll save")

\* The drive comes to the end of a task.
ChoreEnds(r) ==
  /\ chore[r].state = "open"
  /\ \E s \in {"done", "failed"} : chore' = [chore EXCEPT ![r].state = s]
  /\ UNCHANGED <<renames, reissues, folder, dirs, worker, others, lostAnswers>>

\* A poll tells that the task is not done: the next poll, or none is left.
StillOpen(r, why) ==
  IF worker[r].polls + 1 < MaxPolls THEN worker' = [worker EXCEPT ![r].polls = @ + 1]
                                    ELSE GivesUp(r, why)

\* Mutant: a task that is not done counts as done.
PollShareEager(r) ==
  /\ At(r, "poll share")
  /\ IF chore[r].state = "failed" THEN GivesUp(r, "failed") ELSE GoOn(r, "password")
  /\ UNCHANGED <<renames, reissues, folder, dirs, chore, others, lostAnswers>>

\* poll_task: the ids of the saved files that are those of the share.
PollSave(r) ==
  /\ At(r, "poll save")
  /\ CASE chore[r].state = "done" ->
            LET saved == IF reissues THEN {} ELSE worker[r].shared
            IN IF saved = {} THEN GivesUp(r, "no files")
               ELSE worker' = [worker EXCEPT ![r].at = "share", ![r].fids = saved]
       [] chore[r].state = "failed" -> GivesUp(r, "failed")
       [] chore[r].state = "open" -> StillOpen(r, "timeout")
  /\ UNCHANGED <<renames, reissues, folder, dirs, chore, others, lostAnswers>>

-----------------------------------------------------------------------------
(* create_share                                                            *)

\* The share is made at once, ...
ShareAtOnce(r) ==
  /\ At(r, "share")
  /\ chore' = [chore EXCEPT ![r] = [what |-> "share", state |-> "done"]]
  /\ GoOn(r, "password")
  /\ UNCHANGED <<renames, reissues, folder, dirs, others, lostAnswers>>

\* ... or by a task that poll_share_task asks about.
ShareLater(r) == AskChore(r, "share", "share", "poll share")

PollShare(r) ==
  /\ At(r, "poll share")
  /\ CASE chore[r].state = "done" -> GoOn(r, "password")
       [] chore[r].state = "failed" -> GivesUp(r, "failed")
       [] chore[r].state = "open" -> StillOpen(r, "timeout")
  /\ UNCHANGED <<renames, reissues, folder, dirs, chore, others, lostAnswers>>

\* The drive may refuse to share an upload that has no id.
ShareRefused(r) ==
  /\ At(r, "share") /\ worker[r].shared = {} /\ worker[r].fids = {NoFid}
  /\ GivesUp(r, "refused")
  /\ UNCHANGED <<renames, reissues, folder, dirs, chore, others, lostAnswers>>

\* The address and the code of the share.
SharePassword(r) ==
  /\ At(r, "password") /\ GoOn(r, "ok")
  /\ UNCHANGED <<renames, reissues, folder, dirs, chore, others, lostAnswers>>

\* A request fails: at the drive nothing happened, or all but the answer.
RequestLost(r) ==
  /\ worker[r].at \in {"hash", "parts", "find", "save", "poll save", "share", "poll share", "password"}
  /\ lostAnswers < MaxLost /\ lostAnswers' = lostAnswers + 1
  /\ GivesUp(r, "lost")
  /\ \/ UNCHANGED <<folder, dirs, chore>>
     \/ /\ At(r, "hash") \/ (At(r, "parts") /\ worker[r].parts = worker[r].size)
        /\ Arrives(worker[r].name, r) /\ UNCHANGED chore
     \/ /\ worker[r].at \in {"save", "share"}
        /\ chore' = [chore EXCEPT ![r] = [what |-> worker[r].at, state |-> "open"]]
        /\ UNCHANGED <<folder, dirs>>
  /\ UNCHANGED <<renames, reissues, others>>

\* Other people put a file or a directory into the folder.
SomeoneUploads ==
  /\ others < MaxOthers /\ others' = others + 1
  /\ \E n \in FileNames :
       Arrives(n, "other") \/ (ArrivesAt(0, n, "other") /\ dirs' = dirs + 1)
  /\ UNCHANGED <<renames, reissues, worker, chore, lostAnswers>>

DriveNext ==
  \/ SomeoneUploads
  \/ \E r \in Runs :
       \/ StartUpload(r) \/ InstantHit(r) \/ InstantMiss(r) \/ UploadPart(r) \/ FinishUpload(r)
       \/ FindFid(r) \/ ReadShare(r) \/ SaveShare(r) \/ ChoreEnds(r) \/ PollSave(r)
       \/ ShareAtOnce(r) \/ ShareLater(r) \/ PollShare(r) \/ ShareRefused(r)
       \/ SharePassword(r) \/ RequestLost(r)

DriveSpec == DriveInit /\ [][DriveNext]_driveVars

-----------------------------------------------------------------------------
(* Properties *)

Uploaded(r)  == {i \in DOMAIN folder : folder[i].by = r}
OthersNamed(r) == {i \in DOMAIN folder : folder[i].by # r /\ folder[i].name \in {worker[r].name}}

\* A run shares the file it uploaded, unless another has its name or the drive
\* told it no id; and if it does not find it, the drive gave it another name or
\* the listing has a page of others before it (upload_file, find_fid_by_name).
UploadsAccounted ==
  \A r \in Runs :
    /\ (worker[r].at \in {"share", "poll share", "password", "ok"} /\ worker[r].shared = {})
       => worker[r].fids \in {{r}, {NoFid}} \/ OthersNamed(r) # {}
    /\ (worker[r].at = "error" /\ worker[r].why = "not found") =>
         \E i \in Uploaded(r) : folder[i].name # worker[r].name \/ i > PageSize

\* What the drive did for a run that ends with an error is known to be lost: the
\* files are saved, or the share is made, after the last poll or behind an answer
\* that did not come, or the saved files have ids that the share's names are not
\* known by (poll_task, poll_share_task, transfer_share).
ChoresAccounted ==
  \A r \in Runs :
    /\ (worker[r].at = "error" /\ chore[r].state = "done") =>
         \/ worker[r].why \in {"timeout", "lost"}
         \/ worker[r].why = "no files" /\ reissues /\ chore[r].what = "save"
    /\ worker[r].at = "ok" => chore[r] = [what |-> "share", state |-> "done"]

\* What a run leaves on the drive and what it says of it agree, but for the
\* losses named (quark.rs).
DriveAccounted == UploadsAccounted /\ ChoresAccounted

=============================================================================
