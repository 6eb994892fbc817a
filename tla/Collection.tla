----------------------------- MODULE Collection -----------------------------
(***************************************************************************)
(* The way of a channel's post into the table of resources.                *)
(*                                                                         *)
(* A collector stores the posts of its channel as histories, one by one as *)
(* they arrive (message_handler.rs) or in batches on request               *)
(* (collector.rs: full_collect).  The extraction (resource.rs) reads the   *)
(* histories that are not marked yet, stores the resources their links     *)
(* make, queues their photo, and marks them.  It is run by the extraction  *)
(* scheduler's tick, by a request for a batch, or by a request for one     *)
(* history, all at once if so it happens; and a collector may be deleted   *)
(* with all it stored while any of them is under way.                      *)
(*                                                                         *)
(* The database refuses a history of no collector and a resource of no     *)
(* history (foreign keys), a second history of one post and a second       *)
(* resource of one url (unique indexes).  What a share link's second url   *)
(* does is left to the check in insert_resource.                           *)
(***************************************************************************)
EXTENDS Naturals, Sequences, FiniteSetsExt, SequencesExt

CONSTANTS
  Messages,     \* the posts of the one channel
  Photos,       \* those with a photo
  Drafts,       \* what an extraction may make of a post: one draft, one url
  Linkless,     \* the drafts whose url is empty (the AI gave none)
  Shares,       \* the ids of share links
  SharesOf,     \* the share ids in the url of a draft
  Results,      \* the lists of drafts the extraction of a post may end in
  Collectors, NoCollector,
  BatchSize,    \* the histories one batch reads
  MaxRequests, MaxEvents  \* bounds of the model: what users ask for, what goes wrong

ASSUME CollectionAssumption ==
  /\ Photos \subseteq Messages /\ Linkless \subseteq Drafts
  /\ SharesOf \in [Drafts -> SUBSET Shares]
  /\ \A d \in Linkless : SharesOf[d] = {}
  /\ Results \in [Messages -> SUBSET Seq(Drafts)]
  /\ \A m \in Messages : Results[m] # {} /\ (<<>> \in Results[m] => Results[m] = {<<>>})
  \* Two drafts of a list that have no url are two drafts.
  /\ \A m \in Messages : \A l \in Results[m] : \A i, j \in DOMAIN l :
       l[i] = l[j] /\ l[i] \in Linkless => i = j
  /\ NoCollector \notin Collectors
  /\ BatchSize \in Nat \ {0}
  /\ {MaxRequests, MaxEvents} \subseteq Nat

VARIABLES
  collector,    \* collectors: absent, active, paused or deleted
  history,      \* collector_histories: the collector of each post's row, and is_extracted
  stored,       \* extracted_resources: how many rows a post has for a draft
  queued,       \* the posts whose photo is in the forward queue
  posted,       \* the posts the channel has shown
  saving,       \* the posts a listener still saves, and for which collectors
  fetching,     \* the posts full_collect has yet to write, and its collector
  on,           \* the extraction scheduler is enabled
  rec,          \* the histories each extraction works on
  at,           \* the statement a request for a collector has come to
  requests, events,
  overlapped,   \* shares one check missed: another insert was on its way, or it failed
  repeated,     \* posts extracted while or after another extraction stored something
  gone,         \* drafts of which a resource was refused or deleted
  uncovered     \* posts whose photo could not be queued

disk   == <<collector, history, stored, queued>>
memory == <<posted, saving, fetching, on, rec, at>>
bounds == <<requests, events>>
ghosts == <<overlapped, repeated, gone, uncovered>>
vars   == <<disk, memory, bounds, ghosts>>

\* The extractions: the scheduler's tick, and the one a request asked for.
Runs == {"tick", "batch", "single"}

NoDraft == "no draft"

\* The lists of drafts a record may still have before it.
Lists == UNION {{SubSeq(l, i, Len(l)) : i \in 1..(Len(l) + 1)} : l \in UNION Range(Results)}

Rec == [at : {"none", "check", "insert", "enqueue", "mark", "queue"},
        left : Lists, draft : Drafts \cup {NoDraft}, live : BOOLEAN]
NoRec == [at |-> "none", left |-> <<>>, draft |-> NoDraft, live |-> FALSE]
NoHistory == [by |-> NoCollector, extracted |-> FALSE]

Collected(m) == history[m].by # NoCollector
Existing == {c \in Collectors : collector[c] \in {"active", "paused"}}
Idle(r) == \A m \in Messages : rec[r][m].at = "none"

\* The rows a check of the draft finds: one of its share ids, or else its url.
Same(d, e) == IF SharesOf[d] # {} THEN SharesOf[d] \cap SharesOf[e] # {}
              ELSE d = e /\ d \notin Linkless
IsStored(e) == \E m \in Messages : stored[m][e] > 0
Known(d) == \E e \in Drafts : Same(d, e) /\ IsStored(e)

\* A row is gone: what works on it by its id finds nothing.
Orphan(ms) == [r \in Runs |-> [m \in Messages |->
                 IF m \in ms THEN [rec[r][m] EXCEPT !.live = FALSE] ELSE rec[r][m]]]

\* Delete the resources of ms among ds.
Remaining(ms, ds) == [m \in Messages |-> [d \in Drafts |->
                        IF m \in ms /\ d \in ds THEN 0 ELSE stored[m][d]]]
Removed(ms, ds) == {d \in ds : \E m \in ms : stored[m][d] > 0}

Event == events < MaxEvents /\ events' = events + 1
Request == requests < MaxRequests /\ requests' = requests + 1 /\ UNCHANGED events

\* The database of an earlier start may hold a collector, and auto_extract its setting.
Init ==
  /\ \E cs \in SUBSET Collectors :
       /\ Cardinality(cs) <= 1
       /\ collector = [c \in Collectors |-> IF c \in cs THEN "active" ELSE "absent"]
  /\ history = [m \in Messages |-> NoHistory]
  /\ stored = [m \in Messages |-> [d \in Drafts |-> 0]]
  /\ queued = {} /\ posted = {}
  /\ saving = [m \in Messages |-> {}]
  /\ fetching = [by |-> NoCollector, left |-> {}]
  /\ on \in BOOLEAN
  /\ rec = [r \in Runs |-> [m \in Messages |-> NoRec]]
  /\ at = [c \in Collectors |-> "idle"]
  /\ requests = 0 /\ events = 0
  /\ overlapped = {} /\ repeated = {} /\ gone = {} /\ uncovered = {}

-----------------------------------------------------------------------------
(* The collectors: create, toggle, delete *)

\* The SELECT COUNT(*) of create_collector has found none for the channel.
CreateCheck(c) ==
  /\ collector[c] = "absent" /\ at[c] = "idle" /\ Existing = {}
  /\ Request
  /\ at' = [at EXCEPT ![c] = "insert"]
  /\ UNCHANGED <<disk, posted, saving, fetching, on, rec, ghosts>>

CreateInsert(c) ==
  /\ at[c] = "insert"
  /\ collector' = [collector EXCEPT ![c] = "active"]
  /\ at' = [at EXCEPT ![c] = "idle"]
  /\ UNCHANGED <<history, stored, queued, posted, saving, fetching, on, rec, bounds, ghosts>>

Toggle(c) ==
  /\ c \in Existing /\ Request
  /\ collector' = [collector EXCEPT ![c] = IF @ = "active" THEN "paused" ELSE "active"]
  /\ UNCHANGED <<history, stored, queued, memory, ghosts>>

\* delete_collector: three statements without a transaction.
DeleteResources(c) ==
  /\ c \in Existing /\ at[c] = "idle" /\ Request
  /\ LET own == {m \in Messages : history[m].by = c}
     IN  /\ stored' = Remaining(own, Drafts)
         /\ gone' = gone \cup Removed(own, Drafts)
  /\ at' = [at EXCEPT ![c] = "histories"]
  /\ UNCHANGED <<collector, history, queued, posted, saving, fetching, on, rec,
                 overlapped, repeated, uncovered>>

\* Refused by the foreign key when an extraction has stored something meanwhile.
DeleteHistories(c) ==
  /\ at[c] = "histories"
  /\ LET own == {m \in Messages : history[m].by = c}
     IN  IF Removed(own, Drafts) = {}
         THEN /\ history' = [m \in Messages |-> IF m \in own THEN NoHistory ELSE history[m]]
              /\ rec' = Orphan(own)
              /\ at' = [at EXCEPT ![c] = "collector"]
         ELSE at' = [at EXCEPT ![c] = "idle"] /\ UNCHANGED <<history, rec>>
  /\ UNCHANGED <<collector, stored, queued, posted, saving, fetching, on, bounds, ghosts>>

\* Refused when a post was saved meanwhile.
DeleteRow(c) ==
  /\ at[c] = "collector"
  /\ collector' = IF \E m \in Messages : history[m].by = c THEN collector
                  ELSE [collector EXCEPT ![c] = "deleted"]
  /\ at' = [at EXCEPT ![c] = "idle"]
  /\ UNCHANGED <<history, stored, queued, posted, saving, fetching, on, rec, bounds, ghosts>>

\* An error, or the client hangs up: the statements done stay done.
RequestBreaks(c) ==
  /\ at[c] # "idle" /\ Event
  /\ at' = [at EXCEPT ![c] = "idle"]
  /\ UNCHANGED <<disk, posted, saving, fetching, on, rec, requests, ghosts>>

-----------------------------------------------------------------------------
(* Collecting: handle_new_message, full_collect *)

\* A post that no listener hears is only ever fetched.
Post(m) ==
  /\ m \notin posted
  /\ posted' = posted \cup {m}
  /\ saving' \in {saving, [saving EXCEPT ![m] = {c \in Collectors : collector[c] = "active"}]}
  /\ UNCHANGED <<disk, fetching, on, rec, at, bounds, ghosts>>

\* INSERT OR IGNORE: refused for a collector that is gone, ignored for a known post.
Save(ms, c) ==
  history' = IF c \notin Existing THEN history
             ELSE [m \in Messages |-> IF m \in ms /\ ~Collected(m)
                                      THEN [by |-> c, extracted |-> FALSE] ELSE history[m]]

SaveRealtime(m, c) ==
  /\ c \in saving[m]
  /\ saving' = [saving EXCEPT ![m] = @ \ {c}]
  /\ \/ Save({m}, c) /\ UNCHANGED events
     \/ Event /\ UNCHANGED history
  /\ UNCHANGED <<collector, stored, queued, posted, fetching, on, rec, at, requests, ghosts>>

\* One at a time in the model.  A paused collector is fetched for as well.
FetchHistory(c) ==
  /\ c \in Existing /\ fetching.left = {} /\ Request
  /\ fetching' = [by |-> c, left |-> posted]
  /\ UNCHANGED <<disk, posted, saving, on, rec, at, ghosts>>

\* One transaction; when its commit fails the batch is skipped.
WriteBatch ==
  \E ms \in SUBSET fetching.left \ {{}} :
    /\ fetching' = [fetching EXCEPT !.left = @ \ ms]
    /\ \/ Save(ms, fetching.by) /\ UNCHANGED events
       \/ Event /\ UNCHANGED history
    /\ UNCHANGED <<collector, stored, queued, posted, saving, on, rec, at, requests, ghosts>>

\* Telegram's error ends full_collect: what was fetched and not written is dropped.
FetchBreaks ==
  /\ fetching.left # {} /\ Event
  /\ fetching' = [fetching EXCEPT !.left = {}]
  /\ UNCHANGED <<disk, posted, saving, on, rec, at, requests, ghosts>>

-----------------------------------------------------------------------------
(* Extraction: which histories *)

\* Whether the extraction of m repeats, or runs along, another one.
Repeats(m) == \/ \E r \in Runs : rec[r][m].at # "none"
              \/ \E d \in Drafts : stored[m][d] > 0

\* What the extraction of each post ends in: the drafts of the rules or, in AI
\* mode, what the AI makes of the text.
Outcomes == {f \in [Messages -> UNION Range(Results)] : \A m \in Messages : f[m] \in Results[m]}

\* A history as it is read.  A batch marks a post without links.
ReadAs(ds) == [at |-> IF ds = <<>> THEN "mark" ELSE "check",
               left |-> ds, draft |-> NoDraft, live |-> TRUE]

\* SELECT ... WHERE is_extracted = 0 LIMIT: no order is asked for.
Select(r) ==
  /\ Idle(r)
  /\ LET pending == {m \in Messages : Collected(m) /\ ~history[m].extracted}
     IN  \E ms \in kSubset(Min({BatchSize, Cardinality(pending)}), pending) :
           /\ \E drafts \in Outcomes :
                rec' = [rec EXCEPT ![r] = [m \in Messages |->
                          IF m \in ms THEN ReadAs(drafts[m]) ELSE NoRec]]
           /\ repeated' = repeated \cup {m \in ms : Repeats(m)}

ExtractTick ==
  /\ on /\ Select("tick") /\ rec' # rec
  /\ UNCHANGED <<disk, posted, saving, fetching, on, at, bounds, overlapped, gone, uncovered>>

\* One request at a time asks for an extraction: with the tick, two run at once.
ExtractResources ==
  /\ Idle("single") /\ Select("batch") /\ rec' # rec /\ Request
  /\ UNCHANGED <<disk, posted, saving, fetching, on, at, overlapped, gone, uncovered>>

\* extract_single_record: one history that is not marked.  It ends at once, with
\* nothing changed, when there are no links.
ExtractSingle(m) ==
  /\ Idle("single") /\ Idle("batch") /\ Collected(m) /\ ~history[m].extracted /\ Request
  /\ Results[m] # {<<>>}
  /\ \E ds \in Results[m] : rec' = [rec EXCEPT !["single"][m] = ReadAs(ds)]
  /\ repeated' = IF Repeats(m) THEN repeated \cup {m} ELSE repeated
  /\ UNCHANGED <<disk, posted, saving, fetching, on, at, overlapped, gone, uncovered>>

-----------------------------------------------------------------------------
(* Extraction: one history *)

\* The record comes to the statement s, with the drafts left and, checked, draft.
Continue(r, m, s, left, draft) ==
  rec' = [rec EXCEPT ![r][m] = [at |-> s, left |-> left, draft |-> draft, live |-> @.live]]

Goes(r, m, s) == Continue(r, m, s, rec[r][m].left, rec[r][m].draft)
Ends(r, m) == rec' = [rec EXCEPT ![r][m] = NoRec]

\* What follows the last draft.
After(r, m) == IF m \in Photos /\ r # "single" THEN "enqueue" ELSE "mark"

\* Mutant: the first draft that is done with ends the record.
DoneWithAll(r, m) ==
  Continue(r, m, After(r, m), <<>>, NoDraft)

\* The draft is done with.
DoneWith(r, m) ==
  LET left == Tail(rec[r][m].left)
  IN  Continue(r, m, IF left = <<>> THEN After(r, m) ELSE "check", left, NoDraft)

\* The shares of d that another record has checked and not yet inserted.
Passing(d) ==
  UNION {SharesOf[d] \cap SharesOf[rec[p[1]][p[2]].draft] :
           p \in {q \in Runs \X Messages : rec[q[1]][q[2]].at = "insert"}}

\* Mutant: a resource is known only by its url.
CheckUrl(r, m) ==
  /\ rec[r][m].at = "check"
  /\ LET d == Head(rec[r][m].left) IN
       \/ /\ IsStored(d) /\ d \notin Linkless
          /\ DoneWith(r, m)
          /\ UNCHANGED <<events, overlapped>>
       \/ /\ ~IsStored(d) \/ d \in Linkless
          /\ Continue(r, m, "insert", rec[r][m].left, d)
          /\ overlapped' = overlapped \cup Passing(d)
          /\ UNCHANGED events
       \/ /\ Known(d) /\ Event
          /\ Continue(r, m, "insert", rec[r][m].left, d)
          /\ overlapped' = overlapped \cup SharesOf[d]
  /\ UNCHANGED <<disk, posted, saving, fetching, on, at, requests,
                 repeated, gone, uncovered>>

\* insert_resource looks for the share ids (or the url); its errors count as none found.
Check(r, m) ==
  /\ rec[r][m].at = "check"
  /\ LET d == Head(rec[r][m].left) IN
       \/ /\ Known(d)
          /\ DoneWith(r, m)
          /\ UNCHANGED <<events, overlapped>>
       \/ /\ ~Known(d)
          /\ Continue(r, m, "insert", rec[r][m].left, d)
          /\ overlapped' = overlapped \cup Passing(d)
          /\ UNCHANGED events
       \/ /\ Known(d) /\ Event
          /\ Continue(r, m, "insert", rec[r][m].left, d)
          /\ overlapped' = overlapped \cup SharesOf[d]
  /\ UNCHANGED <<disk, posted, saving, fetching, on, at, requests,
                 repeated, gone, uncovered>>

\* Mutant: the foreign key is not enforced.
InsertUnchecked(r, m) ==
  /\ rec[r][m].at = "insert"
  /\ LET d == rec[r][m].draft
     IN  /\ DoneWith(r, m)
         /\ stored' = IF IsStored(d) /\ d \notin Linkless THEN stored
                      ELSE [stored EXCEPT ![m][d] = @ + 1]
  /\ UNCHANGED <<collector, history, queued, posted, saving, fetching, on, at,
                 bounds, ghosts>>

\* ... and inserts: ignored for a url that is there, refused for a history that
\* is not.  The record goes on in any case.
Insert(r, m) ==
  /\ rec[r][m].at = "insert"
  /\ LET d == rec[r][m].draft
     IN  /\ DoneWith(r, m)
         /\ \/ /\ rec[r][m].live
               /\ stored' = IF IsStored(d) /\ d \notin Linkless THEN stored
                            ELSE [stored EXCEPT ![m][d] = @ + 1]
               /\ UNCHANGED <<events, gone>>
            \/ /\ ~rec[r][m].live
               /\ gone' = gone \cup {d}
               /\ UNCHANGED <<stored, events>>
            \/ /\ Event
               /\ gone' = gone \cup {d}
               /\ UNCHANGED stored
  /\ UNCHANGED <<collector, history, queued, posted, saving, fetching, on, at,
                 requests, overlapped, repeated, uncovered>>

\* forward_queue::enqueue, whose error is a warning.  A batch does it before it
\* marks the history, the handler of a single extraction after that.
Enqueue(r, m) ==
  /\ rec[r][m].at \in {"enqueue", "queue"}
  /\ \/ /\ rec[r][m].live \/ r # "single"
        /\ queued' = queued \cup {m}
        /\ UNCHANGED <<events, uncovered>>
     \/ /\ (~rec[r][m].live /\ r = "single" /\ UNCHANGED events) \/ Event
        /\ uncovered' = uncovered \cup {m}
        /\ UNCHANGED queued
  /\ IF r = "single" THEN Ends(r, m) ELSE Goes(r, m, "mark")
  /\ UNCHANGED <<collector, history, stored, posted, saving, fetching, on, at,
                 requests, overlapped, repeated, gone>>

\* Mutant: a history is marked only if it has a resource of its own.
MarkIfStored(r, m) ==
  /\ rec[r][m].at = "mark"
  /\ \/ /\ history' = IF rec[r][m].live /\ \E d \in Drafts : stored[m][d] > 0
                      THEN [history EXCEPT ![m].extracted = TRUE] ELSE history
        /\ IF r = "single" /\ m \in Photos THEN Goes(r, m, "queue") ELSE Ends(r, m)
        /\ UNCHANGED events
     \/ /\ Event /\ Ends(r, m) /\ UNCHANGED history
  /\ UNCHANGED <<collector, stored, queued, posted, saving, fetching, on, at,
                 requests, ghosts>>

\* mark_extracted, after whatever the inserts came to.
Mark(r, m) ==
  /\ rec[r][m].at = "mark"
  /\ \/ /\ history' = IF rec[r][m].live THEN [history EXCEPT ![m].extracted = TRUE] ELSE history
        /\ IF r = "single" /\ m \in Photos THEN Goes(r, m, "queue") ELSE Ends(r, m)
        /\ UNCHANGED events
     \/ /\ Event /\ Ends(r, m) /\ UNCHANGED history
  /\ UNCHANGED <<collector, stored, queued, posted, saving, fetching, on, at,
                 requests, ghosts>>

\* The task of an extraction is dropped: the tick's by stop_extract_scheduler,
\* a request's by a client that hangs up.
Drop(rs) ==
  /\ rec' = [r \in Runs |-> IF r \in rs THEN [m \in Messages |-> NoRec] ELSE rec[r]]
  /\ uncovered' = uncovered \cup {m \in Messages : "single" \in rs /\ rec["single"][m].at = "queue"}

HangUp(r) ==
  /\ r \in {"batch", "single"} /\ ~Idle(r) /\ Event
  /\ Drop({r})
  /\ UNCHANGED <<disk, posted, saving, fetching, on, at, requests,
                 overlapped, repeated, gone>>

\* update_resource_config: the scheduler is restarted, or stopped.
UpdateConfig ==
  /\ Request
  /\ on' \in BOOLEAN
  /\ Drop({"tick"})
  /\ UNCHANGED <<disk, posted, saving, fetching, at, overlapped, repeated, gone>>

\* delete_resource.
DeleteResource(m, d) ==
  /\ stored[m][d] > 0 /\ Request
  /\ stored' = [stored EXCEPT ![m][d] = @ - 1]
  /\ gone' = gone \cup {d}
  /\ UNCHANGED <<collector, history, queued, memory, overlapped, repeated, uncovered>>

-----------------------------------------------------------------------------
\* The program stops and starts: migration 006 deletes every resource that is
\* not the first one of its url, and so all those that have none.
Restart ==
  /\ Event
  /\ Drop(Runs)
  /\ saving' = [m \in Messages |-> {}]
  /\ fetching' = [by |-> NoCollector, left |-> {}]
  /\ at' = [c \in Collectors |-> "idle"]
  /\ stored' = Remaining(Messages, Linkless)
  /\ gone' = gone \cup Removed(Messages, Linkless)
  /\ UNCHANGED <<collector, history, queued, posted, on, requests, overlapped, repeated>>

Record(r, m) == Check(r, m) \/ Insert(r, m) \/ Enqueue(r, m) \/ Mark(r, m)

Next ==
  \/ \E c \in Collectors :
       \/ CreateCheck(c) \/ CreateInsert(c) \/ Toggle(c)
       \/ DeleteResources(c) \/ DeleteHistories(c) \/ DeleteRow(c) \/ RequestBreaks(c)
       \/ FetchHistory(c)
  \/ \E m \in Messages :
       \/ Post(m) \/ ExtractSingle(m)
       \/ \E c \in Collectors : SaveRealtime(m, c)
       \/ \E d \in Drafts : DeleteResource(m, d)
       \/ \E r \in Runs : Record(r, m)
  \/ WriteBatch \/ FetchBreaks
  \/ ExtractTick \/ ExtractResources \/ UpdateConfig
  \/ \E r \in Runs : HangUp(r)
  \/ Restart

Spec == Init /\ [][Next]_vars

\* The scheduler's task sleeps, ticks and works on: no call of it hangs for ever.
Scheduler == ExtractTick \/ \E m \in Messages : Record("tick", m)
FairSpec == Spec /\ WF_vars(Scheduler)

-----------------------------------------------------------------------------
\* There is at most one row for the drafts ds, of whatever post.
AtMostOne(ds) == \A m, n \in Messages : \A d, e \in ds :
  stored[m][d] > 0 /\ stored[n][e] > 0 => m = n /\ d = e /\ stored[m][d] = 1

TypeOK ==
  /\ collector \in [Collectors -> {"absent", "active", "paused", "deleted"}]
  /\ history \in [Messages -> [by : Collectors \cup {NoCollector}, extracted : BOOLEAN]]
  /\ stored \in [Messages -> [Drafts -> Nat]]
  /\ {queued, posted, repeated, uncovered} \subseteq SUBSET Messages
  /\ saving \in [Messages -> SUBSET Collectors]
  /\ fetching \in [by : Collectors \cup {NoCollector}, left : SUBSET Messages]
  /\ on \in BOOLEAN
  /\ rec \in [Runs -> [Messages -> Rec]]
  /\ at \in [Collectors -> {"idle", "insert", "histories", "collector"}]
  /\ overlapped \subseteq Shares /\ gone \subseteq Drafts
  /\ requests \in 0..MaxRequests /\ events \in 0..MaxEvents
  \* The foreign keys and unique indexes of the database.
  /\ \A m \in Messages : Collected(m) => history[m].by \in Existing
  /\ \A m \in Messages : \A d \in Drafts : stored[m][d] > 0 => Collected(m)
  /\ \A d \in Drafts \ Linkless : AtMostOne({d})

(***************************************************************************)
(* A history is marked once what it holds is known (resource.rs:336): for  *)
(* each draft of one of its extractions there is a resource, its own or    *)
(* one with a share of it, unless one was refused or deleted; and its      *)
(* photo is in the forward queue, unless that failed or a single           *)
(* extraction has yet to do it.                                            *)
(***************************************************************************)
ExtractedAccounted ==
  \A m \in Messages : history[m].extracted /\ Results[m] # {<<>>} =>
    /\ \E ds \in Results[m] : \A d \in Range(ds) : \E e \in Drafts :
         (e = d \/ Same(d, e)) /\ (IsStored(e) \/ e \in gone)
    /\ m \in Photos => m \in queued \cup uncovered \/ rec["single"][m].at = "queue"

(***************************************************************************)
(* insert_resource's dedupe: no two resources share a link, but where two  *)
(* extractions checked before either inserted, or the check failed; and no *)
(* post has a draft without a url twice, but where it was extracted again. *)
(***************************************************************************)
StoredOnce ==
  /\ \A s \in Shares \ overlapped : AtMostOne({d \in Drafts : s \in SharesOf[d]})
  /\ \A m \in Messages \ repeated : \A d \in Drafts : stored[m][d] <= 1

(***************************************************************************)
(* migrations/006: the start removes the duplicates of a url and keeps the *)
(* earliest of them.                                                       *)
(***************************************************************************)
StartKeepsDistinct ==
  [][Restart => \A d \in Drafts : IsStored(d) => IsStored(d)']_vars

(***************************************************************************)
(* While the scheduler is on, every history that waits is extracted, or    *)
(* deleted, whatever the other extractions do.                             *)
(***************************************************************************)
Waits(m) == on /\ Collected(m) /\ ~history[m].extracted
AllExtracted == \A m \in Messages : []<>~Waits(m)
=============================================================================
