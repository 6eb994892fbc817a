----------------------------- MODULE PushEngine -----------------------------
(***************************************************************************)
(* push_for_config of src/src/services/push_config.rs, as the push         *)
(* scheduler of scheduler.rs and the trigger calls of handlers/push.rs run *)
(* it: select the resources a configuration has not received, drop the     *)
(* ones that cannot be pushed, send the rest in one HTTP request, and      *)
(* record it, one statement after the other and outside any transaction.   *)
(*                                                                         *)
(* A push keeps what it SELECTed: the other pushes, the forward queue, an  *)
(* administrator who deletes a resource and the links themselves go on     *)
(* between its steps.                                                      *)
(***************************************************************************)
EXTENDS Naturals, FiniteSets

CONSTANTS Callers,       \* concurrent calls of the trigger endpoints
          MaxConfigs,    \* the active configurations with auto_push, by id
          NewLinks,      \* bound: the urls and covers a new resource can have
          NewCovers,
          MaxResources,  \* bound: resources ever extracted
          BatchSize,     \* batch_size of every configuration
          Strict,        \* the option push_require_image_forwarded
          MaxUnpushable, \* bound: resources that end with a dead link or empty
          MaxRequeues,   \* bound: second forward rows of a forwarded cover
          MaxDeletes,    \* bound: resources an administrator deletes
          MaxFaults,     \* bound: SQL errors and lost HTTP answers
          MaxCuts        \* bound: pushes cut off, alone or by a crash

ASSUME CallersAssumption == "scheduler" \notin Callers /\ IsFiniteSet(Callers)
ASSUME BoundAssumption == /\ {MaxConfigs, BatchSize} \subseteq Nat \ {0}
                          /\ {MaxResources, MaxUnpushable, MaxRequeues,
                              MaxDeletes, MaxFaults, MaxCuts} \subseteq Nat
                          /\ Strict \in BOOLEAN
ASSUME InputAssumption == /\ NewLinks \subseteq {"none", "works", "dead"}
                          /\ NewCovers \subseteq {"none", "waiting", "forwarded"}

Pushers   == Callers \cup {"scheduler"}
Configs   == 1..MaxConfigs
Resources == 1..MaxResources    \* in the order of created_at, id

VARIABLES
  link,      \* the resource's url: "absent" before the resource, "deleted" after
  cover,     \* its img and the forward rows of that image
  pushed,    \* resource_push_status: the resources marked, per configuration
  isPushed,  \* extracted_resources.is_pushed
  at, conf, batch,   \* where each push is, for which configuration, with what
  turn,      \* the configuration the tick is at (0: asleep between two ticks)
  received,  \* how often the API of a configuration accepted a resource
  lost,      \* ... and how often that was never recorded
  overlapped, \* the configurations that two pushes ever worked on at a time
  requeues, faults, cuts

resources == <<link, cover>>
records   == <<pushed, isPushed>>
pushers   == <<at, conf, batch>>
history   == <<received, lost, overlapped>>
budgets   == <<requeues, faults, cuts>>
vars      == <<resources, records, pushers, turn, history, budgets>>

TypeOK ==
  /\ link \in [Resources -> {"absent", "none", "works", "dead", "deleted"}]
  /\ cover \in [Resources -> {"none", "waiting", "forwarded", "requeued"}]
  /\ pushed \in [Configs -> SUBSET Resources]
  /\ isPushed \subseteq Resources
  /\ at \in [Pushers -> {"idle", "classify", "send", "mark", "insert"}]
  /\ conf \in [Pushers -> Configs \cup {0}]
  /\ batch \in [Pushers -> SUBSET Resources]
  /\ \A p \in Pushers : at[p] = "idle" <=> conf[p] = 0
  /\ \A p \in Pushers : at[p] = "idle" <=> batch[p] = {}
  /\ turn \in Configs \cup {0}
  /\ received \in [Configs -> [Resources -> Nat]]
  /\ lost \in [Configs -> [Resources -> Nat]]
  /\ overlapped \subseteq Configs
  /\ requeues \in 0..MaxRequeues
  /\ faults \in 0..MaxFaults
  /\ cuts \in 0..MaxCuts

-----------------------------------------------------------------------------
(* Helpers *)

Exists(r) == link[r] \notin {"absent", "deleted"}

Fault == faults < MaxFaults /\ faults' = faults + 1

\* The classification's empty resource: no image and no link.
Empty(r) == link[r] = "none" /\ cover[r] = "none"

Unpushable == {r \in Resources : Exists(r) /\ (link[r] = "dead" \/ Empty(r))}

\* A step of the world never leaves more than MaxUnpushable of them.
UnpushableBound == Cardinality(Unpushable') <= MaxUnpushable

\* The predicate of the strict mode in the candidates' SQL: some forward row
\* of the image is forwarded ...
SomeRowForwarded(r) == cover[r] \in {"forwarded", "requeued"}

\* ... while the classification looks at the latest row only.
LatestRowForwarded(r) == cover[r] = "forwarded"

\* Mutant: whatever any configuration received is out (is_pushed as a filter).
CandidatesOfAll(c) ==
  {r \in Resources : /\ Exists(r) /\ r \notin isPushed
                     /\ Strict => cover[r] = "none" \/ SomeRowForwarded(r)}

\* The candidates of a configuration.
Candidates(c) ==
  {r \in Resources : /\ Exists(r) /\ r \notin pushed[c]
                     /\ Strict => cover[r] = "none" \/ SomeRowForwarded(r)}

\* ORDER BY created_at, id LIMIT n
Oldest(S, n) == {r \in S : Cardinality({q \in S : q < r}) < n}

\* What classification keeps whatever the links are.
Sendable(r) == ~Empty(r) /\ (Strict => cover[r] = "none" \/ LatestRowForwarded(r))

\* One more, for each resource of S, of configuration c.
Plus(f, c, S) == [f EXCEPT ![c] = [r \in Resources |-> f[c][r] + IF r \in S THEN 1 ELSE 0]]

\* The scheduler goes on to the next configuration of its tick.
NextTurn == turn' = (turn + 1) % (MaxConfigs + 1)

\* The end of a push, whatever its result.
End(p) ==
  /\ at' = [at EXCEPT ![p] = "idle"]
  /\ conf' = [conf EXCEPT ![p] = 0]
  /\ batch' = [batch EXCEPT ![p] = {}]
  /\ IF p = "scheduler" THEN NextTurn ELSE UNCHANGED turn

Begin(p, c, to, S) ==
  /\ at' = [at EXCEPT ![p] = to]
  /\ conf' = [conf EXCEPT ![p] = c]
  /\ batch' = [batch EXCEPT ![p] = S]
  /\ UNCHANGED turn

Continue(p, to, S) ==
  /\ at' = [at EXCEPT ![p] = to]
  /\ batch' = [batch EXCEPT ![p] = S]
  /\ UNCHANGED <<conf, turn>>

-----------------------------------------------------------------------------
Init ==
  /\ link = [r \in Resources |-> "absent"]
  /\ cover = [r \in Resources |-> "none"]
  /\ pushed = [c \in Configs |-> {}]
  /\ isPushed = {}
  /\ at = [p \in Pushers |-> "idle"]
  /\ conf = [p \in Pushers |-> 0]
  /\ batch = [p \in Pushers |-> {}]
  /\ turn = 0
  /\ received = [c \in Configs |-> [r \in Resources |-> 0]]
  /\ lost = [c \in Configs |-> [r \in Resources |-> 0]]
  /\ overlapped = {}
  /\ requeues = 0
  /\ faults = 0
  /\ cuts = 0

-----------------------------------------------------------------------------
(* push_for_config                                                         *)

\* Mutant: the early return of an empty selection is missing.
SelectAnyway(p, c, limit) ==
  /\ at[p] = "idle"
  /\ Begin(p, c, "classify", {r \in Oldest(Candidates(c), limit) : Sendable(r)})
  /\ UNCHANGED <<resources, records, history, budgets>>

\* The candidates' SELECT, and the part of the classification that depends on
\* the rows alone.  Nothing to push: the push ends here.  If the classification
\* fails, all that was selected is sent.
Select(p, c, limit) ==
  /\ at[p] = "idle"
  /\ overlapped' = overlapped \cup {d \in {c} : \E q \in Pushers : conf[q] = c}
  /\ LET selected == Oldest(Candidates(c), limit)
         rows     == {r \in selected : Sendable(r)}
     IN \/ rows = {} /\ End(p) /\ UNCHANGED faults
        \/ rows # {} /\ Begin(p, c, "classify", rows) /\ UNCHANGED faults
        \/ selected # {} /\ Fault /\ Begin(p, c, "send", selected)
  /\ UNCHANGED <<resources, records, received, lost, requeues, cuts>>

\* The read of the configuration, or the SELECT, fails.
SelectFails(p) ==
  /\ at[p] = "idle"
  /\ Fault
  /\ End(p)
  /\ UNCHANGED <<resources, records, history, requeues, cuts>>

\* The link check: it finds dead links, and may miss some (the checker is off,
\* fails, has an older verdict in its cache, or answers pending).
Classify(p) ==
  /\ at[p] = "classify"
  /\ \E invalid \in SUBSET {r \in batch[p] : link[r] \in {"dead", "deleted"}} :
       IF invalid = batch[p] THEN End(p) ELSE Continue(p, "send", batch[p] \ invalid)
  /\ UNCHANGED <<resources, records, history, budgets>>

\* The HTTP request: refused or failed, accepted, or accepted and the answer
\* lost on its way.
Send(p) ==
  /\ at[p] = "send"
  /\ \/ End(p) /\ UNCHANGED <<received, lost, faults>>
     \/ /\ received' = Plus(received, conf[p], batch[p])
        /\ \/ Continue(p, "mark", batch[p]) /\ UNCHANGED <<lost, faults>>
           \/ Fault /\ End(p) /\ lost' = Plus(lost, conf[p], batch[p])
  /\ UNCHANGED <<resources, records, overlapped, requeues, cuts>>

\* An error after the request: `?` ends the push, and what is left of the
\* batch stays unrecorded.
Unrecorded(p) == End(p) /\ lost' = Plus(lost, conf[p], batch[p])

\* batch_mark_pushed
MarkPushed(p) ==
  /\ at[p] = "mark"
  /\ \/ /\ isPushed' = isPushed \cup {r \in batch[p] : Exists(r)}
        /\ Continue(p, "insert", batch[p])
        /\ UNCHANGED <<lost, faults>>
     \/ Fault /\ Unrecorded(p) /\ UNCHANGED isPushed
  /\ UNCHANGED <<resources, pushed, received, overlapped, requeues, cuts>>

\* Mutant: the loop returns after its first row.
InsertPushStatusOnce(p) ==
  /\ at[p] = "insert"
  /\ pushed' = [pushed EXCEPT ![conf[p]] = @ \cup {r \in Oldest(batch[p], 1) : Exists(r)}]
  /\ End(p)
  /\ UNCHANGED <<resources, isPushed, history, budgets>>

\* insert_push_status_batch: one UPSERT per resource.  The row of a resource
\* deleted meanwhile violates its foreign key, which ends the loop.
InsertPushStatus(p) ==
  /\ at[p] = "insert"
  /\ \E r \in Oldest(batch[p], 1) :
       \/ /\ Exists(r)
          /\ pushed' = [pushed EXCEPT ![conf[p]] = @ \cup {r}]
          /\ IF batch[p] = {r} THEN End(p) ELSE Continue(p, "insert", batch[p] \ {r})
          /\ UNCHANGED <<lost, faults>>
       \/ ~Exists(r) /\ Unrecorded(p) /\ UNCHANGED <<pushed, faults>>
       \/ Fault /\ Unrecorded(p) /\ UNCHANGED pushed
  /\ UNCHANGED <<resources, isPushed, received, overlapped, requeues, cuts>>

Step(p) == Classify(p) \/ Send(p) \/ MarkPushed(p) \/ InsertPushStatus(p)

-----------------------------------------------------------------------------
(* Who pushes: the scheduler's tick and the trigger calls                  *)

Tick ==
  /\ turn = 0
  /\ turn' = 1
  /\ UNCHANGED <<resources, records, pushers, history, budgets>>

\* run_push_tick comes to a configuration whose push_interval has passed ...
VisitDue ==
  /\ turn # 0
  /\ Select("scheduler", turn, BatchSize) \/ SelectFails("scheduler")

\* ... or has not.
VisitNotDue ==
  /\ turn # 0 /\ at["scheduler"] = "idle"
  /\ NextTurn
  /\ UNCHANGED <<resources, records, pushers, history, budgets>>

\* trigger_push and trigger_push_for_config, with a batch_size of their own.
Trigger(p) == \E c \in Configs, n \in 1..BatchSize : Select(p, c, n)

\* Pushes of S are cut off wherever they are; a request on its way may have
\* been accepted.
Cut(S) ==
  /\ cuts < MaxCuts
  /\ cuts' = cuts + 1
  /\ \E arrived \in SUBSET {p \in S : at[p] = "send"} :
       LET Hit(ps, c, r) == Cardinality({p \in ps : conf[p] = c /\ r \in batch[p]})
           unrecorded == arrived \cup {p \in S : at[p] \in {"mark", "insert"}}
       IN /\ received' = [c \in Configs |-> [r \in Resources |->
                            received[c][r] + Hit(arrived, c, r)]]
          /\ lost' = [c \in Configs |-> [r \in Resources |->
                        lost[c][r] + Hit(unrecorded, c, r)]]
  /\ at' = [p \in Pushers |-> IF p \in S THEN "idle" ELSE at[p]]
  /\ conf' = [p \in Pushers |-> IF p \in S THEN 0 ELSE conf[p]]
  /\ batch' = [p \in Pushers |-> IF p \in S THEN {} ELSE batch[p]]
  /\ turn' = IF "scheduler" \in S THEN 0 ELSE turn
  /\ UNCHANGED <<resources, records, overlapped, requeues, faults>>

\* A caller hangs up, or stop_scheduler aborts the worker of the tick.
Abort(p) == at[p] # "idle" /\ Cut({p})

\* The process dies.
Crash == Cut(Pushers)

-----------------------------------------------------------------------------
(* The rest of the program                                                 *)

\* The extraction stores a resource, the next one by id; its cover has no
\* forwarded row, or one of an earlier resource with the same image.
Extract ==
  /\ \E r \in Resources, l \in NewLinks, i \in NewCovers :
       /\ link[r] = "absent" /\ \A q \in 1..(r - 1) : link[q] # "absent"
       /\ link' = [link EXCEPT ![r] = l]
       /\ cover' = [cover EXCEPT ![r] = i]
  /\ UnpushableBound
  /\ UNCHANGED <<records, pushers, turn, history, budgets>>

LinkDies(r) ==
  /\ link[r] = "works"
  /\ link' = [link EXCEPT ![r] = "dead"]
  /\ UNCHANGED cover
  /\ UnpushableBound
  /\ UNCHANGED <<records, pushers, turn, history, budgets>>

\* mark_task_forwarded, or the dead letter of mark_task_failed, which clears
\* the image of the resource.
CoverSettles(r) ==
  /\ Exists(r) /\ cover[r] \in {"waiting", "requeued"}
  /\ \E i \in {"none", "forwarded"} : cover' = [cover EXCEPT ![r] = i]
  /\ UNCHANGED link
  /\ UnpushableBound
  /\ UNCHANGED <<records, pushers, turn, history, budgets>>

\* Two enqueue calls of one image both insert a row, and the first one is
\* forwarded: the latest row is not.
CoverRequeued(r) ==
  /\ requeues < MaxRequeues
  /\ Exists(r) /\ cover[r] = "forwarded"
  /\ cover' = [cover EXCEPT ![r] = "requeued"]
  /\ requeues' = requeues + 1
  /\ UNCHANGED <<link, records, pushers, turn, history, faults, cuts>>

\* delete_resource, which cascades to resource_push_status.
DeleteResource(r) ==
  /\ Exists(r)
  /\ Cardinality({q \in Resources : link[q] = "deleted"}) < MaxDeletes
  /\ link' = [link EXCEPT ![r] = "deleted"]
  /\ pushed' = [c \in Configs |-> pushed[c] \ {r}]
  /\ isPushed' = isPushed \ {r}
  /\ cover' = [cover EXCEPT ![r] = "none"]
  /\ UNCHANGED <<pushers, turn, history, budgets>>

-----------------------------------------------------------------------------
Scheduler == Tick \/ VisitDue \/ VisitNotDue \/ Step("scheduler")

World == \E r \in Resources : \/ LinkDies(r) \/ CoverSettles(r) \/ CoverRequeued(r)
                              \/ DeleteResource(r)

Next == \/ Scheduler
        \/ \E p \in Callers : Trigger(p) \/ Step(p)
        \/ \E p \in Pushers : Abort(p)
        \/ Crash
        \/ Extract
        \/ World

Spec == Init /\ [][Next]_vars

\* The tokio timer drives the scheduler; the interval of a configuration has
\* passed in one tick or another; a request repeated for ever is accepted; the
\* forward queue settles its rows.  No caller is bound to trigger anything.
SelectFor(c) == turn = c /\ Select("scheduler", c, BatchSize)
Accepted == at["scheduler"] = "send" /\ Send("scheduler") /\ received' # received

Fairness == /\ WF_vars(Scheduler)
            /\ \A c \in Configs : SF_vars(SelectFor(c))
            /\ SF_vars(Accepted)
            /\ \A r \in Resources : WF_vars(CoverSettles(r))

FairSpec == Spec /\ Fairness

-----------------------------------------------------------------------------
(* Properties *)

One(b) == IF b THEN 1 ELSE 0

InFlight(c, r) == \E p \in Pushers : /\ at[p] \in {"mark", "insert"}
                                     /\ conf[p] = c /\ r \in batch[p]

\* A configuration whose pushes never overlapped receives a resource again
\* only when the record of an earlier push was lost: every acceptance is the
\* one recorded, the one about to be, or a lost one.
PushesAccounted ==
  \A c \in Configs \ overlapped, r \in Resources :
    Exists(r) => received[c][r] = lost[c][r] + One(r \in pushed[c]) + One(InFlight(c, r))

Pushable(r) == Exists(r) /\ link[r] # "dead" /\ ~Empty(r)

\* "the remaining ones wait for the next push": a resource that stays pushable
\* reaches every configuration.  It does as long as fewer resources than fill
\* a batch can never be pushed.
RemainingPushed ==
  \A c \in Configs, r \in Resources :
    Pushable(r) ~> received[c][r] > 0 \/ ~Pushable(r)

=============================================================================
