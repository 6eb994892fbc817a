--------------------------- MODULE CrawlerSchedule ---------------------------
(***************************************************************************)
(* The crawler's scheduler (src/src/services/crawler/scheduler.rs), the    *)
(* run of a task by its engine (crawler/engine.rs, run_task) and the       *)
(* administration of tasks (handlers/crawler.rs).                          *)
(*                                                                         *)
(* A tick reads the due tasks, marks each in the set of running tasks,     *)
(* looks for a running row in crawler_run_histories and spawns a run that  *)
(* waits for one of the tick's permits.  A manual run looks for the row    *)
(* only.  A run inserts its own running row when it begins, crawls, ends   *)
(* the row, and gives the task its next time.  What a run crawls is left   *)
(* out but for its verdict.                                                *)
(***************************************************************************)
EXTENDS Naturals, FiniteSets

CONSTANTS Tasks,
          NoTask,
          Slots,        \* bound: runs alive at once
          Limit,        \* crawler_global_concurrency
          MaxFailures,  \* max_consecutive_failures of every task
          MaxEvents     \* bound: manual runs and edits, SQL errors and failed
                        \* loads, panics of a run and crashes of the process

ASSUME TasksAssumption == NoTask \notin Tasks /\ IsFiniteSet(Slots)
ASSUME LimitAssumption == {Limit, MaxFailures} \subseteq Nat \ {0}
ASSUME BoundAssumption == MaxEvents \in Nat

Ticks == 1..(Cardinality(Slots) + 1)

VARIABLES
  \* crawler_tasks
  present, enabled, status,
  failures,     \* consecutive_failures, up to where one more blocks the task
  due,          \* next_run_at is NULL or in the past
  running,      \* crawler_run_histories: the running rows of each task
  \* the scheduler: its set of running tasks, the due tasks it has yet to
  \* visit, the one it has just marked, and its semaphore (0: between two ticks)
  marked, todo, checking, tick,
  \* runs: the statement each is at, its task, its tick (0: manual), whether it
  \* has a running row, and its verdict
  at, task, of, row, bad,
  draft,        \* update_task: the row it read, as a set of at most one
  \* what befell a task: running rows nobody will end, a panic of its run
  leaked, panicked,
  events

table     == <<present, enabled, status, failures, due>>
scheduler == <<marked, todo, checking, tick>>
runs      == <<at, task, of, row, bad>>
history   == <<leaked, panicked>>
vars      == <<table, running, scheduler, runs, draft, history, events>>

Drafts == [task : Tasks, enabled : BOOLEAN, status : {"active", "paused", "auto_blocked"}]

TypeOK ==
  /\ present \in [Tasks -> BOOLEAN] /\ enabled \in [Tasks -> BOOLEAN]
  /\ status \in [Tasks -> {"active", "paused", "auto_blocked"}]
  /\ failures \in [Tasks -> 0..(MaxFailures - 1)]
  /\ due \in [Tasks -> BOOLEAN]
  /\ running \in [Tasks -> Nat] /\ leaked \in [Tasks -> Nat]
  /\ marked \subseteq Tasks /\ panicked \subseteq Tasks /\ todo \subseteq Tasks
  /\ checking \in Tasks \cup {NoTask}
  /\ tick \in Ticks \cup {0}
  /\ at \in [Slots -> {"off", "permit", "begin", "crawl", "finish", "schedule", "unmark"}]
  /\ task \in [Slots -> Tasks \cup {NoTask}]
  /\ of \in [Slots -> Ticks \cup {0}]
  /\ row \in [Slots -> BOOLEAN] /\ bad \in [Slots -> BOOLEAN]
  /\ draft \subseteq Drafts /\ Cardinality(draft) <= 1
  /\ events \in 0..MaxEvents

-----------------------------------------------------------------------------
(* Helpers *)

Event == events < MaxEvents /\ events' = events + 1

Inc(f, t) == [f EXCEPT ![t] = @ + 1]

\* One more failure reaches max_consecutive_failures.
Blocks(t) == failures[t] + 1 >= MaxFailures

\* fetch_due_tasks
Due(t) == present[t] /\ enabled[t] /\ status[t] = "active" /\ due[t]

\* The runs that hold a permit of the semaphore of tick k.
Holders(k) == {s \in Slots : of[s] = k /\ at[s] \in {"begin", "crawl", "finish", "schedule"}}

\* is_task_running: an error of the SELECT reads as no.
Refused(t) == running[t] > 0

\* The tick ends with its last task, and with it its hold on the semaphore.
TickGoesOn == tick' = IF todo' = {} /\ checking' = NoTask THEN 0 ELSE tick

\* tokio::spawn of a run, with a tick or by hand.
Spawn(t, k) ==
  /\ \E s \in Slots : at[s] = "off"
  /\ LET s == CHOOSE x \in Slots : at[x] = "off" IN
       /\ at' = [at EXCEPT ![s] = IF k = 0 THEN "begin" ELSE "permit"]
       /\ task' = [task EXCEPT ![s] = t]
       /\ of' = [of EXCEPT ![s] = k]
  /\ UNCHANGED <<row, bad>>

Goto(s, pc) == at' = [at EXCEPT ![s] = pc] /\ UNCHANGED <<task, of>>

\* The slot is free again.
Exit(s) == /\ at' = [at EXCEPT ![s] = "off"]
           /\ task' = [task EXCEPT ![s] = NoTask]
           /\ of' = [of EXCEPT ![s] = 0]
           /\ row' = [row EXCEPT ![s] = FALSE]
           /\ bad' = [bad EXCEPT ![s] = FALSE]

\* run_task returns: a scheduled run still has its mark to remove.
Return(s) ==
  IF of[s] = 0
  THEN Exit(s)
  ELSE Goto(s, "unmark") /\ bad' = [bad EXCEPT ![s] = FALSE] /\ UNCHANGED row

\* create_task: active whether it is enabled or not, and due when enabled; or
\* paused since.
Init ==
  /\ present = [t \in Tasks |-> TRUE]
  /\ enabled \in [Tasks -> BOOLEAN]
  /\ status \in [Tasks -> {"active", "paused"}]
  /\ \A t \in Tasks : enabled[t] => status[t] = "active"
  /\ failures = [t \in Tasks |-> 0]
  /\ due = [t \in Tasks |-> TRUE]
  /\ running = [t \in Tasks |-> 0]
  /\ marked = {} /\ todo = {} /\ checking = NoTask /\ tick = 0
  /\ at = [s \in Slots |-> "off"]
  /\ task = [s \in Slots |-> NoTask]
  /\ of = [s \in Slots |-> 0]
  /\ row = [s \in Slots |-> FALSE]
  /\ bad = [s \in Slots |-> FALSE]
  /\ draft = {}
  /\ leaked = [t \in Tasks |-> 0]
  /\ panicked = {}
  /\ events = 0

-----------------------------------------------------------------------------
(* The tick                                                                *)

\* fetch_due_tasks, and a new semaphore for those it finds.
Scan ==
  /\ todo = {} /\ checking = NoTask
  /\ \E t \in Tasks : Due(t)
  /\ todo' = {t \in Tasks : Due(t)}
  /\ tick' = CHOOSE k \in Ticks : \A s \in Slots : of[s] # k
  /\ UNCHANGED <<table, running, marked, checking, runs, draft, history, events>>

\* A task that is in the set is skipped, any other one is added to it.
Mark ==
  /\ checking = NoTask
  /\ \E t \in todo :
       /\ todo' = todo \ {t}
       /\ marked' = marked \cup {t}
       /\ checking' = IF t \in marked THEN NoTask ELSE t
  /\ TickGoesOn
  /\ UNCHANGED <<table, running, runs, draft, history, events>>

\* Mutant: the mark is removed as soon as the run is spawned.
CheckUnmarks ==
  /\ checking # NoTask
  /\ IF Refused(checking) THEN UNCHANGED runs ELSE Spawn(checking, tick)
  /\ marked' = marked \ {checking}
  /\ checking' = NoTask /\ UNCHANGED todo
  /\ TickGoesOn
  /\ UNCHANGED <<table, running, draft, history, events>>

\* Mutant: a refused task keeps its mark.
CheckForgets ==
  /\ checking # NoTask
  /\ IF Refused(checking) THEN UNCHANGED runs ELSE Spawn(checking, tick)
  /\ checking' = NoTask /\ UNCHANGED todo
  /\ TickGoesOn
  /\ UNCHANGED <<table, running, marked, draft, history, events>>

\* is_task_running: the mark is taken back, or the run is spawned.
Check ==
  /\ checking # NoTask
  /\ \/ /\ Refused(checking)
        /\ marked' = marked \ {checking}
        /\ UNCHANGED <<runs, events>>
     \/ /\ IF Refused(checking) THEN Event ELSE UNCHANGED events
        /\ Spawn(checking, tick)
        /\ UNCHANGED marked
  /\ checking' = NoTask /\ UNCHANGED todo
  /\ TickGoesOn
  /\ UNCHANGED <<table, running, draft, history>>

-----------------------------------------------------------------------------
(* A run                                                                   *)

Acquire(s) ==
  /\ at[s] = "permit"
  /\ Cardinality(Holders(of[s])) < Limit
  /\ Goto(s, "begin")
  /\ UNCHANGED <<table, running, scheduler, row, bad, draft, history, events>>

\* load_task, which may fail and end the run, and insert_run_history, which
\* may fail, or find the task deleted meanwhile, and leave the run without a row.
Begin(s) ==
  /\ at[s] = "begin"
  /\ \/ /\ present[task[s]]
        /\ row' = [row EXCEPT ![s] = TRUE]
        /\ running' = Inc(running, task[s])
        /\ Goto(s, "crawl") /\ UNCHANGED <<bad, events>>
     \/ /\ IF present[task[s]] THEN Event ELSE UNCHANGED events
        /\ Goto(s, "crawl") /\ UNCHANGED <<running, row, bad>>
     \/ /\ IF present[task[s]] THEN Event ELSE UNCHANGED events
        /\ Return(s) /\ UNCHANGED running
  /\ UNCHANGED <<table, scheduler, draft, history>>

\* The crawl, up to its verdict: blocked or failed, or not.
Crawl(s) ==
  /\ at[s] = "crawl"
  /\ \E b \in BOOLEAN : bad' = [bad EXCEPT ![s] = b]
  /\ Goto(s, "finish")
  /\ UNCHANGED <<table, running, scheduler, row, draft, history, events>>

\* The crawl panics: its mark and its running row stay.
Panic(s) ==
  /\ at[s] = "crawl"
  /\ Event
  /\ Exit(s)
  /\ panicked' = IF of[s] = 0 THEN panicked ELSE panicked \cup {task[s]}
  /\ leaked' = IF row[s] /\ present[task[s]] THEN Inc(leaked, task[s]) ELSE leaked
  /\ UNCHANGED <<table, running, scheduler, draft>>

\* Mutant: it ends a row of the task, whether it is the run's or not.
FinishAnyRow(s) ==
  /\ at[s] = "finish"
  /\ running' = [running EXCEPT ![task[s]] = @ - 1]
  /\ row' = [row EXCEPT ![s] = FALSE]
  /\ Goto(s, "schedule")
  /\ UNCHANGED <<table, scheduler, bad, draft, history, events>>

\* update_run_history, whose error is ignored.
Finish(s) ==
  /\ at[s] = "finish"
  /\ IF row[s] /\ present[task[s]]
     THEN \/ /\ running' = [running EXCEPT ![task[s]] = @ - 1]
             /\ UNCHANGED <<leaked, events>>
          \/ Event /\ leaked' = Inc(leaked, task[s]) /\ UNCHANGED running
     ELSE UNCHANGED <<running, leaked, events>>
  /\ row' = [row EXCEPT ![s] = FALSE]
  /\ Goto(s, "schedule")
  /\ UNCHANGED <<table, scheduler, bad, draft, panicked>>

\* update_task_schedule, whose error is ignored.
Schedule(s) ==
  /\ at[s] = "schedule"
  /\ LET t == task[s] IN
       \/ /\ present[t]
          /\ due' = [due EXCEPT ![t] = FALSE]
          /\ failures' = [failures EXCEPT ![t] =
                            CASE ~bad[s] -> 0
                              [] bad[s] /\ Blocks(t) -> @
                              [] OTHER -> @ + 1]
          /\ status' = IF bad[s] /\ Blocks(t)
                       THEN [status EXCEPT ![t] = "auto_blocked"] ELSE status
          /\ UNCHANGED events
       \/ /\ IF present[t] THEN Event ELSE UNCHANGED events
          /\ UNCHANGED <<due, failures, status>>
  /\ Return(s)
  /\ UNCHANGED <<present, enabled, running, scheduler, draft, history>>

\* The permit is dropped and the mark removed.
Unmark(s) ==
  /\ at[s] = "unmark"
  /\ marked' = marked \ {task[s]}
  /\ Exit(s)
  /\ UNCHANGED <<table, running, todo, checking, tick, draft, history, events>>

Run(s) == \/ Acquire(s) \/ Begin(s) \/ Crawl(s) \/ Finish(s) \/ Schedule(s) \/ Unmark(s)

-----------------------------------------------------------------------------
(* Administration                                                          *)

\* run_task of the handler: refused while the task has a running row, unless
\* the SELECT fails, which is a second event.
ManualRun(t) ==
  /\ present[t]
  /\ events' = events + IF Refused(t) THEN 2 ELSE 1
  /\ events' <= MaxEvents
  /\ Spawn(t, 0)
  /\ UNCHANGED <<table, running, scheduler, draft, history>>

\* update_task reads the row ...
UpdateRead(t) ==
  /\ Event
  /\ draft = {} /\ present[t]
  /\ draft' = {[task |-> t, enabled |-> enabled[t], status |-> status[t]]}
  /\ UNCHANGED <<table, running, scheduler, runs, history>>

\* The next time an edit writes, as due or not: none for a disabled task; that
\* of the row it read, by now perhaps over, or one of a changed interval.
NextDue(on) == IF on THEN BOOLEAN ELSE {TRUE}

\* Writes every column of the row read by d, with enabled = on and status = st.
WriteTask(d, on, st) ==
  /\ IF present[d.task]
     THEN /\ enabled' = [enabled EXCEPT ![d.task] = on]
          /\ status' = [status EXCEPT ![d.task] = st]
          /\ \E n \in NextDue(on) : due' = [due EXCEPT ![d.task] = n]
     ELSE UNCHANGED <<enabled, status, due>>
  /\ draft' = {}
  /\ UNCHANGED <<present, failures, running, scheduler, runs, history, events>>

Aligned(on) == IF on THEN "active" ELSE "paused"

\* Mutant: the status always follows enabled.
WriteAligned(d, on) == WriteTask(d, on, Aligned(on))

\* ... and writes it: the status follows enabled only where enabled changed.
UpdateWrite(d, on) == WriteTask(d, on, IF on = d.enabled THEN d.status ELSE Aligned(on))

Toggle(t, on) ==
  /\ Event
  /\ present[t]
  /\ enabled' = [enabled EXCEPT ![t] = on]
  /\ status' = [status EXCEPT ![t] = Aligned(on)]
  /\ failures' = IF on THEN [failures EXCEPT ![t] = 0] ELSE failures
  /\ due' = [due EXCEPT ![t] = TRUE]
  /\ UNCHANGED <<present, running, scheduler, runs, draft, history>>

\* delete_task; the run histories of the task follow.  What the columns of a
\* deleted row hold says nothing.
DeleteTask(t) ==
  /\ Event
  /\ present[t]
  /\ present' = [present EXCEPT ![t] = FALSE]
  /\ running' = [running EXCEPT ![t] = 0]
  /\ leaked' = [leaked EXCEPT ![t] = 0]
  /\ enabled' = [enabled EXCEPT ![t] = FALSE]
  /\ status' = [status EXCEPT ![t] = "paused"]
  /\ failures' = [failures EXCEPT ![t] = 0]
  /\ due' = [due EXCEPT ![t] = TRUE]
  /\ UNCHANGED <<scheduler, runs, draft, panicked>>

Admin == \/ \E t \in Tasks : \/ ManualRun(t) \/ UpdateRead(t) \/ DeleteTask(t)
                             \/ \E on \in BOOLEAN : Toggle(t, on)
         \/ \E d \in draft, on \in BOOLEAN : UpdateWrite(d, on)

-----------------------------------------------------------------------------
(* The process and the clock                                               *)

\* recover_active_tasks_schedule puts off what is overdue.
Postponed == [t \in Tasks |-> due[t] /\ ~Due(t)]

\* The process dies and starts again with that, then cleanup_orphan_running
\* ends the running rows.  The error of either is ignored.
Restart ==
  /\ Event
  /\ marked' = {} /\ todo' = {} /\ checking' = NoTask /\ tick' = 0
  /\ at' = [s \in Slots |-> "off"]
  /\ task' = [s \in Slots |-> NoTask]
  /\ of' = [s \in Slots |-> 0]
  /\ row' = [s \in Slots |-> FALSE]
  /\ bad' = [s \in Slots |-> FALSE]
  /\ draft' = {}
  /\ panicked' = {}
  /\ due' \in {Postponed, due}
  /\ LET ended == [t \in Tasks |-> 0]
     IN \/ running' = ended /\ leaked' = ended
        \/ leaked' = running /\ UNCHANGED running
  /\ UNCHANGED <<present, enabled, status, failures>>

\* next_run_at comes.
Time(t) ==
  /\ ~due[t]
  /\ due' = [due EXCEPT ![t] = TRUE]
  /\ UNCHANGED <<present, enabled, status, failures, running, scheduler, runs, draft,
                 history, events>>

Scheduler == Scan \/ Mark \/ Check

Next == \/ Scheduler
        \/ \E s \in Slots : Run(s) \/ Panic(s)
        \/ Admin
        \/ Restart
        \/ \E t \in Tasks : Time(t)

Spec == Init /\ [][Next]_vars

\* The scheduler's timer, the spawned runs and the clock go on; nobody is
\* bound to run or edit a task.
Fairness == /\ WF_vars(Scheduler)
            /\ \A s \in Slots : WF_vars(Run(s))
            /\ \A t \in Tasks : WF_vars(Time(t))

FairSpec == Spec /\ Fairness

-----------------------------------------------------------------------------
(* Properties *)

One(b) == IF b THEN 1 ELSE 0

\* The runs of a task, and those of them that a tick spawned.
RunsOf(t) == {s \in Slots : at[s] # "off" /\ task[s] = t}
Ticked(t) == {s \in RunsOf(t) : of[s] # 0}

\* The set of running tasks is exact: a marked task has one scheduled run, or
\* the tick is about to spawn it, or its run panicked.  So the scheduler never
\* runs a task twice at a time, and never forgets to run it again.
MarkedOnce ==
  \A t \in Tasks :
    One(t \in marked) = Cardinality(Ticked(t)) + One(checking = t) + One(t \in panicked)

\* "A block is not wiped by an edit of other fields": an edit that read the
\* block, and a run, a restart or the clock, keep it.
BlockKept ==
  [][\A t \in Tasks :
       present'[t] /\ status[t] = "auto_blocked" /\ status'[t] # "auto_blocked" =>
         \/ \E on \in BOOLEAN : Toggle(t, on)
         \/ \E d \in draft : d.task = t /\ (d.status # "auto_blocked" \/ enabled'[t] # d.enabled)]_vars

Active(t) == present[t] /\ enabled[t] /\ status[t] = "active"

\* A task that stays active is crawled again and again, unless a leaked row or
\* a panic has it refused for ever.
KeepsCrawled ==
  \A t \in Tasks :
    Active(t) ~> \/ ~Active(t) \/ t \in panicked \/ leaked[t] > 0
                 \/ \E s \in RunsOf(t) : at[s] = "crawl"

=============================================================================
