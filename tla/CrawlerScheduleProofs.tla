------------------------ MODULE CrawlerScheduleProofs ------------------------
(***************************************************************************)
(* Proofs about the crawler's schedule, for any tasks, any finite number   *)
(* of runs alive at once, any number of permits, and any number of edits,  *)
(* manual runs, faults, panics and restarts.                               *)
(*                                                                         *)
(* The inductive invariant adds that a run without a tick never waits for  *)
(* a permit or holds a mark, and that the running rows of a task are those *)
(* of its runs and the leaked ones, which is why a run can end its own.    *)
(***************************************************************************)
EXTENDS CrawlerSchedule, FiniteSetTheorems, TLAPS

\* The parts of the type invariant: the tasks, their running rows, the
\* scheduler, the runs, the edit and the bound.
TypeTable ==
  /\ present \in [Tasks -> BOOLEAN] /\ enabled \in [Tasks -> BOOLEAN]
  /\ status \in [Tasks -> {"active", "paused", "auto_blocked"}]
  /\ failures \in [Tasks -> 0..(MaxFailures - 1)]
  /\ due \in [Tasks -> BOOLEAN]

TypeRows == running \in [Tasks -> Nat] /\ leaked \in [Tasks -> Nat]

TypeScheduler ==
  /\ marked \subseteq Tasks /\ panicked \subseteq Tasks /\ todo \subseteq Tasks
  /\ checking \in Tasks \cup {NoTask}
  /\ tick \in Ticks \cup {0}

TypeRuns ==
  /\ at \in [Slots -> {"off", "permit", "begin", "crawl", "finish", "schedule", "unmark"}]
  /\ task \in [Slots -> Tasks \cup {NoTask}]
  /\ of \in [Slots -> Ticks \cup {0}]
  /\ row \in [Slots -> BOOLEAN] /\ bad \in [Slots -> BOOLEAN]

TypeDraft == draft \subseteq Drafts /\ Cardinality(draft) <= 1

TypeEvents == events \in 0..MaxEvents

\* A slot is free, or it runs a task; a manual run neither waits for a permit
\* nor has a mark to remove; only a run that crawls or has crawled has a row.
RunInv ==
  \A s \in Slots :
    /\ at[s] = "off" <=> task[s] = NoTask
    /\ at[s] = "off" => of[s] = 0
    /\ at[s] \in {"permit", "unmark"} => of[s] # 0
    /\ row[s] => at[s] \in {"crawl", "finish"}

\* A tick that has tasks to visit is not over.
TickInv == todo # {} \/ checking # NoTask => tick # 0

\* The runs of a task that have a running row.
WithRow(t) == {s \in Slots : row[s] /\ task[s] = t}

\* The running rows of a task are those of its runs and the leaked ones.
RowsInv == \A t \in Tasks : present[t] => running[t] = leaked[t] + Cardinality(WithRow(t))

IInv == /\ TypeTable /\ TypeRows /\ TypeScheduler /\ TypeRuns /\ TypeDraft /\ TypeEvents
        /\ RunInv /\ TickInv /\ RowsInv /\ MarkedOnce

-----------------------------------------------------------------------------
(* What the operators of the model return *)

\* Together the parts are the type invariant.
LEMMA TypeParts ==
  TypeOK <=> TypeTable /\ TypeRows /\ TypeScheduler /\ TypeRuns /\ TypeDraft /\ TypeEvents
BY DEF TypeOK, TypeTable, TypeRows, TypeScheduler, TypeRuns, TypeDraft,
     TypeEvents

\* The constants that are numbers.
LEMMA NumberFact ==
  /\ MaxFailures \in Nat /\ MaxFailures > 0 /\ MaxEvents \in Nat
  /\ Ticks \subseteq Nat \ {0} /\ 0 \notin Ticks
BY LimitAssumption, BoundAssumption DEF Ticks

\* There are more ticks than slots: a new one has a semaphore of its own.
LEMMA FreeTick ==
  ASSUME TypeRuns
  PROVE  \E k \in Ticks : \A s \in Slots : of[s] # k
<1> DEFINE used == {of[s] : s \in Slots}
<1>1. IsFiniteSet(Slots) /\ Cardinality(Slots) \in Nat
  BY TasksAssumption, FS_CardinalityType
<1>2. IsFiniteSet(used) /\ Cardinality(used) <= Cardinality(Slots)
  <2>1. of \in Surjection(Slots, used)
    BY DEF TypeRuns, Surjection
  <2> QED
    BY <1>1, <2>1, FS_Surjection
<1>3. Cardinality(Ticks) = Cardinality(Slots) + 1
  BY <1>1, FS_Interval DEF Ticks
<1>4. ~ (Ticks \subseteq used)
  BY <1>1, <1>2, <1>3, FS_Subset, FS_CardinalityType
<1> QED
  BY <1>4

\* The runs of a task can be counted.
LEMMA CountFact ==
  ASSUME NEW t
  PROVE  /\ IsFiniteSet(Ticked(t)) /\ Cardinality(Ticked(t)) \in Nat
         /\ IsFiniteSet(WithRow(t)) /\ Cardinality(WithRow(t)) \in Nat
<1>1. Ticked(t) \in SUBSET Slots /\ WithRow(t) \in SUBSET Slots
  BY DEF Ticked, RunsOf, WithRow
<1> QED
  BY <1>1, TasksAssumption, FS_Subset, FS_CardinalityType

\* One more, and one less.
LEMMA AddFact ==
  ASSUME NEW S, IsFiniteSet(S), NEW x
  PROVE  /\ x \in S => S \cup {x} = S
         /\ x \notin S => Cardinality(S \cup {x}) = Cardinality(S) + 1
         /\ x \in S => Cardinality(S \ {x}) = Cardinality(S) - 1
         /\ x \notin S => S \ {x} = S
BY FS_AddElement, FS_RemoveElement

\* What a run that is counted no more takes from a count.
LEMMA DropFact ==
  ASSUME NEW S, IsFiniteSet(S), NEW x
  PROVE  Cardinality(S \ {x}) = Cardinality(S) - One(x \in S)
<1>1. CASE x \in S
  BY <1>1, AddFact DEF One
<1>2. CASE x \notin S
  BY <1>2, AddFact, FS_CardinalityType DEF One
<1> QED
  BY <1>1, <1>2

\* A spawned run takes a free slot.
LEMMA SpawnFact ==
  ASSUME NEW t, NEW k, Spawn(t, k)
  PROVE  \E s \in Slots :
           /\ at[s] = "off"
           /\ at' = [at EXCEPT ![s] = IF k = 0 THEN "begin" ELSE "permit"]
           /\ task' = [task EXCEPT ![s] = t]
           /\ of' = [of EXCEPT ![s] = k]
           /\ row' = row /\ bad' = bad
BY DEF Spawn

\* A spawned run of a tick is one more of its task, one by hand is not; it has
\* no row.
LEMMA SpawnKeeps ==
  ASSUME TypeRuns, RunInv, NEW t \in Tasks, NEW k \in Ticks \cup {0}, Spawn(t, k)
  PROVE  /\ TypeRuns' /\ RunInv'
         /\ \A u \in Tasks : WithRow(u)' = WithRow(u)
         /\ \A u \in Tasks : Cardinality(Ticked(u)') =
                               Cardinality(Ticked(u)) + One(u = t /\ k # 0)
<1>1. PICK s \in Slots :
        /\ at[s] = "off"
        /\ at' = [at EXCEPT ![s] = IF k = 0 THEN "begin" ELSE "permit"]
        /\ task' = [task EXCEPT ![s] = t]
        /\ of' = [of EXCEPT ![s] = k]
        /\ row' = row /\ bad' = bad
  BY SpawnFact
<1>2. TypeRuns'
  BY <1>1 DEF TypeRuns
<1>3. RunInv'
  BY <1>1, TasksAssumption DEF TypeRuns, RunInv
<1>4. \A u \in Tasks : WithRow(u)' = WithRow(u)
  BY <1>1 DEF RunInv, WithRow
<1>5. ASSUME NEW u \in Tasks
      PROVE  Cardinality(Ticked(u)') = Cardinality(Ticked(u)) + One(u = t /\ k # 0)
  <2>1. Ticked(u)' = IF u = t /\ k # 0 THEN Ticked(u) \cup {s} ELSE Ticked(u)
    BY <1>1 DEF TypeRuns, Ticked, RunsOf
  <2>2. s \notin Ticked(u)
    BY <1>1 DEF Ticked, RunsOf
  <2>3. CASE u = t /\ k # 0
    BY <2>1, <2>2, <2>3, CountFact, AddFact DEF One
  <2>4. CASE ~(u = t /\ k # 0)
    BY <2>1, <2>4, CountFact DEF One
  <2> QED
    BY <2>3, <2>4
<1> QED
  BY <1>2, <1>3, <1>4, <1>5

\* A run that goes on is counted as before.
LEMMA GotoFact ==
  ASSUME TypeRuns, NEW s \in Slots, NEW pc, at[s] # "off", pc # "off", Goto(s, pc)
  PROVE  \A t \in Tasks : Ticked(t)' = Ticked(t)
BY DEF Goto, Ticked, RunsOf

\* A run that exits is counted no more, neither as a run nor for its row.
LEMMA ExitFact ==
  ASSUME TypeRuns, RunInv, NEW s \in Slots, Exit(s)
  PROVE  /\ TypeRuns' /\ RunInv'
         /\ \A t \in Tasks : Ticked(t)' = Ticked(t) \ {s} /\ WithRow(t)' = WithRow(t) \ {s}
<1>1. TypeRuns'
  BY DEF TypeRuns, Exit
<1>2. RunInv'
  BY DEF TypeRuns, RunInv, Exit
<1>3. \A t \in Tasks : Ticked(t)' = Ticked(t) \ {s} /\ WithRow(t)' = WithRow(t) \ {s}
  BY DEF TypeRuns, Exit, Ticked, RunsOf, WithRow
<1> QED
  BY <1>1, <1>2, <1>3

\* A run without a row that returns leaves the counts as they are.
LEMMA ReturnFact ==
  ASSUME TypeRuns, RunInv, NEW s \in Slots, at[s] # "off", ~row[s], Return(s)
  PROVE  /\ TypeRuns' /\ RunInv'
         /\ \A t \in Tasks : Ticked(t)' = Ticked(t) /\ WithRow(t)' = WithRow(t)
<1>1. CASE of[s] = 0
  <2>1. \A t \in Tasks : s \notin Ticked(t) /\ s \notin WithRow(t)
    BY <1>1 DEF Ticked, WithRow
  <2>2. Exit(s)
    BY <1>1 DEF Return
  <2>3. /\ TypeRuns' /\ RunInv'
        /\ \A t \in Tasks : Ticked(t)' = Ticked(t) \ {s} /\ WithRow(t)' = WithRow(t) \ {s}
    BY <2>2, ExitFact
  <2> QED
    BY <2>1, <2>3
<1>2. CASE of[s] # 0
  <2>1. /\ TypeRuns' /\ RunInv'
        /\ \A t \in Tasks : WithRow(t)' = WithRow(t)
    BY <1>2 DEF Return, Goto, TypeRuns, RunInv, WithRow
  <2>2. \A t \in Tasks : Ticked(t)' = Ticked(t)
    BY <1>2, GotoFact DEF Return
  <2> QED
    BY <2>1, <2>2
<1> QED
  BY <1>1, <1>2

\* The marks stay exact where nothing of the marks and the runs changes.
LEMMA MarksStay ==
  ASSUME MarkedOnce, UNCHANGED <<marked, checking, panicked>>,
         \A t \in Tasks : Ticked(t)' = Ticked(t)
  PROVE  MarkedOnce'
BY DEF MarkedOnce

\* The rows stay accounted for where nothing of them changes.
LEMMA RowsStay ==
  ASSUME RowsInv, UNCHANGED <<present, running, leaked>>,
         \A t \in Tasks : WithRow(t)' = WithRow(t)
  PROVE  RowsInv'
BY DEF RowsInv

\* Runs that stay where they are are counted as before.
LEMMA RunsStay ==
  ASSUME UNCHANGED <<at, task, of, row>>
  PROVE  \A t : Ticked(t)' = Ticked(t) /\ WithRow(t)' = WithRow(t)
BY DEF Ticked, RunsOf, WithRow

-----------------------------------------------------------------------------
(* Each action preserves the invariant *)

\* The initial states.
LEMMA InitHolds == Init => IInv
<1> SUFFICES ASSUME Init PROVE IInv
  OBVIOUS
<1>1. TypeTable /\ TypeRows /\ TypeScheduler /\ TypeRuns /\ TypeEvents
  BY NumberFact DEF Init, TypeTable, TypeRows, TypeScheduler, TypeRuns,
       TypeEvents
<1>2. TypeDraft
  BY FS_EmptySet DEF Init, TypeDraft
<1>3. RunInv /\ TickInv
  BY DEF Init, RunInv, TickInv
<1>4. \A t \in Tasks : Ticked(t) = {} /\ WithRow(t) = {}
  BY DEF Init, Ticked, RunsOf, WithRow
<1>5. RowsInv
  BY <1>4, FS_EmptySet DEF Init, RowsInv
<1>6. MarkedOnce
  BY <1>4, FS_EmptySet, TasksAssumption DEF Init, MarkedOnce, One
<1> QED
  BY <1>1, <1>2, <1>3, <1>5, <1>6 DEF IInv

\* A tick begins with the due tasks and a semaphore nobody holds.
LEMMA KeepScan ==
  ASSUME IInv, Scan
  PROVE  IInv'
<1>1. UNCHANGED <<present, enabled, status, failures, due, running, marked,
                  checking, at, task, of, row, bad, draft, leaked, panicked,
                  events>>
  BY DEF Scan, table, runs, history
<1>2. TypeScheduler'
  <2>1. todo' \subseteq Tasks /\ tick' \in Ticks
    BY FreeTick DEF Scan, IInv
  <2> QED
    BY <1>1, <2>1 DEF IInv, TypeScheduler
<1>3. TickInv'
  BY FreeTick, NumberFact DEF Scan, IInv, TickInv
<1>4. RowsInv'
  BY <1>1, RunsStay, RowsStay DEF IInv
<1>5. MarkedOnce'
  BY <1>1, RunsStay, MarksStay DEF IInv
<1>6. /\ TypeTable' /\ TypeRows' /\ TypeRuns' /\ TypeDraft' /\ TypeEvents'
      /\ RunInv'
  BY <1>1 DEF IInv, TypeTable, TypeRows, TypeRuns, TypeDraft, TypeEvents, RunInv
<1> QED
  BY <1>2, <1>3, <1>4, <1>5, <1>6 DEF IInv

\* A task that is not marked is marked, and to be checked.
LEMMA KeepMark ==
  ASSUME IInv, Mark
  PROVE  IInv'
<1>1. UNCHANGED <<present, enabled, status, failures, due, running, at, task,
                  of, row, bad, draft, leaked, panicked, events>>
  BY DEF Mark, table, runs, history
<1>2. TypeScheduler'
  BY <1>1 DEF IInv, TypeScheduler, Mark, TickGoesOn
<1>3. TickInv'
  BY <1>1 DEF IInv, TickInv, Mark, TickGoesOn
<1>4. RowsInv'
  BY <1>1, RunsStay, RowsStay DEF IInv
<1>5. MarkedOnce'
  BY <1>1, RunsStay, CountFact, TasksAssumption DEF Mark, IInv, MarkedOnce, One
<1>6. /\ TypeTable' /\ TypeRows' /\ TypeRuns' /\ TypeDraft' /\ TypeEvents'
      /\ RunInv'
  BY <1>1 DEF IInv, TypeTable, TypeRows, TypeRuns, TypeDraft, TypeEvents, RunInv
<1> QED
  BY <1>2, <1>3, <1>4, <1>5, <1>6 DEF IInv

\* A marked task is spawned, or loses its mark.
LEMMA KeepCheck ==
  ASSUME IInv, Check
  PROVE  IInv'
<1>1. UNCHANGED <<present, enabled, status, failures, due, running, draft,
                  leaked, panicked>>
  BY DEF Check, table, history
<1>2. TypeScheduler'
  BY <1>1 DEF IInv, TypeScheduler, Check, TickGoesOn
<1>3. TypeRuns' /\ RunInv' /\ RowsInv' /\ MarkedOnce'
  <2>0. checking \in Tasks /\ tick \in Ticks
    BY DEF Check, IInv, TypeScheduler, TickInv
  <2>1. CASE Refused(checking) /\ marked' = marked \ {checking} /\ UNCHANGED runs
    <3>1. UNCHANGED <<at, task, of, row, bad>>
      BY <2>1 DEF runs
    <3>2. TypeRuns' /\ RunInv'
      BY <3>1 DEF IInv, TypeRuns, RunInv
    <3>3. RowsInv'
      BY <1>1, <3>1, RunsStay, RowsStay DEF IInv
    <3>4. MarkedOnce'
      BY <1>1, <2>0, <2>1, <3>1, RunsStay, CountFact, TasksAssumption DEF Check,
           IInv, MarkedOnce, One
    <3> QED
      BY <3>2, <3>3, <3>4
  <2>2. CASE Spawn(checking, tick) /\ UNCHANGED marked
    <3>1. /\ TypeRuns' /\ RunInv'
          /\ \A u \in Tasks : WithRow(u)' = WithRow(u)
          /\ \A u \in Tasks : Cardinality(Ticked(u)') = Cardinality(Ticked(u)) + One(u = checking)
      BY <2>0, <2>2, SpawnKeeps, NumberFact DEF IInv
    <3>2. RowsInv'
      BY <1>1, <3>1, RowsStay DEF IInv
    <3>3. MarkedOnce'
      BY <1>1, <2>0, <2>2, <3>1, CountFact, TasksAssumption DEF Check, IInv,
           MarkedOnce, One
    <3> QED
      BY <3>1, <3>2, <3>3
  <2> QED
    BY <2>1, <2>2 DEF Check
<1>4. TypeDraft'
  BY <1>1 DEF IInv, TypeDraft
<1>5. TypeEvents'
  BY <1>1, NumberFact DEF IInv, TypeEvents, Check, Event
<1>6. TickInv'
  BY <1>1 DEF IInv, TickInv, Check, TickGoesOn
<1>7. TypeTable' /\ TypeRows'
  BY <1>1 DEF IInv, TypeTable, TypeRows
<1> QED
  BY <1>2, <1>3, <1>4, <1>5, <1>6, <1>7 DEF IInv

\* A run takes a permit.
LEMMA KeepAcquire ==
  ASSUME IInv, NEW s \in Slots, Acquire(s)
  PROVE  IInv'
<1>1. UNCHANGED <<present, enabled, status, failures, due, running, marked,
                  todo, checking, tick, row, bad, draft, leaked, panicked,
                  events>>
  BY DEF Acquire, table, scheduler, history
<1>2. TypeRuns'
  BY <1>1 DEF IInv, TypeRuns, Acquire, Goto
<1>3. TypeDraft'
  BY <1>1 DEF IInv, TypeDraft
<1>4. RunInv'
  BY <1>1 DEF IInv, RunInv, Acquire, Goto
<1>5. RowsInv'
  BY <1>1, RowsStay DEF Acquire, Goto, IInv, WithRow
<1>6. MarkedOnce'
  BY <1>1, GotoFact, MarksStay DEF Acquire, IInv
<1>7. TypeTable' /\ TypeRows' /\ TypeScheduler' /\ TypeEvents' /\ TickInv'
  BY <1>1 DEF IInv, TypeTable, TypeRows, TypeScheduler, TypeEvents, TickInv
<1> QED
  BY <1>2, <1>3, <1>4, <1>5, <1>6, <1>7 DEF IInv

\* A run begins with a row of its own or without, or it returns.
LEMMA KeepBegin ==
  ASSUME IInv, NEW s \in Slots, Begin(s)
  PROVE  IInv'
<1>1. UNCHANGED <<present, enabled, status, failures, due, marked, todo,
                  checking, tick, draft, leaked, panicked>>
  BY DEF Begin, table, scheduler, history
<1>2. TypeRows' /\ TypeRuns' /\ RunInv' /\ RowsInv' /\ MarkedOnce'
  <2>0. ~row[s] /\ task[s] \in Tasks
    BY DEF Begin, IInv, TypeRuns, RunInv
  <2>1. CASE /\ present[task[s]]
             /\ row' = [row EXCEPT ![s] = TRUE]
             /\ running' = Inc(running, task[s])
             /\ Goto(s, "crawl") /\ UNCHANGED bad
    <3>0. TypeRows'
      BY <1>1, <2>0, <2>1 DEF Inc, IInv, TypeRows
    <3>1. TypeRuns' /\ RunInv'
      BY <2>1 DEF Begin, Goto, IInv, TypeRuns, RunInv
    <3>2. MarkedOnce'
      BY <1>1, <2>1, GotoFact, MarksStay DEF Begin, IInv
    <3>3. ASSUME NEW t \in Tasks, present'[t]
          PROVE  running'[t] = leaked'[t] + Cardinality(WithRow(t)')
      <4>1. WithRow(t)' = IF t = task[s] THEN WithRow(t) \cup {s} ELSE WithRow(t)
        BY <2>1 DEF Goto, IInv, TypeRuns, WithRow
      <4>2. s \notin WithRow(t)
        BY <2>0 DEF WithRow
      <4>3. Cardinality(WithRow(t)') = Cardinality(WithRow(t)) + One(t = task[s])
        <5>1. CASE t = task[s]
          BY <4>1, <4>2, <5>1, CountFact, AddFact DEF One
        <5>2. CASE t # task[s]
          BY <4>1, <5>2, CountFact DEF One
        <5> QED
          BY <5>1, <5>2
      <4>4. running'[t] = running[t] + One(t = task[s])
        BY <2>1 DEF Inc, IInv, TypeRows, One
      <4> QED
        BY <1>1, <3>3, <4>3, <4>4, CountFact DEF IInv, RowsInv, TypeRows, One
    <3> QED
      BY <3>0, <3>1, <3>2, <3>3 DEF RowsInv
  <2>2. CASE Goto(s, "crawl") /\ UNCHANGED <<running, row, bad>>
    <3>0. TypeRows'
      BY <1>1, <2>2 DEF IInv, TypeRows
    <3>1. TypeRuns' /\ RunInv'
      BY <2>0, <2>2 DEF Begin, Goto, IInv, TypeRuns, RunInv
    <3>2. MarkedOnce'
      BY <1>1, <2>2, GotoFact, MarksStay DEF Begin, IInv
    <3>3. RowsInv'
      BY <1>1, <2>2, RowsStay DEF Goto, IInv, WithRow
    <3> QED
      BY <3>0, <3>1, <3>2, <3>3
  <2>3. CASE Return(s) /\ UNCHANGED running
    <3>1. /\ TypeRuns' /\ RunInv'
          /\ \A t \in Tasks : Ticked(t)' = Ticked(t) /\ WithRow(t)' = WithRow(t)
      BY <2>0, <2>3, ReturnFact DEF Begin, IInv
    <3>2. TypeRows'
      BY <1>1, <2>3 DEF IInv, TypeRows
    <3> QED
      BY <1>1, <2>3, <3>1, <3>2, MarksStay, RowsStay DEF IInv
  <2> QED
    BY <2>1, <2>2, <2>3 DEF Begin
<1>3. TypeDraft'
  BY <1>1 DEF IInv, TypeDraft
<1>4. TypeEvents'
  BY <1>1, NumberFact DEF IInv, TypeEvents, Begin, Event
<1>5. TypeTable' /\ TypeScheduler' /\ TickInv'
  BY <1>1 DEF IInv, TypeTable, TypeScheduler, TickInv
<1> QED
  BY <1>2, <1>3, <1>4, <1>5 DEF IInv

\* A run crawls.
LEMMA KeepCrawl ==
  ASSUME IInv, NEW s \in Slots, Crawl(s)
  PROVE  IInv'
<1>1. UNCHANGED <<present, enabled, status, failures, due, running, marked,
                  todo, checking, tick, row, draft, leaked, panicked, events>>
  BY DEF Crawl, table, scheduler, history
<1>2. TypeRuns'
  BY <1>1 DEF IInv, TypeRuns, Crawl, Goto
<1>3. TypeDraft'
  BY <1>1 DEF IInv, TypeDraft
<1>4. RunInv'
  BY <1>1 DEF IInv, RunInv, Crawl, Goto
<1>5. RowsInv'
  BY <1>1, RowsStay DEF Crawl, Goto, IInv, WithRow
<1>6. MarkedOnce'
  BY <1>1, GotoFact, MarksStay DEF Crawl, IInv
<1>7. TypeTable' /\ TypeRows' /\ TypeScheduler' /\ TypeEvents' /\ TickInv'
  BY <1>1 DEF IInv, TypeTable, TypeRows, TypeScheduler, TypeEvents, TickInv
<1> QED
  BY <1>2, <1>3, <1>4, <1>5, <1>6, <1>7 DEF IInv

\* A run panics: its mark and its row stay.
LEMMA KeepPanic ==
  ASSUME IInv, NEW s \in Slots, Panic(s)
  PROVE  IInv'
<1>1. UNCHANGED <<present, enabled, status, failures, due, running, marked,
                  todo, checking, tick, draft>>
  BY DEF Panic, table, scheduler
<1>2. TypeRows'
  <2>1. leaked' = leaked \/ leaked' = [leaked EXCEPT ![task[s]] = @ + 1]
    BY DEF Panic, Inc
  <2> QED
    BY <1>1, <2>1 DEF IInv, TypeRows
<1>3. TypeScheduler'
  BY <1>1 DEF IInv, TypeScheduler, TypeRuns, RunInv, Panic
<1>4. TypeRuns' /\ RunInv' /\ RowsInv' /\ MarkedOnce'
  <2>0. task[s] \in Tasks /\ at[s] # "off"
    BY DEF Panic, IInv, TypeRuns, RunInv
  <2>1. /\ TypeRuns' /\ RunInv'
        /\ \A t \in Tasks : Ticked(t)' = Ticked(t) \ {s} /\ WithRow(t)' = WithRow(t) \ {s}
    BY ExitFact DEF Panic, IInv
  <2>2. ASSUME NEW t \in Tasks, present'[t]
        PROVE  running'[t] = leaked'[t] + Cardinality(WithRow(t)')
    <3>1. leaked'[t] = leaked[t] + One(row[s] /\ t = task[s])
      BY <1>1, <2>2 DEF Panic, Inc, IInv, TypeRows, One
    <3>2. Cardinality(WithRow(t)') = Cardinality(WithRow(t)) - One(row[s] /\ t = task[s])
      <4>1. s \in WithRow(t) <=> row[s] /\ t = task[s]
        BY DEF WithRow
      <4> QED
        BY <2>1, <4>1, CountFact, DropFact
    <3> QED
      BY <1>1, <2>2, <3>1, <3>2, CountFact DEF IInv, RowsInv, TypeRows, One
  <2>3. ASSUME NEW t \in Tasks
        PROVE  One(t \in marked') = Cardinality(Ticked(t)') + One(checking' = t) + One(t \in panicked')
    <3>1. Cardinality(Ticked(t)') = Cardinality(Ticked(t)) - One(of[s] # 0 /\ t = task[s])
      <4>1. s \in Ticked(t) <=> of[s] # 0 /\ t = task[s]
        BY <2>0 DEF Ticked, RunsOf
      <4> QED
        BY <2>1, <4>1, CountFact, DropFact
    <3>2. t \in panicked' <=> t \in panicked \/ (of[s] # 0 /\ t = task[s])
      BY DEF Panic
    <3>3. One(t \in marked) = Cardinality(Ticked(t)) + One(checking = t) + One(t \in panicked)
      BY DEF IInv, MarkedOnce
    <3>4. of[s] # 0 /\ t = task[s] => Cardinality(Ticked(t)) > 0
      <4>1. of[s] # 0 /\ t = task[s] => s \in Ticked(t)
        BY <2>0 DEF Ticked, RunsOf
      <4> QED
        BY <4>1, CountFact, FS_EmptySet
    <3> QED
      BY <1>1, <3>1, <3>2, <3>3, <3>4, CountFact DEF One
  <2> QED
    BY <2>1, <2>2, <2>3 DEF RowsInv, MarkedOnce
<1>5. TypeDraft'
  BY <1>1 DEF IInv, TypeDraft
<1>6. TypeEvents'
  BY <1>1, NumberFact DEF IInv, TypeEvents, Panic, Event
<1>7. TypeTable' /\ TickInv'
  BY <1>1 DEF IInv, TypeTable, TickInv
<1> QED
  BY <1>2, <1>3, <1>4, <1>5, <1>6, <1>7 DEF IInv

\* A run ends its row, or leaves it behind.
LEMMA KeepFinish ==
  ASSUME IInv, NEW s \in Slots, Finish(s)
  PROVE  IInv'
<1>1. UNCHANGED <<present, enabled, status, failures, due, marked, todo,
                  checking, tick, bad, draft, panicked>>
  BY DEF Finish, table, scheduler
<1>2. TypeRows'
  <2>1. row[s] /\ present[task[s]] => running[task[s]] > 0
    <3>1. row[s] => s \in WithRow(task[s]) /\ task[s] \in Tasks
      BY DEF WithRow, IInv, TypeRuns, RunInv
    <3>2. row[s] => Cardinality(WithRow(task[s])) > 0
      BY <3>1, CountFact, FS_EmptySet
    <3> QED
      BY <3>1, <3>2, CountFact DEF IInv, RowsInv, TypeRows
  <2> QED
    BY <2>1 DEF Finish, Inc, IInv, TypeRows
<1>3. TypeRuns'
  BY <1>1 DEF IInv, TypeRuns, Finish, Goto
<1>4. TypeDraft'
  BY <1>1 DEF IInv, TypeDraft
<1>5. TypeEvents'
  BY <1>1, NumberFact DEF IInv, TypeEvents, Finish, Event
<1>6. RunInv'
  BY <1>1 DEF IInv, TypeRuns, RunInv, Finish, Goto
<1>7. RowsInv'
  <2> SUFFICES ASSUME NEW t \in Tasks, present'[t]
               PROVE  running'[t] = leaked'[t] + Cardinality(WithRow(t)')
    BY DEF RowsInv
  <2>1. WithRow(t)' = WithRow(t) \ {s}
    BY DEF Finish, Goto, IInv, TypeRuns, WithRow
  <2>2. Cardinality(WithRow(t)') = Cardinality(WithRow(t)) - One(row[s] /\ t = task[s])
    <3>1. s \in WithRow(t) <=> row[s] /\ t = task[s]
      BY DEF WithRow
    <3> QED
      BY <2>1, <3>1, CountFact, DropFact
  <2>3. \/ /\ running'[t] = running[t] - One(row[s] /\ t = task[s])
           /\ leaked' = leaked
        \/ /\ leaked'[t] = leaked[t] + One(row[s] /\ t = task[s])
           /\ running' = running
    BY <1>1 DEF Finish, Inc, IInv, TypeRows, One
  <2> QED
    BY <1>1, <2>2, <2>3, CountFact DEF IInv, RowsInv, TypeRows, One
<1>8. MarkedOnce'
  BY <1>1, GotoFact, MarksStay DEF Finish, IInv
<1>9. TypeTable' /\ TypeScheduler' /\ TickInv'
  BY <1>1 DEF IInv, TypeTable, TypeScheduler, TickInv
<1> QED
  BY <1>2, <1>3, <1>4, <1>5, <1>6, <1>7, <1>8, <1>9 DEF IInv

\* A run gives its task the next time and returns.
LEMMA KeepSchedule ==
  ASSUME IInv, NEW s \in Slots, Schedule(s)
  PROVE  IInv'
<1>1. UNCHANGED <<present, enabled, running, marked, todo, checking, tick,
                  draft, leaked, panicked>>
  BY DEF Schedule, scheduler, history
<1>2. TypeTable'
  <2>1. due' \in [Tasks -> BOOLEAN]
    BY DEF Schedule, IInv, TypeTable
  <2>2. status' \in [Tasks -> {"active", "paused", "auto_blocked"}]
    BY DEF Schedule, IInv, TypeTable
  <2>3. failures' \in [Tasks -> 0..(MaxFailures - 1)]
    <3>1. \/ failures' = failures
          \/ failures' = [failures EXCEPT ![task[s]] = 0]
          \/ ~Blocks(task[s]) /\ failures' = [failures EXCEPT ![task[s]] = @ + 1]
      BY DEF Schedule, IInv, TypeTable
    <3> QED
      BY <3>1, NumberFact DEF Blocks, IInv, TypeTable
  <2> QED
    BY <1>1, <2>1, <2>2, <2>3 DEF IInv, TypeTable
<1>3. TypeRuns' /\ RunInv' /\ RowsInv' /\ MarkedOnce'
  <2>1. ~row[s]
    BY DEF Schedule, IInv, RunInv
  <2>2. /\ TypeRuns' /\ RunInv'
        /\ \A t \in Tasks : Ticked(t)' = Ticked(t) /\ WithRow(t)' = WithRow(t)
    BY <2>1, ReturnFact DEF Schedule, IInv
  <2> QED
    BY <1>1, <2>2, MarksStay, RowsStay DEF IInv
<1>4. TypeDraft'
  BY <1>1 DEF IInv, TypeDraft
<1>5. TypeEvents'
  BY <1>1, NumberFact DEF IInv, TypeEvents, Schedule, Event
<1>6. TypeRows' /\ TypeScheduler' /\ TickInv'
  BY <1>1 DEF IInv, TypeRows, TypeScheduler, TickInv
<1> QED
  BY <1>2, <1>3, <1>4, <1>5, <1>6 DEF IInv

\* A run removes the mark of its task.
LEMMA KeepUnmark ==
  ASSUME IInv, NEW s \in Slots, Unmark(s)
  PROVE  IInv'
<1>1. UNCHANGED <<present, enabled, status, failures, due, running, todo,
                  checking, tick, draft, leaked, panicked, events>>
  BY DEF Unmark, table, history
<1>2. TypeScheduler'
  BY <1>1 DEF IInv, TypeScheduler, Unmark
<1>3. TypeRuns' /\ RunInv' /\ RowsInv' /\ MarkedOnce'
  <2>0. task[s] \in Tasks /\ of[s] # 0 /\ ~row[s]
    BY DEF Unmark, IInv, TypeRuns, RunInv
  <2>1. /\ TypeRuns' /\ RunInv'
        /\ \A t \in Tasks : Ticked(t)' = Ticked(t) \ {s} /\ WithRow(t)' = WithRow(t) \ {s}
    BY ExitFact DEF Unmark, IInv
  <2>2. RowsInv'
    BY <1>1, <2>0, <2>1, RowsStay DEF IInv, WithRow
  <2>3. ASSUME NEW t \in Tasks
        PROVE  One(t \in marked') = Cardinality(Ticked(t)') + One(checking' = t) + One(t \in panicked')
    <3>1. s \in Ticked(t) <=> t = task[s]
      BY <2>0 DEF Unmark, Ticked, RunsOf
    <3>2. Cardinality(Ticked(t)') = Cardinality(Ticked(t)) - One(t = task[s])
      BY <2>1, <3>1, CountFact, DropFact
    <3>3. One(t \in marked) = Cardinality(Ticked(t)) + One(checking = t) + One(t \in panicked)
      BY DEF IInv, MarkedOnce
    <3>4. t = task[s] => Cardinality(Ticked(t)) > 0
      BY <3>1, CountFact, FS_EmptySet
    <3>5. marked' = marked \ {task[s]}
      BY DEF Unmark
    <3> QED
      BY <1>1, <3>2, <3>3, <3>4, <3>5, CountFact DEF One
  <2> QED
    BY <2>1, <2>2, <2>3 DEF MarkedOnce
<1>4. TypeDraft'
  BY <1>1 DEF IInv, TypeDraft
<1>5. TypeTable' /\ TypeRows' /\ TypeEvents' /\ TickInv'
  BY <1>1 DEF IInv, TypeTable, TypeRows, TypeEvents, TickInv
<1> QED
  BY <1>2, <1>3, <1>4, <1>5 DEF IInv

\* A manual run has no mark.
LEMMA KeepManualRun ==
  ASSUME IInv, NEW t \in Tasks, ManualRun(t)
  PROVE  IInv'
<1>1. UNCHANGED <<present, enabled, status, failures, due, running, marked,
                  todo, checking, tick, draft, leaked, panicked>>
  BY DEF ManualRun, table, scheduler, history
<1>2. TypeRuns' /\ RunInv' /\ RowsInv' /\ MarkedOnce'
  <2>1. /\ TypeRuns' /\ RunInv'
        /\ \A u \in Tasks : WithRow(u)' = WithRow(u)
        /\ \A u \in Tasks : Cardinality(Ticked(u)') = Cardinality(Ticked(u)) + One(FALSE)
    BY SpawnKeeps DEF ManualRun, IInv
  <2>2. RowsInv'
    BY <1>1, <2>1, RowsStay DEF IInv
  <2>3. MarkedOnce'
    BY <1>1, <2>1, CountFact DEF IInv, MarkedOnce, One
  <2> QED
    BY <2>1, <2>2, <2>3
<1>3. TypeDraft'
  BY <1>1 DEF IInv, TypeDraft
<1>4. TypeEvents'
  BY <1>1 DEF IInv, TypeEvents, ManualRun
<1>5. TypeTable' /\ TypeRows' /\ TypeScheduler' /\ TickInv'
  BY <1>1 DEF IInv, TypeTable, TypeRows, TypeScheduler, TickInv
<1> QED
  BY <1>2, <1>3, <1>4, <1>5 DEF IInv

\* An edit reads the row.
LEMMA KeepUpdateRead ==
  ASSUME IInv, NEW t \in Tasks, UpdateRead(t)
  PROVE  IInv'
<1>1. UNCHANGED <<present, enabled, status, failures, due, running, marked,
                  todo, checking, tick, at, task, of, row, bad, leaked,
                  panicked>>
  BY DEF UpdateRead, table, scheduler, runs, history
<1>2. TypeDraft'
  <2>1. draft' = {[task |-> t, enabled |-> enabled[t], status |-> status[t]]}
    BY DEF UpdateRead
  <2>2. Cardinality(draft') = 1
    BY <2>1, FS_Singleton
  <2>3. [task |-> t, enabled |-> enabled[t], status |-> status[t]] \in Drafts
    BY DEF IInv, TypeTable, Drafts
  <2> QED
    BY <2>1, <2>2, <2>3 DEF TypeDraft
<1>3. TypeEvents'
  BY <1>1, NumberFact DEF IInv, TypeEvents, UpdateRead, Event
<1>4. RowsInv'
  BY <1>1, RunsStay, RowsStay DEF IInv
<1>5. MarkedOnce'
  BY <1>1, RunsStay, MarksStay DEF IInv
<1>6. /\ TypeTable' /\ TypeRows' /\ TypeScheduler' /\ TypeRuns' /\ RunInv'
      /\ TickInv'
  BY <1>1 DEF IInv, TypeTable, TypeRows, TypeScheduler, TypeRuns, RunInv,
       TickInv
<1> QED
  BY <1>2, <1>3, <1>4, <1>5, <1>6 DEF IInv

\* An edit writes the row it read.
LEMMA KeepWriteTask ==
  ASSUME IInv, NEW d \in draft, NEW on \in BOOLEAN,
         NEW st \in {"active", "paused", "auto_blocked"}, WriteTask(d, on, st)
  PROVE  IInv'
<1>1. UNCHANGED <<present, failures, running, marked, todo, checking, tick, at,
                  task, of, row, bad, leaked, panicked, events>>
  BY DEF WriteTask, scheduler, runs, history
<1>2. TypeTable'
  BY <1>1 DEF IInv, TypeTable, WriteTask, NextDue
<1>3. TypeDraft'
  BY FS_EmptySet DEF WriteTask, TypeDraft
<1>4. RowsInv'
  BY <1>1, RunsStay, RowsStay DEF IInv
<1>5. MarkedOnce'
  BY <1>1, RunsStay, MarksStay DEF IInv
<1>6. /\ TypeRows' /\ TypeScheduler' /\ TypeRuns' /\ TypeEvents' /\ RunInv'
      /\ TickInv'
  BY <1>1 DEF IInv, TypeRows, TypeScheduler, TypeRuns, TypeEvents, RunInv,
       TickInv
<1> QED
  BY <1>2, <1>3, <1>4, <1>5, <1>6 DEF IInv

\* A task is enabled or disabled.
LEMMA KeepToggle ==
  ASSUME IInv, NEW t \in Tasks, NEW on \in BOOLEAN, Toggle(t, on)
  PROVE  IInv'
<1>1. UNCHANGED <<present, running, marked, todo, checking, tick, at, task, of,
                  row, bad, draft, leaked, panicked>>
  BY DEF Toggle, scheduler, runs, history
<1>2. TypeTable'
  BY <1>1, NumberFact DEF IInv, TypeTable, Toggle, Aligned
<1>3. TypeDraft'
  BY <1>1 DEF IInv, TypeDraft
<1>4. TypeEvents'
  BY <1>1, NumberFact DEF IInv, TypeEvents, Toggle, Event
<1>5. RowsInv'
  BY <1>1, RunsStay, RowsStay DEF IInv
<1>6. MarkedOnce'
  BY <1>1, RunsStay, MarksStay DEF IInv
<1>7. TypeRows' /\ TypeScheduler' /\ TypeRuns' /\ RunInv' /\ TickInv'
  BY <1>1 DEF IInv, TypeRows, TypeScheduler, TypeRuns, RunInv, TickInv
<1> QED
  BY <1>2, <1>3, <1>4, <1>5, <1>6, <1>7 DEF IInv

\* A task is deleted with its running rows.
LEMMA KeepDeleteTask ==
  ASSUME IInv, NEW t \in Tasks, DeleteTask(t)
  PROVE  IInv'
<1>1. UNCHANGED <<marked, todo, checking, tick, at, task, of, row, bad, draft,
                  panicked>>
  BY DEF DeleteTask, scheduler, runs
<1>2. TypeTable'
  BY <1>1, NumberFact DEF IInv, TypeTable, DeleteTask
<1>3. TypeRows'
  BY <1>1 DEF IInv, TypeRows, DeleteTask
<1>4. TypeDraft'
  BY <1>1 DEF IInv, TypeDraft
<1>5. TypeEvents'
  BY <1>1, NumberFact DEF IInv, TypeEvents, DeleteTask, Event
<1>6. RowsInv'
  <2>1. \A u \in Tasks : present'[u] =>
          u # t /\ present[u] /\ running'[u] = running[u] /\ leaked'[u] = leaked[u]
    BY DEF DeleteTask, IInv, TypeTable
  <2> QED
    BY <1>1, <2>1, RunsStay DEF IInv, RowsInv
<1>7. MarkedOnce'
  BY <1>1, RunsStay, MarksStay DEF IInv
<1>8. TypeScheduler' /\ TypeRuns' /\ RunInv' /\ TickInv'
  BY <1>1 DEF IInv, TypeScheduler, TypeRuns, RunInv, TickInv
<1> QED
  BY <1>2, <1>3, <1>4, <1>5, <1>6, <1>7, <1>8 DEF IInv

\* A restart begins without runs and marks, and may leave the rows.
LEMMA KeepRestart ==
  ASSUME IInv, Restart
  PROVE  IInv'
<1>1. UNCHANGED <<present, enabled, status, failures>>
  BY DEF Restart
<1>2. TypeTable'
  BY <1>1 DEF IInv, TypeTable, Restart, Postponed
<1>3. TypeRows'
  BY <1>1 DEF IInv, TypeRows, Restart
<1>4. TypeScheduler'
  BY <1>1 DEF TypeScheduler, Restart
<1>5. TypeRuns'
  BY <1>1 DEF TypeRuns, Restart
<1>6. TypeDraft'
  BY FS_EmptySet DEF Restart, TypeDraft
<1>7. TypeEvents'
  BY <1>1, NumberFact DEF IInv, TypeEvents, Restart, Event
<1>8. RunInv'
  BY <1>1 DEF RunInv, Restart
<1>9. TickInv'
  BY <1>1 DEF TickInv, Restart
<1>10. RowsInv'
  <2>1. \A t \in Tasks : WithRow(t)' = {}
    BY DEF Restart, WithRow
  <2>2. \A t \in Tasks : running'[t] = leaked'[t] /\ leaked'[t] \in Nat
    BY DEF Restart, IInv, TypeRows
  <2> QED
    BY <2>1, <2>2, FS_EmptySet DEF RowsInv
<1>11. MarkedOnce'
  <2>1. \A t \in Tasks : Ticked(t)' = {}
    BY DEF Restart, Ticked, RunsOf
  <2> QED
    BY <2>1, FS_EmptySet, TasksAssumption DEF Restart, MarkedOnce, One
<1> QED
  BY <1>2, <1>3, <1>4, <1>5, <1>6, <1>7, <1>8, <1>9, <1>10, <1>11 DEF IInv

\* The next time of a task comes.
LEMMA KeepTime ==
  ASSUME IInv, NEW t \in Tasks, Time(t)
  PROVE  IInv'
<1>1. UNCHANGED <<present, enabled, status, failures, running, marked, todo,
                  checking, tick, at, task, of, row, bad, draft, leaked,
                  panicked, events>>
  BY DEF Time, scheduler, runs, history
<1>2. TypeTable'
  BY <1>1 DEF IInv, TypeTable, Time
<1>3. RowsInv'
  BY <1>1, RunsStay, RowsStay DEF IInv
<1>4. MarkedOnce'
  BY <1>1, RunsStay, MarksStay DEF IInv
<1>5. /\ TypeRows' /\ TypeScheduler' /\ TypeRuns' /\ TypeDraft' /\ TypeEvents'
      /\ RunInv' /\ TickInv'
  BY <1>1 DEF IInv, TypeRows, TypeScheduler, TypeRuns, TypeDraft, TypeEvents,
       RunInv, TickInv
<1> QED
  BY <1>2, <1>3, <1>4, <1>5 DEF IInv
\* The status that is written is one of the three.
LEMMA KeepUpdateWrite ==
  ASSUME IInv, NEW d \in draft, NEW on \in BOOLEAN, UpdateWrite(d, on)
  PROVE  IInv'
<1>1. d.status \in {"active", "paused", "auto_blocked"}
  BY DEF IInv, TypeDraft, Drafts
<1> QED
  BY <1>1, KeepWriteTask DEF UpdateWrite, Aligned

\* Every step of the system preserves the invariant.
LEMMA NextKeeps == IInv /\ [Next]_vars => IInv'
<1> SUFFICES ASSUME IInv, [Next]_vars PROVE IInv'
  OBVIOUS
<1>1. CASE Scheduler
  BY <1>1, KeepScan, KeepMark, KeepCheck DEF Scheduler
<1>2. ASSUME NEW s \in Slots, Run(s) PROVE IInv'
  BY <1>2, KeepAcquire, KeepBegin, KeepCrawl, KeepFinish, KeepSchedule,
       KeepUnmark DEF Run
<1>3. ASSUME NEW s \in Slots, Panic(s) PROVE IInv'
  BY <1>3, KeepPanic
<1>4. CASE Admin
  BY <1>4, KeepManualRun, KeepUpdateRead, KeepUpdateWrite, KeepToggle,
       KeepDeleteTask DEF Admin
<1>5. CASE Restart
  BY <1>5, KeepRestart
<1>6. ASSUME NEW t \in Tasks, Time(t) PROVE IInv'
  BY <1>6, KeepTime
<1>7. CASE UNCHANGED vars
  <2>1. /\ UNCHANGED <<present, enabled, status, failures, due, running, marked, todo>>
        /\ UNCHANGED <<checking, tick, at, task, of, row, bad, draft, leaked, panicked, events>>
    BY <1>7 DEF vars, table, scheduler, runs, history
  <2>2. MarkedOnce' /\ RowsInv'
    BY <2>1, RunsStay, MarksStay, RowsStay DEF IInv
  <2> QED
    BY <2>1, <2>2 DEF IInv, TypeTable, TypeRows, TypeScheduler, TypeRuns,
         TypeDraft, TypeEvents, RunInv, TickInv
<1> QED
  BY <1>1, <1>2, <1>3, <1>4, <1>5, <1>6, <1>7 DEF Next

-----------------------------------------------------------------------------
(* Theorems *)

\* The inductive invariant holds in every state.
THEOREM ScheduleInvariance == Spec => []IInv
BY InitHolds, NextKeeps, PTL DEF Spec

\* The tasks, the scheduler and the runs keep their types: what a run ends is
\* never more rows than there are (scheduler.rs and run_task in engine.rs).
THEOREM ScheduleTypeCorrect == Spec => []TypeOK
<1>1. IInv => TypeOK
  BY TypeParts DEF IInv
<1> QED
  BY <1>1, ScheduleInvariance, PTL

\* A marked task has exactly one scheduled run, or the tick is about to spawn
\* it, or its run panicked (the set of running tasks in scheduler.rs).
THEOREM MarkedOnceHolds == Spec => []MarkedOnce
<1>1. IInv => MarkedOnce
  BY DEF IInv
<1> QED
  BY <1>1, ScheduleInvariance, PTL

\* A step that wipes the block of t, and one that may.
Wiped(t) == present'[t] /\ status[t] = "auto_blocked" /\ status'[t] # "auto_blocked"
Excused(t) == \/ \E on \in BOOLEAN : Toggle(t, on)
              \/ \E d \in draft : /\ d.task = t
                                  /\ d.status # "auto_blocked" \/ enabled'[t] # d.enabled

\* A block is not wiped by an edit of other fields, nor by a run, a restart or
\* the clock (update_task in handlers/crawler.rs, update_task_schedule).
THEOREM BlockHolds == Spec => BlockKept
<1>1. ASSUME IInv, [Next]_vars PROVE \A t \in Tasks : Wiped(t) => Excused(t)
  <2> SUFFICES ASSUME NEW t \in Tasks, Wiped(t) PROVE Excused(t)
    OBVIOUS
  <2>0. TypeTable /\ TypeDraft /\ TypeRuns
    BY <1>1 DEF IInv
  <2>1. \/ \E u \in Tasks, on \in BOOLEAN : Toggle(u, on)
        \/ \E u \in Tasks : DeleteTask(u)
        \/ \E d \in draft, on \in BOOLEAN : UpdateWrite(d, on)
        \/ \E s \in Slots : Schedule(s)
        \/ UNCHANGED status
    BY <1>1 DEF Next, Scheduler, Scan, Mark, Check, Run, Acquire, Begin, Crawl,
         Finish, Unmark, Panic, Admin, ManualRun, UpdateRead, Restart, Time,
         table, vars
  <2>2. ASSUME NEW u \in Tasks, NEW on \in BOOLEAN, Toggle(u, on) PROVE Excused(t)
    BY <2>0, <2>2 DEF Toggle, TypeTable, Wiped, Excused
  <2>3. ASSUME NEW u \in Tasks, DeleteTask(u) PROVE FALSE
    BY <2>0, <2>3 DEF DeleteTask, TypeTable, Wiped
  <2>4. ASSUME NEW d \in draft, NEW on \in BOOLEAN, UpdateWrite(d, on) PROVE Excused(t)
    BY <2>0, <2>4 DEF UpdateWrite, WriteTask, TypeTable, Wiped, Excused
  <2>5. ASSUME NEW s \in Slots, Schedule(s) PROVE FALSE
    BY <2>0, <2>5 DEF Schedule, TypeTable, Wiped
  <2>6. ~ UNCHANGED status
    BY DEF Wiped
  <2> QED
    BY <2>1, <2>2, <2>3, <2>4, <2>5, <2>6
<1>2. IInv /\ [Next]_vars =>
        [\A t \in Tasks :
           present'[t] /\ status[t] = "auto_blocked" /\ status'[t] # "auto_blocked" =>
             \/ \E on \in BOOLEAN : Toggle(t, on)
             \/ \E d \in draft : d.task = t /\ (d.status # "auto_blocked" \/ enabled'[t] # d.enabled)]_vars
  BY <1>1 DEF Wiped, Excused
<1> QED
  BY <1>2, ScheduleInvariance, PTL DEF Spec, BlockKept

=============================================================================
