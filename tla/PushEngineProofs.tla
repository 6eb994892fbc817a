-------------------------- MODULE PushEngineProofs --------------------------
(***************************************************************************)
(* Proofs about the push, for any finite number of concurrent calls, any   *)
(* number of configurations and resources, every batch size, and any       *)
(* number of deletions, faults and pushes that are cut off.                *)
(*                                                                         *)
(* The inductive invariant says why no record is made twice where no two   *)
(* pushes of a configuration overlapped: what a push holds is not marked,  *)
(* and a resource that is not there yet was never pushed.                  *)
(*                                                                         *)
(* The proofs about the rules and the collectors follow.                   *)
(***************************************************************************)
EXTENDS PushEngine, Routing, FiniteSetTheorems, TLAPS

\* The parts of the type invariant: the resources, the records, the pushes, the
\* turn of the tick, what was received and lost, and the bounds.
TypeResources ==
  /\ link \in [Resources -> {"absent", "none", "works", "dead", "deleted"}]
  /\ cover \in [Resources -> {"none", "waiting", "forwarded", "requeued"}]

TypeRecords ==
  /\ pushed \in [Configs -> SUBSET Resources]
  /\ isPushed \subseteq Resources

TypePushers ==
  /\ at \in [Pushers -> {"idle", "classify", "send", "mark", "insert"}]
  /\ conf \in [Pushers -> Configs \cup {0}]
  /\ batch \in [Pushers -> SUBSET Resources]
  /\ \A p \in Pushers : at[p] = "idle" <=> conf[p] = 0
  /\ \A p \in Pushers : at[p] = "idle" <=> batch[p] = {}

TypeTurn == turn \in Configs \cup {0}

TypeHistory ==
  /\ received \in [Configs -> [Resources -> Nat]]
  /\ lost \in [Configs -> [Resources -> Nat]]
  /\ overlapped \subseteq Configs

TypeBudgets ==
  /\ requeues \in 0..MaxRequeues
  /\ faults \in 0..MaxFaults
  /\ cuts \in 0..MaxCuts

\* A configuration whose pushes never overlapped has one push at most.
AloneInv ==
  \A p, q \in Pushers : conf[p] \notin overlapped /\ conf[p] # 0 /\ conf[q] = conf[p] => q = p

\* What such a push holds is not marked for its configuration.
FreshInv ==
  \A p \in Pushers : conf[p] \notin overlapped /\ conf[p] # 0 =>
    \A r \in batch[p] : r \notin pushed[conf[p]]

\* A resource that is not there yet was never pushed.
AbsentInv ==
  \A r \in Resources : link[r] = "absent" =>
    /\ \A p \in Pushers : r \notin batch[p]
    /\ \A c \in Configs : r \notin pushed[c] /\ received[c][r] = 0 /\ lost[c][r] = 0

IInv == /\ TypeResources /\ TypeRecords /\ TypePushers /\ TypeTurn /\ TypeHistory /\ TypeBudgets
        /\ AloneInv /\ FreshInv /\ AbsentInv /\ PushesAccounted

-----------------------------------------------------------------------------
(* What the operators of the model return *)

\* Together the parts are the type invariant.
LEMMA TypeParts ==
  TypeOK <=> /\ TypeResources /\ TypeRecords /\ TypePushers
             /\ TypeTurn /\ TypeHistory /\ TypeBudgets
BY DEF TypeOK, TypeResources, TypeRecords, TypePushers, TypeTurn, TypeHistory,
     TypeBudgets

\* The constants that are numbers; no configuration has the number of none.
LEMMA NumberFact ==
  /\ MaxConfigs \in Nat /\ MaxConfigs > 0
  /\ MaxRequeues \in Nat /\ MaxFaults \in Nat /\ MaxCuts \in Nat
  /\ 0 \notin Configs /\ Configs \subseteq Nat
BY BoundAssumption DEF Configs

\* The tick goes on to the next configuration, or sleeps.
LEMMA NextTurnFact ==
  ASSUME TypeTurn, NextTurn
  PROVE  TypeTurn'
<1>1. turn \in Nat /\ MaxConfigs + 1 \in Nat /\ MaxConfigs + 1 > 0
  BY NumberFact DEF TypeTurn
<1>2. (turn + 1) % (MaxConfigs + 1) \in 0..MaxConfigs
  BY <1>1, NumberFact
<1> QED
  BY <1>2 DEF NextTurn, TypeTurn, Configs

\* A push ends, or goes on with what it held or a part of it.
Goes(p) ==
  \/ End(p)
  \/ \E to \in {"classify", "send", "mark", "insert"}, S \in SUBSET batch[p] :
       at[p] # "idle" /\ S # {} /\ Continue(p, to, S)

\* The others stay where they are, and it holds nothing new.
LEMMA GoesFact ==
  ASSUME TypePushers, TypeTurn, AloneInv, NEW p \in Pushers, Goes(p), overlapped' = overlapped
  PROVE  /\ TypePushers' /\ TypeTurn' /\ AloneInv'
         /\ batch'[p] \subseteq batch[p] /\ conf'[p] \in {0, conf[p]}
         /\ \A q \in Pushers \ {p} : at'[q] = at[q] /\ conf'[q] = conf[q] /\ batch'[q] = batch[q]
<1>1. TypePushers'
  <2>1. CASE End(p)
    BY <2>1 DEF End, TypePushers
  <2>2. CASE \E to \in {"classify", "send", "mark", "insert"}, S \in SUBSET batch[p] :
               at[p] # "idle" /\ S # {} /\ Continue(p, to, S)
    BY <2>2 DEF Continue, TypePushers
  <2> QED
    BY <2>1, <2>2 DEF Goes
<1>2. TypeTurn'
  BY NextTurnFact DEF Goes, End, Continue, TypeTurn
<1>3. /\ batch'[p] \subseteq batch[p] /\ conf'[p] \in {0, conf[p]}
      /\ \A q \in Pushers \ {p} : at'[q] = at[q] /\ conf'[q] = conf[q] /\ batch'[q] = batch[q]
  BY DEF Goes, End, Continue, TypePushers
<1>4. AloneInv'
  BY <1>3 DEF AloneInv
<1> QED
  BY <1>1, <1>2, <1>3, <1>4

\* Where no pushes overlapped, what is in flight for a configuration is what its
\* push holds.
LEMMA FlightFact ==
  ASSUME TypePushers, AloneInv, TypePushers', AloneInv', NEW p \in Pushers,
         batch'[p] \subseteq batch[p], conf'[p] \in {0, conf[p]}, overlapped' = overlapped,
         \A q \in Pushers \ {p} : at'[q] = at[q] /\ conf'[q] = conf[q] /\ batch'[q] = batch[q],
         NEW c \in Configs \ overlapped, NEW r \in Resources
  PROVE  /\ c # conf[p] => (InFlight(c, r)' <=> InFlight(c, r))
         /\ c = conf[p] =>
              /\ InFlight(c, r) <=> at[p] \in {"mark", "insert"} /\ r \in batch[p]
              /\ InFlight(c, r)' <=> conf'[p] = c /\ at'[p] \in {"mark", "insert"} /\ r \in batch'[p]
<1>1. CASE c # conf[p]
  BY <1>1, NumberFact DEF InFlight
<1>2. CASE c = conf[p]
  <2>1. \A q \in Pushers \ {p} : conf[q] # c /\ conf'[q] # c
    BY <1>2, NumberFact DEF AloneInv
  <2> QED
    BY <1>2, <2>1 DEF InFlight
<1> QED
  BY <1>1, <1>2

\* What a push selects is there and not marked for its configuration.
LEMMA SelectFact ==
  ASSUME NEW p \in Pushers, NEW c \in Configs, NEW limit, Select(p, c, limit)
  PROVE  /\ at[p] = "idle"
         /\ overlapped' = overlapped \cup {d \in {c} : \E q \in Pushers : conf[q] = c}
         /\ UNCHANGED faults \/ Fault
         /\ \/ End(p)
            \/ \E rows \in SUBSET Resources, to \in {"classify", "send"} :
                 /\ rows # {} /\ \A r \in rows : Exists(r) /\ r \notin pushed[c]
                 /\ Begin(p, c, to, rows)
<1> DEFINE selected == Oldest(Candidates(c), limit)
           rows == {r \in selected : Sendable(r)}
<1>1. /\ selected \in SUBSET Resources /\ \A r \in selected : Exists(r) /\ r \notin pushed[c]
      /\ rows \in SUBSET selected
  BY DEF Oldest, Candidates
<1>2. /\ at[p] = "idle"
      /\ overlapped' = overlapped \cup {d \in {c} : \E q \in Pushers : conf[q] = c}
      /\ \/ rows = {} /\ End(p) /\ UNCHANGED faults
         \/ rows # {} /\ Begin(p, c, "classify", rows) /\ UNCHANGED faults
         \/ selected # {} /\ Fault /\ Begin(p, c, "send", selected)
  BY DEF Select
<1> HIDE DEF rows, selected
<1> QED
  BY <1>1, <1>2

\* One more for each resource of S.
LEMMA PlusFact ==
  ASSUME NEW f \in [Configs -> [Resources -> Nat]], NEW c \in Configs, NEW S
  PROVE  /\ Plus(f, c, S) \in [Configs -> [Resources -> Nat]]
         /\ \A d \in Configs, r \in Resources :
              Plus(f, c, S)[d][r] = f[d][r] + One(d = c /\ r \in S)
<1> DEFINE g == [r \in Resources |-> f[c][r] + IF r \in S THEN 1 ELSE 0]
<1>1. g \in [Resources -> Nat] /\ \A r \in Resources : g[r] = f[c][r] + One(r \in S)
  BY DEF One
<1>2. Plus(f, c, S) = [f EXCEPT ![c] = g]
  BY DEF Plus
<1> HIDE DEF g
<1>3. Plus(f, c, S) \in [Configs -> [Resources -> Nat]]
  BY <1>1, <1>2
<1>4. ASSUME NEW d \in Configs, NEW r \in Resources
      PROVE  Plus(f, c, S)[d][r] = f[d][r] + One(d = c /\ r \in S)
  <2>1. CASE d = c
    BY <1>1, <1>2, <2>1
  <2>2. CASE d # c
    BY <1>2, <2>2 DEF One
  <2> QED
    BY <2>1, <2>2
<1> QED
  BY <1>3, <1>4

\* The pushes of ps that hold r for c.
Holding(ps, c, r) == {p \in ps : conf[p] = c /\ r \in batch[p]}

\* They can be counted; where they never overlap there is one or none.
LEMMA HoldingFact ==
  ASSUME TypePushers, AloneInv, NEW ps \in SUBSET Pushers, NEW c \in Configs, NEW r \in Resources
  PROVE  /\ Cardinality(Holding(ps, c, r)) \in Nat
         /\ c \notin overlapped =>
              Cardinality(Holding(ps, c, r)) = One(\E p \in ps : conf[p] = c /\ r \in batch[p])
<1>1. IsFiniteSet(Pushers)
  BY CallersAssumption, FS_AddElement DEF Pushers
<1>2. Cardinality(Holding(ps, c, r)) \in Nat
  BY <1>1, FS_Subset, FS_CardinalityType DEF Holding
<1>3. CASE \E p \in ps : conf[p] = c /\ r \in batch[p]
  <2>1. PICK p \in ps : conf[p] = c /\ r \in batch[p]
    BY <1>3
  <2>2. c \notin overlapped => Holding(ps, c, r) = {p}
    BY <2>1, NumberFact DEF Holding, AloneInv
  <2> QED
    BY <1>2, <1>3, <2>2, FS_Singleton DEF One
<1>4. CASE ~ \E p \in ps : conf[p] = c /\ r \in batch[p]
  <2>1. Holding(ps, c, r) = {}
    BY <1>4 DEF Holding
  <2> QED
    BY <1>2, <1>4, <2>1, FS_EmptySet DEF One
<1> QED
  BY <1>3, <1>4

\* What is recorded of a resource that is neither sent nor marked stays so.
LEMMA PushesStay ==
  ASSUME PushesAccounted, UNCHANGED <<received, lost, pushed>>, overlapped \subseteq overlapped',
         \A r \in Resources : Exists(r)' => Exists(r),
         \A c \in Configs \ overlapped', r \in Resources : InFlight(c, r)' <=> InFlight(c, r)
  PROVE  PushesAccounted'
BY DEF PushesAccounted, One

-----------------------------------------------------------------------------
(* Each action preserves the invariant *)

\* The initial states.
LEMMA InitHolds == Init => IInv
<1> SUFFICES ASSUME Init PROVE IInv
  OBVIOUS
<1>1. TypeResources /\ TypeRecords /\ TypePushers /\ TypeTurn /\ TypeHistory /\ TypeBudgets
  BY NumberFact DEF Init, TypeResources, TypeRecords, TypePushers, TypeTurn,
       TypeHistory, TypeBudgets
<1>2. AloneInv /\ FreshInv /\ AbsentInv
  BY DEF Init, AloneInv, FreshInv, AbsentInv
<1>3. PushesAccounted
  BY DEF Init, PushesAccounted, Exists
<1> QED
  BY <1>1, <1>2, <1>3 DEF IInv

\* A push selects what its configuration has not received.
LEMMA KeepSelect ==
  ASSUME IInv, NEW p \in Pushers, NEW c \in Configs, NEW limit, Select(p, c, limit)
  PROVE  IInv'
<1>1. UNCHANGED <<link, cover, pushed, isPushed, received, lost, requeues, cuts>>
  BY DEF Select, resources, records
<1>2. /\ TypePushers' /\ TypeTurn' /\ TypeHistory' /\ AloneInv'
      /\ FreshInv' /\ AbsentInv' /\ PushesAccounted'
  <2>0. /\ at[p] = "idle" /\ conf[p] = 0 /\ batch[p] = {}
        /\ overlapped' = overlapped \cup {d \in {c} : \E q \in Pushers : conf[q] = c}
    BY SelectFact DEF IInv, TypePushers
  <2>1. TypeHistory'
    BY <1>1, <2>0 DEF IInv, TypeHistory
  <2>2. CASE End(p)
    <3>1. TypePushers' /\ at' = at /\ conf' = conf /\ batch' = batch
      BY <2>0, <2>2 DEF End, IInv, TypePushers
    <3>2. TypeTurn'
      BY <2>2, NextTurnFact DEF End, IInv, TypeTurn
    <3>3. AloneInv' /\ FreshInv' /\ AbsentInv'
      BY <1>1, <2>0, <3>1 DEF IInv, AloneInv, FreshInv, AbsentInv
    <3>4. PushesAccounted'
      BY <1>1, <2>0, <3>1, PushesStay DEF IInv, Exists, InFlight
    <3> QED
      BY <2>1, <3>1, <3>2, <3>3, <3>4
  <2>3. CASE \E rows \in SUBSET Resources, to \in {"classify", "send"} :
               /\ rows # {} /\ \A r \in rows : Exists(r) /\ r \notin pushed[c]
               /\ Begin(p, c, to, rows)
    <3>1. TypePushers' /\ TypeTurn'
      BY <2>3, NumberFact DEF Begin, IInv, TypePushers, TypeTurn
    <3>2. AloneInv'
      BY <2>0, <2>3 DEF Begin, IInv, AloneInv
    <3>3. FreshInv'
      BY <1>1, <2>0, <2>3 DEF Begin, IInv, FreshInv
    <3>4. AbsentInv'
      BY <1>1, <2>3 DEF Begin, IInv, AbsentInv, Exists
    <3>5. \A d \in Configs, r \in Resources : InFlight(d, r)' <=> InFlight(d, r)
      BY <2>0, <2>3 DEF Begin, InFlight
    <3>6. PushesAccounted'
      BY <1>1, <2>0, <3>5, PushesStay DEF IInv, Exists
    <3> QED
      BY <2>1, <3>1, <3>2, <3>3, <3>4, <3>6
  <2> QED
    BY <2>2, <2>3, SelectFact
<1>3. TypeResources' /\ TypeRecords' /\ TypeBudgets'
  <2>1. faults' \in 0..MaxFaults
    BY SelectFact, NumberFact DEF Fault, IInv, TypeBudgets
  <2> QED
    BY <1>1, <2>1 DEF IInv, TypeResources, TypeRecords, TypeBudgets
<1> QED
  BY <1>2, <1>3 DEF IInv

\* A push whose SELECT fails ends.
LEMMA KeepSelectFails ==
  ASSUME IInv, NEW p \in Pushers, SelectFails(p)
  PROVE  IInv'
<1>1. UNCHANGED <<link, cover, pushed, isPushed, received, lost, overlapped,
                  requeues, cuts>>
  BY DEF SelectFails, resources, records, history
<1>2. /\ TypePushers' /\ TypeTurn' /\ AloneInv'
      /\ batch'[p] \subseteq batch[p] /\ conf'[p] \in {0, conf[p]}
      /\ \A q \in Pushers \ {p} : at'[q] = at[q] /\ conf'[q] = conf[q] /\ batch'[q] = batch[q]
  <2>1. Goes(p)
    BY DEF SelectFails, Goes
  <2> QED
    BY <1>1, <2>1, GoesFact DEF IInv
<1>3. TypeBudgets'
  BY <1>1, NumberFact DEF IInv, TypeBudgets, SelectFails, Fault
<1>4. FreshInv'
  BY <1>1, <1>2 DEF IInv, FreshInv
<1>5. AbsentInv'
  BY <1>1, <1>2 DEF IInv, AbsentInv
<1>6. PushesAccounted'
  <2>1. \A c \in Configs \ overlapped, r \in Resources : InFlight(c, r)' <=> InFlight(c, r)
    BY <1>1, <1>2, FlightFact DEF SelectFails, End, IInv
  <2> QED
    BY <1>1, <2>1, PushesStay DEF IInv, Exists
<1>7. TypeResources' /\ TypeRecords' /\ TypeHistory'
  BY <1>1 DEF IInv, TypeResources, TypeRecords, TypeHistory
<1> QED
  BY <1>2, <1>3, <1>4, <1>5, <1>6, <1>7 DEF IInv

\* A push drops dead links.
LEMMA KeepClassify ==
  ASSUME IInv, NEW p \in Pushers, Classify(p)
  PROVE  IInv'
<1>1. UNCHANGED <<link, cover, pushed, isPushed, received, lost, overlapped,
                  requeues, faults, cuts>>
  BY DEF Classify, resources, records, history, budgets
<1>2. /\ TypePushers' /\ TypeTurn' /\ AloneInv'
      /\ batch'[p] \subseteq batch[p] /\ conf'[p] \in {0, conf[p]}
      /\ \A q \in Pushers \ {p} : at'[q] = at[q] /\ conf'[q] = conf[q] /\ batch'[q] = batch[q]
  <2>1. Goes(p)
    BY DEF Classify, Goes
  <2> QED
    BY <1>1, <2>1, GoesFact DEF IInv
<1>3. FreshInv'
  BY <1>1, <1>2 DEF IInv, FreshInv
<1>4. AbsentInv'
  BY <1>1, <1>2 DEF IInv, AbsentInv
<1>5. PushesAccounted'
  <2>1. \A c \in Configs \ overlapped, r \in Resources : InFlight(c, r)' <=> InFlight(c, r)
    BY <1>1, <1>2, FlightFact DEF Classify, End, Continue, IInv, TypePushers
  <2> QED
    BY <1>1, <2>1, PushesStay DEF IInv, Exists
<1>6. TypeResources' /\ TypeRecords' /\ TypeHistory' /\ TypeBudgets'
  BY <1>1 DEF IInv, TypeResources, TypeRecords, TypeHistory, TypeBudgets
<1> QED
  BY <1>2, <1>3, <1>4, <1>5, <1>6 DEF IInv

\* A request is refused, accepted, or accepted and its answer lost.
LEMMA KeepSend ==
  ASSUME IInv, NEW p \in Pushers, Send(p)
  PROVE  IInv'
<1>1. UNCHANGED <<link, cover, pushed, isPushed, overlapped, requeues, cuts>>
  BY DEF Send, resources, records
<1>2. /\ TypePushers' /\ TypeTurn' /\ AloneInv'
      /\ batch'[p] \subseteq batch[p] /\ conf'[p] \in {0, conf[p]}
      /\ \A q \in Pushers \ {p} : at'[q] = at[q] /\ conf'[q] = conf[q] /\ batch'[q] = batch[q]
  <2>1. Goes(p)
    BY DEF Send, Goes, IInv, TypePushers
  <2> QED
    BY <1>1, <2>1, GoesFact DEF IInv
<1>3. /\ TypeHistory' /\ batch[p] # {} /\ conf[p] \in Configs
      /\ \/ /\ End(p) /\ received' = received /\ lost' = lost
         \/ /\ \A c \in Configs, r \in Resources :
                  received'[c][r] = received[c][r] + One(c = conf[p] /\ r \in batch[p])
            /\ \/ Continue(p, "mark", batch[p]) /\ lost' = lost
               \/ /\ End(p)
                  /\ \A c \in Configs, r \in Resources :
                       lost'[c][r] = lost[c][r] + One(c = conf[p] /\ r \in batch[p])
  <2>1. batch[p] # {} /\ conf[p] \in Configs
    BY DEF Send, IInv, TypePushers
  <2>2. \/ End(p) /\ received' = received /\ lost' = lost
        \/ /\ received' = Plus(received, conf[p], batch[p])
           /\ \/ Continue(p, "mark", batch[p]) /\ lost' = lost
              \/ End(p) /\ lost' = Plus(lost, conf[p], batch[p])
    BY DEF Send
  <2> QED
    BY <1>1, <2>1, <2>2, PlusFact DEF IInv, TypeHistory
<1>4. TypeBudgets'
  BY <1>1, NumberFact DEF IInv, TypeBudgets, Send, Fault
<1>5. FreshInv'
  BY <1>1, <1>2 DEF IInv, FreshInv
<1>6. AbsentInv'
  BY <1>1, <1>2, <1>3 DEF IInv, AbsentInv, One
<1>7. PushesAccounted'
  <2> SUFFICES ASSUME NEW c \in Configs \ overlapped, NEW r \in Resources, Exists(r)
               PROVE  received'[c][r] = lost'[c][r] + One(r \in pushed[c]) + One(InFlight(c, r)')
    BY <1>1 DEF PushesAccounted, Exists
  <2>0. /\ received[c][r] = lost[c][r] + One(r \in pushed[c]) + One(InFlight(c, r))
        /\ received[c][r] \in Nat /\ lost[c][r] \in Nat /\ One(r \in pushed[c]) \in Nat
    BY DEF IInv, PushesAccounted, TypeHistory, One
  <2>1. /\ c # conf[p] => (InFlight(c, r)' <=> InFlight(c, r))
        /\ c = conf[p] =>
             /\ ~InFlight(c, r)
             /\ InFlight(c, r)' <=> conf'[p] = c /\ at'[p] \in {"mark", "insert"} /\ r \in batch'[p]
    BY <1>1, <1>2, FlightFact DEF Send, IInv
  <2>2. CASE c # conf[p]
    BY <1>3, <2>0, <2>1, <2>2 DEF One
  <2>3. CASE c = conf[p]
    <3>1. End(p) => at'[p] = "idle"
      BY DEF End, IInv, TypePushers
    <3>2. Continue(p, "mark", batch[p]) => at'[p] = "mark" /\ batch'[p] = batch[p] /\ conf'[p] = c
      BY <2>3 DEF Continue, IInv, TypePushers
    <3> QED
      BY <1>3, <2>0, <2>1, <2>3, <3>1, <3>2 DEF One
  <2> QED
    BY <2>2, <2>3
<1>8. TypeResources' /\ TypeRecords'
  BY <1>1 DEF IInv, TypeResources, TypeRecords
<1> QED
  BY <1>2, <1>3, <1>4, <1>5, <1>6, <1>7, <1>8 DEF IInv

\* The resources of a batch are marked as pushed.
LEMMA KeepMarkPushed ==
  ASSUME IInv, NEW p \in Pushers, MarkPushed(p)
  PROVE  IInv'
<1>1. UNCHANGED <<link, cover, pushed, received, overlapped, requeues, cuts>>
  BY DEF MarkPushed, resources
<1>2. TypeRecords'
  BY <1>1 DEF MarkPushed, IInv, TypeRecords, TypePushers
<1>3. /\ TypePushers' /\ TypeTurn' /\ AloneInv'
      /\ batch'[p] \subseteq batch[p] /\ conf'[p] \in {0, conf[p]}
      /\ \A q \in Pushers \ {p} : at'[q] = at[q] /\ conf'[q] = conf[q] /\ batch'[q] = batch[q]
  <2>1. Goes(p)
    BY DEF MarkPushed, Unrecorded, Goes, IInv, TypePushers
  <2> QED
    BY <1>1, <2>1, GoesFact DEF IInv
<1>4. /\ TypeHistory' /\ batch[p] # {} /\ conf[p] \in Configs
      /\ \/ Continue(p, "insert", batch[p]) /\ lost' = lost
         \/ /\ End(p)
            /\ \A c \in Configs, r \in Resources :
                 lost'[c][r] = lost[c][r] + One(c = conf[p] /\ r \in batch[p])
  <2>1. batch[p] # {} /\ conf[p] \in Configs
    BY DEF MarkPushed, IInv, TypePushers
  <2>2. \/ Continue(p, "insert", batch[p]) /\ lost' = lost
        \/ End(p) /\ lost' = Plus(lost, conf[p], batch[p])
    BY DEF MarkPushed, Unrecorded
  <2> QED
    BY <1>1, <2>1, <2>2, PlusFact DEF IInv, TypeHistory
<1>5. TypeBudgets'
  BY <1>1, NumberFact DEF IInv, TypeBudgets, MarkPushed, Fault
<1>6. FreshInv'
  BY <1>1, <1>3 DEF IInv, FreshInv
<1>7. AbsentInv'
  BY <1>1, <1>3, <1>4 DEF IInv, AbsentInv, One
<1>8. PushesAccounted'
  <2> SUFFICES ASSUME NEW c \in Configs \ overlapped, NEW r \in Resources, Exists(r)
               PROVE  received'[c][r] = lost'[c][r] + One(r \in pushed[c]) + One(InFlight(c, r)')
    BY <1>1 DEF PushesAccounted, Exists
  <2>0. /\ received[c][r] = lost[c][r] + One(r \in pushed[c]) + One(InFlight(c, r))
        /\ received[c][r] \in Nat /\ lost[c][r] \in Nat /\ One(r \in pushed[c]) \in Nat
    BY DEF IInv, PushesAccounted, TypeHistory, One
  <2>1. /\ c # conf[p] => (InFlight(c, r)' <=> InFlight(c, r))
        /\ c = conf[p] =>
             /\ InFlight(c, r) <=> r \in batch[p]
             /\ InFlight(c, r)' <=> conf'[p] = c /\ at'[p] \in {"mark", "insert"} /\ r \in batch'[p]
    BY <1>1, <1>3, FlightFact DEF MarkPushed, IInv
  <2>2. CASE c # conf[p]
    BY <1>1, <1>4, <2>0, <2>1, <2>2 DEF One
  <2>3. CASE c = conf[p]
    <3>1. End(p) => at'[p] = "idle"
      BY DEF End, IInv, TypePushers
    <3>2. Continue(p, "insert", batch[p]) => at'[p] = "insert" /\ batch'[p] = batch[p] /\ conf'[p] = c
      BY <2>3 DEF Continue, IInv, TypePushers
    <3> QED
      BY <1>1, <1>4, <2>0, <2>1, <2>3, <3>1, <3>2 DEF One
  <2> QED
    BY <2>2, <2>3
<1>9. TypeResources'
  BY <1>1 DEF IInv, TypeResources
<1> QED
  BY <1>2, <1>3, <1>4, <1>5, <1>6, <1>7, <1>8, <1>9 DEF IInv

\* A resource is recorded, or the rest of the batch is not.
LEMMA KeepInsertPushStatus ==
  ASSUME IInv, NEW p \in Pushers, InsertPushStatus(p)
  PROVE  IInv'
<1>1. UNCHANGED <<link, cover, isPushed, received, overlapped, requeues, cuts>>
  BY DEF InsertPushStatus, resources
<1>2. /\ TypeRecords' /\ TypeHistory' /\ batch[p] # {} /\ conf[p] \in Configs
      /\ \A c \in Configs, r \in Resources :
           c # conf[p] \/ r \notin batch[p] => lost'[c][r] = lost[c][r]
      /\ \A c \in Configs : /\ c # conf[p] => pushed'[c] = pushed[c]
                           /\ pushed'[c] \subseteq pushed[c] \cup batch[p]
      /\ \/ \E x \in batch[p] :
              /\ pushed' = [pushed EXCEPT ![conf[p]] = @ \cup {x}]
              /\ lost' = lost
              /\ (batch[p] = {x} /\ End(p)) \/ Continue(p, "insert", batch[p] \ {x})
         \/ /\ End(p) /\ pushed' = pushed
            /\ \A c \in Configs, r \in Resources :
                 lost'[c][r] = lost[c][r] + One(c = conf[p] /\ r \in batch[p])
  <2>0. received \in [Configs -> [Resources -> Nat]] /\ lost \in [Configs -> [Resources -> Nat]]
    BY DEF IInv, TypeHistory
  <2>1. batch[p] # {} /\ conf[p] \in Configs /\ batch[p] \subseteq Resources
    BY DEF InsertPushStatus, IInv, TypePushers
  <2>2. \/ \E x \in batch[p] :
             /\ pushed' = [pushed EXCEPT ![conf[p]] = @ \cup {x}]
             /\ lost' = lost
             /\ (batch[p] = {x} /\ End(p)) \/ Continue(p, "insert", batch[p] \ {x})
        \/ End(p) /\ pushed' = pushed /\ lost' = Plus(lost, conf[p], batch[p])
    BY DEF InsertPushStatus, Unrecorded, Oldest
  <2>3. CASE \E x \in batch[p] :
               /\ pushed' = [pushed EXCEPT ![conf[p]] = @ \cup {x}]
               /\ lost' = lost
               /\ (batch[p] = {x} /\ End(p)) \/ Continue(p, "insert", batch[p] \ {x})
    <3>1. PICK x \in batch[p] : pushed' = [pushed EXCEPT ![conf[p]] = @ \cup {x}] /\ lost' = lost
      BY <2>3
    <3>2. TypeRecords' /\ TypeHistory'
      BY <1>1, <2>1, <3>1 DEF IInv, TypeRecords, TypeHistory
    <3>3. \A c \in Configs : /\ c # conf[p] => pushed'[c] = pushed[c]
                           /\ pushed'[c] \subseteq pushed[c] \cup batch[p]
      BY <2>1, <3>1
    <3> QED
      BY <2>1, <2>3, <3>1, <3>2, <3>3
  <2>4. CASE End(p) /\ pushed' = pushed /\ lost' = Plus(lost, conf[p], batch[p])
    <3>1. /\ lost' \in [Configs -> [Resources -> Nat]]
          /\ \A c \in Configs, r \in Resources :
               lost'[c][r] = lost[c][r] + One(c = conf[p] /\ r \in batch[p])
      BY <2>0, <2>1, <2>4, PlusFact
    <3>2. TypeRecords' /\ TypeHistory'
      BY <1>1, <2>4, <3>1 DEF IInv, TypeRecords, TypeHistory
    <3>3. \A c \in Configs, r \in Resources :
            c # conf[p] \/ r \notin batch[p] => lost'[c][r] = lost[c][r]
      BY <2>0, <3>1 DEF One
    <3> QED
      BY <2>1, <2>4, <3>1, <3>2, <3>3
  <2> QED
    BY <2>2, <2>3, <2>4
<1>3. /\ TypePushers' /\ TypeTurn' /\ AloneInv'
      /\ batch'[p] \subseteq batch[p] /\ conf'[p] \in {0, conf[p]}
      /\ \A q \in Pushers \ {p} : at'[q] = at[q] /\ conf'[q] = conf[q] /\ batch'[q] = batch[q]
  <2>1. Goes(p)
    BY DEF InsertPushStatus, Unrecorded, Goes, IInv, TypePushers
  <2> QED
    BY <1>1, <2>1, GoesFact DEF IInv
<1>4. TypeBudgets'
  BY <1>1, NumberFact DEF IInv, TypeBudgets, InsertPushStatus, Fault
<1>5. FreshInv'
  <2> SUFFICES ASSUME NEW q \in Pushers, conf'[q] \notin overlapped, conf'[q] # 0, NEW r \in batch'[q]
               PROVE  r \notin pushed'[conf'[q]]
    BY <1>1 DEF FreshInv
  <2>1. conf'[q] = conf[q] /\ r \in batch[q] /\ r \notin pushed[conf[q]]
    BY <1>3 DEF IInv, FreshInv
  <2>2. CASE q # p
    <3>1. conf[q] # conf[p]
      BY <2>1, <2>2, <1>2 DEF IInv, AloneInv
    <3> QED
      <4>1. conf[q] \in Configs
        BY <2>1 DEF IInv, TypePushers
      <4>2. pushed'[conf[q]] = pushed[conf[q]]
        BY <1>2, <3>1, <4>1
      <4> QED
        BY <2>1, <4>2
  <2>3. CASE q = p
    <3>1. PICK x \in batch[p] : \/ pushed' = pushed
                              \/ /\ pushed' = [pushed EXCEPT ![conf[p]] = @ \cup {x}]
                                 /\ (batch[p] = {x} /\ End(p)) \/ Continue(p, "insert", batch[p] \ {x})
      BY <1>2
    <3>2. End(p) => batch'[p] = {}
      BY DEF End, IInv, TypePushers
    <3>3. Continue(p, "insert", batch[p] \ {x}) => batch'[p] = batch[p] \ {x}
      BY DEF Continue, IInv, TypePushers
    <3> QED
      BY <1>2, <2>1, <2>3, <3>1, <3>2, <3>3 DEF TypeRecords
  <2> QED
    BY <2>2, <2>3
<1>6. AbsentInv'
  <2> SUFFICES ASSUME NEW r \in Resources, link[r] = "absent"
               PROVE  /\ \A q \in Pushers : r \notin batch'[q]
                      /\ \A c \in Configs : r \notin pushed'[c] /\ received[c][r] = 0 /\ lost'[c][r] = 0
    BY <1>1 DEF AbsentInv
  <2>0. /\ \A q \in Pushers : r \notin batch[q]
        /\ \A c \in Configs : r \notin pushed[c] /\ received[c][r] = 0 /\ lost[c][r] = 0
    BY DEF IInv, AbsentInv
  <2>1. \A q \in Pushers : r \notin batch'[q]
    BY <1>3, <2>0
  <2>2. \A c \in Configs : lost'[c][r] = 0
    BY <1>2, <2>0
  <2>3. \A c \in Configs : r \notin pushed'[c]
    BY <1>2, <2>0
  <2> QED
    BY <2>0, <2>1, <2>2, <2>3
<1>7. PushesAccounted'
  <2> SUFFICES ASSUME NEW c \in Configs \ overlapped, NEW r \in Resources, Exists(r)
               PROVE  received[c][r] = lost'[c][r] + One(r \in pushed'[c]) + One(InFlight(c, r)')
    BY <1>1 DEF PushesAccounted, Exists
  <2>0. /\ received[c][r] = lost[c][r] + One(r \in pushed[c]) + One(InFlight(c, r))
        /\ received[c][r] \in Nat /\ lost[c][r] \in Nat
    BY DEF IInv, PushesAccounted, TypeHistory
  <2>1. /\ c # conf[p] => (InFlight(c, r)' <=> InFlight(c, r))
        /\ c = conf[p] =>
             /\ InFlight(c, r) <=> r \in batch[p]
             /\ InFlight(c, r)' <=> conf'[p] = c /\ at'[p] \in {"mark", "insert"} /\ r \in batch'[p]
    BY <1>1, <1>3, FlightFact DEF InsertPushStatus, IInv
  <2>2. CASE c # conf[p]
    <3>1. pushed'[c] = pushed[c] /\ lost'[c][r] = lost[c][r]
      BY <1>2, <2>2
    <3> QED
      BY <2>0, <2>1, <2>2, <3>1 DEF One
  <2>3. CASE c = conf[p]
    <3>1. End(p) => at'[p] = "idle"
      BY DEF End, IInv, TypePushers
    <3>2. \A x : Continue(p, "insert", batch[p] \ {x}) =>
                  at'[p] = "insert" /\ batch'[p] = batch[p] \ {x} /\ conf'[p] = c
      BY <2>3 DEF Continue, IInv, TypePushers
    <3>3. r \in batch[p] => r \notin pushed[c]
      BY <2>3, NumberFact DEF IInv, FreshInv
    <3>4. CASE \E x \in batch[p] :
                 /\ pushed' = [pushed EXCEPT ![conf[p]] = @ \cup {x}]
                 /\ lost' = lost
                 /\ (batch[p] = {x} /\ End(p)) \/ Continue(p, "insert", batch[p] \ {x})
      <4>1. PICK x \in batch[p] :
              /\ pushed' = [pushed EXCEPT ![conf[p]] = @ \cup {x}]
              /\ lost' = lost
              /\ (batch[p] = {x} /\ End(p)) \/ Continue(p, "insert", batch[p] \ {x})
        BY <3>4
      <4>2. r \in pushed'[c] <=> r \in pushed[c] \/ r = x
        BY <2>3, <4>1 DEF IInv, TypeRecords
      <4>3. InFlight(c, r)' <=> r \in batch[p] /\ r # x
        BY <2>1, <2>3, <3>1, <3>2, <4>1
      <4> QED
        BY <2>0, <2>1, <2>3, <3>3, <4>1, <4>2, <4>3 DEF One
    <3>5. CASE /\ End(p) /\ pushed' = pushed
               /\ \A d \in Configs, x \in Resources :
                    lost'[d][x] = lost[d][x] + One(d = conf[p] /\ x \in batch[p])
      BY <2>0, <2>1, <2>3, <3>1, <3>5 DEF One
    <3> QED
      BY <1>2, <3>4, <3>5
  <2> QED
    BY <2>2, <2>3
<1>8. TypeResources'
  BY <1>1 DEF IInv, TypeResources
<1> QED
  BY <1>2, <1>3, <1>4, <1>5, <1>6, <1>7, <1>8 DEF IInv

\* A tick begins.
LEMMA KeepTick ==
  ASSUME IInv, Tick
  PROVE  IInv'
<1>1. UNCHANGED <<link, cover, pushed, isPushed, at, conf, batch, received,
                  lost, overlapped, requeues, faults, cuts>>
  BY DEF Tick, resources, records, pushers, history, budgets
<1>2. TypeTurn'
  BY NumberFact DEF Tick, TypeTurn, Configs
<1>3. /\ TypeResources' /\ TypeRecords' /\ TypePushers' /\ TypeHistory'
      /\ TypeBudgets' /\ AloneInv' /\ FreshInv' /\ AbsentInv'
      /\ PushesAccounted'
  BY <1>1 DEF IInv, TypeResources, TypeRecords, TypePushers, TypeHistory,
       TypeBudgets, AloneInv, FreshInv, AbsentInv, PushesAccounted, Exists, One,
       InFlight
<1> QED
  BY <1>2, <1>3 DEF IInv

\* A configuration that is not due is passed over.
LEMMA KeepVisitNotDue ==
  ASSUME IInv, VisitNotDue
  PROVE  IInv'
<1>1. UNCHANGED <<link, cover, pushed, isPushed, at, conf, batch, received,
                  lost, overlapped, requeues, faults, cuts>>
  BY DEF VisitNotDue, resources, records, pushers, history, budgets
<1>2. TypeTurn'
  BY NextTurnFact DEF VisitNotDue, IInv
<1>3. /\ TypeResources' /\ TypeRecords' /\ TypePushers' /\ TypeHistory'
      /\ TypeBudgets' /\ AloneInv' /\ FreshInv' /\ AbsentInv'
      /\ PushesAccounted'
  BY <1>1 DEF IInv, TypeResources, TypeRecords, TypePushers, TypeHistory,
       TypeBudgets, AloneInv, FreshInv, AbsentInv, PushesAccounted, Exists, One,
       InFlight
<1> QED
  BY <1>2, <1>3 DEF IInv

\* Pushes are cut off: what was accepted is lost to the records.
LEMMA KeepCut ==
  ASSUME IInv, NEW S \in SUBSET Pushers, Cut(S)
  PROVE  IInv'
<1>1. UNCHANGED <<link, cover, pushed, isPushed, overlapped, requeues, faults>>
  BY DEF Cut, resources, records
<1>2. TypePushers'
  BY <1>1 DEF IInv, TypePushers, Cut
<1>3. TypeTurn'
  BY <1>1 DEF IInv, TypeTurn, Cut
<1>4. TypeHistory' /\ AbsentInv' /\ PushesAccounted'
  <2>1. PICK arrived \in SUBSET {p \in S : at[p] = "send"} :
          /\ received' = [c \in Configs |-> [r \in Resources |->
                            received[c][r] + Cardinality(Holding(arrived, c, r))]]
          /\ lost' = [c \in Configs |-> [r \in Resources |->
               lost[c][r] + Cardinality(
                 Holding(arrived \cup {p \in S : at[p] \in {"mark", "insert"}}, c, r))]]
    BY DEF Cut, Holding
  <2> DEFINE unsaved == arrived \cup {p \in S : at[p] \in {"mark", "insert"}}
  <2>2. arrived \in SUBSET Pushers /\ unsaved \in SUBSET Pushers
    OBVIOUS
  <2>3. \A c \in Configs, r \in Resources :
          /\ received'[c][r] = received[c][r] + Cardinality(Holding(arrived, c, r))
          /\ lost'[c][r] = lost[c][r] + Cardinality(Holding(unsaved, c, r))
          /\ Cardinality(Holding(arrived, c, r)) \in Nat
          /\ Cardinality(Holding(unsaved, c, r)) \in Nat
    BY <2>1, <2>2, HoldingFact DEF IInv
  <2>4. TypeHistory'
    <3>1. ASSUME NEW c \in Configs
          PROVE  /\ [r \in Resources |-> received[c][r] + Cardinality(Holding(arrived, c, r))]
                      \in [Resources -> Nat]
                 /\ [r \in Resources |-> lost[c][r] + Cardinality(Holding(unsaved, c, r))]
                      \in [Resources -> Nat]
      <4>1. \A r \in Resources : /\ received[c][r] \in Nat /\ lost[c][r] \in Nat
                                /\ Cardinality(Holding(arrived, c, r)) \in Nat
                                /\ Cardinality(Holding(unsaved, c, r)) \in Nat
        BY <2>3 DEF IInv, TypeHistory
      <4> HIDE DEF unsaved
      <4> QED
        BY <4>1
    <3> QED
      BY <1>1, <2>1, <3>1 DEF IInv, TypeHistory
  <2>5. AbsentInv'
    <3> SUFFICES ASSUME NEW r \in Resources, link[r] = "absent"
                 PROVE  /\ \A q \in Pushers : r \notin batch'[q]
                        /\ \A c \in Configs : r \notin pushed[c] /\ received'[c][r] = 0 /\ lost'[c][r] = 0
      BY <1>1 DEF AbsentInv
    <3>1. /\ \A q \in Pushers : r \notin batch[q]
          /\ \A c \in Configs : r \notin pushed[c] /\ received[c][r] = 0 /\ lost[c][r] = 0
      BY DEF IInv, AbsentInv
    <3>2. \A c \in Configs : Holding(arrived, c, r) = {} /\ Holding(unsaved, c, r) = {}
      BY <2>2, <3>1 DEF Holding
    <3>3. \A q \in Pushers : r \notin batch'[q]
      BY <3>1 DEF Cut
    <3>4. \A c \in Configs : received'[c][r] = 0 /\ lost'[c][r] = 0
      <4>1. ASSUME NEW c \in Configs
            PROVE  /\ Cardinality(Holding(arrived, c, r)) = 0
                   /\ Cardinality(Holding(unsaved, c, r)) = 0
        BY <3>2, FS_EmptySet
      <4> HIDE DEF unsaved
      <4> QED
        BY <2>3, <3>1, <4>1
    <3> QED
      BY <3>1, <3>3, <3>4
  <2>6. PushesAccounted'
    <3> SUFFICES ASSUME NEW c \in Configs \ overlapped, NEW r \in Resources, Exists(r)
                 PROVE  received'[c][r] = lost'[c][r] + One(r \in pushed[c]) + One(InFlight(c, r)')
      BY <1>1 DEF PushesAccounted, Exists
    <3>0. /\ received[c][r] = lost[c][r] + One(r \in pushed[c]) + One(InFlight(c, r))
          /\ received[c][r] \in Nat /\ lost[c][r] \in Nat /\ One(r \in pushed[c]) \in Nat
      BY DEF IInv, PushesAccounted, TypeHistory, One
    <3>1. /\ Cardinality(Holding(arrived, c, r)) = One(\E p \in arrived : conf[p] = c /\ r \in batch[p])
          /\ Cardinality(Holding(unsaved, c, r)) = One(\E p \in unsaved : conf[p] = c /\ r \in batch[p])
      BY <2>2, HoldingFact DEF IInv
    <3>2. InFlight(c, r)' <=> \E p \in Pushers \ S : /\ at[p] \in {"mark", "insert"}
                                                    /\ conf[p] = c /\ r \in batch[p]
      BY DEF Cut, InFlight
    <3>3. CASE \E p \in Pushers : conf[p] = c
      <4>1. PICK p \in Pushers : conf[p] = c
        BY <3>3
      <4>2. \A q \in Pushers : conf[q] = c => q = p
        BY <4>1, NumberFact DEF IInv, AloneInv
      <4>3. /\ (\E q \in arrived : conf[q] = c /\ r \in batch[q]) <=> p \in arrived /\ r \in batch[p]
            /\ (\E q \in unsaved : conf[q] = c /\ r \in batch[q]) <=> p \in unsaved /\ r \in batch[p]
            /\ InFlight(c, r) <=> at[p] \in {"mark", "insert"} /\ r \in batch[p]
            /\ InFlight(c, r)' <=> p \notin S /\ at[p] \in {"mark", "insert"} /\ r \in batch[p]
        BY <2>2, <3>2, <4>1, <4>2 DEF InFlight
      <4>4. p \in unsaved <=> p \in arrived \/ (p \in S /\ at[p] \in {"mark", "insert"})
        OBVIOUS
      <4>5. p \in arrived => p \in S /\ at[p] = "send"
        OBVIOUS
      <4> HIDE DEF unsaved
      <4> QED
        BY <2>3, <3>0, <3>1, <4>3, <4>4, <4>5 DEF One
    <3>4. CASE ~ \E p \in Pushers : conf[p] = c
      <4>1. /\ ~ \E q \in arrived : conf[q] = c /\ r \in batch[q]
            /\ ~ \E q \in unsaved : conf[q] = c /\ r \in batch[q]
            /\ ~ InFlight(c, r) /\ ~ InFlight(c, r)'
        BY <2>2, <3>2, <3>4 DEF InFlight
      <4> HIDE DEF unsaved
      <4> QED
        BY <2>3, <3>0, <3>1, <4>1 DEF One
    <3> QED
      BY <3>3, <3>4
  <2> QED
    BY <2>4, <2>5, <2>6
<1>5. TypeBudgets'
  BY <1>1, NumberFact DEF IInv, TypeBudgets, Cut
<1>6. AloneInv'
  BY <1>1 DEF IInv, AloneInv, Cut
<1>7. FreshInv'
  BY <1>1 DEF IInv, FreshInv, Cut
<1>8. TypeResources' /\ TypeRecords'
  BY <1>1 DEF IInv, TypeResources, TypeRecords
<1> QED
  BY <1>2, <1>3, <1>4, <1>5, <1>6, <1>7, <1>8 DEF IInv

\* A new resource was never pushed.
LEMMA KeepExtract ==
  ASSUME IInv, Extract
  PROVE  IInv'
<1>1. UNCHANGED <<pushed, isPushed, at, conf, batch, turn, received, lost,
                  overlapped, requeues, faults, cuts>>
  BY DEF Extract, records, pushers, history, budgets
<1>2. TypeResources'
  BY InputAssumption DEF Extract, IInv, TypeResources
<1>3. AbsentInv'
  BY <1>1 DEF IInv, AbsentInv, Extract
<1>4. PushesAccounted'
  <2> SUFFICES ASSUME NEW c \in Configs \ overlapped, NEW r \in Resources, Exists(r)'
               PROVE  received[c][r] = lost[c][r] + One(r \in pushed[c]) + One(InFlight(c, r))
    BY <1>1 DEF PushesAccounted, InFlight
  <2>1. CASE link[r] = "absent"
    BY <2>1 DEF IInv, AbsentInv, InFlight, One
  <2>2. CASE link[r] # "absent"
    <3>1. Exists(r)
      BY <2>2 DEF Extract, Exists
    <3> QED
      BY <3>1 DEF IInv, PushesAccounted
  <2> QED
    BY <2>1, <2>2
<1>5. /\ TypeRecords' /\ TypePushers' /\ TypeTurn' /\ TypeHistory'
      /\ TypeBudgets' /\ AloneInv' /\ FreshInv'
  BY <1>1 DEF IInv, TypeRecords, TypePushers, TypeTurn, TypeHistory,
       TypeBudgets, AloneInv, FreshInv
<1> QED
  BY <1>2, <1>3, <1>4, <1>5 DEF IInv

\* A link dies.
LEMMA KeepLinkDies ==
  ASSUME IInv, NEW r \in Resources, LinkDies(r)
  PROVE  IInv'
<1>1. UNCHANGED <<cover, pushed, isPushed, at, conf, batch, turn, received,
                  lost, overlapped, requeues, faults, cuts>>
  BY DEF LinkDies, records, pushers, history, budgets
<1>2. TypeResources'
  BY <1>1 DEF IInv, TypeResources, LinkDies
<1>3. AbsentInv'
  BY <1>1 DEF IInv, AbsentInv, LinkDies
<1>4. PushesAccounted'
  BY <1>1 DEF IInv, PushesAccounted, Exists, InFlight, One, LinkDies, Empty
<1>5. /\ TypeRecords' /\ TypePushers' /\ TypeTurn' /\ TypeHistory'
      /\ TypeBudgets' /\ AloneInv' /\ FreshInv'
  BY <1>1 DEF IInv, TypeRecords, TypePushers, TypeTurn, TypeHistory,
       TypeBudgets, AloneInv, FreshInv
<1> QED
  BY <1>2, <1>3, <1>4, <1>5 DEF IInv

\* A cover is settled.
LEMMA KeepCoverSettles ==
  ASSUME IInv, NEW r \in Resources, CoverSettles(r)
  PROVE  IInv'
<1>1. UNCHANGED <<link, pushed, isPushed, at, conf, batch, turn, received,
                  lost, overlapped, requeues, faults, cuts>>
  BY DEF CoverSettles, records, pushers, history, budgets
<1>2. TypeResources'
  BY <1>1 DEF IInv, TypeResources, CoverSettles
<1>3. /\ TypeRecords' /\ TypePushers' /\ TypeTurn' /\ TypeHistory'
      /\ TypeBudgets' /\ AloneInv' /\ FreshInv' /\ AbsentInv'
      /\ PushesAccounted'
  BY <1>1 DEF IInv, TypeRecords, TypePushers, TypeTurn, TypeHistory,
       TypeBudgets, AloneInv, FreshInv, AbsentInv, PushesAccounted, Exists, One,
       InFlight
<1> QED
  BY <1>2, <1>3 DEF IInv

\* A forwarded cover is queued again.
LEMMA KeepCoverRequeued ==
  ASSUME IInv, NEW r \in Resources, CoverRequeued(r)
  PROVE  IInv'
<1>1. UNCHANGED <<link, pushed, isPushed, at, conf, batch, turn, received,
                  lost, overlapped, faults, cuts>>
  BY DEF CoverRequeued, records, pushers, history
<1>2. TypeResources'
  BY <1>1 DEF IInv, TypeResources, CoverRequeued
<1>3. TypeBudgets'
  BY <1>1, NumberFact DEF IInv, TypeBudgets, CoverRequeued
<1>4. /\ TypeRecords' /\ TypePushers' /\ TypeTurn' /\ TypeHistory' /\ AloneInv'
      /\ FreshInv' /\ AbsentInv' /\ PushesAccounted'
  BY <1>1 DEF IInv, TypeRecords, TypePushers, TypeTurn, TypeHistory, AloneInv,
       FreshInv, AbsentInv, PushesAccounted, Exists, One, InFlight
<1> QED
  BY <1>2, <1>3, <1>4 DEF IInv

\* A resource is deleted with its records.
LEMMA KeepDeleteResource ==
  ASSUME IInv, NEW r \in Resources, DeleteResource(r)
  PROVE  IInv'
<1>1. UNCHANGED <<at, conf, batch, turn, received, lost, overlapped, requeues,
                  faults, cuts>>
  BY DEF DeleteResource, pushers, history, budgets
<1>2. TypeResources'
  BY <1>1 DEF IInv, TypeResources, DeleteResource
<1>3. TypeRecords'
  BY <1>1 DEF IInv, TypeRecords, DeleteResource
<1>4. FreshInv'
  BY <1>1 DEF IInv, TypePushers, FreshInv, DeleteResource
<1>5. AbsentInv'
  BY <1>1 DEF IInv, AbsentInv, DeleteResource
<1>6. PushesAccounted'
  <2>1. \A q \in Resources : Exists(q)' => q # r /\ Exists(q)
    BY DEF DeleteResource, Exists, IInv, TypeResources
  <2>2. \A c \in Configs : pushed'[c] = pushed[c] \ {r}
    BY DEF DeleteResource
  <2> QED
    BY <1>1, <2>1, <2>2 DEF IInv, PushesAccounted, InFlight, One
<1>7. TypePushers' /\ TypeTurn' /\ TypeHistory' /\ TypeBudgets' /\ AloneInv'
  BY <1>1 DEF IInv, TypePushers, TypeTurn, TypeHistory, TypeBudgets, AloneInv
<1> QED
  BY <1>2, <1>3, <1>4, <1>5, <1>6, <1>7 DEF IInv
\* Every step of the system preserves the invariant.
LEMMA NextKeeps == IInv /\ [Next]_vars => IInv'
<1> SUFFICES ASSUME IInv, [Next]_vars PROVE IInv'
  OBVIOUS
<1>0. Callers \subseteq Pushers /\ "scheduler" \in Pushers
  BY DEF Pushers
<1>1. ASSUME NEW p \in Pushers, Step(p) PROVE IInv'
  BY <1>1, KeepClassify, KeepSend, KeepMarkPushed, KeepInsertPushStatus DEF Step
<1>2. CASE Scheduler
  <2>1. CASE VisitDue
    <3>1. turn \in Configs
      BY <2>1 DEF VisitDue, IInv, TypeTurn
    <3> QED
      BY <1>0, <2>1, <3>1, KeepSelect, KeepSelectFails DEF VisitDue
  <2> QED
    BY <1>0, <1>1, <1>2, <2>1, KeepTick, KeepVisitNotDue DEF Scheduler
<1>3. ASSUME NEW p \in Callers, Trigger(p) PROVE IInv'
  BY <1>0, <1>3, KeepSelect DEF Trigger
<1>4. ASSUME NEW p \in Pushers, Abort(p) PROVE IInv'
  BY <1>4, KeepCut DEF Abort
<1>5. CASE Crash
  BY <1>5, KeepCut DEF Crash
<1>6. CASE Extract
  BY <1>6, KeepExtract
<1>7. CASE World
  BY <1>7, KeepLinkDies, KeepCoverSettles, KeepCoverRequeued, KeepDeleteResource
       DEF World
<1>8. CASE UNCHANGED vars
  BY <1>8 DEF vars, resources, records, pushers, history, budgets, IInv,
       TypeResources, TypeRecords, TypePushers, TypeTurn, TypeHistory,
       TypeBudgets, AloneInv, FreshInv, AbsentInv, PushesAccounted, Exists,
       InFlight, One
<1> QED
  BY <1>0, <1>1, <1>2, <1>3, <1>4, <1>5, <1>6, <1>7, <1>8 DEF Next

-----------------------------------------------------------------------------
(* Theorems *)

\* The inductive invariant holds in every state.
THEOREM PushInvariance == Spec => []IInv
BY InitHolds, NextKeeps, PTL DEF Spec

\* The resources, the records and the pushes keep their types
\* (push_for_config in push_config.rs).
THEOREM PushTypeCorrect == Spec => []TypeOK
<1>1. IInv => TypeOK
  BY TypeParts DEF IInv
<1> QED
  BY <1>1, PushInvariance, PTL

\* Where no two pushes of a configuration overlap, every acceptance of a
\* resource is the one recorded, the one about to be, or one whose record was
\* lost: nothing is received twice for another reason (push_for_config).
THEOREM PushesHold == Spec => []PushesAccounted
<1>1. IInv => PushesAccounted
  BY DEF IInv
<1> QED
  BY <1>1, PushInvariance, PTL

-----------------------------------------------------------------------------
(***************************************************************************)
(* The rules and the collectors, for any accounts, chats and rules.  The   *)
(* inductive invariant follows a message from the inbox of a listener to   *)
(* the rules that it has yet to apply, so that none posts it twice         *)
(* (InboxInv, TodoInv), and says of a request on a collector that no other *)
(* is about its channel (RequestInv).                                      *)
(***************************************************************************)

PostRow  == [chat : Chats \cup Hooks, words : SUBSET Words, media : Media,
             author : Clients \cup {Outsider}, from : Nat, rule : Nat,
             by : Clients \cup {Outsider}, turn : Nat]
Todo     == [id : Rules, s : Settings]
Outcomes == {"success", "failed"}
Works    == [step : {"idle"}]
              \cup [step : {"forward", "collect"}, msg : Posts, todo : SUBSET Todo]
              \cup [step : {"record"}, msg : Posts, todo : SUBSET Todo, rule : Rules,
                    status : Outcomes]
              \cup [step : {"save"}, msg : Posts, todo : SUBSET Gatherers]
Requests == [step : {"none"}]
              \cup [step : {"check", "write"}, id : Gatherers \cup {0}, body : ChannelBodies]

\* Message i is what rule r posted of message m for the listener c, the k-th time
\* that c was told of it.
Made(i, r, m, c, k) == /\ post[i].rule = r /\ post[i].from = m /\ post[i].by = c
                       /\ post[i].turn = k

\* The listener that copy i is for was not told of the message again.
Turn(i) == told[post[i].by][post[i].from] = post[i].turn

\* What a listener has to post of message m: as the rules were set, not posted
\* since it was last told of it, and not of its own account.
Fit(c, m, todo) ==
  /\ \A t \in todo : /\ t.s \in settings[t.id] /\ Passes(post[m], t.s) /\ post[m].author # c
                     /\ \A i \in Copies : ~Made(i, t.id, m, c, told[c][m])
  /\ \A t, u \in todo : t.id = u.id => t = u

\* The parts of the type invariant.
TypeRules ==
  /\ rule \in [Rules -> Settings \cup {Unset}] /\ settings \in [Rules -> SUBSET Settings]
  /\ record \in [Rules -> SUBSET (Posts \X Clients \X Nat \X Outcomes)] /\ deleting \subseteq Rules
TypePosts ==
  /\ post \in Seq(PostRow) /\ Len(post) <= MaxPosts /\ inbox \in [Clients -> SUBSET Posts]
  /\ listening \subseteq Clients /\ stored \subseteq Posts
  /\ told \in [Clients -> [Posts -> Nat]]
TypeWork  == work \in [Clients -> Works]
TypeGatherers == /\ gatherer \in [Gatherers -> Gathering \cup {Unset}]
                 /\ request \in [Operators -> Requests]

\* A rule is as it was set.
SettingInv == \A r \in Rules : IsRule(r) => rule[r] \in settings[r]

\* What a listener has yet to work on is there, of a chat of its account, and
\* not posted for it since it was last told of it.
InboxInv ==
  \A c \in Clients : \A m \in inbox[c] :
    /\ m <= Len(post) /\ post[m].chat \in Members[c] /\ told[c][m] > 0
    /\ \A i \in Copies : ~(post[i].from = m /\ post[i].by = c /\ post[i].turn = told[c][m])

\* What it works on is not to come again.
WorkInv ==
  \A c \in Clients : work[c].step # "idle" =>
    /\ work[c].msg <= Len(post) /\ post[work[c].msg].chat \in Members[c]
    /\ work[c].msg \notin inbox[c] /\ told[c][work[c].msg] > 0

TodoInv ==
  \A c \in Clients :
    /\ work[c].step \in {"forward", "record"} => Fit(c, work[c].msg, work[c].todo)
    /\ work[c].step = "record" => \A t \in work[c].todo : t.id # work[c].rule

\* A copy is of a message that was there, by a rule for a listener.
CopyInv ==
  /\ \A i \in Copies : post[i].rule \in Rules /\ post[i].from \in 1..Len(post) /\ post[i].by \in Clients
  /\ RuleCopiesAccounted

\* What is, or is about to be, recorded as posted is there.
RecordInv ==
  /\ \A r \in Rules : \A x \in record[r] : x[4] = "success" =>
       \E i \in Copies : Made(i, r, x[1], x[2], x[3])
  /\ \A c \in Clients : (work[c].step = "record" /\ work[c].status = "success") =>
       \E i \in Copies : Made(i, work[c].rule, work[c].msg, c, told[c][work[c].msg])

\* What a rule posted is recorded, or there is a reason.
KnownInv ==
  \A r \in Rules : IsRule(r) => \A i \in Copies : post[i].rule = r =>
    LET m == post[i].from c == post[i].by k == post[i].turn
    IN \/ \E status \in Outcomes : <<m, c, k, status>> \in record[r]
       \/ work[c].step = "record" /\ work[c].msg = m /\ work[c].rule = r /\ told[c][m] = k
       \/ <<r, m, c, k>> \in unrecorded \/ r \in emptied

MessageInv == /\ TypeRules /\ TypePosts /\ TypeWork /\ SettingInv /\ InboxInv /\ WorkInv
              /\ TodoInv /\ CopyInv /\ RecordInv /\ KnownInv

\* A request that changes a collector is about one that is there; one that is to
\* write a channel has found no other collector of it.
RequestInv ==
  \A o \in Operators : request[o] # NoRequest =>
    LET ch == request[o].body.channel id == request[o].id
    IN /\ id = 0 => ch \notin {NoChannel, Unset}
       /\ id # 0 => gatherer[id] # Unset
       /\ ch \notin contested \cup {NoChannel, Unset} =>
            /\ \A p \in Operators : About(p) = ch => p = o
            /\ request[o].step = "write" =>
                 \A k \in Gatherers \ {id} : gatherer[k] # Unset => gatherer[k].channel # ch

GathererInv == TypeGatherers /\ RequestInv /\ ChannelsAccounted

\* A listener that ended works on nothing.
AliveInv == \A c \in Clients \ listening : work[c] = IdleWork /\ inbox[c] = {}

RoutingInv == MessageInv /\ AliveInv /\ GathererInv

\* The bounds.
LEMMA RoutingBoundFact ==
  /\ MaxRules \in Nat /\ MaxGatherers \in Nat /\ MaxPosts \in Nat
  /\ Outsider \notin Clients /\ Media \subseteq {"photo", "document", "text"} /\ "text" \in Media
  /\ Unset \notin Settings /\ Unset \notin Gathering
  /\ 0 \notin Rules /\ 0 \notin Gatherers /\ 0 \notin Posts
  /\ Rules \subseteq Nat /\ Gatherers \subseteq Nat /\ Posts \subseteq Nat
BY RoutingAssumption DEF Rules, Gatherers, Posts

\* There are no messages, rules or collectors.
LEMMA RoutingInitInv == RoutingInit => RoutingInv
<1> SUFFICES ASSUME RoutingInit PROVE RoutingInv
  OBVIOUS
<1> USE RoutingBoundFact DEF RoutingInit
<1>1. Copies = {} /\ post \in Seq(PostRow) /\ Len(post) = 0
  BY DEF Copies
<1>2. TypeRules /\ TypePosts /\ SettingInv
  BY <1>1 DEF TypeRules, TypePosts, SettingInv, IsRule
<1>3. TypeWork /\ InboxInv /\ WorkInv /\ TodoInv
  BY DEF TypeWork, Works, IdleWork, InboxInv, WorkInv, TodoInv
<1>4. CopyInv /\ RecordInv /\ KnownInv
  BY <1>1 DEF CopyInv, RuleCopiesAccounted, RecordInv, KnownInv, IdleWork
<1>5. GathererInv
  BY DEF GathererInv, TypeGatherers, RequestInv, ChannelsAccounted, Requests, NoRequest
<1> QED
  BY <1>2, <1>3, <1>4, <1>5 DEF RoutingInv, MessageInv, AliveInv

-----------------------------------------------------------------------------
(* What the steps have in common *)

\* The messages stay as they are.
LEMMA KeepMessages ==
  ASSUME MessageInv,
         UNCHANGED <<rule, record, stored, traffic, deleting, settings, unrecorded, emptied>>
  PROVE  MessageInv'
<1>1. UNCHANGED <<post, inbox, told, listening, work>>
  BY DEF traffic
<1>2. Copies' = Copies /\ \A i, r, m, c, k : Made(i, r, m, c, k)' <=> Made(i, r, m, c, k)
  BY <1>1 DEF Copies, Made
<1>3. TypeRules' /\ TypePosts' /\ TypeWork' /\ SettingInv'
  BY <1>1 DEF MessageInv, TypeRules, TypePosts, TypeWork, SettingInv, IsRule
<1>4. InboxInv' /\ WorkInv'
  BY <1>1, <1>2 DEF MessageInv, InboxInv, WorkInv
<1>5. TodoInv'
  BY <1>1, <1>2 DEF MessageInv, TodoInv, Fit
<1>6. CopyInv'
  BY <1>1, <1>2 DEF MessageInv, CopyInv, RuleCopiesAccounted
<1>7. RecordInv' /\ KnownInv'
  BY <1>1, <1>2 DEF MessageInv, RecordInv, KnownInv, IsRule
<1> QED
  BY <1>3, <1>4, <1>5, <1>6, <1>7 DEF MessageInv

\* So do the collectors.
LEMMA KeepGatherers ==
  ASSUME GathererInv, UNCHANGED <<gatherer, request, contested>>
  PROVE  GathererInv'
BY DEF GathererInv, TypeGatherers, RequestInv, ChannelsAccounted, About

\* Where a listener is.
LEMMA WorkShape ==
  ASSUME TypeWork, NEW c \in Clients
  PROVE  /\ work[c].step \in {"idle", "forward", "record", "collect", "save"}
         /\ work[c].step \notin {"idle"} => work[c].msg \in Posts
         /\ work[c].step \in {"forward", "collect", "record"} => work[c].todo \in SUBSET Todo
         /\ work[c].step = "record" => work[c].rule \in Rules /\ work[c].status \in Outcomes
         /\ work[c].step = "save" => work[c].todo \in SUBSET Gatherers
         /\ work[c].step = "idle" => work[c] = IdleWork
<1>1. work[c] \in Works
  BY DEF TypeWork
<1>2. CASE work[c] \in [step : {"idle"}]
  BY <1>2 DEF IdleWork
<1>3. CASE work[c] \in [step : {"forward", "collect"}, msg : Posts, todo : SUBSET Todo]
  BY <1>3
<1>4. CASE work[c] \in [step : {"record"}, msg : Posts, todo : SUBSET Todo, rule : Rules,
                        status : Outcomes]
  BY <1>4
<1>5. CASE work[c] \in [step : {"save"}, msg : Posts, todo : SUBSET Gatherers]
  BY <1>5
<1> QED
  BY <1>1, <1>2, <1>3, <1>4, <1>5 DEF Works

\* The rules change, and what they were set to is added to.
LEMMA RulesMove ==
  ASSUME MessageInv, UNCHANGED <<stored, traffic>>, \A r \in Rules : settings[r] \subseteq settings'[r]
  PROVE  /\ TypePosts' /\ TypeWork' /\ InboxInv' /\ WorkInv' /\ TodoInv' /\ CopyInv'
         /\ Copies' = Copies /\ \A i, r, m, c, k : Made(i, r, m, c, k)' <=> Made(i, r, m, c, k)
<1>1. UNCHANGED <<post, inbox, told, listening, work>>
  BY DEF traffic
<1>2. TypePosts' /\ TypeWork' /\ Copies' = Copies
  BY <1>1 DEF MessageInv, TypePosts, TypeWork, Copies
<1>3. InboxInv' /\ WorkInv'
  BY <1>1, <1>2 DEF MessageInv, InboxInv, WorkInv
<1>4. \A i, r, m, c, k : Made(i, r, m, c, k)' <=> Made(i, r, m, c, k)
  BY <1>1 DEF Made
<1>5. TodoInv'
  <2> SUFFICES ASSUME NEW c \in Clients, work[c].step \in {"forward", "record"}
               PROVE  Fit(c, work[c].msg, work[c].todo)'
    BY <1>1 DEF MessageInv, TodoInv
  <2>1. Fit(c, work[c].msg, work[c].todo)
    BY DEF MessageInv, TodoInv
  <2>2. \A t \in work[c].todo : t.id \in Rules
    BY WorkShape DEF MessageInv, Todo
  <2> QED
    BY <1>1, <1>2, <1>4, <2>1, <2>2 DEF Fit
<1>6. CopyInv'
  <2>1. \A i \in Copies : post[i].rule \in Rules
    BY DEF MessageInv, CopyInv
  <2> QED
    BY <1>1, <1>2, <2>1 DEF MessageInv, CopyInv, RuleCopiesAccounted
<1> QED
  BY <1>2, <1>3, <1>4, <1>5, <1>6

\* The listener c turns to w, which posts nothing.
LEMMA WorkMove ==
  ASSUME MessageInv, UNCHANGED <<rule, post, told, deleting, settings>>, NEW c \in Clients,
         NEW w \in Works, work' = [work EXCEPT ![c] = w],
         listening' \subseteq Clients, stored' \subseteq Posts, inbox' \in [Clients -> SUBSET Posts],
         \A d \in Clients : inbox'[d] \subseteq inbox[d],
         w.step # "record",
         w.step # "idle" => /\ w.msg <= Len(post) /\ post[w.msg].chat \in Members[c]
                            /\ w.msg \notin inbox'[c] /\ told[c][w.msg] > 0,
         w.step = "forward" => Fit(c, w.msg, w.todo)
  PROVE  /\ TypePosts' /\ TypeWork' /\ SettingInv' /\ InboxInv' /\ WorkInv' /\ TodoInv' /\ CopyInv'
         /\ Copies' = Copies /\ \A i, r, m, d, k : Made(i, r, m, d, k)' <=> Made(i, r, m, d, k)
         /\ work'[c] = w /\ \A d \in Clients \ {c} : work'[d] = work[d]
<1>1. work' \in [Clients -> Works] /\ work'[c] = w /\ \A d \in Clients \ {c} : work'[d] = work[d]
  BY DEF MessageInv, TypeWork
<1>2. TypePosts' /\ TypeWork' /\ SettingInv' /\ Copies' = Copies
  BY <1>1 DEF MessageInv, TypePosts, TypeWork, SettingInv, IsRule, Copies
<1>3. \A i, r, m, d, k : Made(i, r, m, d, k)' <=> Made(i, r, m, d, k)
  BY DEF Made
<1>4. InboxInv' /\ WorkInv'
  BY <1>1, <1>2 DEF MessageInv, InboxInv, WorkInv
<1>5. \A d, m, todo : Fit(d, m, todo)' <=> Fit(d, m, todo)
  BY <1>2, <1>3 DEF Fit
<1>6. TodoInv'
  <2> SUFFICES ASSUME NEW d \in Clients
               PROVE  /\ work'[d].step \in {"forward", "record"} => Fit(d, work'[d].msg, work'[d].todo)
                      /\ work'[d].step = "record" => \A t \in work'[d].todo : t.id # work'[d].rule
    BY <1>5 DEF TodoInv
  <2>1. CASE d = c
    BY <1>1, <2>1
  <2>2. CASE d # c
    BY <1>1, <2>2 DEF MessageInv, TodoInv
  <2> QED
    BY <2>1, <2>2
<1>7. CopyInv'
  BY <1>2 DEF MessageInv, CopyInv, RuleCopiesAccounted
<1> QED
  BY <1>1, <1>2, <1>3, <1>4, <1>6, <1>7

\* It turns from where nothing is to be recorded.
LEMMA QuietMove ==
  ASSUME MessageInv,
         UNCHANGED <<rule, record, post, told, deleting, settings, unrecorded, emptied>>,
         NEW c \in Clients, work[c].step # "record",
         NEW w \in Works, work' = [work EXCEPT ![c] = w],
         listening' \subseteq Clients, stored' \subseteq Posts, inbox' \in [Clients -> SUBSET Posts],
         \A d \in Clients : inbox'[d] \subseteq inbox[d],
         w.step # "record",
         w.step # "idle" => /\ w.msg <= Len(post) /\ post[w.msg].chat \in Members[c]
                            /\ w.msg \notin inbox'[c] /\ told[c][w.msg] > 0,
         w.step = "forward" => Fit(c, w.msg, w.todo)
  PROVE  MessageInv'
<1>1. /\ TypePosts' /\ TypeWork' /\ SettingInv' /\ InboxInv' /\ WorkInv' /\ TodoInv' /\ CopyInv'
      /\ Copies' = Copies /\ \A i, r, m, d, k : Made(i, r, m, d, k)' <=> Made(i, r, m, d, k)
      /\ work'[c] = w /\ \A d \in Clients \ {c} : work'[d] = work[d]
  BY WorkMove
<1>2. TypeRules'
  BY DEF MessageInv, TypeRules
<1>3. RecordInv'
  BY <1>1 DEF MessageInv, RecordInv
<1>4. KnownInv'
  <2> SUFFICES ASSUME NEW r \in Rules, IsRule(r), NEW i \in Copies, post[i].rule = r
               PROVE  \/ \E status \in Outcomes : <<post[i].from, post[i].by, post[i].turn, status>> \in record[r]
                      \/ /\ work'[post[i].by].step = "record"
                         /\ work'[post[i].by].msg = post[i].from /\ work'[post[i].by].rule = r /\ Turn(i)'
                      \/ <<r, post[i].from, post[i].by, post[i].turn>> \in unrecorded \/ r \in emptied
    BY <1>1 DEF KnownInv, IsRule, Turn
  <2>1. post[i].by \in Clients
    BY DEF MessageInv, CopyInv
  <2>2. \/ \E status \in Outcomes : <<post[i].from, post[i].by, post[i].turn, status>> \in record[r]
        \/ /\ work[post[i].by].step = "record"
           /\ work[post[i].by].msg = post[i].from /\ work[post[i].by].rule = r /\ Turn(i)
        \/ <<r, post[i].from, post[i].by, post[i].turn>> \in unrecorded \/ r \in emptied
    BY DEF MessageInv, KnownInv, Turn
  <2>3. work[post[i].by].step = "record" => work'[post[i].by] = work[post[i].by]
    BY <1>1, <2>1
  <2>4. Turn(i)' <=> Turn(i)
    BY DEF Turn
  <2> QED
    BY <2>2, <2>3, <2>4
<1> QED
  BY <1>1, <1>2, <1>3, <1>4 DEF MessageInv

\* A message is published: those that were stay, and whoever is told of it finds
\* it in a chat of its account.
LEMMA PublishFact ==
  ASSUME TypePosts, NEW p \in PostRow, Publish(p)
  PROVE  /\ post' \in Seq(PostRow) /\ Len(post) \in Nat /\ Len(post) < MaxPosts
         /\ Len(post') = Len(post) + 1 /\ post'[Len(post) + 1] = p
         /\ \A i \in 1..Len(post) : post'[i] = post[i]
         /\ Len(post) + 1 \in Posts /\ Copies \subseteq 1..Len(post)
         /\ Copies' = IF p.rule = 0 THEN Copies ELSE Copies \cup {Len(post) + 1}
         /\ inbox' \in [Clients -> SUBSET Posts] /\ told' \in [Clients -> [Posts -> Nat]]
         /\ \A c \in Clients :
              \/ inbox'[c] = inbox[c]
              \/ /\ inbox'[c] = inbox[c] \cup {Len(post) + 1} /\ p.chat \in Members[c]
                 /\ told'[c][Len(post) + 1] = 1
         /\ \A c \in Clients : \A m \in Posts : m # Len(post) + 1 => told'[c][m] = told[c][m]
<1>1. post \in Seq(PostRow) /\ Len(post) \in Nat /\ Len(post) < MaxPosts /\ post' = Append(post, p)
  BY DEF TypePosts, Publish
<1>2. /\ post' \in Seq(PostRow) /\ Len(post') = Len(post) + 1 /\ post'[Len(post) + 1] = p
      /\ \A i \in 1..Len(post) : post'[i] = post[i]
      /\ DOMAIN post = 1..Len(post) /\ DOMAIN post' = 1..(Len(post) + 1)
  BY <1>1
<1>3. Len(post) + 1 \in Posts
  BY <1>1, RoutingBoundFact DEF Posts
<1>4. Copies \subseteq 1..Len(post)
  BY <1>2 DEF Copies
<1>5. Copies' = IF p.rule = 0 THEN Copies ELSE Copies \cup {Len(post) + 1}
  <2>1. 1..(Len(post) + 1) = (1..Len(post)) \cup {Len(post) + 1}
    BY <1>1
  <2> QED
    BY <1>2, <2>1 DEF Copies
<1>6. PICK reached \in SUBSET Clients :
        /\ \A c \in reached : p.chat \in Members[c]
        /\ inbox' = [c \in Clients |-> IF c \in reached THEN inbox[c] \cup {Len(post) + 1} ELSE inbox[c]]
        /\ told' = [c \in Clients |-> [m \in Posts |->
                     IF m = Len(post) + 1 /\ c \in reached THEN 1 ELSE told[c][m]]]
  <2> DEFINE present == {c \in listening : p.chat \in Members[c]}
  <2>1. PICK reached \in {present, present \ {p.author}} :
          /\ inbox' = [c \in Clients |-> IF c \in reached THEN inbox[c] \cup {Len(post) + 1} ELSE inbox[c]]
          /\ told' = [c \in Clients |-> [m \in Posts |->
                       IF m = Len(post) + 1 /\ c \in reached THEN 1 ELSE told[c][m]]]
    BY DEF Publish
  <2>2. reached \in SUBSET Clients /\ \A c \in reached : p.chat \in Members[c]
    BY DEF TypePosts
  <2> QED
    BY <2>1, <2>2
<1>7. /\ inbox' \in [Clients -> SUBSET Posts]
      /\ \A c \in Clients :
           \/ inbox'[c] = inbox[c]
           \/ /\ inbox'[c] = inbox[c] \cup {Len(post) + 1} /\ p.chat \in Members[c]
              /\ told'[c][Len(post) + 1] = 1
  BY <1>3, <1>6 DEF TypePosts
<1>8. /\ told' \in [Clients -> [Posts -> Nat]]
      /\ \A c \in Clients : \A m \in Posts : m # Len(post) + 1 => told'[c][m] = told[c][m]
  <2>1. \A c \in Clients : \A m \in Posts : told[c][m] \in Nat
    BY DEF TypePosts
  <2> QED
    BY <1>6, <2>1
<1> QED
  BY <1>1, <1>2, <1>3, <1>4, <1>5, <1>7, <1>8

\* The numbers of messages.
LEMMA PostFact ==
  ASSUME TypePosts
  PROVE  /\ Len(post) \in Nat /\ DOMAIN post = 1..Len(post) /\ Copies \subseteq 1..Len(post)
         /\ 1..Len(post) \subseteq Posts /\ \A i \in 1..Len(post) : post[i] \in PostRow
         /\ \A m \in Posts : m <= Len(post) => m \in 1..Len(post)
<1>1. Len(post) \in Nat /\ DOMAIN post = 1..Len(post) /\ \A i \in 1..Len(post) : post[i] \in PostRow
  BY DEF TypePosts
<1>2. Copies \subseteq 1..Len(post)
  BY <1>1 DEF Copies
<1>3. 1..Len(post) \subseteq Posts /\ \A m \in Posts : m <= Len(post) => m \in 1..Len(post)
  BY <1>1, RoutingBoundFact DEF TypePosts, Posts
<1> QED
  BY <1>1, <1>2, <1>3

-----------------------------------------------------------------------------
(* Messages *)

\* Somebody posts: it is no copy.
LEMMA KeepOutside ==
  ASSUME MessageInv, Outside
  PROVE  MessageInv'
<1>1. UNCHANGED <<rule, record, stored, listening, work, deleting, settings, unrecorded, emptied>>
  BY DEF Outside, tables, asking, memories
<1>2. PICK o \in Originals :
        Publish([chat |-> o.chat, words |-> o.words, media |-> o.media, author |-> Outsider,
                 from |-> 0, rule |-> 0, by |-> Outsider, turn |-> 0])
  BY DEF Outside
<1> DEFINE p == [chat |-> o.chat, words |-> o.words, media |-> o.media, author |-> Outsider,
                 from |-> 0, rule |-> 0, by |-> Outsider, turn |-> 0]
           n == Len(post) + 1
<1>3. p \in PostRow /\ p.rule = 0
  BY RoutingAssumption DEF PostRow
<1>4. Publish(p)
  BY <1>2
<1> HIDE DEF p
<1>5. TypePosts
  BY DEF MessageInv
<1>6. /\ post' \in Seq(PostRow) /\ Len(post) \in Nat /\ Len(post) < MaxPosts
      /\ Len(post') = n /\ \A i \in 1..Len(post) : post'[i] = post[i]
      /\ Copies \subseteq 1..Len(post) /\ Copies' = Copies
      /\ inbox' \in [Clients -> SUBSET Posts] /\ post'[n] = p
      /\ told' \in [Clients -> [Posts -> Nat]]
      /\ \A c \in Clients : \/ inbox'[c] = inbox[c]
                            \/ /\ inbox'[c] = inbox[c] \cup {n} /\ p.chat \in Members[c]
                               /\ told'[c][n] = 1
      /\ \A c \in Clients : \A m \in Posts : m # n => told'[c][m] = told[c][m]
  BY <1>3, <1>4, <1>5, PublishFact
<1>7. \A m \in Posts : m <= Len(post) => m \in 1..Len(post) /\ m # n /\ m <= n
  BY <1>5, <1>6, PostFact
<1>8. \A i \in Copies : /\ post'[i] = post[i] /\ post[i].from \in 1..Len(post) /\ post[i].from # n
                        /\ post'[post[i].from] = post[post[i].from] /\ post[i].from \in 1..n
                        /\ \A c \in Clients : told'[c][post[i].from] = told[c][post[i].from]
                        /\ post[i].by \in Clients
  <2>1. 1..Len(post) \subseteq Posts
    BY <1>5, PostFact
  <2> QED
    BY <1>6, <2>1 DEF MessageInv, CopyInv
<1>9. TypeRules' /\ TypePosts' /\ TypeWork' /\ SettingInv'
  <2>1. Len(post') <= MaxPosts
    BY <1>6, RoutingBoundFact
  <2> QED
    BY <1>1, <1>6, <2>1 DEF MessageInv, TypeRules, TypePosts, TypeWork, SettingInv, IsRule
<1>10. InboxInv'
  <2> SUFFICES ASSUME NEW c \in Clients, NEW m \in inbox'[c]
               PROVE  /\ m <= n /\ post'[m].chat \in Members[c] /\ told'[c][m] > 0
                      /\ \A i \in Copies : ~(/\ post'[i].from = m /\ post'[i].by = c
                                              /\ post'[i].turn = told'[c][m])
    BY <1>6 DEF InboxInv
  <2>1. CASE m \in inbox[c]
    <3>1. m \in Posts /\ m <= Len(post) /\ post[m].chat \in Members[c] /\ told[c][m] > 0
          /\ \A i \in Copies : ~(post[i].from = m /\ post[i].by = c /\ post[i].turn = told[c][m])
      BY <1>5, <2>1 DEF TypePosts, MessageInv, InboxInv
    <3> QED
      BY <1>6, <1>7, <1>8, <3>1
  <2>2. CASE m = n /\ p.chat \in Members[c] /\ told'[c][n] = 1
    BY <1>6, <1>8, <2>2
  <2> QED
    BY <1>6, <2>1, <2>2
<1>11. WorkInv'
  <2> SUFFICES ASSUME NEW c \in Clients, work[c].step # "idle"
               PROVE  /\ work[c].msg <= n /\ post'[work[c].msg].chat \in Members[c]
                      /\ work[c].msg \notin inbox'[c] /\ told'[c][work[c].msg] > 0
    BY <1>1, <1>6 DEF WorkInv
  <2>1. /\ work[c].msg \in Posts /\ work[c].msg <= Len(post) /\ post[work[c].msg].chat \in Members[c]
        /\ work[c].msg \notin inbox[c] /\ told[c][work[c].msg] > 0
    BY WorkShape DEF MessageInv, WorkInv
  <2> QED
    BY <1>6, <1>7, <2>1
<1>12. TodoInv'
  <2> SUFFICES ASSUME NEW c \in Clients, work[c].step \in {"forward", "record"}
               PROVE  Fit(c, work[c].msg, work[c].todo)'
    BY <1>1 DEF MessageInv, TodoInv
  <2>1. Fit(c, work[c].msg, work[c].todo)
    BY DEF MessageInv, TodoInv
  <2>2. work[c].msg \in Posts /\ work[c].msg <= Len(post)
    BY WorkShape DEF MessageInv, WorkInv
  <2>3. post'[work[c].msg] = post[work[c].msg] /\ told'[c][work[c].msg] = told[c][work[c].msg]
    BY <1>6, <1>7, <2>2
  <2>4. \A i \in Copies : \A r, m, k : Made(i, r, m, c, k)' <=> Made(i, r, m, c, k)
    BY <1>8 DEF Made
  <2> QED
    BY <1>1, <1>6, <2>1, <2>3, <2>4 DEF Fit
<1>13. CopyInv'
  <2>1. ASSUME NEW i \in Copies
        PROVE  LET q == post[i] original == post[post[i].from]
               IN /\ q.by # original.author /\ original.chat \in Members[q.by]
                  /\ q.turn \in 1..told[q.by][q.from]
                  /\ \A j \in Copies \ {i} : <<post[j].rule, post[j].from, post[j].by, post[j].turn>>
                                               # <<q.rule, q.from, q.by, q.turn>>
                  /\ \E s \in settings[q.rule] : s.target = q.chat /\ Passes(original, s)
    BY DEF MessageInv, CopyInv, RuleCopiesAccounted
  <2>2. ASSUME NEW i \in Copies
        PROVE  LET q == post'[i] original == post'[post'[i].from]
               IN /\ q.by # original.author /\ original.chat \in Members[q.by]
                  /\ q.turn \in 1..told'[q.by][q.from]
                  /\ \A j \in Copies \ {i} : <<post'[j].rule, post'[j].from, post'[j].by, post'[j].turn>>
                                               # <<q.rule, q.from, q.by, q.turn>>
                  /\ \E s \in settings[q.rule] : s.target = q.chat /\ Passes(original, s)
    BY <1>8, <2>1
  <2>3. \A i \in Copies : /\ post'[i].rule \in Rules /\ post'[i].from \in 1..Len(post')
                          /\ post'[i].by \in Clients
    BY <1>6, <1>8 DEF MessageInv, CopyInv
  <2> QED
    BY <1>1, <1>6, <2>2, <2>3 DEF CopyInv, RuleCopiesAccounted
<1>14. RecordInv'
  <2>1. \A i \in Copies : \A r, m, c, k : Made(i, r, m, c, k)' <=> Made(i, r, m, c, k)
    BY <1>8 DEF Made
  <2>2. ASSUME NEW c \in Clients, work[c].step = "record"
        PROVE  told'[c][work[c].msg] = told[c][work[c].msg]
    BY <1>6, <1>7, <2>2, WorkShape DEF MessageInv, WorkInv
  <2> QED
    BY <1>1, <1>6, <2>1, <2>2 DEF MessageInv, RecordInv
<1>15. KnownInv'
  <2> SUFFICES ASSUME NEW r \in Rules, IsRule(r), NEW i \in Copies, post'[i].rule = r
               PROVE  \/ \E x \in Outcomes : <<post'[i].from, post'[i].by, post'[i].turn, x>> \in record[r]
                      \/ /\ work[post'[i].by].step = "record"
                         /\ work[post'[i].by].msg = post'[i].from /\ work[post'[i].by].rule = r /\ Turn(i)'
                      \/ <<r, post'[i].from, post'[i].by, post'[i].turn>> \in unrecorded \/ r \in emptied
    BY <1>1, <1>6 DEF KnownInv, IsRule, Turn
  <2>1. post'[i] = post[i] /\ (Turn(i)' <=> Turn(i))
    BY <1>8 DEF Turn
  <2>2. \/ \E x \in Outcomes : <<post[i].from, post[i].by, post[i].turn, x>> \in record[r]
        \/ /\ work[post[i].by].step = "record"
           /\ work[post[i].by].msg = post[i].from /\ work[post[i].by].rule = r /\ Turn(i)
        \/ <<r, post[i].from, post[i].by, post[i].turn>> \in unrecorded \/ r \in emptied
    BY <2>1 DEF MessageInv, KnownInv, Turn
  <2> QED
    BY <2>1, <2>2
<1> QED
  BY <1>9, <1>10, <1>11, <1>12, <1>13, <1>14, <1>15 DEF MessageInv

\* A listener takes a message up: none of its rules has posted it yet.
LEMMA KeepReceive ==
  ASSUME MessageInv, NEW c \in Clients, Receive(c)
  PROVE  MessageInv'
<1>1. /\ UNCHANGED <<rule, record, stored, post, told, listening, deleting, settings, unrecorded,
                     emptied>>
      /\ work[c].step = "idle"
  BY DEF Receive, tables, asking, memories, IdleWork
<1>2. PICK m \in inbox[c] :
        /\ inbox' = [inbox EXCEPT ![c] = @ \ {m}]
        /\ \E todo \in {{}, Matching(m)} : ForwardThen(c, m, todo) /\ (post[m].author = c => todo = {})
  <2>1. PICK m \in inbox[c] :
          /\ inbox' = [inbox EXCEPT ![c] = @ \ {m}]
          /\ \/ ForwardThen(c, m, IF post[m].author = c THEN {} ELSE Matching(m))
             \/ ForwardThen(c, m, {})
    BY DEF Receive
  <2>2. CASE post[m].author = c
    BY <2>1, <2>2
  <2>3. CASE post[m].author # c
    BY <2>1, <2>3
  <2> QED
    BY <2>1, <2>2, <2>3
<1>3. PICK todo \in {{}, Matching(m)} : ForwardThen(c, m, todo) /\ (post[m].author = c => todo = {})
  BY <1>2
<1>4. TypePosts /\ inbox[c] \subseteq Posts /\ m \in Posts
  BY DEF MessageInv, TypePosts
<1>5. /\ inbox' \in [Clients -> SUBSET Posts] /\ inbox'[c] = inbox[c] \ {m}
      /\ \A d \in Clients : inbox'[d] \subseteq inbox[d]
  BY <1>2, <1>4 DEF TypePosts
<1>6. \A t \in Matching(m) : /\ t \in Todo /\ t.s \in settings[t.id] /\ Passes(post[m], t.s)
                             /\ t.s = rule[t.id]
  <2>1. \A r \in Rules : IsRule(r) => rule[r] \in settings[r] /\ rule[r] \in Settings
    BY DEF MessageInv, SettingInv, TypeRules, IsRule
  <2> QED
    BY <2>1 DEF Matching, Todo
<1>7. Fit(c, m, todo)
  <2>1. \A i \in Copies : ~(post[i].from = m /\ post[i].by = c /\ post[i].turn = told[c][m])
    BY DEF MessageInv, InboxInv
  <2>2. ASSUME NEW t \in todo, NEW u \in todo, t.id = u.id PROVE t = u
    BY <1>3, <1>6, <2>2 DEF Todo
  <2> QED
    BY <1>3, <1>6, <2>1, <2>2 DEF Fit, Made
<1> DEFINE w == [step |-> IF todo = {} THEN "collect" ELSE "forward", msg |-> m, todo |-> todo]
<1>8. /\ w \in Works /\ w.step \in {"collect", "forward"} /\ w.msg = m /\ w.todo = todo
  BY <1>3, <1>4, <1>6 DEF Works
<1>9. work' = [work EXCEPT ![c] = w]
  BY <1>3 DEF ForwardThen, GoTo
<1> HIDE DEF w
<1>10. m <= Len(post) /\ post[m].chat \in Members[c] /\ told[c][m] > 0
  BY DEF MessageInv, InboxInv
<1>11. listening \subseteq Clients /\ stored \subseteq Posts
  BY <1>4 DEF TypePosts
<1> QED
  BY <1>1, <1>5, <1>7, <1>8, <1>9, <1>10, <1>11, QuietMove

\* What a rule posts for a listener.
LEMMA CopyFact ==
  ASSUME MessageInv, NEW c \in Clients, NEW m \in Posts, m <= Len(post), NEW t \in Todo
  PROVE  /\ Copy(c, m, t) \in PostRow /\ Copy(c, m, t).rule = t.id /\ Copy(c, m, t).from = m
         /\ Copy(c, m, t).by = c /\ Copy(c, m, t).chat = t.s.target
         /\ Copy(c, m, t).turn = told[c][m]
<1>1. post[m] \in PostRow
  BY PostFact DEF MessageInv
<1>2. /\ t.id \in Rules /\ t.s \in Settings /\ t.s.target \in Chats \cup Hooks
      /\ t.s.via \in Clients \cup {Unset}
  BY DEF Todo, Settings
<1>3. t.id \in Nat /\ m \in Nat
  BY <1>2, RoutingBoundFact
<1>4. Via(c, t.s) \in Clients /\ told[c][m] \in Nat
  BY <1>2 DEF Via, MessageInv, TypePosts
<1> QED
  BY <1>1, <1>2, <1>3, <1>4, RoutingBoundFact DEF Copy, PostRow

\* A rule posts a message, or does not: what came of it is to be recorded.
LEMMA KeepForward ==
  ASSUME MessageInv, NEW c \in Clients, Forward(c)
  PROVE  MessageInv'
<1>1. /\ UNCHANGED <<rule, record, stored, listening, deleting, settings, unrecorded, emptied>>
      /\ work[c].step = "forward"
  BY DEF Forward, tables, asking, memories
<1> DEFINE m == work[c].msg
<1>2. PICK t \in work[c].todo, status \in Outcomes :
        /\ GoTo(c, [step |-> "record", msg |-> m, todo |-> work[c].todo \ {t}, rule |-> t.id,
                    status |-> status])
        /\ \/ Publish(Copy(c, m, t))
           \/ status = "failed" /\ UNCHANGED <<post, inbox, told>>
  BY DEF Forward, Outcomes
<1> DEFINE w == [step |-> "record", msg |-> m, todo |-> work[c].todo \ {t}, rule |-> t.id,
                 status |-> status]
           p == Copy(c, m, t)
           n == Len(post) + 1
<1>3. /\ m \in Posts /\ m <= Len(post) /\ post[m].chat \in Members[c] /\ m \notin inbox[c]
      /\ told[c][m] > 0 /\ told[c][m] \in Nat
      /\ work[c].todo \in SUBSET Todo /\ t \in Todo /\ t.id \in Rules /\ TypePosts
  BY <1>1, WorkShape DEF MessageInv, WorkInv, Todo, TypePosts
<1>4. Fit(c, m, work[c].todo)
  BY <1>1 DEF MessageInv, TodoInv
<1>5. /\ t.s \in settings[t.id] /\ Passes(post[m], t.s) /\ post[m].author # c
      /\ \A i \in Copies : ~Made(i, t.id, m, c, told[c][m])
      /\ \A u \in work[c].todo \ {t} : u.id # t.id
  BY <1>4 DEF Fit
<1>6. /\ w \in Works /\ w.step = "record" /\ w.msg = m /\ w.todo = work[c].todo \ {t}
      /\ w.rule = t.id /\ w.status = status
  BY <1>3 DEF Works
<1>7. work' = [work EXCEPT ![c] = w]
  BY <1>2 DEF GoTo
<1>8. /\ p \in PostRow /\ p.rule = t.id /\ p.from = m /\ p.by = c /\ p.chat = t.s.target
      /\ p.turn = told[c][m]
  BY <1>3, CopyFact
<1> HIDE DEF w, p
<1>9. /\ TypeWork' /\ work'[c] = w /\ \A d \in Clients \ {c} : work'[d] = work[d]
  BY <1>6, <1>7 DEF MessageInv, TypeWork
<1>10. TypeRules' /\ SettingInv'
  BY <1>1 DEF MessageInv, TypeRules, SettingInv, IsRule
<1> DEFINE new == Publish(p)
<1>11. /\ TypePosts' /\ Len(post) <= Len(post') /\ Len(post') \in Nat /\ Len(post) \in Nat
       /\ \A i \in 1..Len(post) : post'[i] = post[i]
       /\ Copies \subseteq 1..Len(post)
       /\ Copies' = IF new THEN Copies \cup {n} ELSE Copies
       /\ new => Len(post') = n /\ post'[n] = p
       /\ \A d \in Clients : \/ inbox'[d] = inbox[d]
                             \/ /\ new /\ inbox'[d] = inbox[d] \cup {n} /\ p.chat \in Members[d]
                                /\ told'[d][n] = 1
       /\ \A d \in Clients : \A k \in Posts : k # n => told'[d][k] = told[d][k]
  <2>1. CASE new
    <3>1. t.id # 0
      BY <1>3, RoutingBoundFact
    <3>2. /\ post' \in Seq(PostRow) /\ Len(post) \in Nat /\ Len(post) < MaxPosts
          /\ Len(post') = n /\ post'[n] = p
          /\ \A i \in 1..Len(post) : post'[i] = post[i]
          /\ Copies \subseteq 1..Len(post)
          /\ Copies' = IF p.rule = 0 THEN Copies ELSE Copies \cup {n}
          /\ inbox' \in [Clients -> SUBSET Posts] /\ told' \in [Clients -> [Posts -> Nat]]
          /\ \A d \in Clients : \/ inbox'[d] = inbox[d]
                                \/ /\ inbox'[d] = inbox[d] \cup {n} /\ p.chat \in Members[d]
                                   /\ told'[d][n] = 1
          /\ \A d \in Clients : \A k \in Posts : k # n => told'[d][k] = told[d][k]
      BY <1>3, <1>8, <2>1, PublishFact
    <3>3. Len(post') <= MaxPosts /\ Len(post) <= Len(post') /\ Len(post') \in Nat
      BY <3>2, RoutingBoundFact
    <3>4. TypePosts'
      BY <1>1, <1>3, <3>2, <3>3 DEF TypePosts
    <3> QED
      BY <1>8, <2>1, <3>1, <3>2, <3>3, <3>4
  <2>2. CASE ~new
    <3>1. UNCHANGED <<post, inbox, told>>
      BY <1>2, <2>2 DEF p
    <3>2. Copies' = Copies /\ TypePosts' /\ Copies \subseteq 1..Len(post) /\ Len(post) \in Nat
      BY <1>1, <1>3, <3>1, PostFact DEF Copies, TypePosts
    <3> QED
      BY <2>2, <3>1, <3>2
  <2> QED
    BY <2>1, <2>2
<1>12. status = "success" => new
  BY <1>2 DEF p
<1> HIDE DEF new
<1>13. \A k \in Posts : k <= Len(post) => /\ k \in 1..Len(post) /\ k # n /\ k <= Len(post')
                                          /\ post'[k] = post[k]
                                          /\ \A d \in Clients : told'[d][k] = told[d][k]
  BY <1>3, <1>11, PostFact
<1>14. \A i \in Copies : /\ post'[i] = post[i] /\ post[i].from \in 1..Len(post) /\ i # n
                         /\ post[i].from # n /\ post'[post[i].from] = post[post[i].from]
                         /\ post[i].from \in 1..Len(post') /\ post[i].by \in Clients
                         /\ \A d \in Clients : told'[d][post[i].from] = told[d][post[i].from]
  <2>1. 1..Len(post) \subseteq Posts
    BY <1>3, PostFact
  <2> QED
    BY <1>11, <2>1 DEF MessageInv, CopyInv
<1>15. n \notin Copies /\ (new => /\ post'[n].rule = t.id /\ post'[n].from = m /\ post'[n].by = c
                                  /\ post'[n].turn = told[c][m])
  BY <1>8, <1>11, <1>14
<1>0. told'[c][m] = told[c][m]
  BY <1>3, <1>13
<1>16. InboxInv'
  <2> SUFFICES ASSUME NEW d \in Clients, NEW k \in inbox'[d]
               PROVE  /\ k <= Len(post') /\ post'[k].chat \in Members[d] /\ told'[d][k] > 0
                      /\ \A i \in Copies' : ~(/\ post'[i].from = k /\ post'[i].by = d
                                               /\ post'[i].turn = told'[d][k])
    BY DEF InboxInv
  <2>1. CASE k \in inbox[d]
    <3>1. /\ k \in Posts /\ k <= Len(post) /\ post[k].chat \in Members[d] /\ told[d][k] > 0
          /\ \A i \in Copies : ~(post[i].from = k /\ post[i].by = d /\ post[i].turn = told[d][k])
      BY <1>3, <2>1 DEF TypePosts, MessageInv, InboxInv
    <3>2. ~(m = k /\ c = d)
      BY <1>3, <2>1
    <3> QED
      BY <1>11, <1>13, <1>14, <1>15, <3>1, <3>2
  <2>2. CASE new /\ k = n /\ p.chat \in Members[d] /\ told'[d][n] = 1
    <3>1. m # n
      BY <1>3, <1>13
    <3> QED
      BY <1>11, <1>14, <1>15, <2>2, <3>1
  <2> QED
    BY <1>11, <2>1, <2>2
<1>17. WorkInv'
  <2> SUFFICES ASSUME NEW d \in Clients, work'[d].step # "idle"
               PROVE  /\ work'[d].msg <= Len(post') /\ post'[work'[d].msg].chat \in Members[d]
                      /\ work'[d].msg \notin inbox'[d] /\ told'[d][work'[d].msg] > 0
    BY DEF WorkInv
  <2>1. work'[d].msg = work[d].msg /\ work[d].step # "idle"
    BY <1>1, <1>6, <1>9
  <2>2. /\ work[d].msg \in Posts /\ work[d].msg <= Len(post) /\ post[work[d].msg].chat \in Members[d]
        /\ work[d].msg \notin inbox[d] /\ told[d][work[d].msg] > 0
    BY <2>1, WorkShape DEF MessageInv, WorkInv
  <2> QED
    BY <1>11, <1>13, <2>1, <2>2
<1>18. TodoInv'
  <2> SUFFICES ASSUME NEW d \in Clients, work'[d].step \in {"forward", "record"}
               PROVE  /\ \A u \in work'[d].todo :
                           /\ u.s \in settings[u.id] /\ Passes(post'[work'[d].msg], u.s)
                           /\ post'[work'[d].msg].author # d
                           /\ \A i \in Copies' : ~(/\ post'[i].rule = u.id /\ post'[i].by = d
                                                    /\ post'[i].from = work'[d].msg
                                                    /\ post'[i].turn = told'[d][work'[d].msg])
                      /\ \A u, v \in work'[d].todo : u.id = v.id => u = v
                      /\ work'[d].step = "record" => \A u \in work'[d].todo : u.id # work'[d].rule
    BY <1>1 DEF TodoInv, Fit, Made
  <2>1. /\ work[d].step \in {"forward", "record"} /\ Fit(d, work[d].msg, work[d].todo)
        /\ work[d].msg \in Posts /\ work[d].msg <= Len(post) /\ work'[d].msg = work[d].msg
    <3>1. work[d].step \in {"forward", "record"}
      BY <1>1, <1>9
    <3> QED
      BY <1>6, <1>9, <3>1, WorkShape DEF MessageInv, TodoInv, WorkInv
  <2>2. post'[work[d].msg] = post[work[d].msg] /\ told'[d][work[d].msg] = told[d][work[d].msg]
    BY <1>13, <2>1
  <2>3. CASE d = c
    <3>1. work'[d].todo = work[c].todo \ {t} /\ work'[d].rule = t.id
      BY <1>6, <1>9, <2>3
    <3>2. ASSUME NEW u \in work[c].todo \ {t}, NEW i \in Copies'
          PROVE  ~(/\ post'[i].rule = u.id /\ post'[i].from = m /\ post'[i].by = c
                   /\ post'[i].turn = told[c][m])
      <4>1. CASE i \in Copies
        BY <1>4, <1>14, <4>1 DEF Fit, Made
      <4>2. CASE new /\ i = n
        BY <1>5, <1>15, <4>2
      <4> QED
        BY <1>11, <4>1, <4>2
    <3> QED
      BY <1>1, <1>4, <1>5, <2>1, <2>2, <2>3, <3>1, <3>2 DEF Fit
  <2>4. CASE d # c
    <3>1. work'[d] = work[d]
      BY <1>9, <2>4
    <3>2. ASSUME NEW u \in work[d].todo, NEW i \in Copies'
          PROVE  ~(/\ post'[i].rule = u.id /\ post'[i].from = work[d].msg /\ post'[i].by = d
                   /\ post'[i].turn = told[d][work[d].msg])
      <4>1. CASE i \in Copies
        BY <1>14, <2>1, <4>1 DEF Fit, Made
      <4>2. CASE new /\ i = n
        BY <1>15, <2>4, <4>2
      <4> QED
        BY <1>11, <4>1, <4>2
    <3> QED
      BY <1>1, <2>1, <2>2, <3>1, <3>2 DEF Fit, MessageInv, TodoInv
  <2> QED
    BY <2>3, <2>4
<1>19. CopyInv'
  <2>1. m \in 1..Len(post) /\ m \in 1..Len(post') /\ post'[m] = post[m]
    BY <1>3, <1>11, <1>13
  <2>2. \A i \in Copies' : /\ post'[i].rule \in Rules /\ post'[i].from \in 1..Len(post')
                           /\ post'[i].by \in Clients
    BY <1>3, <1>11, <1>14, <1>15, <2>1 DEF MessageInv, CopyInv
  <2>3. ASSUME NEW i \in Copies'
        PROVE  LET q == post'[i] original == post'[post'[i].from]
               IN /\ q.by # original.author /\ original.chat \in Members[q.by]
                  /\ q.turn \in 1..told'[q.by][q.from]
                  /\ \A j \in Copies' \ {i} :
                       <<post'[j].rule, post'[j].from, post'[j].by, post'[j].turn>>
                         # <<q.rule, q.from, q.by, q.turn>>
                  /\ \E s \in settings[q.rule] : s.target = q.chat /\ Passes(original, s)
    <3>1. CASE i \in Copies
      <4>1. \A j \in Copies \ {i} : <<post[j].rule, post[j].from, post[j].by, post[j].turn>>
                                      # <<post[i].rule, post[i].from, post[i].by, post[i].turn>>
        BY <3>1 DEF MessageInv, CopyInv, RuleCopiesAccounted
      <4>2. new => <<post'[n].rule, post'[n].from, post'[n].by, post'[n].turn>>
                     # <<post[i].rule, post[i].from, post[i].by, post[i].turn>>
        BY <1>5, <1>15, <3>1 DEF Made
      <4>3. /\ post[i].by # post[post[i].from].author /\ post[post[i].from].chat \in Members[post[i].by]
            /\ post[i].turn \in 1..told[post[i].by][post[i].from]
            /\ \E s \in settings[post[i].rule] : s.target = post[i].chat /\ Passes(post[post[i].from], s)
        BY <3>1 DEF MessageInv, CopyInv, RuleCopiesAccounted
      <4>4. \A j \in Copies' \ {i} :
              <<post'[j].rule, post'[j].from, post'[j].by, post'[j].turn>>
                # <<post[i].rule, post[i].from, post[i].by, post[i].turn>>
        <5> TAKE j \in Copies' \ {i}
        <5>1. CASE j \in Copies
          BY <1>14, <4>1, <5>1
        <5>2. CASE new /\ j = n
          BY <4>2, <5>2
        <5> QED
          BY <1>11, <5>1, <5>2
      <4> QED
        BY <1>14, <3>1, <4>3, <4>4
    <3>2. CASE new /\ i = n
      <4>1. \A j \in Copies : <<post'[j].rule, post'[j].from, post'[j].by, post'[j].turn>>
                                # <<t.id, m, c, told[c][m]>>
        BY <1>5, <1>14 DEF Made
      <4>2. /\ post'[n] = p /\ post'[n].rule = t.id /\ post'[n].from = m /\ post'[n].by = c
            /\ post'[n].turn = told[c][m] /\ told[c][m] \in 1..told'[c][m]
        BY <1>0, <1>3, <1>11, <1>15, <3>2
      <4> QED
        BY <1>3, <1>5, <1>8, <1>11, <2>1, <3>2, <4>1, <4>2
    <3> QED
      BY <1>11, <3>1, <3>2
  <2> QED
    BY <1>1, <2>2, <2>3 DEF CopyInv, RuleCopiesAccounted
<1>20. RecordInv'
  <2>1. \A i \in Copies : /\ i \in Copies' /\ post'[i] = post[i]
                           /\ \A r, m0, d, k0 : Made(i, r, m0, d, k0)' <=> Made(i, r, m0, d, k0)
    BY <1>11, <1>14 DEF Made
  <2>2. \A r \in Rules : \A x \in record'[r] : x[4] = "success" =>
          \E i \in Copies' : Made(i, r, x[1], x[2], x[3])'
    BY <1>1, <2>1 DEF MessageInv, RecordInv
  <2>3. ASSUME NEW d \in Clients, work'[d].step = "record", work'[d].status = "success"
        PROVE  \E i \in Copies' : /\ post'[i].rule = work'[d].rule /\ post'[i].by = d
                                  /\ post'[i].from = work'[d].msg
                                  /\ post'[i].turn = told'[d][work'[d].msg]
    <3>1. CASE d = c
      <4>1. /\ n \in Copies' /\ post'[n].rule = t.id /\ post'[n].from = m /\ post'[n].by = c
            /\ post'[n].turn = told'[c][m] /\ work'[c].rule = t.id /\ work'[c].msg = m
        BY <1>0, <1>6, <1>9, <1>11, <1>12, <1>15, <2>3, <3>1
      <4> QED
        BY <3>1, <4>1
    <3>2. CASE d # c
      <4>1. work'[d] = work[d]
        BY <1>9, <3>2
      <4>2. told'[d][work[d].msg] = told[d][work[d].msg]
        BY <1>13, <2>3, <4>1, WorkShape DEF MessageInv, WorkInv
      <4> QED
        BY <2>1, <2>3, <4>1, <4>2 DEF MessageInv, RecordInv, Made
    <3> QED
      BY <3>1, <3>2
  <2> QED
    BY <2>2, <2>3 DEF RecordInv, Made
<1>21. KnownInv'
  <2> SUFFICES ASSUME NEW r \in Rules, IsRule(r), NEW i \in Copies', post'[i].rule = r
               PROVE  \/ \E x \in Outcomes : <<post'[i].from, post'[i].by, post'[i].turn, x>> \in record[r]
                      \/ /\ work'[post'[i].by].step = "record"
                         /\ work'[post'[i].by].msg = post'[i].from /\ work'[post'[i].by].rule = r /\ Turn(i)'
                      \/ <<r, post'[i].from, post'[i].by, post'[i].turn>> \in unrecorded \/ r \in emptied
    BY <1>1 DEF KnownInv, IsRule, Turn
  <2>1. CASE i \in Copies
    <3>1. post'[i] = post[i] /\ post[i].by \in Clients
      BY <1>14, <2>1 DEF MessageInv, CopyInv
    <3>2. \/ \E x \in Outcomes : <<post[i].from, post[i].by, post[i].turn, x>> \in record[r]
          \/ /\ work[post[i].by].step = "record"
             /\ work[post[i].by].msg = post[i].from /\ work[post[i].by].rule = r /\ Turn(i)
          \/ <<r, post[i].from, post[i].by, post[i].turn>> \in unrecorded \/ r \in emptied
      BY <2>1, <3>1 DEF MessageInv, KnownInv, Turn
    <3>3. work[post[i].by].step = "record" => work'[post[i].by] = work[post[i].by]
      BY <1>1, <1>9, <3>1
    <3>4. Turn(i) <=> Turn(i)'
      BY <1>14, <2>1, <3>1 DEF Turn
    <3> QED
      BY <3>1, <3>2, <3>3, <3>4
  <2>2. CASE new /\ i = n
    BY <1>0, <1>6, <1>9, <1>15, <2>2 DEF Turn
  <2> QED
    BY <1>11, <2>1, <2>2
<1> QED
  BY <1>9, <1>10, <1>11, <1>16, <1>17, <1>18, <1>19, <1>20, <1>21 DEF MessageInv

\* What came of it is recorded, if the rule is there and nothing fails.
LEMMA KeepRecord ==
  ASSUME MessageInv, NEW c \in Clients, Record(c)
  PROVE  MessageInv'
<1>1. /\ UNCHANGED <<rule, stored, post, inbox, told, listening, deleting, settings, emptied>>
      /\ work[c].step = "record" /\ ForwardThen(c, work[c].msg, work[c].todo)
  BY DEF Record, asking
<1> DEFINE m == work[c].msg
           q == work[c].rule
           k == told[c][m]
           x == <<m, c, k, work[c].status>>
<1>2. \/ /\ IsRule(q) /\ record' = [record EXCEPT ![q] = @ \cup {x}] /\ UNCHANGED unrecorded
      \/ ~IsRule(q) /\ UNCHANGED <<record, unrecorded>>
      \/ unrecorded' = unrecorded \cup {<<q, m, c, k>>} /\ UNCHANGED record
  BY DEF Record
<1>3. /\ m \in Posts /\ m <= Len(post) /\ post[m].chat \in Members[c] /\ m \notin inbox[c]
      /\ work[c].todo \in SUBSET Todo /\ q \in Rules /\ work[c].status \in Outcomes /\ TypePosts
      /\ Fit(c, m, work[c].todo) /\ k > 0 /\ k \in Nat
  BY <1>1, WorkShape DEF MessageInv, WorkInv, TodoInv, TypePosts
<1> DEFINE w == [step |-> IF work[c].todo = {} THEN "collect" ELSE "forward", msg |-> m,
                 todo |-> work[c].todo]
<1>4. w \in Works /\ w.step \in {"collect", "forward"} /\ w.msg = m /\ w.todo = work[c].todo
  BY <1>3 DEF Works
<1>5. work' = [work EXCEPT ![c] = w]
  BY <1>1 DEF ForwardThen, GoTo
<1> HIDE DEF w
<1>6. listening' \subseteq Clients /\ stored' \subseteq Posts /\ inbox' \in [Clients -> SUBSET Posts]
      /\ \A d \in Clients : inbox'[d] \subseteq inbox[d]
  BY <1>1, <1>3 DEF TypePosts
<1>7. w.step # "record" /\ w.step # "idle" /\ w.msg \notin inbox'[c]
  BY <1>1, <1>3, <1>4
<1>8. /\ TypePosts' /\ TypeWork' /\ SettingInv' /\ InboxInv' /\ WorkInv' /\ TodoInv' /\ CopyInv'
      /\ Copies' = Copies /\ \A i, r, m0, d, k0 : Made(i, r, m0, d, k0)' <=> Made(i, r, m0, d, k0)
      /\ work'[c] = w /\ \A d \in Clients \ {c} : work'[d] = work[d]
  BY <1>1, <1>3, <1>4, <1>5, <1>6, <1>7, WorkMove
<1>9. /\ record' \in [Rules -> SUBSET (Posts \X Clients \X Nat \X Outcomes)]
      /\ \A r \in Rules : record[r] \subseteq record'[r]
      /\ \A r \in Rules : \A y \in record'[r] \ record[r] : r = q /\ y = x
      /\ (IsRule(q) => x \in record'[q] \/ <<q, m, c, k>> \in unrecorded')
      /\ unrecorded \subseteq unrecorded'
  <2>1. /\ record \in [Rules -> SUBSET (Posts \X Clients \X Nat \X Outcomes)]
        /\ x \in Posts \X Clients \X Nat \X Outcomes
    BY <1>3 DEF MessageInv, TypeRules
  <2> HIDE DEF x
  <2>2. CASE IsRule(q) /\ record' = [record EXCEPT ![q] = @ \cup {x}] /\ UNCHANGED unrecorded
    BY <1>3, <2>1, <2>2
  <2>3. CASE ~IsRule(q) /\ UNCHANGED <<record, unrecorded>>
    BY <2>1, <2>3
  <2>4. CASE unrecorded' = unrecorded \cup {<<q, m, c, k>>} /\ UNCHANGED record
    BY <2>1, <2>4
  <2> QED
    BY <1>2, <2>2, <2>3, <2>4 DEF x
<1>10. TypeRules'
  BY <1>1, <1>9 DEF MessageInv, TypeRules
<1>11. RecordInv'
  <2>1. ASSUME NEW r \in Rules, NEW y \in record'[r], y[4] = "success"
        PROVE  \E i \in Copies : Made(i, r, y[1], y[2], y[3])
    <3>1. CASE y \in record[r]
      BY <2>1, <3>1 DEF MessageInv, RecordInv
    <3>2. CASE y \notin record[r]
      <4>1. r = q /\ y[1] = m /\ y[2] = c /\ y[3] = k /\ work[c].status = "success"
        BY <1>9, <2>1, <3>2
      <4> QED
        BY <1>1, <4>1 DEF MessageInv, RecordInv
    <3> QED
      BY <3>1, <3>2
  <2>2. ASSUME NEW d \in Clients, work'[d].step = "record", work'[d].status = "success"
        PROVE  \E i \in Copies : Made(i, work'[d].rule, work'[d].msg, d, told[d][work'[d].msg])
    <3>1. work'[d] = work[d]
      BY <1>7, <1>8, <2>2
    <3> QED
      BY <2>2, <3>1 DEF MessageInv, RecordInv
  <2> QED
    BY <1>1, <1>8, <2>1, <2>2 DEF RecordInv
<1>12. KnownInv'
  <2> SUFFICES ASSUME NEW r \in Rules, IsRule(r), NEW i \in Copies, post[i].rule = r
               PROVE  \/ \E y \in Outcomes : <<post[i].from, post[i].by, post[i].turn, y>> \in record'[r]
                      \/ /\ work'[post[i].by].step = "record"
                         /\ work'[post[i].by].msg = post[i].from /\ work'[post[i].by].rule = r /\ Turn(i)'
                      \/ <<r, post[i].from, post[i].by, post[i].turn>> \in unrecorded' \/ r \in emptied
    BY <1>1, <1>8 DEF KnownInv, IsRule, Turn
  <2>1. \/ \E y \in Outcomes : <<post[i].from, post[i].by, post[i].turn, y>> \in record[r]
        \/ /\ work[post[i].by].step = "record"
           /\ work[post[i].by].msg = post[i].from /\ work[post[i].by].rule = r /\ Turn(i)
        \/ <<r, post[i].from, post[i].by, post[i].turn>> \in unrecorded \/ r \in emptied
    BY DEF MessageInv, KnownInv, Turn
  <2>2. CASE /\ post[i].by = c /\ work[post[i].by].step = "record"
             /\ work[post[i].by].msg = post[i].from /\ work[post[i].by].rule = r /\ Turn(i)
    BY <1>3, <1>9, <2>2 DEF Turn
  <2>3. CASE post[i].by # c
    <3>1. post[i].by \in Clients
      BY DEF MessageInv, CopyInv
    <3>2. Turn(i)' <=> Turn(i)
      BY <1>1 DEF Turn
    <3> QED
      BY <1>8, <1>9, <2>1, <2>3, <3>1, <3>2
  <2>4. CASE \/ \E y \in Outcomes : <<post[i].from, post[i].by, post[i].turn, y>> \in record[r]
             \/ <<r, post[i].from, post[i].by, post[i].turn>> \in unrecorded \/ r \in emptied
    BY <1>9, <2>4
  <2> QED
    BY <2>1, <2>2, <2>3, <2>4
<1> QED
  BY <1>8, <1>10, <1>11, <1>12 DEF MessageInv

\* The collectors of the chat are looked up.
LEMMA KeepCollect ==
  ASSUME MessageInv, NEW c \in Clients, Collect(c)
  PROVE  MessageInv'
<1>1. /\ UNCHANGED <<rule, record, stored, post, inbox, told, listening, deleting, settings,
                     unrecorded, emptied>>
      /\ work[c].step = "collect"
  BY DEF Collect, tables, asking, memories
<1>2. /\ work[c].msg \in Posts /\ work[c].msg <= Len(post) /\ post[work[c].msg].chat \in Members[c]
      /\ work[c].msg \notin inbox[c] /\ told[c][work[c].msg] > 0 /\ TypePosts
  BY <1>1, WorkShape DEF MessageInv, WorkInv
<1>3. PICK w \in Works : /\ work' = [work EXCEPT ![c] = w] /\ w.step \in {"idle", "save"}
                         /\ w.step # "idle" => w.msg = work[c].msg
  <2>1. PICK found \in SUBSET Gatherers :
          \/ GoTo(c, IdleWork)
          \/ GoTo(c, [step |-> "save", msg |-> work[c].msg, todo |-> found])
    BY DEF Collect
  <2>2. IdleWork \in Works /\ IdleWork.step = "idle"
    BY DEF IdleWork, Works
  <2> DEFINE v == [step |-> "save", msg |-> work[c].msg, todo |-> found]
  <2>3. v \in Works /\ v.step = "save" /\ v.msg = work[c].msg
    BY <1>2 DEF Works
  <2> HIDE DEF v
  <2>4. work' = [work EXCEPT ![c] = IdleWork] \/ work' = [work EXCEPT ![c] = v]
    BY <2>1 DEF GoTo, v
  <2> QED
    BY <2>2, <2>3, <2>4
<1>4. /\ listening' \subseteq Clients /\ stored' \subseteq Posts /\ inbox' \in [Clients -> SUBSET Posts]
      /\ \A d \in Clients : inbox'[d] \subseteq inbox[d]
  BY <1>1, <1>2 DEF TypePosts
<1> QED
  BY <1>1, <1>2, <1>3, <1>4, QuietMove

\* The message is stored.
LEMMA KeepSaveHistory ==
  ASSUME MessageInv, NEW c \in Clients, SaveHistory(c)
  PROVE  MessageInv'
<1>1. /\ UNCHANGED <<rule, record, post, inbox, told, listening, deleting, settings, unrecorded,
                     emptied>>
      /\ work[c].step = "save" /\ stored' \in {stored, stored \cup {work[c].msg}}
  BY DEF SaveHistory, asking, memories
<1>2. /\ work[c].msg \in Posts /\ work[c].msg <= Len(post) /\ post[work[c].msg].chat \in Members[c]
      /\ work[c].msg \notin inbox[c] /\ told[c][work[c].msg] > 0 /\ TypePosts
  BY <1>1, WorkShape DEF MessageInv, WorkInv
<1>3. PICK w \in Works : /\ work' = [work EXCEPT ![c] = w] /\ w.step \in {"idle", "save"}
                         /\ w.step # "idle" => w.msg = work[c].msg
  <2>1. PICK k \in work[c].todo :
          GoTo(c, IF work[c].todo = {k} THEN IdleWork ELSE [work[c] EXCEPT !.todo = @ \ {k}])
    BY DEF SaveHistory
  <2>2. IdleWork \in Works /\ IdleWork.step = "idle"
    BY DEF IdleWork, Works
  <2> DEFINE v == [work[c] EXCEPT !.todo = @ \ {k}]
  <2>3. v \in Works /\ v.step = "save" /\ v.msg = work[c].msg
    <3>1. work[c] \in [step : {"save"}, msg : Posts, todo : SUBSET Gatherers]
      BY <1>1 DEF MessageInv, TypeWork, Works
    <3>2. v \in [step : {"save"}, msg : Posts, todo : SUBSET Gatherers] /\ v.msg = work[c].msg
      BY <3>1
    <3> QED
      BY <3>2 DEF Works
  <2> HIDE DEF v
  <2>4. work' = [work EXCEPT ![c] = IdleWork] \/ work' = [work EXCEPT ![c] = v]
    BY <2>1 DEF GoTo, v
  <2> QED
    BY <2>2, <2>3, <2>4
<1>4. /\ listening' \subseteq Clients /\ stored' \subseteq Posts /\ inbox' \in [Clients -> SUBSET Posts]
      /\ \A d \in Clients : inbox'[d] \subseteq inbox[d]
  BY <1>1, <1>2 DEF TypePosts
<1> QED
  BY <1>1, <1>2, <1>3, <1>4, QuietMove

\* A listener ends: what it had posted and not recorded is not recorded.
LEMMA KeepStopListener ==
  ASSUME MessageInv, NEW c \in Clients, StopListener(c)
  PROVE  MessageInv'
<1>1. /\ UNCHANGED <<rule, record, gatherer, stored, post, told, deleting, settings, emptied>>
      /\ work' = [work EXCEPT ![c] = IdleWork] /\ inbox' = [inbox EXCEPT ![c] = {}]
      /\ listening' = listening \ {c}
      /\ unrecorded \subseteq unrecorded'
      /\ work[c].step = "record" =>
           <<work[c].rule, work[c].msg, c, told[c][work[c].msg]>> \in unrecorded'
  BY DEF StopListener, tables, asking, GoTo
<1>2. IdleWork \in Works /\ IdleWork.step = "idle"
  BY DEF IdleWork, Works
<1>3. /\ listening' \subseteq Clients /\ stored' \subseteq Posts /\ inbox' \in [Clients -> SUBSET Posts]
      /\ \A d \in Clients : inbox'[d] \subseteq inbox[d]
  BY <1>1 DEF MessageInv, TypePosts
<1>4. /\ TypePosts' /\ TypeWork' /\ SettingInv' /\ InboxInv' /\ WorkInv' /\ TodoInv' /\ CopyInv'
      /\ Copies' = Copies /\ \A i, r, m0, d, k0 : Made(i, r, m0, d, k0)' <=> Made(i, r, m0, d, k0)
      /\ work'[c] = IdleWork /\ \A d \in Clients \ {c} : work'[d] = work[d]
  BY <1>1, <1>2, <1>3, WorkMove
<1>5. TypeRules'
  BY <1>1 DEF MessageInv, TypeRules
<1>6. RecordInv'
  BY <1>1, <1>2, <1>4 DEF MessageInv, RecordInv
<1>7. KnownInv'
  <2> SUFFICES ASSUME NEW r \in Rules, IsRule(r), NEW i \in Copies, post[i].rule = r
               PROVE  \/ \E y \in Outcomes : <<post[i].from, post[i].by, post[i].turn, y>> \in record[r]
                      \/ /\ work'[post[i].by].step = "record"
                         /\ work'[post[i].by].msg = post[i].from /\ work'[post[i].by].rule = r /\ Turn(i)'
                      \/ <<r, post[i].from, post[i].by, post[i].turn>> \in unrecorded' \/ r \in emptied
    BY <1>1, <1>4 DEF KnownInv, IsRule, Turn
  <2>1. \/ \E y \in Outcomes : <<post[i].from, post[i].by, post[i].turn, y>> \in record[r]
        \/ /\ work[post[i].by].step = "record"
           /\ work[post[i].by].msg = post[i].from /\ work[post[i].by].rule = r /\ Turn(i)
        \/ <<r, post[i].from, post[i].by, post[i].turn>> \in unrecorded \/ r \in emptied
    BY DEF MessageInv, KnownInv, Turn
  <2>2. post[i].by \in Clients
    BY DEF MessageInv, CopyInv
  <2> QED
    BY <1>1, <1>4, <2>1, <2>2 DEF Turn
<1> QED
  BY <1>4, <1>5, <1>6, <1>7 DEF MessageInv

\* A listener starts and catches up: what it is told of again is a turn later
\* than all that was posted for it.
LEMMA KeepStartListener ==
  ASSUME MessageInv, AliveInv, NEW c \in Clients, StartListener(c)
  PROVE  MessageInv'
<1>1. /\ UNCHANGED <<rule, record, stored, post, deleting, settings, unrecorded, emptied>>
      /\ listening' = listening \cup {c} /\ c \notin listening
      /\ work' = [work EXCEPT ![c] = IdleWork]
  BY DEF StartListener, GoTo, tables, asking, memories
<1>2. PICK again \in SUBSET (DOMAIN post) :
        /\ \A m \in again : post[m].chat \in Members[c]
        /\ inbox' = [inbox EXCEPT ![c] = again]
        /\ told' = [told EXCEPT ![c] = [m \in Posts |-> IF m \in again THEN @[m] + 1 ELSE @[m]]]
  BY DEF StartListener
<1>3. /\ TypePosts /\ Len(post) \in Nat /\ again \subseteq Posts
      /\ \A m \in again : m <= Len(post)
  BY PostFact DEF MessageInv
<1>4. work' = work /\ work[c].step = "idle"
  BY <1>1 DEF AliveInv, MessageInv, TypeWork, IdleWork
<1>5. /\ inbox' \in [Clients -> SUBSET Posts] /\ inbox'[c] = again
      /\ \A d \in Clients \ {c} : inbox'[d] = inbox[d]
  BY <1>2, <1>3 DEF TypePosts
<1>6. /\ \A d \in Clients \ {c} : told'[d] = told[d]
      /\ told'[c] = [m \in Posts |-> IF m \in again THEN told[c][m] + 1 ELSE told[c][m]]
  BY <1>2, <1>3 DEF TypePosts
<1>7. \A d \in Clients : \A m \in Posts : told[d][m] \in Nat
  BY <1>3 DEF TypePosts
<1>8. /\ \A m \in Posts : told'[c][m] \in Nat /\ told[c][m] <= told'[c][m]
      /\ \A m \in again : told'[c][m] = told[c][m] + 1
  BY <1>3, <1>6, <1>7
<1>9. told' \in [Clients -> [Posts -> Nat]]
  <2>1. told'[c] \in [Posts -> Nat]
    BY <1>6, <1>8
  <2> QED
    BY <1>2, <1>3, <1>6, <2>1 DEF TypePosts
<1>10. TypeRules' /\ TypePosts' /\ TypeWork' /\ SettingInv'
  BY <1>1, <1>4, <1>5, <1>9
     DEF MessageInv, TypeRules, TypePosts, TypeWork, SettingInv, IsRule
<1>11. Copies' = Copies /\ \A i, r, m, d, k : Made(i, r, m, d, k)' <=> Made(i, r, m, d, k)
  BY <1>1 DEF Copies, Made
<1>12. \A i \in Copies : /\ post[i].from \in Posts /\ post[i].by \in Clients
                         /\ post[i].turn \in 1..told[post[i].by][post[i].from]
  BY <1>3, PostFact DEF MessageInv, CopyInv, RuleCopiesAccounted
<1>13. \A i \in Copies : /\ post[i].turn \in Nat /\ post[i].turn <= told[post[i].by][post[i].from]
                         /\ post[i].turn \in 1..told'[post[i].by][post[i].from]
  <2> SUFFICES ASSUME NEW i \in Copies
               PROVE  /\ post[i].turn \in Nat /\ post[i].turn <= told[post[i].by][post[i].from]
                      /\ post[i].turn \in 1..told'[post[i].by][post[i].from]
    OBVIOUS
  <2>1. CASE post[i].by = c
    BY <1>7, <1>8, <1>12, <2>1
  <2>2. CASE post[i].by # c
    BY <1>6, <1>7, <1>12, <2>2
  <2> QED
    BY <2>1, <2>2
<1>14. InboxInv'
  <2> SUFFICES ASSUME NEW d \in Clients, NEW m \in inbox'[d]
               PROVE  /\ m <= Len(post) /\ post[m].chat \in Members[d] /\ told'[d][m] > 0
                      /\ \A i \in Copies :
                           ~(post[i].from = m /\ post[i].by = d /\ post[i].turn = told'[d][m])
    BY <1>1, <1>11 DEF InboxInv
  <2>1. CASE d = c
    <3>1. /\ m \in again /\ m \in Posts /\ told[c][m] \in Nat
          /\ told'[c][m] = told[c][m] + 1
      BY <1>3, <1>5, <1>7, <1>8, <2>1
    <3> QED
      BY <1>2, <1>3, <1>13, <2>1, <3>1
  <2>2. CASE d # c
    BY <1>5, <1>6, <2>2 DEF MessageInv, InboxInv
  <2> QED
    BY <2>1, <2>2
<1>15. WorkInv'
  BY <1>1, <1>4, <1>5, <1>6 DEF MessageInv, WorkInv
<1>16. TodoInv'
  <2> SUFFICES ASSUME NEW d \in Clients, work[d].step \in {"forward", "record"}
               PROVE  Fit(d, work[d].msg, work[d].todo)'
    BY <1>4 DEF MessageInv, TodoInv
  <2>1. d # c /\ Fit(d, work[d].msg, work[d].todo)
    BY <1>4 DEF MessageInv, TodoInv
  <2> QED
    BY <1>1, <1>6, <1>11, <2>1, <1>4 DEF Fit
<1>17. CopyInv'
  BY <1>1, <1>11, <1>13 DEF MessageInv, CopyInv, RuleCopiesAccounted
<1>18. RecordInv'
  <2>1. \A d \in Clients : work[d].step = "record" => told'[d] = told[d]
    BY <1>4, <1>6
  <2> QED
    BY <1>1, <1>4, <1>11, <2>1 DEF MessageInv, RecordInv
<1>19. KnownInv'
  <2>1. \A d \in Clients : work[d].step = "record" => told'[d] = told[d]
    BY <1>4, <1>6
  <2> QED
    BY <1>1, <1>4, <1>11, <1>12, <2>1 DEF MessageInv, KnownInv, IsRule
<1> QED
  BY <1>10, <1>14, <1>15, <1>16, <1>17, <1>18, <1>19 DEF MessageInv

-----------------------------------------------------------------------------
(* Rules *)

\* A rule is set: no copy is of one that was not there before.
LEMMA KeepSetRule ==
  ASSUME MessageInv, NEW r \in Rules, NEW s \in Settings, SetRule(r, s),
         IsRule(r) \/ settings[r] = {}
  PROVE  MessageInv'
<1>1. /\ UNCHANGED <<record, stored, traffic, deleting, unrecorded, emptied>>
      /\ rule' = [rule EXCEPT ![r] = s] /\ settings' = [settings EXCEPT ![r] = @ \cup {s}]
  BY DEF SetRule
<1>2. /\ rule' \in [Rules -> Settings \cup {Unset}] /\ settings' \in [Rules -> SUBSET Settings]
      /\ \A q \in Rules : settings[q] \subseteq settings'[q]
      /\ rule'[r] = s /\ s \in settings'[r] /\ \A q \in Rules \ {r} : rule'[q] = rule[q]
  BY <1>1 DEF MessageInv, TypeRules
<1>3. /\ TypePosts' /\ TypeWork' /\ InboxInv' /\ WorkInv' /\ TodoInv' /\ CopyInv'
      /\ Copies' = Copies /\ \A i, q, m, c, k : Made(i, q, m, c, k)' <=> Made(i, q, m, c, k)
  BY <1>1, <1>2, RulesMove
<1>4. UNCHANGED <<post, told, work>>
  BY <1>1 DEF traffic
<1>5. TypeRules' /\ SettingInv'
  BY <1>1, <1>2 DEF MessageInv, TypeRules, SettingInv, IsRule
<1>6. RecordInv'
  BY <1>1, <1>3, <1>4 DEF MessageInv, RecordInv
<1>7. KnownInv'
  <2>1. \A q \in Rules : IsRule(q)' => IsRule(q) \/ (q = r /\ settings[r] = {})
    BY <1>2 DEF IsRule
  <2>2. settings[r] = {} => \A i \in Copies : post[i].rule # r
    BY DEF MessageInv, CopyInv, RuleCopiesAccounted
  <2>3. Copies' = Copies
    BY <1>3
  <2> QED
    BY <1>1, <1>4, <2>1, <2>2, <2>3 DEF MessageInv, KnownInv, Turn
<1> QED
  BY <1>3, <1>5, <1>6, <1>7 DEF MessageInv

\* A rule is there, as it was asked for.
LEMMA KeepCreateRule ==
  ASSUME MessageInv, CreateRule
  PROVE  MessageInv'
<1>1. PICK r \in Rules, s \in NewRules : settings[r] = {} /\ SetRule(r, s)
  BY DEF CreateRule
<1> QED
  BY <1>1, KeepSetRule, RoutingAssumption

\* A rule is changed.
LEMMA KeepUpdateRule ==
  ASSUME MessageInv, NEW r \in Rules, UpdateRule(r)
  PROVE  MessageInv'
<1>1. PICK e \in RuleEdits : IsRule(r) /\ SetRule(r, Edited(rule[r], e))
  BY DEF UpdateRule
<1>2. Edited(rule[r], e) \in Settings
  BY <1>1, RoutingAssumption DEF MessageInv, TypeRules, IsRule
<1> QED
  BY <1>1, <1>2, KeepSetRule

\* A rule is switched.
LEMMA KeepToggleRule ==
  ASSUME MessageInv, NEW r \in Rules, ToggleRule(r)
  PROVE  MessageInv'
<1>1. IsRule(r) /\ SetRule(r, [rule[r] EXCEPT !.active = ~@]) /\ rule[r] \in Settings
  BY DEF ToggleRule, MessageInv, TypeRules, IsRule
<1>2. [rule[r] EXCEPT !.active = ~@] \in Settings
  BY <1>1 DEF Settings
<1> QED
  BY <1>1, <1>2, KeepSetRule

\* The records of a rule are deleted.
LEMMA KeepDeleteMessages ==
  ASSUME MessageInv, NEW r \in Rules, DeleteMessages(r)
  PROVE  MessageInv'
<1>1. /\ UNCHANGED <<rule, stored, traffic, settings, unrecorded>>
      /\ record' = [record EXCEPT ![r] = {}] /\ deleting' = deleting \cup {r}
      /\ emptied' = emptied \cup {r}
  BY DEF DeleteMessages
<1>2. UNCHANGED <<post, told, work>>
  BY <1>1 DEF traffic
<1>3. \A q \in Rules : settings[q] \subseteq settings'[q]
  BY <1>1
<1>4. /\ TypePosts' /\ TypeWork' /\ InboxInv' /\ WorkInv' /\ TodoInv' /\ CopyInv'
      /\ Copies' = Copies /\ \A i, q, m, c, k : Made(i, q, m, c, k)' <=> Made(i, q, m, c, k)
  BY <1>1, <1>3, RulesMove
<1>5. TypeRules' /\ SettingInv'
  BY <1>1 DEF MessageInv, TypeRules, SettingInv, IsRule
<1>6. record'[r] = {} /\ \A q \in Rules \ {r} : record'[q] = record[q]
  BY <1>1 DEF MessageInv, TypeRules
<1>7. RecordInv'
  <2>1. \A q \in Rules : record'[q] \subseteq record[q]
    BY <1>6
  <2> QED
    BY <1>1, <1>2, <1>4, <2>1 DEF MessageInv, RecordInv
<1>8. KnownInv'
  BY <1>1, <1>2, <1>4, <1>6 DEF MessageInv, KnownInv, IsRule
<1> QED
  BY <1>4, <1>5, <1>7, <1>8 DEF MessageInv

\* The rule itself is deleted.
LEMMA KeepDeleteRule ==
  ASSUME MessageInv, NEW r \in Rules, DeleteRule(r)
  PROVE  MessageInv'
<1>1. /\ UNCHANGED <<record, stored, traffic, settings, unrecorded, emptied>>
      /\ rule' \in {rule, [rule EXCEPT ![r] = Unset]} /\ deleting' = deleting \ {r}
  BY DEF DeleteRule, memories
<1>2. UNCHANGED <<post, told, work>>
  BY <1>1 DEF traffic
<1>3. \A q \in Rules : settings[q] \subseteq settings'[q]
  BY <1>1
<1>4. /\ TypePosts' /\ TypeWork' /\ InboxInv' /\ WorkInv' /\ TodoInv' /\ CopyInv'
      /\ Copies' = Copies /\ \A i, q, m, c, k : Made(i, q, m, c, k)' <=> Made(i, q, m, c, k)
  BY <1>1, <1>3, RulesMove
<1>5. /\ rule' \in [Rules -> Settings \cup {Unset}]
      /\ \A q \in Rules : rule'[q] = rule[q] \/ rule'[q] = Unset
  BY <1>1 DEF MessageInv, TypeRules
<1>6. TypeRules' /\ SettingInv'
  BY <1>1, <1>5 DEF MessageInv, TypeRules, SettingInv, IsRule
<1>7. RecordInv'
  BY <1>1, <1>2, <1>4 DEF MessageInv, RecordInv
<1>8. KnownInv'
  BY <1>1, <1>2, <1>4, <1>5 DEF MessageInv, KnownInv, IsRule
<1> QED
  BY <1>4, <1>6, <1>7, <1>8 DEF MessageInv

-----------------------------------------------------------------------------
(* Collectors *)

\* An open request, and one that is none.
LEMMA RequestShape ==
  ASSUME TypeGatherers, NEW o \in Operators
  PROVE  /\ request[o] # NoRequest =>
              /\ request[o] \in [step : {"check", "write"}, id : Gatherers \cup {0},
                                 body : ChannelBodies]
              /\ About(o) = request[o].body.channel
         /\ request[o] = NoRequest => About(o) = Unset
BY DEF TypeGatherers, Requests, NoRequest, About

\* A request that ends leaves the others as they are.
LEMMA CloseFact ==
  ASSUME GathererInv, NEW o \in Operators, Close(o)
  PROVE  /\ request' \in [Operators -> Requests] /\ request'[o] = NoRequest
         /\ \A p \in Operators \ {o} : request'[p] = request[p]
         /\ About(o)' = Unset /\ \A p \in Operators \ {o} : About(p)' = About(p)
<1>1. NoRequest \in Requests
  BY DEF NoRequest, Requests
<1>2. /\ request' \in [Operators -> Requests] /\ request'[o] = NoRequest
      /\ \A p \in Operators \ {o} : request'[p] = request[p]
  BY <1>1 DEF GathererInv, TypeGatherers, Close
<1> QED
  BY <1>2 DEF About

\* It ends, and nothing is written.
LEMMA KeepClose ==
  ASSUME GathererInv, NEW o \in Operators, Close(o), UNCHANGED <<gatherer, contested>>
  PROVE  GathererInv'
<1>1. /\ request' \in [Operators -> Requests] /\ request'[o] = NoRequest
      /\ \A p \in Operators \ {o} : request'[p] = request[p]
      /\ About(o)' = Unset /\ \A p \in Operators \ {o} : About(p)' = About(p)
  BY CloseFact
<1>2. TypeGatherers' /\ ChannelsAccounted'
  BY <1>1 DEF GathererInv, TypeGatherers, ChannelsAccounted
<1>3. RequestInv'
  BY <1>1 DEF GathererInv, RequestInv
<1> QED
  BY <1>2, <1>3 DEF GathererInv

\* A request begins: what it is about is contested if another is about it.
LEMMA KeepOpen ==
  ASSUME GathererInv, NEW o \in Operators, NEW k \in Gatherers \cup {0},
         NEW step \in {"check", "write"}, NEW body \in ChannelBodies, Open(o, k, step, body),
         k = 0 => body.channel \notin {NoChannel, Unset}, k # 0 => gatherer[k] # Unset,
         step = "write" => body.channel \in {NoChannel, Unset}
  PROVE  GathererInv'
<1> DEFINE a == [step |-> step, id |-> k, body |-> body]
           ch == body.channel
<1>1. /\ request[o] = NoRequest /\ request' = [request EXCEPT ![o] = a] /\ gatherer' = gatherer
      /\ contested' = contested \cup {c \in {ch} : \E p \in Operators : About(p) = c}
  BY DEF Open, tables
<1>2. a \in Requests /\ a.step = step /\ a.id = k /\ a.body = body /\ a # NoRequest
  BY DEF Requests, NoRequest
<1> HIDE DEF a
<1>3. /\ request' \in [Operators -> Requests] /\ request'[o] = a
      /\ \A p \in Operators \ {o} : request'[p] = request[p]
  BY <1>1, <1>2 DEF GathererInv, TypeGatherers
<1>4. /\ About(o)' = ch /\ About(o) = Unset /\ \A p \in Operators \ {o} : About(p)' = About(p)
  BY <1>1, <1>2, <1>3 DEF About
<1>5. TypeGatherers' /\ ChannelsAccounted'
  BY <1>1, <1>3 DEF GathererInv, TypeGatherers, ChannelsAccounted
<1>6. RequestInv'
  <2> SUFFICES ASSUME NEW p \in Operators, request'[p] # NoRequest
               PROVE  LET c == request'[p].body.channel id == request'[p].id
                      IN /\ id = 0 => c \notin {NoChannel, Unset}
                         /\ id # 0 => gatherer[id] # Unset
                         /\ c \notin contested' \cup {NoChannel, Unset} =>
                              /\ \A q \in Operators : About(q)' = c => q = p
                              /\ request'[p].step = "write" =>
                                   \A l \in Gatherers \ {id} :
                                     gatherer[l] # Unset => gatherer[l].channel # c
    BY <1>1 DEF RequestInv
  <2>1. CASE p = o
    <3>1. /\ request'[p].body.channel = ch /\ request'[p].id = k /\ request'[p].step = step
      BY <1>2, <1>3, <2>1
    <3>2. ch \notin contested' => \A q \in Operators : About(q)' = ch => q = o
      BY <1>1, <1>4
    <3> QED
      BY <2>1, <3>1, <3>2
  <2>2. CASE p # o
    <3>1. request'[p] = request[p] /\ About(p) = request[p].body.channel
      BY <1>3, <2>2 DEF About
    <3>2. ch = About(p) => ch \in contested'
      BY <1>1
    <3>3. \A q \in Operators : About(q)' = About(p) /\ About(p) \notin contested' => q = p \/ About(q) = About(p)
      BY <1>4, <3>2
    <3> QED
      BY <1>1, <2>2, <3>1, <3>3 DEF GathererInv, RequestInv
  <2> QED
    BY <2>1, <2>2
<1> QED
  BY <1>5, <1>6 DEF GathererInv

\* A request begins, to make a collector ...
LEMMA KeepAskCreate ==
  ASSUME GathererInv, NEW o \in Operators, AskCreate(o)
  PROVE  GathererInv'
<1>1. PICK b \in ChannelBodies : b.channel \notin {NoChannel, Unset} /\ Open(o, 0, "check", b)
  BY DEF AskCreate
<1> QED
  BY <1>1, KeepOpen

\* ... or to change one.
LEMMA KeepAskUpdate ==
  ASSUME GathererInv, NEW o \in Operators, AskUpdate(o)
  PROVE  GathererInv'
<1>1. PICK k \in Gatherers, b \in ChannelBodies :
        /\ gatherer[k] # Unset
        /\ Open(o, k, IF b.channel \in {NoChannel, Unset} THEN "write" ELSE "check", b)
  BY DEF AskUpdate
<1>2. CASE b.channel \in {NoChannel, Unset}
  BY <1>1, <1>2, KeepOpen, RoutingBoundFact
<1>3. CASE b.channel \notin {NoChannel, Unset}
  BY <1>1, <1>3, KeepOpen, RoutingBoundFact
<1> QED
  BY <1>2, <1>3

\* A request finds no other collector of its channel, or is refused.
LEMMA KeepCheckChannel ==
  ASSUME GathererInv, NEW o \in Operators, CheckChannel(o)
  PROVE  GathererInv'
<1> DEFINE ch == request[o].body.channel
           id == request[o].id
<1>1. request[o].step = "check" /\ UNCHANGED <<gatherer, contested>>
  BY DEF CheckChannel, tables, memories
<1>2. CASE Close(o)
  BY <1>1, <1>2, KeepClose
<1>3. CASE /\ ~\E k \in Gatherers \ {id} : gatherer[k] # Unset /\ gatherer[k].channel = ch
           /\ request' = [request EXCEPT ![o].step = "write"]
  <2> DEFINE a == [request[o] EXCEPT !.step = "write"]
  <2>1. /\ request[o] # NoRequest /\ About(o) = ch
        /\ request[o] \in [step : {"check", "write"}, id : Gatherers \cup {0}, body : ChannelBodies]
    BY <1>1, RequestShape DEF GathererInv, NoRequest
  <2>2. a \in Requests /\ a.step = "write" /\ a.id = id /\ a.body = request[o].body /\ a # NoRequest
    BY <2>1 DEF Requests, NoRequest
  <2>3. request' = [request EXCEPT ![o] = a]
    BY <1>3
  <2> HIDE DEF a
  <2>4. /\ request' \in [Operators -> Requests] /\ request'[o] = a
        /\ \A p \in Operators \ {o} : request'[p] = request[p]
    BY <2>2, <2>3 DEF GathererInv, TypeGatherers
  <2>5. \A p \in Operators : About(p)' = About(p)
    BY <2>1, <2>2, <2>4 DEF About
  <2>6. TypeGatherers' /\ ChannelsAccounted'
    BY <1>1, <2>4 DEF GathererInv, TypeGatherers, ChannelsAccounted
  <2>7. RequestInv'
    <3> SUFFICES ASSUME NEW p \in Operators, request'[p] # NoRequest
                 PROVE  LET c == request'[p].body.channel i == request'[p].id
                        IN /\ i = 0 => c \notin {NoChannel, Unset}
                           /\ i # 0 => gatherer[i] # Unset
                           /\ c \notin contested \cup {NoChannel, Unset} =>
                                /\ \A q \in Operators : About(q) = c => q = p
                                /\ request'[p].step = "write" =>
                                     \A l \in Gatherers \ {i} :
                                       gatherer[l] # Unset => gatherer[l].channel # c
      BY <1>1, <2>5 DEF RequestInv
    <3>1. CASE p = o
      BY <1>3, <2>1, <2>2, <2>4, <3>1 DEF GathererInv, RequestInv
    <3>2. CASE p # o
      BY <2>4, <3>2 DEF GathererInv, RequestInv
    <3> QED
      BY <3>1, <3>2
  <2> QED
    BY <2>6, <2>7 DEF GathererInv
<1> QED
  BY <1>2, <1>3 DEF CheckChannel

\* A request writes: no other is about its channel, and no other collector of it,
\* unless the channel is contested.
LEMMA KeepWriteCollector ==
  ASSUME GathererInv, NEW o \in Operators, WriteCollector(o)
  PROVE  GathererInv'
<1> DEFINE b == request[o].body
           id == request[o].id
<1>1. request[o].step = "write" /\ UNCHANGED contested /\ Close(o)
  BY DEF WriteCollector, memories
<1>2. /\ request[o] # NoRequest /\ About(o) = b.channel
      /\ id \in Gatherers \cup {0} /\ b \in ChannelBodies
  BY <1>1, RequestShape DEF GathererInv, NoRequest
<1>3. b.channel \in Chats \cup {NoChannel, Unset} /\ b.active \in BOOLEAN \cup {Unset}
  BY <1>2, RoutingAssumption
<1>4. /\ id = 0 => b.channel \notin {NoChannel, Unset}
      /\ id # 0 => gatherer[id] # Unset
      /\ b.channel \notin contested \cup {NoChannel, Unset} =>
           /\ \A p \in Operators : About(p) = b.channel => p = o
           /\ \A k \in Gatherers \ {id} : gatherer[k] # Unset => gatherer[k].channel # b.channel
  BY <1>1, <1>2 DEF GathererInv, RequestInv
<1>5. /\ request' \in [Operators -> Requests] /\ request'[o] = NoRequest
      /\ \A p \in Operators \ {o} : request'[p] = request[p]
      /\ About(o)' = Unset /\ \A p \in Operators \ {o} : About(p)' = About(p)
  BY <1>1, CloseFact
<1>6. gatherer \in [Gatherers -> Gathering \cup {Unset}]
  BY DEF GathererInv, TypeGatherers
<1>7. PICK k \in Gatherers, g \in Gathering :
        /\ gatherer' = [gatherer EXCEPT ![k] = g]
        /\ id = 0 => gatherer[k] = Unset
        /\ id # 0 => k = id
        /\ g.channel = b.channel \/ (b.channel = Unset /\ gatherer[k] # Unset /\ g.channel = gatherer[k].channel)
        /\ (id # 0 /\ b.channel = Unset) => g.channel = gatherer[k].channel
  <2>1. CASE id = 0
    <3>1. PICK new \in Gatherers :
            /\ gatherer[new] = Unset
            /\ gatherer' = [gatherer EXCEPT ![new] =
                 [channel |-> b.channel, active |-> GivenOr(b.active, TRUE)]]
      BY <2>1 DEF WriteCollector
    <3>2. [channel |-> b.channel, active |-> GivenOr(b.active, TRUE)] \in Gathering
      BY <1>3, <1>4, <2>1 DEF Gathering, GivenOr
    <3> QED
      BY <2>1, <3>1, <3>2
  <2>2. CASE id # 0
    <3> DEFINE old == gatherer[id]
               g == [channel |-> GivenOr(b.channel, old.channel), active |-> GivenOr(b.active, old.active)]
    <3>1. id \in Gatherers /\ old # Unset /\ old \in Gathering
      BY <1>2, <1>4, <1>6, <2>2
    <3>2. gatherer' = [gatherer EXCEPT ![id] = g]
      BY <2>2 DEF WriteCollector
    <3>3. GivenOr(b.channel, old.channel) \in Chats \cup {NoChannel}
      BY <1>3, <3>1 DEF Gathering, GivenOr
    <3>4. GivenOr(b.active, old.active) \in BOOLEAN
      BY <1>3, <3>1, Zenon DEF Gathering, GivenOr
    <3>5. g \in Gathering /\ g.channel = GivenOr(b.channel, old.channel)
      BY <3>3, <3>4 DEF Gathering
    <3> HIDE DEF g
    <3>6. /\ g.channel = b.channel \/ (b.channel = Unset /\ g.channel = old.channel)
          /\ b.channel = Unset => g.channel = old.channel
      BY <3>5 DEF GivenOr
    <3> QED
      BY <2>2, <3>1, <3>2, <3>5, <3>6
  <2> QED
    BY <2>1, <2>2
<1>8. /\ gatherer' \in [Gatherers -> Gathering \cup {Unset}] /\ gatherer'[k] = g /\ g # Unset
      /\ \A l \in Gatherers \ {k} : gatherer'[l] = gatherer[l]
  BY <1>6, <1>7, RoutingBoundFact
<1>9. TypeGatherers'
  BY <1>5, <1>8 DEF TypeGatherers
<1>10. ASSUME NEW l \in Gatherers \ {k}, gatherer[l] # Unset, gatherer[l].channel = g.channel
       PROVE  g.channel \in contested \cup {NoChannel}
  <2>1. CASE g.channel = b.channel /\ b.channel # Unset
    <3>1. l # id
      BY <1>4, <1>7, RoutingBoundFact
    <3> QED
      BY <1>4, <1>10, <2>1, <3>1
  <2>2. CASE gatherer[k] # Unset /\ g.channel = gatherer[k].channel
    BY <1>10, <2>2 DEF GathererInv, ChannelsAccounted
  <2>3. CASE g.channel = b.channel /\ b.channel = Unset
    <3>1. id # 0 /\ k = id /\ gatherer[k] # Unset
      BY <1>4, <1>7, <2>3
    <3>2. g.channel = gatherer[k].channel
      BY <1>7, <2>3, <3>1
    <3> QED
      BY <1>10, <3>1, <3>2 DEF GathererInv, ChannelsAccounted
  <2> QED
    BY <1>7, <2>1, <2>2, <2>3
<1>11. ChannelsAccounted'
  <2> SUFFICES ASSUME NEW l \in Gatherers, NEW i \in Gatherers, l # i, gatherer'[l] # Unset,
                      gatherer'[i] # Unset, gatherer'[l].channel = gatherer'[i].channel
               PROVE  gatherer'[l].channel \in contested \cup {NoChannel}
    BY <1>1 DEF ChannelsAccounted
  <2>1. CASE l # k /\ i # k
    BY <1>8, <2>1 DEF GathererInv, ChannelsAccounted
  <2>2. CASE l = k
    BY <1>8, <1>10, <2>2
  <2>3. CASE i = k
    BY <1>8, <1>10, <2>3
  <2> QED
    BY <2>1, <2>2, <2>3
<1>12. RequestInv'
  <2> SUFFICES ASSUME NEW p \in Operators \ {o}, request[p] # NoRequest
               PROVE  LET c == request[p].body.channel i == request[p].id
                      IN /\ i = 0 => c \notin {NoChannel, Unset}
                         /\ i # 0 => gatherer'[i] # Unset
                         /\ c \notin contested \cup {NoChannel, Unset} =>
                              /\ \A q \in Operators : About(q)' = c => q = p
                              /\ request[p].step = "write" =>
                                   \A l \in Gatherers \ {i} :
                                     gatherer'[l] # Unset => gatherer'[l].channel # c
    BY <1>1, <1>5 DEF RequestInv
  <2> DEFINE c == request[p].body.channel
             i == request[p].id
  <2>1. /\ i = 0 => c \notin {NoChannel, Unset}
        /\ i # 0 => gatherer[i] # Unset
        /\ c \notin contested \cup {NoChannel, Unset} =>
             /\ \A q \in Operators : About(q) = c => q = p
             /\ request[p].step = "write" =>
                  \A l \in Gatherers \ {i} : gatherer[l] # Unset => gatherer[l].channel # c
    BY DEF GathererInv, RequestInv
  <2>2. About(p) = c
    BY DEF About
  <2>3. i # 0 => gatherer'[i] # Unset
    BY <1>8, <2>1, RequestShape DEF GathererInv
  <2>4. ASSUME c \notin contested \cup {NoChannel, Unset}
        PROVE  \A q \in Operators : About(q)' = c => q = p
    BY <1>5, <2>1, <2>4
  <2>5. ASSUME c \notin contested \cup {NoChannel, Unset}, request[p].step = "write",
               NEW l \in Gatherers \ {i}, gatherer'[l] # Unset
        PROVE  gatherer'[l].channel # c
    <3>1. CASE l # k
      BY <1>8, <2>1, <2>5, <3>1
    <3>2. CASE l = k /\ g.channel = b.channel
      <4>1. b.channel # c
        BY <1>2, <2>1, <2>5
      <4> QED
        BY <1>8, <3>2, <4>1
    <3>3. CASE l = k /\ gatherer[k] # Unset /\ g.channel = gatherer[k].channel
      BY <1>8, <2>1, <2>5, <3>3
    <3> QED
      BY <1>7, <3>1, <3>2, <3>3
  <2> QED
    BY <2>1, <2>3, <2>4, <2>5
<1> QED
  BY <1>9, <1>11, <1>12 DEF GathererInv

-----------------------------------------------------------------------------
\* A message reaches listeners that are alive.
LEMMA PublishAlive ==
  ASSUME AliveInv, TypePosts, NEW p, Publish(p), listening' = listening,
         \A d \in Clients \ listening : work'[d] = work[d]
  PROVE  AliveInv'
<1>1. PICK reached \in SUBSET listening :
        inbox' = [c \in Clients |-> IF c \in reached THEN inbox[c] \cup {Len(post) + 1} ELSE inbox[c]]
  BY DEF Publish, TypePosts
<1> QED
  BY <1>1 DEF AliveInv

\* Only a listener that is alive has work.
LEMMA KeepAlive ==
  ASSUME MessageInv, AliveInv,
         \/ Outside \/ CreateRule
         \/ \E c \in Clients : Listener(c) \/ StopListener(c) \/ StartListener(c)
         \/ \E r \in Rules : UpdateRule(r) \/ ToggleRule(r) \/ DeleteMessages(r) \/ DeleteRule(r)
  PROVE  AliveInv'
<1>1. CASE Outside
  <2>1. listening' = listening /\ work' = work
    BY <1>1 DEF Outside
  <2> QED
    BY <1>1, <2>1, PublishAlive DEF Outside, MessageInv
<1>2. CASE CreateRule
  BY <1>2 DEF CreateRule, SetRule, traffic, AliveInv
<1>3. ASSUME NEW c \in Clients, Listener(c)
      PROVE  AliveInv'
  <2>1. listening' = listening /\ c \in listening
    BY <1>3 DEF Listener, Receive, Forward, Record, Collect, SaveHistory, AliveInv, IdleWork
  <2>2. \A d \in Clients \ {c} : work'[d] = work[d]
    BY <1>3 DEF Listener, Receive, Forward, Record, Collect, SaveHistory, ForwardThen, GoTo,
                MessageInv, TypeWork
  <2>3. CASE inbox' = inbox \/ \E m \in inbox[c] : inbox' = [inbox EXCEPT ![c] = @ \ {m}]
    BY <2>1, <2>2, <2>3 DEF AliveInv, MessageInv, TypePosts
  <2>4. CASE \E p : Publish(p)
    BY <2>1, <2>2, <2>4, PublishAlive DEF MessageInv
  <2> QED
    BY <1>3, <2>3, <2>4 DEF Listener, Receive, Forward, Record, Collect, SaveHistory
<1>4. ASSUME NEW c \in Clients, StopListener(c)
      PROVE  AliveInv'
  BY <1>4 DEF StopListener, GoTo, AliveInv, MessageInv, TypeWork, TypePosts
<1>5. ASSUME NEW c \in Clients, StartListener(c)
      PROVE  AliveInv'
  <2>1. /\ listening' = listening \cup {c}
        /\ \A d \in Clients \ {c} : work'[d] = work[d] /\ inbox'[d] = inbox[d]
    BY <1>5 DEF StartListener, GoTo, MessageInv, TypeWork, TypePosts
  <2> QED
    BY <2>1 DEF AliveInv
<1>6. ASSUME NEW r \in Rules,
             UpdateRule(r) \/ ToggleRule(r) \/ DeleteMessages(r) \/ DeleteRule(r)
      PROVE  AliveInv'
  BY <1>6 DEF UpdateRule, ToggleRule, DeleteMessages, DeleteRule, SetRule, traffic, AliveInv
<1> QED
  BY <1>1, <1>2, <1>3, <1>4, <1>5, <1>6

\* Every step keeps the invariant: those of messages and rules leave the
\* collectors alone, and the requests on collectors the messages.
LEMMA MessageStep ==
  ASSUME MessageInv, AliveInv,
         \/ Outside \/ CreateRule
         \/ \E c \in Clients : Listener(c) \/ StopListener(c) \/ StartListener(c)
         \/ \E r \in Rules : UpdateRule(r) \/ ToggleRule(r) \/ DeleteMessages(r) \/ DeleteRule(r)
  PROVE  MessageInv' /\ UNCHANGED <<gatherer, request, contested>>
<1>1. MessageInv'
  BY KeepOutside, KeepCreateRule, KeepReceive, KeepForward, KeepRecord, KeepCollect,
     KeepSaveHistory, KeepStopListener, KeepStartListener, KeepUpdateRule, KeepToggleRule,
     KeepDeleteMessages, KeepDeleteRule DEF Listener
<1>2. UNCHANGED <<gatherer, request, contested>>
  BY DEF Outside, CreateRule, Listener, Receive, Forward, Record, Collect, SaveHistory,
     StopListener, StartListener, UpdateRule, ToggleRule, DeleteMessages, DeleteRule, SetRule,
     tables, asking, memories
<1> QED
  BY <1>1, <1>2

\* The requests on collectors touch no rule.
LEMMA GathererStep ==
  ASSUME GathererInv,
         \E o \in Operators : \/ AskCreate(o) \/ AskUpdate(o) \/ CheckChannel(o)
                              \/ WriteCollector(o) \/ AskBreaks(o)
  PROVE  /\ GathererInv'
         /\ UNCHANGED <<rule, record, stored, traffic, deleting, settings, unrecorded, emptied>>
<1>1. ASSUME NEW o \in Operators, AskBreaks(o)
      PROVE  GathererInv'
  BY <1>1, KeepClose DEF AskBreaks, tables, memories
<1>2. GathererInv'
  BY <1>1, KeepAskCreate, KeepAskUpdate, KeepCheckChannel, KeepWriteCollector
<1>3. UNCHANGED <<rule, record, stored, traffic, deleting, settings, unrecorded, emptied>>
  BY DEF AskCreate, AskUpdate, Open, CheckChannel, WriteCollector, AskBreaks, tables, memories
<1> QED
  BY <1>2, <1>3

\* Every step keeps the invariant.
LEMMA RoutingStep == RoutingInv /\ [RoutingNext]_routingVars => RoutingInv'
<1> SUFFICES ASSUME RoutingInv, [RoutingNext]_routingVars PROVE RoutingInv'
  OBVIOUS
<1>1. CASE UNCHANGED routingVars
  BY <1>1, KeepMessages, KeepGatherers
     DEF routingVars, tables, asking, memories, RoutingInv, AliveInv, traffic
<1>2. CASE \/ Outside \/ CreateRule
           \/ \E c \in Clients : Listener(c) \/ StopListener(c) \/ StartListener(c)
           \/ \E r \in Rules : UpdateRule(r) \/ ToggleRule(r) \/ DeleteMessages(r) \/ DeleteRule(r)
  BY <1>2, MessageStep, KeepAlive, KeepGatherers DEF RoutingInv
<1>3. CASE \E o \in Operators : \/ AskCreate(o) \/ AskUpdate(o) \/ CheckChannel(o)
                                \/ WriteCollector(o) \/ AskBreaks(o)
  BY <1>3, GathererStep, KeepMessages DEF RoutingInv, AliveInv, traffic
<1> QED
  BY <1>1, <1>2, <1>3 DEF RoutingNext

\* The inductive invariant holds in every state.
THEOREM RoutingInvariance == RoutingSpec => []RoutingInv
BY RoutingInitInv, RoutingStep, PTL DEF RoutingSpec

\* The rules, the messages, the listeners and the collectors keep their types
\* (services/message_handler.rs, services/forwarder.rs).
THEOREM RoutingTypeCorrect == RoutingSpec => []RoutingTypeOK
<1>1. RoutingInv => RoutingTypeOK
  <2> SUFFICES ASSUME RoutingInv PROVE RoutingTypeOK
    OBVIOUS
  <2>1. \A c \in Clients : work[c].step \in {"idle", "forward", "record", "collect", "save"}
    BY WorkShape DEF RoutingInv, MessageInv
  <2>2. \A o \in Operators : request[o].step \in {"none", "check", "write"}
    BY RequestShape DEF RoutingInv, GathererInv, NoRequest
  <2> QED
    BY <2>1, <2>2 DEF RoutingInv, MessageInv, GathererInv, RoutingTypeOK, TypeRules, TypePosts,
       TypeGatherers, Outcomes
<1> QED
  BY <1>1, RoutingInvariance, PTL

\* A rule posts a message at most once for each time that the listener of an
\* account was told of it, when it came and at each start that catches up, and
\* only when a setting of it says so; its records are of what it posted; and two
\* collectors are for one channel only after two requests crossed
\* (message_handler.rs, forwarder.rs, handlers/rule.rs, handlers/collector.rs).
THEOREM RoutingHolds == RoutingSpec => []RoutingAccounted
<1>1. RoutingInv => RoutingAccounted
  <2> SUFFICES ASSUME RoutingInv PROVE RoutingAccounted
    OBVIOUS
  <2>1. RuleRecordsAccounted
    BY DEF RoutingInv, MessageInv, RecordInv, KnownInv, RuleRecordsAccounted, Made, Outcomes
  <2> QED
    BY <2>1 DEF RoutingAccounted, RoutingInv, MessageInv, GathererInv, CopyInv
<1> QED
  BY <1>1, RoutingInvariance, PTL

=============================================================================
