--------------------------- MODULE LinkCheckProofs ---------------------------
(***************************************************************************)
(* Proofs about the link check, for any number of callers, resources and   *)
(* spellings, every TTL and chunk size, and any number of changes, requests*)
(* and faults.                                                             *)
(*                                                                         *)
(* The inductive invariant adds up what is left of a verdict's time and    *)
(* the time since the verdict was true, in the cache and before the save;  *)
(* and it says who may still hold the newest verdict on a link.            *)
(*                                                                         *)
(* The proofs about the image proxy and the API keys follow.               *)
(***************************************************************************)
EXTENDS LinkCheck, ImageProxy, ApiKeys, FiniteSetTheorems, TLAPS

\* A link that is dead now was dead no hour ago, and likewise for one that works.
WorldInv ==
  \A u \in Links :
    /\ u \in dead => deadAgo[u] = 0
    /\ u \notin dead => worksAgo[u] = 0

\* Answers are held between the first question and the last save, and never on
\* a link that is still to be asked about.
AnswerInv ==
  \A p \in Procs, u \in Links : answer[p][u] # "none" =>
    at[p] \in {"ask", "save"} /\ u \notin todo[p]

\* What is left of a verdict's time and the time since it was true are together
\* no more than TTL: in the cache, and before, under the expiry it will get.
CacheInv ==
  \A u \in Links : cache[u].left > 0 =>
    /\ cache[u].status = "invalid" => deadAgo[u] + cache[u].left <= TTL
    /\ cache[u].status = "valid" => worksAgo[u] + cache[u].left <= TTL

HeldInv ==
  \A p \in Procs, u \in Links :
    /\ answer[p][u] = "invalid" => deadAgo[u] + expires[p] <= TTL
    /\ answer[p][u] = "valid" => worksAgo[u] + expires[p] <= TTL

\* A link that bars a resource from the push was dead TTL hours ago, and less as
\* long as the check has not met the end of an hour.
PushInv ==
  /\ at[Pusher] = "idle" => batch = {} /\ result = Nothing
  /\ \A u \in Links : result[u] = "invalid" =>
       /\ deadAgo[u] <= TTL
       /\ at[Pusher] \in {"ask", "save"} /\ expires[Pusher] = TTL => deadAgo[u] < TTL

\* Unless it is lost, the newest verdict on a link is in the cache or the only
\* one held.
NewestInv ==
  \A u \in Links : newest[u] # "lost" =>
    /\ (\A p \in Procs : answer[p][u] \notin Verdicts) => cache[u].status = newest[u]
    /\ \A p \in Procs : answer[p][u] \in Verdicts =>
         /\ newest[u] = answer[p][u]
         /\ \A q \in Procs : answer[q][u] \in Verdicts => q = p

IInv == TypeOK /\ WorldInv /\ AnswerInv /\ CacheInv /\ HeldInv /\ PushInv /\ NewestInv

-----------------------------------------------------------------------------
(* What the operators of the model return *)

\* The constants that are numbers.
LEMMA NumberFact ==
  /\ TTL \in Nat /\ TTL > 0 /\ 0 \in 0..TTL /\ TTL \in 0..TTL
  /\ Long = TTL + 1 /\ Long \in Nat
  /\ MaxChanges \in Nat /\ MaxRequests \in Nat /\ MaxFaults \in Nat
BY CheckAssumption DEF Long

\* The links of a resource are links.
LEMMA LinksOfType == \A r \in Resources : LinksOf(r) \subseteq Links
BY DEF LinksOf, Links

\* A hit of the cache is a row that has not expired.
LEMMA HitsFact ==
  ASSUME TypeOK, NEW S
  PROVE  /\ Hits(S) \in [Links -> {"none"} \cup Verdicts]
         /\ \A u \in Links : Hits(S)[u] # "none" => Hits(S)[u] = cache[u].status /\ cache[u].left > 0
BY DEF Hits, TypeOK, Verdicts

\* What check_urls does first: CheckStarts(p, S, known, rest) says it of the
\* statuses and of the links that are left.
CheckStarts(p, S, known, rest) ==
  /\ at[p] = "idle"
  /\ \A u \in Links : known[u] = "invalid" => cache[u].status = "invalid" /\ cache[u].left > 0
  /\ result' = IF p = Pusher THEN known ELSE result
  /\ batch' = IF p = Pusher THEN S ELSE batch
  /\ \/ /\ todo' = [todo EXCEPT ![p] = rest]
        /\ expires' = [expires EXCEPT ![p] = TTL]
        /\ at' = [at EXCEPT ![p] = "ask"]
     \/ /\ todo' = todo /\ expires' = expires
        /\ at' = [at EXCEPT ![p] = IF p = Pusher THEN "done" ELSE "idle"]
  /\ UNCHANGED <<world, tables, answer, newest, changes>>

\* A check starts from idle; what it finds in the cache has not expired.
LEMMA CheckFact ==
  ASSUME TypeOK, NEW p \in Procs, NEW S \in SUBSET Resources, NEW ignore \in BOOLEAN,
         Check(p, S, ignore)
  PROVE  \E known \in [Links -> Statuses], rest \in SUBSET Links : CheckStarts(p, S, known, rest)
<1> DEFINE urls == UNION {LinksOf(r) : r \in S}
           hits == IF ignore THEN Nothing ELSE Hits(urls)
           rest == {u \in urls : hits[u] = "none"}
           known(none) == [u \in Links |-> IF u \in rest THEN none ELSE hits[u]]
<1>1. urls \in SUBSET Links /\ rest \in SUBSET Links
  BY LinksOfType
<1>2. /\ hits \in [Links -> {"none"} \cup Verdicts]
      /\ \A u \in Links : hits[u] = "invalid" => cache[u].status = "invalid" /\ cache[u].left > 0
  BY HitsFact DEF Nothing
<1>3. \A none \in {"none", "unknown"} :
        /\ known(none) \in [Links -> Statuses]
        /\ \A u \in Links : known(none)[u] = "invalid" => cache[u].status = "invalid" /\ cache[u].left > 0
  BY <1>2 DEF Statuses, Verdicts
<1>4. /\ at[p] = "idle"
      /\ \/ /\ todo' = [todo EXCEPT ![p] = rest]
            /\ expires' = [expires EXCEPT ![p] = TTL]
            /\ result' = IF p = Pusher THEN known("none") ELSE result
            /\ at' = [at EXCEPT ![p] = "ask"]
         \/ /\ result' = IF p = Pusher THEN known("unknown") ELSE result
            /\ at' = [at EXCEPT ![p] = IF p = Pusher THEN "done" ELSE "idle"]
            /\ UNCHANGED <<todo, expires>>
      /\ batch' = IF p = Pusher THEN S ELSE batch
      /\ UNCHANGED <<world, tables, answer, newest, changes>>
  BY DEF Check, Goto
<1> HIDE DEF urls, hits, rest, known
<1>5. CheckStarts(p, S, known("none"), rest) \/ CheckStarts(p, S, known("unknown"), rest)
  BY <1>3, <1>4 DEF CheckStarts
<1> QED
  BY <1>1, <1>3, <1>5

\* A saved answer leaves the others alone; the last one ends the check.
LEMMA NotedFact ==
  ASSUME TypeOK, NEW p \in Procs, NEW u \in Links, Noted(p, u)
  PROVE  /\ answer' = [answer EXCEPT ![p][u] = "none"]
         /\ result' = IF p = Pusher THEN [result EXCEPT ![u] = answer[p][u]] ELSE result
         /\ \/ /\ at' = [at EXCEPT ![p] = "save"] /\ expires' = expires
            \/ /\ \A v \in Links : answer'[p][v] = "none"
               /\ at' = [at EXCEPT ![p] = IF p = Pusher THEN "done" ELSE "idle"]
               /\ expires' = [expires EXCEPT ![p] = 0]
<1>1. CASE \A v \in Links \ {u} : answer[p][v] = "none"
  BY <1>1 DEF Noted, Goto, TypeOK
<1>2. CASE ~ \A v \in Links \ {u} : answer[p][v] = "none"
  BY <1>2 DEF Noted, Goto, TypeOK
<1> QED
  BY <1>1, <1>2

-----------------------------------------------------------------------------
(* Each action preserves the invariant *)

\* The initial states.
LEMMA InitHolds == Init => IInv
<1> SUFFICES ASSUME Init PROVE IInv
  OBVIOUS
<1> USE CheckAssumption
<1>1. TypeOK
  BY DEF Init, TypeOK, Nothing, NoRow, Verdicts, Statuses, Procs, Long
<1>2. WorldInv
  BY DEF Init, WorldInv
<1>3. AnswerInv /\ HeldInv
  BY DEF Init, AnswerInv, HeldInv, Nothing
<1>4. CacheInv
  BY DEF Init, CacheInv, NoRow
<1>5. PushInv
  BY DEF Init, PushInv, Nothing
<1>6. NewestInv
  BY DEF Init, NewestInv, Nothing, NoRow, Verdicts
<1> QED
  BY <1>1, <1>2, <1>3, <1>4, <1>5, <1>6 DEF IInv

\* A check starts.
LEMMA CheckKeeps ==
  ASSUME IInv, NEW p \in Procs, NEW S \in SUBSET Resources, NEW ignore \in BOOLEAN,
         Check(p, S, ignore), requests' \in 0..MaxRequests, faults' = faults
  PROVE  IInv'
<1> USE CheckAssumption
<1>0. TypeOK
  BY DEF IInv
<1>1. PICK known \in [Links -> Statuses], rest \in SUBSET Links : CheckStarts(p, S, known, rest)
  BY <1>0, CheckFact
<1>2. /\ dead' = dead /\ deadAgo' = deadAgo /\ worksAgo' = worksAgo
      /\ cache' = cache /\ pushed' = pushed /\ isPushed' = isPushed
      /\ answer' = answer /\ newest' = newest /\ changes' = changes
  BY <1>1 DEF CheckStarts, world, tables
<1>3. TypeOK'
  <2>1. todo' \in [Procs -> SUBSET Links] /\ expires' \in [Procs -> 0..TTL]
    BY <1>0, <1>1, NumberFact DEF TypeOK, CheckStarts
  <2>3. at' \in [Procs -> {"idle", "ask", "save", "done"}]
    BY <1>0, <1>1 DEF TypeOK, CheckStarts
  <2>2. batch' \subseteq Resources /\ result' \in [Links -> Statuses]
    BY <1>0, <1>1 DEF TypeOK, CheckStarts
  <2> QED
    BY <1>0, <1>2, <2>1, <2>2, <2>3 DEF TypeOK
<1>4. WorldInv' /\ CacheInv' /\ NewestInv'
  BY <1>2 DEF IInv, WorldInv, CacheInv, NewestInv
<1>5. \A u \in Links : answer[p][u] = "none"
  BY <1>1 DEF CheckStarts, IInv, AnswerInv
<1>6. AnswerInv'
  BY <1>0, <1>1, <1>2, <1>5 DEF IInv, AnswerInv, TypeOK, CheckStarts
<1>7. HeldInv'
  BY <1>0, <1>1, <1>2, <1>5 DEF IInv, HeldInv, TypeOK, CheckStarts
<1>8. PushInv'
  <2>1. CASE p = Pusher
    <3>1. \A u \in Links : known[u] = "invalid" => deadAgo[u] < TTL
      BY <1>0, <1>1 DEF IInv, CacheInv, TypeOK, CheckStarts, Long
    <3>2. result' = known /\ at'[Pusher] # "idle"
      BY <1>0, <1>1, <2>1 DEF CheckStarts, TypeOK
    <3> QED
      BY <1>0, <1>2, <3>1, <3>2 DEF PushInv, TypeOK, Long
  <2>2. CASE p # Pusher
    <3>1. /\ result' = result /\ batch' = batch
          /\ at'[Pusher] = at[Pusher] /\ expires'[Pusher] = expires[Pusher]
      BY <1>0, <1>1, <2>2 DEF CheckStarts, TypeOK, Procs
    <3> QED
      BY <1>2, <3>1 DEF IInv, PushInv
  <2> QED
    BY <2>1, <2>2
<1> QED
  BY <1>3, <1>4, <1>6, <1>7, <1>8 DEF IInv

\* A chunk is answered.
LEMMA AnsweredKeeps ==
  ASSUME IInv, NEW p \in Procs, Answered(p)
  PROVE  IInv'
<1> USE CheckAssumption
<1>0. TypeOK
  BY DEF IInv
<1> DEFINE Says(chunk, say) ==
        /\ at[p] = "ask"
        /\ \A u \in chunk : say[u] \in MaySay(u)
        /\ todo' = [todo EXCEPT ![p] = @ \ chunk]
        /\ answer' = [answer EXCEPT ![p] = [u \in Links |-> IF u \in chunk THEN say[u] ELSE @[u]]]
        /\ newest' = [u \in Links |->
             IF u \notin {v \in chunk : say[v] \in Verdicts} THEN newest[u]
             ELSE IF \E q \in Procs \ {p} : answer[q][u] \in Verdicts THEN "lost" ELSE say[u]]
        /\ at' = [at EXCEPT ![p] = IF todo[p] = chunk THEN "save" ELSE "ask"]
        /\ UNCHANGED <<world, tables, expires, push, bounds>>
<1>a. PICK chunk \in SUBSET todo[p] : \E say \in [chunk -> Verdicts \cup Vague] : Says(chunk, say)
  BY DEF Answered, Goto
<1>1. PICK say \in [chunk -> Verdicts \cup Vague] : Says(chunk, say)
  BY <1>a
<1>2. chunk \subseteq Links /\ \A u \in chunk : answer[p][u] = "none"
  BY <1>0, <1>1 DEF IInv, TypeOK, AnswerInv
<1>3. TypeOK'
  <2>1. answer' \in [Procs -> [Links -> Statuses]]
    BY <1>0, <1>1, <1>2 DEF TypeOK, Statuses, Verdicts
  <2>2. newest' \in [Links -> {"none", "lost"} \cup Verdicts]
    BY <1>0, <1>1, <1>2 DEF TypeOK, Verdicts
  <2>3. at' \in [Procs -> {"idle", "ask", "save", "done"}] /\ todo' \in [Procs -> SUBSET Links]
    BY <1>0, <1>1 DEF TypeOK
  <2> QED
    BY <1>0, <1>1, <2>1, <2>2, <2>3 DEF TypeOK, world, tables, push, bounds
<1>4. WorldInv' /\ CacheInv'
  BY <1>1 DEF IInv, WorldInv, CacheInv, world, tables
<1>5. \A q \in Procs, u \in Links :
        answer'[q][u] = IF q = p /\ u \in chunk THEN say[u] ELSE answer[q][u]
  BY <1>0, <1>1 DEF TypeOK
<1>6. AnswerInv'
  <2> SUFFICES ASSUME NEW q \in Procs, NEW u \in Links, answer'[q][u] # "none"
               PROVE  at'[q] \in {"ask", "save"} /\ u \notin todo'[q]
    BY DEF AnswerInv
  <2>1. CASE q = p
    BY <1>0, <1>1, <1>5, <2>1 DEF IInv, AnswerInv, TypeOK
  <2>2. CASE q # p
    BY <1>0, <1>1, <1>5, <2>2 DEF IInv, AnswerInv, TypeOK
  <2> QED
    BY <2>1, <2>2
<1>7. HeldInv'
  <2> SUFFICES ASSUME NEW q \in Procs, NEW u \in Links
               PROVE  /\ answer'[q][u] = "invalid" => deadAgo'[u] + expires'[q] <= TTL
                      /\ answer'[q][u] = "valid" => worksAgo'[u] + expires'[q] <= TTL
    BY DEF HeldInv
  <2>1. deadAgo' = deadAgo /\ worksAgo' = worksAgo /\ expires' = expires /\ expires[q] \in 0..TTL
    BY <1>0, <1>1 DEF world, TypeOK
  <2>2. CASE q = p /\ u \in chunk
    <3>1. /\ say[u] = "invalid" => deadAgo[u] = 0
          /\ say[u] = "valid" => worksAgo[u] = 0
      BY <1>1, <1>2, <2>2 DEF MaySay, IInv, WorldInv
    <3> QED
      BY <1>5, <2>1, <2>2, <3>1
  <2>3. CASE ~(q = p /\ u \in chunk)
    BY <1>5, <2>1, <2>3 DEF IInv, HeldInv
  <2> QED
    BY <2>2, <2>3
<1>8. PushInv'
  BY <1>0, <1>1 DEF IInv, PushInv, TypeOK, world, push
<1>9. NewestInv'
  <2> SUFFICES ASSUME NEW u \in Links, newest'[u] # "lost"
               PROVE  /\ (\A q \in Procs : answer'[q][u] \notin Verdicts) => cache'[u].status = newest'[u]
                      /\ \A q \in Procs : answer'[q][u] \in Verdicts =>
                           /\ newest'[u] = answer'[q][u]
                           /\ \A r \in Procs : answer'[r][u] \in Verdicts => r = q
    BY DEF NewestInv
  <2>1. CASE u \in chunk /\ say[u] \in Verdicts
    <3>1. newest'[u] = say[u] /\ \A q \in Procs \ {p} : answer[q][u] \notin Verdicts
      BY <1>1, <2>1
    <3>2. \A q \in Procs : answer'[q][u] \in Verdicts => q = p
      BY <1>5, <3>1
    <3> QED
      BY <1>5, <2>1, <3>1, <3>2
  <2>2. CASE ~(u \in chunk /\ say[u] \in Verdicts)
    <3>1. newest'[u] = newest[u] /\ cache' = cache
      BY <1>1, <2>2 DEF tables
    <3>2. \A q \in Procs : answer'[q][u] = answer[q][u] \/ (answer[q][u] \notin Verdicts /\ answer'[q][u] \notin Verdicts)
      BY <1>2, <1>5, <2>2 DEF Verdicts
    <3> QED
      BY <3>1, <3>2 DEF IInv, NewestInv
  <2> QED
    BY <2>1, <2>2
<1> QED
  BY <1>3, <1>4, <1>6, <1>7, <1>8, <1>9 DEF IInv

\* The statuses, the expiry and the position of a check after an answer is saved.
LEMMA NotedKeeps ==
  ASSUME IInv, NEW p \in Procs, NEW u \in Links, Noted(p, u), at[p] = "save",
         UNCHANGED <<world, todo, batch>>
  PROVE  /\ answer' \in [Procs -> [Links -> Statuses]]
         /\ result' \in [Links -> Statuses]
         /\ at' \in [Procs -> {"idle", "ask", "save", "done"}]
         /\ expires' \in [Procs -> 0..TTL]
         /\ \A q \in Procs, v \in Links : answer'[q][v] = IF q = p /\ v = u THEN "none" ELSE answer[q][v]
         /\ AnswerInv' /\ HeldInv' /\ PushInv'
<1> USE CheckAssumption
<1>0. TypeOK
  BY DEF IInv
<1>1. /\ answer' = [answer EXCEPT ![p][u] = "none"]
      /\ result' = IF p = Pusher THEN [result EXCEPT ![u] = answer[p][u]] ELSE result
      /\ \/ /\ at' = [at EXCEPT ![p] = "save"] /\ expires' = expires
         \/ /\ \A v \in Links : answer'[p][v] = "none"
            /\ at' = [at EXCEPT ![p] = IF p = Pusher THEN "done" ELSE "idle"]
            /\ expires' = [expires EXCEPT ![p] = 0]
  BY <1>0, NotedFact
<1>2. /\ answer' \in [Procs -> [Links -> Statuses]]
      /\ \A q \in Procs, v \in Links : answer'[q][v] = IF q = p /\ v = u THEN "none" ELSE answer[q][v]
  BY <1>0, <1>1 DEF TypeOK, Statuses
<1>3. result' \in [Links -> Statuses]
  BY <1>0, <1>1 DEF TypeOK
<1>4. /\ at' \in [Procs -> {"idle", "ask", "save", "done"}]
      /\ expires' \in [Procs -> 0..TTL]
  <2>1. expires \in [Procs -> 0..TTL] /\ 0 \in 0..TTL
    BY <1>0, NumberFact DEF TypeOK
  <2>2. at \in [Procs -> {"idle", "ask", "save", "done"}]
    BY <1>0 DEF TypeOK
  <2>3. expires' \in [Procs -> 0..TTL]
    BY <1>1, <2>1
  <2>4. at' \in [Procs -> {"idle", "ask", "save", "done"}]
    BY <1>1, <2>2
  <2> QED
    BY <2>3, <2>4
<1>5. \A q \in Procs, v \in Links : answer'[q][v] # "none" => at'[q] = at[q] /\ expires'[q] = expires[q]
  <2>1. \A v \in Links : answer'[p][v] # "none" => at'[p] = at[p] /\ expires'[p] = expires[p]
    BY <1>0, <1>1 DEF TypeOK
  <2>2. \A q \in Procs \ {p} : at'[q] = at[q] /\ expires'[q] = expires[q]
    BY <1>0, <1>1 DEF TypeOK
  <2> QED
    BY <2>1, <2>2
<1>6. dead' = dead /\ deadAgo' = deadAgo /\ worksAgo' = worksAgo /\ todo' = todo /\ batch' = batch
  BY DEF world
<1>7. AnswerInv' /\ HeldInv'
  BY <1>2, <1>5, <1>6 DEF IInv, AnswerInv, HeldInv
<1>8. PushInv'
  <2>1. CASE p = Pusher
    <3>1. answer[p][u] = "invalid" => deadAgo[u] + expires[p] <= TTL
      BY DEF IInv, HeldInv
    <3>2. deadAgo \in [Links -> Nat] /\ expires \in [Procs -> Nat] /\ TTL \in Nat \ {0}
      BY <1>0 DEF TypeOK, Long
    <3>3. \A v \in Links : result'[v] = "invalid" =>
            /\ deadAgo[v] <= TTL
            /\ expires[p] = TTL => deadAgo[v] < TTL
      BY <1>0, <1>1, <2>1, <3>1, <3>2 DEF IInv, PushInv, TypeOK
    <3>4. at'[Pusher] # "idle" /\ (at'[Pusher] \in {"ask", "save"} => expires'[Pusher] = expires[p])
      BY <1>0, <1>1, <2>1 DEF TypeOK
    <3> QED
      BY <1>6, <3>3, <3>4 DEF PushInv
  <2>2. CASE p # Pusher
    <3>1. /\ result' = result /\ at'[Pusher] = at[Pusher] /\ expires'[Pusher] = expires[Pusher]
      BY <1>0, <1>1, <2>2 DEF TypeOK, Procs
    <3> QED
      BY <1>6, <3>1 DEF IInv, PushInv
  <2> QED
    BY <2>1, <2>2
<1> QED
  BY <1>2, <1>3, <1>4, <1>7, <1>8

\* An answer is saved, or its save fails, or there is nothing to save.
LEMMA SaveKeeps ==
  ASSUME IInv, NEW p \in Procs, Save(p)
  PROVE  IInv'
<1> USE CheckAssumption
<1>0. TypeOK
  BY DEF IInv
<1>1. PICK u \in Links :
        /\ answer[p][u] # "none"
        /\ Noted(p, u)
        /\ \/ /\ answer[p][u] \in Verdicts
              /\ cache' = [cache EXCEPT ![u] = [status |-> answer[p][u], left |-> expires[p]]]
              /\ newest' = newest /\ faults' = faults
           \/ /\ answer[p][u] \in Verdicts /\ faults < MaxFaults /\ faults' = faults + 1
              /\ newest' = [newest EXCEPT ![u] = "lost"]
              /\ cache' = cache
           \/ answer[p][u] \notin Verdicts /\ cache' = cache /\ newest' = newest /\ faults' = faults
  BY DEF Save, MayFail
<1>2. at[p] = "save" /\ UNCHANGED <<world, pushed, isPushed, todo, batch, changes, requests>>
  BY DEF Save
<1>3. /\ answer' \in [Procs -> [Links -> Statuses]]
      /\ result' \in [Links -> Statuses]
      /\ at' \in [Procs -> {"idle", "ask", "save", "done"}]
      /\ expires' \in [Procs -> 0..TTL]
      /\ \A q \in Procs, v \in Links : answer'[q][v] = IF q = p /\ v = u THEN "none" ELSE answer[q][v]
      /\ AnswerInv' /\ HeldInv' /\ PushInv'
  BY <1>1, <1>2, NotedKeeps
<1>4. TypeOK'
  <2>1. cache' \in [Links -> [status : {"none"} \cup Verdicts, left : 0..TTL]]
    BY <1>0, <1>1 DEF TypeOK
  <2>2. newest' \in [Links -> {"none", "lost"} \cup Verdicts] /\ faults' \in 0..MaxFaults
    BY <1>0, <1>1 DEF TypeOK
  <2> QED
    BY <1>0, <1>2, <1>3, <2>1, <2>2 DEF TypeOK, world
<1>5. WorldInv'
  BY <1>2 DEF IInv, WorldInv, world
<1>6. CacheInv'
  <2>1. deadAgo' = deadAgo /\ worksAgo' = worksAgo
    BY <1>2 DEF world
  <2>2. \A v \in Links : \/ cache'[v] = cache[v]
                         \/ v = u /\ cache'[v] = [status |-> answer[p][u], left |-> expires[p]]
    BY <1>0, <1>1 DEF TypeOK
  <2> QED
    BY <2>1, <2>2 DEF IInv, CacheInv, HeldInv
<1>7. NewestInv'
  <2> SUFFICES ASSUME NEW v \in Links, newest'[v] # "lost"
               PROVE  /\ (\A q \in Procs : answer'[q][v] \notin Verdicts) => cache'[v].status = newest'[v]
                      /\ \A q \in Procs : answer'[q][v] \in Verdicts =>
                           /\ newest'[v] = answer'[q][v]
                           /\ \A r \in Procs : answer'[r][v] \in Verdicts => r = q
    BY DEF NewestInv
  <2>1. "none" \notin Verdicts
    BY DEF Verdicts
  <2>2. CASE v = u /\ answer[p][u] \in Verdicts
    <3>1. /\ cache'[v].status = answer[p][u]
          /\ newest'[v] = newest[v]
      BY <1>0, <1>1, <2>2 DEF TypeOK
    <3>2. newest[v] = answer[p][u] /\ \A r \in Procs : answer[r][u] \in Verdicts => r = p
      BY <2>2, <3>1 DEF IInv, NewestInv
    <3>3. \A q \in Procs : answer'[q][v] \notin Verdicts
      BY <1>3, <2>1, <2>2, <3>2
    <3> QED
      BY <3>1, <3>2, <3>3
  <2>3. CASE ~(v = u /\ answer[p][u] \in Verdicts)
    <3>1. cache'[v] = cache[v] /\ newest'[v] = newest[v]
      BY <1>0, <1>1, <2>3 DEF TypeOK
    <3>2. \A q \in Procs : answer'[q][v] = answer[q][v] \/ (answer[q][v] \notin Verdicts /\ answer'[q][v] \notin Verdicts)
      BY <1>3, <2>1, <2>3
    <3> QED
      BY <3>1, <3>2 DEF IInv, NewestInv
  <2> QED
    BY <2>2, <2>3
<1> QED
  BY <1>3, <1>4, <1>5, <1>6, <1>7 DEF IInv

\* The push sends, is refused, or does without the check.
LEMMA PushKeeps ==
  ASSUME IInv, PushUnchecked \/ Push \/ PushRefused
  PROVE  IInv'
<1> USE CheckAssumption
<1>0. TypeOK
  BY DEF IInv
<1>1. /\ \E where \in {"idle", "done"} : at' = [at EXCEPT ![Pusher] = where]
      /\ at[Pusher] \in {"idle", "done"} /\ at'[Pusher] \in {"idle", "done"}
      /\ at'[Pusher] = "idle" => batch' = {}
      /\ batch' \subseteq Resources
      /\ result' = Nothing
      /\ pushed' \subseteq isPushed' /\ isPushed' \subseteq Resources
      /\ faults' \in 0..MaxFaults
      /\ UNCHANGED <<world, cache, todo, answer, expires, newest, changes, requests>>
  <2>1. CASE PushUnchecked
    BY <1>0, <2>1 DEF PushUnchecked, Goto, MayFail, TypeOK, Procs, tables
  <2>2. CASE Push
    BY <1>0, <2>2 DEF Push, PushEnds, Goto, TypeOK, Procs, Classified, bounds
  <2>3. CASE PushRefused
    BY <1>0, <2>3 DEF PushRefused, PushEnds, Goto, TypeOK, Procs, bounds, tables
  <2> QED
    BY <2>1, <2>2, <2>3
<1>2. at' \in [Procs -> {"idle", "ask", "save", "done"}] /\ \A p \in Procs \ {Pusher} : at'[p] = at[p]
  BY <1>0, <1>1 DEF TypeOK
<1>3. result' \in [Links -> Statuses] /\ \A u \in Links : result'[u] = "none"
  BY <1>1 DEF Nothing, Statuses
<1>4. TypeOK'
  BY <1>0, <1>1, <1>2, <1>3 DEF TypeOK, world
<1>5. WorldInv' /\ CacheInv' /\ HeldInv' /\ NewestInv'
  BY <1>1 DEF IInv, WorldInv, CacheInv, HeldInv, NewestInv, world
<1>6. AnswerInv'
  BY <1>1, <1>2 DEF IInv, AnswerInv
<1>7. PushInv'
  BY <1>1, <1>3 DEF PushInv
<1> QED
  BY <1>4, <1>5, <1>6, <1>7 DEF IInv

\* Another push marks the resource.
LEMMA ElsewhereKeeps ==
  ASSUME IInv, NEW r \in Resources, PushedElsewhere(r)
  PROVE  IInv'
<1> USE CheckAssumption
<1>1. TypeOK'
  BY DEF IInv, TypeOK, PushedElsewhere, world, checks, push
<1>2. WorldInv' /\ CacheInv' /\ HeldInv' /\ NewestInv' /\ AnswerInv' /\ PushInv'
  BY DEF IInv, WorldInv, CacheInv, HeldInv, NewestInv, AnswerInv, PushInv, PushedElsewhere, world, checks, push
<1> QED
  BY <1>1, <1>2 DEF IInv

\* A call is cut off, or all of them are.
LEMMA CutKeeps ==
  ASSUME IInv, NEW S \in SUBSET Procs, Cut(S)
  PROVE  IInv'
<1> USE CheckAssumption
<1>0. TypeOK
  BY DEF IInv
<1>1. /\ at' = [p \in Procs |-> IF p \in S THEN "idle" ELSE at[p]]
      /\ todo' = [p \in Procs |-> IF p \in S THEN {} ELSE todo[p]]
      /\ answer' = [p \in Procs |-> IF p \in S THEN Nothing ELSE answer[p]]
      /\ expires' = [p \in Procs |-> IF p \in S THEN 0 ELSE expires[p]]
      /\ IF Pusher \in S THEN batch' = {} /\ result' = Nothing ELSE batch' = batch /\ result' = result
      /\ newest' = [u \in Links |-> IF \E p \in S : answer[p][u] \in Verdicts THEN "lost" ELSE newest[u]]
      /\ faults < MaxFaults /\ faults' = faults + 1
  BY DEF Cut, Lose, MayFail, push
<1>2. UNCHANGED <<world, tables, changes, requests>>
  BY DEF Cut
<1>3. TypeOK'
  <2>1. Nothing \in [Links -> Statuses]
    BY DEF Nothing, Statuses
  <2>2. /\ at' \in [Procs -> {"idle", "ask", "save", "done"}]
        /\ todo' \in [Procs -> SUBSET Links] /\ expires' \in [Procs -> 0..TTL]
        /\ answer' \in [Procs -> [Links -> Statuses]]
    BY <1>0, <1>1, <2>1 DEF TypeOK
  <2>3. newest' \in [Links -> {"none", "lost"} \cup Verdicts]
    BY <1>0, <1>1 DEF TypeOK
  <2>4. batch' \subseteq Resources /\ result' \in [Links -> Statuses] /\ faults' \in 0..MaxFaults
    BY <1>0, <1>1, <2>1 DEF TypeOK
  <2> QED
    BY <1>0, <1>2, <2>2, <2>3, <2>4 DEF TypeOK, world, tables
<1>4. WorldInv' /\ CacheInv'
  BY <1>2 DEF IInv, WorldInv, CacheInv, world, tables
<1>5. /\ \A p \in S, u \in Links : answer'[p][u] = "none"
      /\ \A p \in Procs \ S : at'[p] = at[p] /\ todo'[p] = todo[p] /\ answer'[p] = answer[p] /\ expires'[p] = expires[p]
  BY <1>1 DEF Nothing
<1>6. AnswerInv'
  BY <1>5 DEF IInv, AnswerInv
<1>7. HeldInv'
  BY <1>2, <1>5 DEF IInv, HeldInv, world
<1>8. PushInv'
  <2>1. CASE Pusher \in S
    BY <1>1, <2>1 DEF PushInv, Nothing
  <2>2. CASE Pusher \notin S
    BY <1>1, <1>2, <1>5, <2>2 DEF IInv, PushInv, world, Procs
  <2> QED
    BY <2>1, <2>2
<1>9. NewestInv'
  <2> SUFFICES ASSUME NEW u \in Links, newest'[u] # "lost"
               PROVE  /\ (\A q \in Procs : answer'[q][u] \notin Verdicts) => cache'[u].status = newest'[u]
                      /\ \A q \in Procs : answer'[q][u] \in Verdicts =>
                           /\ newest'[u] = answer'[q][u]
                           /\ \A r \in Procs : answer'[r][u] \in Verdicts => r = q
    BY DEF NewestInv
  <2>1. newest'[u] = newest[u] /\ \A p \in S : answer[p][u] \notin Verdicts
    BY <1>1
  <2>2. \A q \in Procs : answer'[q][u] = answer[q][u] \/ (answer[q][u] \notin Verdicts /\ answer'[q][u] \notin Verdicts)
    BY <1>5, <2>1 DEF Verdicts
  <2>3. cache' = cache
    BY <1>2 DEF tables
  <2> QED
    BY <2>1, <2>2, <2>3 DEF IInv, NewestInv
<1> QED
  BY <1>3, <1>4, <1>6, <1>7, <1>8, <1>9 DEF IInv

\* A link dies or comes back.
LEMMA ChangeKeeps ==
  ASSUME IInv, NEW u \in Links, Dies(u) \/ ComesBack(u)
  PROVE  IInv'
<1> USE CheckAssumption
<1>0. TypeOK
  BY DEF IInv
<1>1. /\ dead' \subseteq Links
      /\ \A v \in Links \ {u} : v \in dead' <=> v \in dead
      /\ deadAgo' \in [Links -> 0..Long] /\ worksAgo' \in [Links -> 0..Long]
      /\ \A v \in Links : deadAgo'[v] <= deadAgo[v] /\ worksAgo'[v] <= worksAgo[v]
      /\ u \in dead' => deadAgo'[u] = 0
      /\ u \notin dead' => worksAgo'[u] = 0
      /\ \A v \in Links \ {u} : deadAgo'[v] = deadAgo[v] /\ worksAgo'[v] = worksAgo[v]
      /\ changes' \in 0..MaxChanges
      /\ UNCHANGED <<tables, checks, push, newest, requests, faults>>
  <2>1. CASE Dies(u)
    BY <1>0, <2>1 DEF Dies, TypeOK, Long
  <2>2. CASE ComesBack(u)
    BY <1>0, <2>2 DEF ComesBack, TypeOK, Long
  <2> QED
    BY <2>1, <2>2
<1>2. TypeOK'
  BY <1>0, <1>1 DEF TypeOK, tables, checks, push
<1>3. WorldInv'
  BY <1>1 DEF IInv, WorldInv
<1>4. AnswerInv' /\ NewestInv'
  BY <1>1 DEF IInv, AnswerInv, NewestInv, tables, checks
<1>5. /\ deadAgo \in [Links -> 0..Long] /\ worksAgo \in [Links -> 0..Long]
      /\ \A v \in Links : cache[v].left \in 0..TTL
      /\ expires \in [Procs -> 0..TTL]
  BY <1>0 DEF TypeOK
<1>6. CacheInv'
  BY <1>1, <1>5 DEF IInv, CacheInv, tables, Long
<1>7. HeldInv'
  BY <1>1, <1>5 DEF IInv, HeldInv, checks, Long
<1>8. PushInv'
  BY <1>1, <1>5 DEF IInv, PushInv, checks, push, Long
<1> QED
  BY <1>2, <1>3, <1>4, <1>6, <1>7, <1>8 DEF IInv

\* An hour passes.
LEMMA HourKeeps ==
  ASSUME IInv, Hour
  PROVE  IInv'
<1> USE CheckAssumption
<1>0. TypeOK
  BY DEF IInv
<1>1. /\ \A p \in Procs : at[p] \in {"ask", "save"} => expires[p] = TTL
      /\ at[Pusher] # "done"
      /\ UNCHANGED <<dead, pushed, isPushed, at, todo, answer, push, newest, bounds>>
  BY DEF Hour
<1>2. TTL \in Nat \ {0} /\ Long = TTL + 1
  BY NumberFact
<1> DEFINE Less(n) == IF n = 0 THEN 0 ELSE n - 1
           More(n) == IF n = Long THEN Long ELSE n + 1
<1>a. /\ cache' = [u \in Links |-> [cache[u] EXCEPT !.left = Less(@)]]
      /\ expires' = [p \in Procs |-> Less(expires[p])]
      /\ deadAgo' = [u \in Links |-> IF u \in dead THEN 0 ELSE More(deadAgo[u])]
      /\ worksAgo' = [u \in Links |-> IF u \in dead THEN More(worksAgo[u]) ELSE 0]
  BY DEF Hour
<1>b. /\ \A n \in 0..TTL : Less(n) \in 0..TTL
      /\ \A n \in 0..Long : More(n) \in 0..Long /\ More(n) <= n + 1 /\ 0 <= n + 1
      /\ 0 \in 0..Long
  BY <1>2
<1>3. /\ cache' \in [Links -> [status : {"none"} \cup Verdicts, left : 0..TTL]]
      /\ \A u \in Links : /\ cache'[u].status = cache[u].status
                          /\ cache'[u].left = IF cache[u].left = 0 THEN 0 ELSE cache[u].left - 1
  <2>1. \A u \in Links : /\ cache[u] \in [status : {"none"} \cup Verdicts, left : 0..TTL]
                         /\ cache'[u] = [cache[u] EXCEPT !.left = Less(@)]
    BY <1>0, <1>a DEF TypeOK
  <2>2. ASSUME NEW u \in Links
        PROVE  /\ cache'[u] \in [status : {"none"} \cup Verdicts, left : 0..TTL]
               /\ cache'[u].status = cache[u].status
               /\ cache'[u].left = Less(cache[u].left)
    <3>1. cache'[u] = [status |-> cache[u].status, left |-> Less(cache[u].left)]
      BY <2>1
    <3>2. cache[u].status \in {"none"} \cup Verdicts /\ Less(cache[u].left) \in 0..TTL
      BY <1>b, <2>1
    <3> HIDE DEF Less
    <3> QED
      BY <3>1, <3>2
  <2>3. DOMAIN cache' = Links /\ cache' = [u \in Links |-> cache'[u]]
    BY <1>a
  <2> QED
    BY <2>2, <2>3
<1>4. /\ expires' \in [Procs -> 0..TTL]
      /\ \A p \in Procs : expires'[p] = IF expires[p] = 0 THEN 0 ELSE expires[p] - 1
  <2>1. \A p \in Procs : expires[p] \in 0..TTL
    BY <1>0 DEF TypeOK
  <2> QED
    BY <1>a, <1>b, <2>1
<1>5. /\ deadAgo' \in [Links -> 0..Long] /\ worksAgo' \in [Links -> 0..Long]
      /\ \A u \in Links : /\ u \in dead => deadAgo'[u] = 0
                          /\ u \notin dead => worksAgo'[u] = 0
                          /\ deadAgo'[u] <= deadAgo[u] + 1
                          /\ worksAgo'[u] <= worksAgo[u] + 1
  <2>1. \A u \in Links : deadAgo[u] \in 0..Long /\ worksAgo[u] \in 0..Long
    BY <1>0 DEF TypeOK
  <2> HIDE DEF More
  <2> QED
    BY <1>a, <1>b, <2>1
<1>6. /\ deadAgo \in [Links -> 0..Long] /\ worksAgo \in [Links -> 0..Long]
      /\ \A v \in Links : cache[v].left \in 0..TTL
      /\ expires \in [Procs -> 0..TTL]
  BY <1>0 DEF TypeOK
<1>7. TypeOK'
  BY <1>0, <1>1, <1>3, <1>4, <1>5 DEF TypeOK, push, bounds
<1>8. WorldInv'
  BY <1>1, <1>5 DEF WorldInv
<1>9. AnswerInv' /\ NewestInv'
  BY <1>1, <1>3 DEF IInv, AnswerInv, NewestInv
<1>10. CacheInv'
  BY <1>2, <1>3, <1>5, <1>6 DEF IInv, CacheInv
<1>11. HeldInv'
  <2> SUFFICES ASSUME NEW p \in Procs, NEW u \in Links, answer[p][u] # "none"
               PROVE  /\ answer[p][u] = "invalid" => deadAgo'[u] + expires'[p] <= TTL
                      /\ answer[p][u] = "valid" => worksAgo'[u] + expires'[p] <= TTL
    BY <1>1 DEF HeldInv
  <2>1. expires[p] = TTL
    BY <1>1 DEF IInv, AnswerInv
  <2>2. /\ answer[p][u] = "invalid" => deadAgo[u] + expires[p] <= TTL
        /\ answer[p][u] = "valid" => worksAgo[u] + expires[p] <= TTL
    BY DEF IInv, HeldInv
  <2> QED
    BY <1>2, <1>4, <1>5, <1>6, <2>1, <2>2
<1>12. PushInv'
  <2>1. batch' = batch /\ result' = result /\ at' = at
    BY <1>1 DEF push
  <2>2. CASE at[Pusher] = "idle"
    BY <2>1, <2>2 DEF IInv, PushInv, Nothing
  <2>3. CASE at[Pusher] \in {"ask", "save"}
    <3>1. expires[Pusher] = TTL /\ expires'[Pusher] = TTL - 1
      BY <1>1, <1>2, <1>4, <2>3 DEF Procs
    <3>2. \A u \in Links : result[u] = "invalid" => deadAgo[u] < TTL
      BY <2>3, <3>1 DEF IInv, PushInv
    <3> QED
      BY <1>2, <1>5, <1>6, <2>1, <2>3, <3>1, <3>2 DEF PushInv
  <2> QED
    BY <1>0, <1>1, <2>2, <2>3 DEF TypeOK, Procs
<1> QED
  BY <1>7, <1>8, <1>9, <1>10, <1>11, <1>12 DEF IInv

-----------------------------------------------------------------------------
(* The theorems *)

\* Every step keeps the invariant.
LEMMA NextKeeps == IInv /\ [Next]_vars => IInv'
<1> SUFFICES ASSUME IInv, [Next]_vars PROVE IInv'
  OBVIOUS
<1> USE CheckAssumption
<1>0. TypeOK /\ Pusher \in Procs /\ Callers \subseteq Procs
  BY DEF IInv, Procs
<1>1. CASE \E p \in Callers : CallCheck(p)
  <2>1. PICK p \in Callers : CallCheck(p)
    BY <1>1
  <2>2. PICK ignore \in BOOLEAN, S \in {Resources \ isPushed} \cup {{r} : r \in Resources} : Check(p, S, ignore)
    BY <2>1 DEF CallCheck
  <2>3. S \in SUBSET Resources /\ requests' \in 0..MaxRequests /\ faults' = faults
    BY <1>0, <2>1 DEF CallCheck, TypeOK
  <2> QED
    BY <1>0, <2>2, <2>3, CheckKeeps
<1>2. CASE \E p \in Callers : HangUp(p)
  BY <1>0, <1>2, CutKeeps DEF HangUp
<1>3. CASE \E p \in Procs : Step(p)
  BY <1>3, AnsweredKeeps, SaveKeeps DEF Step
<1>4. CASE StartPush
  <2>1. /\ Check(Pusher, Resources \ pushed, FALSE)
        /\ requests' \in 0..MaxRequests /\ faults' = faults
    BY <1>0, <1>4 DEF StartPush, TypeOK
  <2> QED
    BY <1>0, <2>1, CheckKeeps
<1>5. CASE PushUnchecked \/ Push \/ PushRefused
  BY <1>5, PushKeeps
<1>6. CASE \E r \in Resources : PushedElsewhere(r)
  BY <1>6, ElsewhereKeeps
<1>7. CASE \E u \in Links : Dies(u) \/ ComesBack(u)
  BY <1>7, ChangeKeeps
<1>8. CASE Hour
  BY <1>8, HourKeeps
<1>9. CASE Restart
  BY <1>9, CutKeeps DEF Restart
<1>10. CASE UNCHANGED vars
  <2>1. TypeOK'
    BY <1>0, <1>10 DEF TypeOK, vars, world, tables, checks, push, bounds
  <2>2. WorldInv' /\ CacheInv' /\ HeldInv' /\ NewestInv' /\ AnswerInv' /\ PushInv'
    BY <1>10 DEF IInv, WorldInv, CacheInv, HeldInv, NewestInv, AnswerInv, PushInv, vars, world, tables, checks, push
  <2> QED
    BY <2>1, <2>2 DEF IInv
<1> QED
  BY <1>1, <1>2, <1>3, <1>4, <1>5, <1>6, <1>7, <1>8, <1>9, <1>10 DEF Next

\* The invariant holds in every state of every behaviour.
THEOREM CheckInvariance == Spec => []IInv
BY InitHolds, NextKeeps, PTL DEF Spec

\* The tables, the checks and the push keep their types (link_check.rs and the
\* push of one configuration in push_config.rs).
THEOREM CheckTypeCorrect == Spec => []TypeOK
<1>1. IInv => TypeOK
  BY DEF IInv
<1> QED
  BY <1>1, CheckInvariance, PTL

\* No verdict outlives its time to live: what the list shows of a resource was
\* true less than TTL hours ago, and a push leaves a resource out only for a
\* link that was dead then (read_cache_hits and persist_verdict in link_check.rs).
THEOREM ExpiryHolds == Spec => []VerdictsRecent
<1>1. IInv => VerdictsRecent
  <2> SUFFICES ASSUME IInv PROVE VerdictsRecent
    OBVIOUS
  <2> USE CheckAssumption
  <2>0. /\ TypeOK
        /\ deadAgo \in [Links -> 0..Long] /\ worksAgo \in [Links -> 0..Long]
        /\ \A v \in Links : cache[v].left \in 0..TTL
    BY DEF IInv, TypeOK
  <2>1. ASSUME NEW r \in Resources
        PROVE  /\ Listed(r) = "invalid" => \E u \in LinksOf(r) : deadAgo[u] < TTL
               /\ Listed(r) = "valid" => \A u \in LinksOf(r) : worksAgo[u] < TTL
    <3>1. LinksOf(r) \subseteq Links
      BY LinksOfType
    <3> DEFINE hits == Hits(LinksOf(r))
    <3>2. \A u \in Links : /\ hits[u] = "invalid" => deadAgo[u] < TTL
                           /\ hits[u] = "valid" => worksAgo[u] < TTL
      <4>1. \A u \in Links : hits[u] # "none" => hits[u] = cache[u].status /\ cache[u].left > 0
        BY <2>0, HitsFact
      <4> HIDE DEF hits
      <4> QED
        BY <2>0, <4>1 DEF IInv, CacheInv, Long
    <3>3. /\ Listed(r) = "invalid" => \E u \in LinksOf(r) : hits[u] = "invalid"
          /\ Listed(r) = "valid" => \A u \in LinksOf(r) : hits[u] = "valid"
      BY DEF Listed, Aggregate
    <3> HIDE DEF hits
    <3> QED
      BY <3>1, <3>2, <3>3
  <2>2. ASSUME NEW r \in batch \ Classified(batch, result)
        PROVE  \E u \in LinksOf(r) : deadAgo[u] <= TTL
    <3>1. PICK u \in LinksOf(r) : result[u] = "invalid"
      BY <2>2 DEF Classified
    <3>2. u \in Links
      BY <2>0, <2>2, LinksOfType DEF TypeOK
    <3> QED
      BY <3>1, <3>2 DEF IInv, PushInv
  <2> QED
    BY <2>1, <2>2 DEF VerdictsRecent
<1> QED
  BY <1>1, CheckInvariance, PTL

\* The cache holds the newest verdict on a link unless that one is lost
\* (persist_verdict overwrites what it finds, link_check.rs).
THEOREM NewestHeld == Spec => []NewestKept
<1>1. IInv => NewestKept
  BY DEF IInv, NewestInv, NewestKept
<1> QED
  BY <1>1, CheckInvariance, PTL

-----------------------------------------------------------------------------
(***************************************************************************)
(* The image proxy, for any viewers and images.  The inductive invariant   *)
(* says which thread still writes a file that is not whole (PenInv,        *)
(* WholeInv), and which download a mark stands for (MarkInv, DownloadInv,  *)
(* TwiceInv).                                                              *)
(***************************************************************************)

\* The parts of the type invariant with what they need to be inductive: the
\* requests and the image each is about, the threads, the files, which have a
\* writer once they are there, the marks and the ghosts, and the bounds.
ImageRequests ==
  [at : {"idle", "look", "mark", "claim", "wait", "read", "fetch", "write", "release", "done"},
   image : Images \cup {Nobody}, looks : 0..MaxLooks,
   got : {"none", "part", "whole", "error", "timeout"}]

TypeViews ==
  /\ view \in [Viewers -> ImageRequests]
  /\ \A v \in Viewers : view[v].at # "idle" => view[v].image \in Images

TypePens == pen \in [Viewers -> Images \cup {Nobody}]

TypeFiles ==
  /\ content \in [Images -> {"none", "part", "whole"}]
  /\ writer \in [Images -> Viewers \cup {Nobody}]
  /\ \A i \in Images : content[i] # "none" => writer[i] \in Viewers

TypeMarks == expired \cup inflight \cup broken \cup forsaken \cup doubled \subseteq Images

\* A thread writes for the request that started it, or for one that is gone, and
\* nobody asks again in that place before it is done.
PenInv ==
  \A v \in Viewers : /\ view[v].at = "write" => pen[v] = view[v].image
                     /\ pen[v] # Nobody => view[v].at \in {"idle", "write"}

\* A file that is not whole has a thread at work, or one that did not come to the end.
WholeInv == \A i \in Images : content[i] = "part" => i \in broken \/ pen[writer[i]] = i

Downloading(v) == view[v].at \in {"fetch", "write", "release"}

\* A mark has a download behind it unless a caller hung up.
MarkInv == \A i \in inflight \ forsaken : \E v \in Viewers : Downloading(v) /\ view[v].image = i

\* A download has its mark unless there were two of one image ...
DownloadInv == \A v \in Viewers : Downloading(v) => view[v].image \in inflight \cup doubled

\* ... which are known as such.
TwiceInv ==
  \A v, w \in Viewers :
    Downloading(v) /\ Downloading(w) /\ view[v].image = view[w].image /\ v # w
      => view[v].image \in doubled

ProxyInv == /\ TypeViews /\ TypePens /\ TypeFiles /\ TypeMarks
            /\ PenInv /\ WholeInv /\ MarkInv /\ DownloadInv /\ TwiceInv

\* The files are not there and nobody asks.
LEMMA ProxyInitInv == ProxyInit => ProxyInv
<1> SUFFICES ASSUME ProxyInit PROVE ProxyInv
  OBVIOUS
<1> USE ProxyAssumption DEF ProxyInit
<1>1. TypeViews /\ TypePens /\ TypeFiles /\ TypeMarks
  BY DEF TypeViews, ImageRequests, TypePens, TypeFiles, TypeMarks, NoView
<1>2. PenInv /\ WholeInv /\ MarkInv /\ DownloadInv /\ TwiceInv
  BY DEF PenInv, WholeInv, MarkInv, DownloadInv, TwiceInv, Downloading, NoView
<1> QED
  BY <1>1, <1>2 DEF ProxyInv

-----------------------------------------------------------------------------
\* A request for an image, in a place that is free.
LEMMA KeepAskImage ==
  ASSUME ProxyInv, NEW v \in Viewers, AskImage(v)
  PROVE  ProxyInv'
<1>1. UNCHANGED <<content, expired, writer, pen, inflight, mishaps, ageings,
                  stops, broken, forsaken, doubled>>
  BY DEF AskImage, NoView, files
<1>2. TypeViews'
  <2>1. PICK i \in Images : view' = [view EXCEPT ![v] = [NoView EXCEPT !.at = "look", !.image = i]]
    BY DEF AskImage
  <2> DEFINE asked == [NoView EXCEPT !.at = "look", !.image = i]
  <2>2. NoView \in ImageRequests
    BY ProxyAssumption DEF NoView, ImageRequests
  <2>3. asked \in ImageRequests /\ asked.image \in Images
    BY <2>2 DEF ImageRequests
  <2>4. view' = [view EXCEPT ![v] = asked]
    BY <2>1
  <2> HIDE DEF asked
  <2> QED
    BY <2>3, <2>4 DEF ProxyInv, TypeViews
<1>3. PenInv'
  BY <1>1, ProxyAssumption DEF ProxyInv, PenInv, TypeViews, ImageRequests,
     TypePens, AskImage, NoView, files
<1>4. MarkInv'
  BY <1>1, ProxyAssumption DEF ProxyInv, MarkInv, Downloading, TypeViews,
     ImageRequests, AskImage, NoView, files
<1>5. DownloadInv'
  BY <1>1, ProxyAssumption DEF ProxyInv, DownloadInv, Downloading, TypeViews,
     ImageRequests, TwiceInv, AskImage, NoView, files
<1>6. TwiceInv'
  BY <1>1, ProxyAssumption DEF ProxyInv, TwiceInv, Downloading, TypeViews,
     ImageRequests, AskImage, NoView, files
<1>7. TypePens' /\ TypeFiles' /\ TypeMarks' /\ WholeInv'
  BY <1>1 DEF ProxyInv, TypePens, TypeFiles, TypeMarks, WholeInv
<1> QED
  BY <1>2, <1>3, <1>4, <1>5, <1>6, <1>7 DEF ProxyInv

\* The file is there, or not.
LEMMA KeepLook ==
  ASSUME ProxyInv, NEW v \in Viewers, Look(v)
  PROVE  ProxyInv'
<1>1. UNCHANGED <<content, expired, writer, pen, inflight, views, mishaps,
                  ageings, stops, broken, forsaken, doubled>>
  BY DEF Look, Steps, files, limits
<1>2. TypeViews'
  BY <1>1, ProxyAssumption DEF ProxyInv, TypeViews, ImageRequests, TypeFiles,
     Look, Steps, files, limits
<1>3. PenInv'
  BY <1>1, ProxyAssumption DEF ProxyInv, PenInv, TypeViews, ImageRequests,
     TypePens, Look, Steps, files, limits
<1>4. MarkInv'
  BY <1>1, ProxyAssumption DEF ProxyInv, MarkInv, Downloading, TypeViews,
     ImageRequests, Look, Steps, files, limits
<1>5. DownloadInv'
  BY <1>1, ProxyAssumption DEF ProxyInv, DownloadInv, Downloading, TypeViews,
     ImageRequests, TwiceInv, Look, Steps, files, limits
<1>6. TwiceInv'
  BY <1>1, ProxyAssumption DEF ProxyInv, TwiceInv, Downloading, TypeViews,
     ImageRequests, Look, Steps, files, limits
<1>7. TypePens' /\ TypeFiles' /\ TypeMarks' /\ WholeInv'
  BY <1>1 DEF ProxyInv, TypePens, TypeFiles, TypeMarks, WholeInv
<1> QED
  BY <1>2, <1>3, <1>4, <1>5, <1>6, <1>7 DEF ProxyInv

\* Someone downloads it, or not.
LEMMA KeepLookForMark ==
  ASSUME ProxyInv, NEW v \in Viewers, LookForMark(v)
  PROVE  ProxyInv'
<1>1. UNCHANGED <<content, expired, writer, pen, inflight, views, mishaps,
                  ageings, stops, broken, forsaken, doubled>>
  BY DEF LookForMark, Steps, files, limits
<1>2. TypeViews'
  BY <1>1, ProxyAssumption DEF ProxyInv, TypeViews, ImageRequests, TypeFiles,
     LookForMark, Steps, files, limits
<1>3. PenInv'
  BY <1>1, ProxyAssumption DEF ProxyInv, PenInv, TypeViews, ImageRequests,
     TypePens, LookForMark, Steps, files, limits
<1>4. MarkInv'
  BY <1>1, ProxyAssumption DEF ProxyInv, MarkInv, Downloading, TypeViews,
     ImageRequests, LookForMark, Steps, files, limits
<1>5. DownloadInv'
  BY <1>1, ProxyAssumption DEF ProxyInv, DownloadInv, Downloading, TypeViews,
     ImageRequests, TwiceInv, LookForMark, Steps, files, limits
<1>6. TwiceInv'
  BY <1>1, ProxyAssumption DEF ProxyInv, TwiceInv, Downloading, TypeViews,
     ImageRequests, LookForMark, Steps, files, limits
<1>7. TypePens' /\ TypeFiles' /\ TypeMarks' /\ WholeInv'
  BY <1>1 DEF ProxyInv, TypePens, TypeFiles, TypeMarks, WholeInv
<1> QED
  BY <1>2, <1>3, <1>4, <1>5, <1>6, <1>7 DEF ProxyInv

\* The mark is set: a second download is known as such.
LEMMA KeepClaim ==
  ASSUME ProxyInv, NEW v \in Viewers, Claim(v)
  PROVE  ProxyInv'
<1>1. UNCHANGED <<content, expired, writer, pen, views, mishaps, ageings,
                  stops, broken, forsaken>>
  BY DEF Claim, Downloads, Steps, files, limits
<1>2. TypeViews'
  BY <1>1, ProxyAssumption DEF ProxyInv, TypeViews, ImageRequests, TypeFiles,
     Claim, Downloads, Steps, files, limits
<1>3. TypeMarks'
  BY <1>1, ProxyAssumption DEF ProxyInv, TypeMarks, TypeViews, ImageRequests,
     TypePens, TypeFiles, Claim, Downloads, Steps, files, limits
<1>4. PenInv'
  BY <1>1, ProxyAssumption DEF ProxyInv, PenInv, TypeViews, ImageRequests,
     TypePens, Claim, Downloads, Steps, files, limits
<1>5. MarkInv'
  BY <1>1, ProxyAssumption DEF ProxyInv, MarkInv, Downloading, TypeViews,
     ImageRequests, Claim, Downloads, Steps, files, limits
<1>6. DownloadInv'
  BY <1>1, ProxyAssumption DEF ProxyInv, DownloadInv, Downloading, TypeViews,
     ImageRequests, TwiceInv, Claim, Downloads, Steps, files, limits
<1>7. TwiceInv'
  BY <1>1, ProxyAssumption DEF ProxyInv, TwiceInv, Downloading, TypeViews,
     ImageRequests, Claim, Downloads, Steps, files, limits
<1>8. TypePens' /\ TypeFiles' /\ WholeInv'
  BY <1>1 DEF ProxyInv, TypePens, TypeFiles, WholeInv
<1> QED
  BY <1>2, <1>3, <1>4, <1>5, <1>6, <1>7, <1>8 DEF ProxyInv

\* A poll of a waiting caller.
LEMMA KeepWait ==
  ASSUME ProxyInv, NEW v \in Viewers, Wait(v)
  PROVE  ProxyInv'
<1>1. UNCHANGED <<content, expired, writer, pen, inflight, views, mishaps,
                  ageings, stops, broken, forsaken, doubled>>
  BY DEF Wait, Steps, Answer, files, limits
<1>2. TypeViews'
  BY <1>1, ProxyAssumption DEF ProxyInv, TypeViews, ImageRequests, TypeFiles,
     Wait, Steps, Answer, files, limits
<1>3. PenInv'
  BY <1>1, ProxyAssumption DEF ProxyInv, PenInv, TypeViews, ImageRequests,
     TypePens, Wait, Steps, Answer, files, limits
<1>4. MarkInv'
  BY <1>1, ProxyAssumption DEF ProxyInv, MarkInv, Downloading, TypeViews,
     ImageRequests, Wait, Steps, Answer, files, limits
<1>5. DownloadInv'
  BY <1>1, ProxyAssumption DEF ProxyInv, DownloadInv, Downloading, TypeViews,
     ImageRequests, TwiceInv, Wait, Steps, Answer, files, limits
<1>6. TwiceInv'
  BY <1>1, ProxyAssumption DEF ProxyInv, TwiceInv, Downloading, TypeViews,
     ImageRequests, Wait, Steps, Answer, files, limits
<1>7. TypePens' /\ TypeFiles' /\ TypeMarks' /\ WholeInv'
  BY <1>1 DEF ProxyInv, TypePens, TypeFiles, TypeMarks, WholeInv
<1> QED
  BY <1>2, <1>3, <1>4, <1>5, <1>6, <1>7 DEF ProxyInv

\* The file is read and served.
LEMMA KeepRead ==
  ASSUME ProxyInv, NEW v \in Viewers, Read(v)
  PROVE  ProxyInv'
<1>1. UNCHANGED <<content, expired, writer, pen, inflight, views, mishaps,
                  ageings, stops, broken, forsaken, doubled>>
  BY DEF Read, Answer, files, limits
<1>2. TypeViews'
  BY <1>1, ProxyAssumption DEF ProxyInv, TypeViews, ImageRequests, TypeFiles,
     Read, Answer, files, limits
<1>3. PenInv'
  BY <1>1, ProxyAssumption DEF ProxyInv, PenInv, TypeViews, ImageRequests,
     TypePens, Read, Answer, files, limits
<1>4. MarkInv'
  BY <1>1, ProxyAssumption DEF ProxyInv, MarkInv, Downloading, TypeViews,
     ImageRequests, Read, Answer, files, limits
<1>5. DownloadInv'
  BY <1>1, ProxyAssumption DEF ProxyInv, DownloadInv, Downloading, TypeViews,
     ImageRequests, TwiceInv, Read, Answer, files, limits
<1>6. TwiceInv'
  BY <1>1, ProxyAssumption DEF ProxyInv, TwiceInv, Downloading, TypeViews,
     ImageRequests, Read, Answer, files, limits
<1>7. TypePens' /\ TypeFiles' /\ TypeMarks' /\ WholeInv'
  BY <1>1 DEF ProxyInv, TypePens, TypeFiles, TypeMarks, WholeInv
<1> QED
  BY <1>2, <1>3, <1>4, <1>5, <1>6, <1>7 DEF ProxyInv

\* The download fails.
LEMMA KeepFetchFails ==
  ASSUME ProxyInv, NEW v \in Viewers, FetchFails(v)
  PROVE  ProxyInv'
<1>1. UNCHANGED <<content, expired, writer, pen, inflight, views, ageings,
                  stops, broken, forsaken, doubled>>
  BY DEF FetchFails, Mishap, files
<1>2. TypeViews'
  BY <1>1, ProxyAssumption DEF ProxyInv, TypeViews, ImageRequests, TypeFiles,
     FetchFails, Mishap, files
<1>3. PenInv'
  BY <1>1, ProxyAssumption DEF ProxyInv, PenInv, TypeViews, ImageRequests,
     TypePens, FetchFails, Mishap, files
<1>4. MarkInv'
  BY <1>1, ProxyAssumption DEF ProxyInv, MarkInv, Downloading, TypeViews,
     ImageRequests, FetchFails, Mishap, files
<1>5. DownloadInv'
  BY <1>1, ProxyAssumption DEF ProxyInv, DownloadInv, Downloading, TypeViews,
     ImageRequests, TwiceInv, FetchFails, Mishap, files
<1>6. TwiceInv'
  BY <1>1, ProxyAssumption DEF ProxyInv, TwiceInv, Downloading, TypeViews,
     ImageRequests, FetchFails, Mishap, files
<1>7. TypePens' /\ TypeFiles' /\ TypeMarks' /\ WholeInv'
  BY <1>1 DEF ProxyInv, TypePens, TypeFiles, TypeMarks, WholeInv
<1> QED
  BY <1>2, <1>3, <1>4, <1>5, <1>6, <1>7 DEF ProxyInv

\* The file is truncated by a thread that has written nothing else.
LEMMA KeepOpenFile ==
  ASSUME ProxyInv, NEW v \in Viewers, OpenFile(v)
  PROVE  ProxyInv'
<1>1. UNCHANGED <<inflight, views, mishaps, ageings, stops, forsaken, doubled>>
  BY DEF OpenFile, limits
<1>2. TypeViews'
  BY <1>1, ProxyAssumption DEF ProxyInv, TypeViews, ImageRequests, TypeFiles,
     OpenFile, limits
<1>3. TypePens'
  BY <1>1, ProxyAssumption DEF ProxyInv, TypePens, TypeViews, ImageRequests,
     OpenFile, limits
<1>4. TypeFiles'
  BY <1>1, ProxyAssumption DEF ProxyInv, TypeFiles, TypeViews, ImageRequests,
     TypePens, OpenFile, limits
<1>5. TypeMarks'
  BY <1>1, ProxyAssumption DEF ProxyInv, TypeMarks, TypeViews, ImageRequests,
     TypePens, TypeFiles, OpenFile, limits
<1>6. PenInv'
  BY <1>1, ProxyAssumption DEF ProxyInv, PenInv, TypeViews, ImageRequests,
     TypePens, OpenFile, limits
<1>7. WholeInv'
  BY <1>1, ProxyAssumption DEF ProxyInv, WholeInv, TypeViews, ImageRequests,
     TypePens, TypeFiles, PenInv, OpenFile, limits
<1>8. MarkInv'
  BY <1>1, ProxyAssumption DEF ProxyInv, MarkInv, Downloading, TypeViews,
     ImageRequests, OpenFile, limits
<1>9. DownloadInv'
  BY <1>1, ProxyAssumption DEF ProxyInv, DownloadInv, Downloading, TypeViews,
     ImageRequests, TwiceInv, OpenFile, limits
<1>10. TwiceInv'
  BY <1>1, ProxyAssumption DEF ProxyInv, TwiceInv, Downloading, TypeViews,
     ImageRequests, OpenFile, limits
<1> QED
  BY <1>2, <1>3, <1>4, <1>5, <1>6, <1>7, <1>8, <1>9, <1>10 DEF ProxyInv

\* The thread is done: what it wrote is whole unless somebody truncated it since.
LEMMA KeepWritten ==
  ASSUME ProxyInv, NEW v \in Viewers, Written(v)
  PROVE  ProxyInv'
<1>1. UNCHANGED <<expired, writer, inflight, views, mishaps, ageings, stops,
                  broken, forsaken, doubled>>
  BY DEF Written, Steps, limits
<1>2. TypeViews'
  BY <1>1, ProxyAssumption DEF ProxyInv, TypeViews, ImageRequests, TypeFiles,
     Written, Steps, limits
<1>3. TypePens'
  BY <1>1, ProxyAssumption DEF ProxyInv, TypePens, TypeViews, ImageRequests,
     Written, Steps, limits
<1>4. TypeFiles'
  BY <1>1, ProxyAssumption DEF ProxyInv, TypeFiles, TypeViews, ImageRequests,
     TypePens, Written, Steps, limits
<1>5. PenInv'
  BY <1>1, ProxyAssumption DEF ProxyInv, PenInv, TypeViews, ImageRequests,
     TypePens, Written, Steps, limits
<1>6. WholeInv'
  BY <1>1, ProxyAssumption DEF ProxyInv, WholeInv, TypeViews, ImageRequests,
     TypePens, TypeFiles, PenInv, Written, Steps, limits
<1>7. MarkInv'
  BY <1>1, ProxyAssumption DEF ProxyInv, MarkInv, Downloading, TypeViews,
     ImageRequests, Written, Steps, limits
<1>8. DownloadInv'
  BY <1>1, ProxyAssumption DEF ProxyInv, DownloadInv, Downloading, TypeViews,
     ImageRequests, TwiceInv, Written, Steps, limits
<1>9. TwiceInv'
  BY <1>1, ProxyAssumption DEF ProxyInv, TwiceInv, Downloading, TypeViews,
     ImageRequests, Written, Steps, limits
<1>10. TypeMarks'
  BY <1>1 DEF ProxyInv, TypeMarks
<1> QED
  BY <1>2, <1>3, <1>4, <1>5, <1>6, <1>7, <1>8, <1>9, <1>10 DEF ProxyInv

\* The thread fails.
LEMMA KeepWriteFails ==
  ASSUME ProxyInv, NEW v \in Viewers, WriteFails(v)
  PROVE  ProxyInv'
<1>1. UNCHANGED <<content, expired, writer, inflight, views, ageings, stops,
                  forsaken, doubled>>
  BY DEF WriteFails, Mishap, Steps
<1>2. TypeViews'
  BY <1>1, ProxyAssumption DEF ProxyInv, TypeViews, ImageRequests, TypeFiles,
     WriteFails, Mishap, Steps
<1>3. TypePens'
  BY <1>1, ProxyAssumption DEF ProxyInv, TypePens, TypeViews, ImageRequests,
     WriteFails, Mishap, Steps
<1>4. TypeMarks'
  BY <1>1, ProxyAssumption DEF ProxyInv, TypeMarks, TypeViews, ImageRequests,
     TypePens, TypeFiles, WriteFails, Mishap, Steps
<1>5. PenInv'
  BY <1>1, ProxyAssumption DEF ProxyInv, PenInv, TypeViews, ImageRequests,
     TypePens, WriteFails, Mishap, Steps
<1>6. WholeInv'
  BY <1>1, ProxyAssumption DEF ProxyInv, WholeInv, TypeViews, ImageRequests,
     TypePens, TypeFiles, PenInv, WriteFails, Mishap, Steps
<1>7. MarkInv'
  BY <1>1, ProxyAssumption DEF ProxyInv, MarkInv, Downloading, TypeViews,
     ImageRequests, WriteFails, Mishap, Steps
<1>8. DownloadInv'
  BY <1>1, ProxyAssumption DEF ProxyInv, DownloadInv, Downloading, TypeViews,
     ImageRequests, TwiceInv, WriteFails, Mishap, Steps
<1>9. TwiceInv'
  BY <1>1, ProxyAssumption DEF ProxyInv, TwiceInv, Downloading, TypeViews,
     ImageRequests, WriteFails, Mishap, Steps
<1>10. TypeFiles'
  BY <1>1 DEF ProxyInv, TypeFiles
<1> QED
  BY <1>2, <1>3, <1>4, <1>5, <1>6, <1>7, <1>8, <1>9, <1>10 DEF ProxyInv

\* The mark goes; another download of the image was known.
LEMMA KeepRelease ==
  ASSUME ProxyInv, NEW v \in Viewers, Release(v)
  PROVE  ProxyInv'
<1>1. UNCHANGED <<content, expired, writer, pen, views, mishaps, ageings,
                  stops, broken, forsaken, doubled>>
  BY DEF Release, Steps, files, limits
<1>2. TypeViews'
  BY <1>1, ProxyAssumption DEF ProxyInv, TypeViews, ImageRequests, TypeFiles,
     Release, Steps, files, limits
<1>3. TypeMarks'
  BY <1>1, ProxyAssumption DEF ProxyInv, TypeMarks, TypeViews, ImageRequests,
     TypePens, TypeFiles, Release, Steps, files, limits
<1>4. PenInv'
  BY <1>1, ProxyAssumption DEF ProxyInv, PenInv, TypeViews, ImageRequests,
     TypePens, Release, Steps, files, limits
<1>5. MarkInv'
  BY <1>1, ProxyAssumption DEF ProxyInv, MarkInv, Downloading, TypeViews,
     ImageRequests, Release, Steps, files, limits
<1>6. DownloadInv'
  BY <1>1, ProxyAssumption DEF ProxyInv, DownloadInv, Downloading, TypeViews,
     ImageRequests, TwiceInv, Release, Steps, files, limits
<1>7. TwiceInv'
  BY <1>1, ProxyAssumption DEF ProxyInv, TwiceInv, Downloading, TypeViews,
     ImageRequests, Release, Steps, files, limits
<1>8. TypePens' /\ TypeFiles' /\ WholeInv'
  BY <1>1 DEF ProxyInv, TypePens, TypeFiles, WholeInv
<1> QED
  BY <1>2, <1>3, <1>4, <1>5, <1>6, <1>7, <1>8 DEF ProxyInv

\* A caller hangs up.
LEMMA KeepLeaveViewer ==
  ASSUME ProxyInv, NEW v \in Viewers, LeaveViewer(v)
  PROVE  ProxyInv'
<1>1. UNCHANGED <<content, expired, writer, pen, inflight, views, ageings,
                  stops, broken, doubled>>
  BY DEF LeaveViewer, Mishap, NoView, files
<1>2. TypeViews'
  BY <1>1, ProxyAssumption DEF ProxyInv, TypeViews, ImageRequests, TypeFiles,
     LeaveViewer, Mishap, NoView, files
<1>3. TypeMarks'
  BY <1>1, ProxyAssumption DEF ProxyInv, TypeMarks, TypeViews, ImageRequests,
     TypePens, TypeFiles, LeaveViewer, Mishap, NoView, files
<1>4. PenInv'
  BY <1>1, ProxyAssumption DEF ProxyInv, PenInv, TypeViews, ImageRequests,
     TypePens, LeaveViewer, Mishap, NoView, files
<1>5. MarkInv'
  BY <1>1, ProxyAssumption DEF ProxyInv, MarkInv, Downloading, TypeViews,
     ImageRequests, LeaveViewer, Mishap, NoView, files
<1>6. DownloadInv'
  BY <1>1, ProxyAssumption DEF ProxyInv, DownloadInv, Downloading, TypeViews,
     ImageRequests, TwiceInv, LeaveViewer, Mishap, NoView, files
<1>7. TwiceInv'
  BY <1>1, ProxyAssumption DEF ProxyInv, TwiceInv, Downloading, TypeViews,
     ImageRequests, LeaveViewer, Mishap, NoView, files
<1>8. TypePens' /\ TypeFiles' /\ WholeInv'
  BY <1>1 DEF ProxyInv, TypePens, TypeFiles, WholeInv
<1> QED
  BY <1>2, <1>3, <1>4, <1>5, <1>6, <1>7, <1>8 DEF ProxyInv

\* The TTL of a file passes.
LEMMA KeepAge ==
  ASSUME ProxyInv, NEW i \in Images, Age(i)
  PROVE  ProxyInv'
<1>1. UNCHANGED <<content, writer, pen, inflight, view, views, mishaps, stops,
                  broken, forsaken, doubled>>
  BY DEF Age
<1>2. TypeMarks'
  BY <1>1, ProxyAssumption DEF ProxyInv, TypeMarks, TypeViews, ImageRequests,
     TypePens, TypeFiles, Age
<1>3. /\ TypeViews' /\ TypePens' /\ TypeFiles' /\ PenInv' /\ WholeInv'
      /\ MarkInv' /\ DownloadInv' /\ TwiceInv'
  BY <1>1 DEF ProxyInv, TypeViews, TypePens, TypeFiles, PenInv, WholeInv,
     MarkInv, DownloadInv, TwiceInv, Downloading
<1> QED
  BY <1>2, <1>3 DEF ProxyInv

\* The process ends: whoever was writing did not come to the end.
LEMMA KeepStopProxy ==
  ASSUME ProxyInv, StopProxy
  PROVE  ProxyInv'
<1>1. UNCHANGED <<content, expired, writer, views, mishaps, ageings>>
  BY DEF StopProxy, NoView
<1>2. TypeViews'
  BY <1>1, ProxyAssumption DEF ProxyInv, TypeViews, ImageRequests, TypeFiles,
     StopProxy, NoView
<1>3. TypePens'
  BY <1>1, ProxyAssumption DEF ProxyInv, TypePens, TypeViews, ImageRequests,
     StopProxy, NoView
<1>4. TypeMarks'
  BY <1>1, ProxyAssumption DEF ProxyInv, TypeMarks, TypeViews, ImageRequests,
     TypePens, TypeFiles, StopProxy, NoView
<1>5. PenInv'
  BY <1>1, ProxyAssumption DEF ProxyInv, PenInv, TypeViews, ImageRequests,
     TypePens, StopProxy, NoView
<1>6. WholeInv'
  BY <1>1, ProxyAssumption DEF ProxyInv, WholeInv, TypeViews, ImageRequests,
     TypePens, TypeFiles, PenInv, StopProxy, NoView
<1>7. MarkInv'
  BY <1>1, ProxyAssumption DEF ProxyInv, MarkInv, Downloading, TypeViews,
     ImageRequests, StopProxy, NoView
<1>8. DownloadInv'
  BY <1>1, ProxyAssumption DEF ProxyInv, DownloadInv, Downloading, TypeViews,
     ImageRequests, TwiceInv, StopProxy, NoView
<1>9. TwiceInv'
  BY <1>1, ProxyAssumption DEF ProxyInv, TwiceInv, Downloading, TypeViews,
     ImageRequests, StopProxy, NoView
<1>10. TypeFiles'
  BY <1>1 DEF ProxyInv, TypeFiles
<1> QED
  BY <1>2, <1>3, <1>4, <1>5, <1>6, <1>7, <1>8, <1>9, <1>10 DEF ProxyInv

-----------------------------------------------------------------------------
\* Every step keeps the invariant.
LEMMA ProxyStep == ProxyInv /\ [ProxyNext]_proxyVars => ProxyInv'
<1> SUFFICES ASSUME ProxyInv, [ProxyNext]_proxyVars PROVE ProxyInv'
  OBVIOUS
<1>1. CASE UNCHANGED proxyVars
  BY <1>1 DEF proxyVars, files, limits, ProxyInv, TypeViews, ImageRequests, TypePens, TypeFiles, TypeMarks,
     PenInv, WholeInv, MarkInv, DownloadInv, TwiceInv, Downloading
<1>2. CASE ProxyNext
  BY <1>2, KeepAskImage, KeepLook, KeepLookForMark, KeepClaim, KeepWait, KeepRead, KeepFetchFails,
     KeepOpenFile, KeepWritten, KeepWriteFails, KeepRelease, KeepLeaveViewer, KeepAge, KeepStopProxy
     DEF ProxyNext
<1> QED
  BY <1>1, <1>2

\* The inductive invariant holds in every state.
THEOREM ProxyInvariance == ProxySpec => []ProxyInv
BY ProxyInitInv, ProxyStep, PTL DEF ProxySpec

\* Files, marks and requests keep their types (services/image_proxy.rs).
THEOREM ProxyTypeCorrect == ProxySpec => []ProxyTypeOK
<1>1. ProxyInv => ProxyTypeOK
  BY DEF ProxyInv, ProxyTypeOK, TypeViews, ImageRequests, TypePens, TypeFiles, TypeMarks
<1> QED
  BY <1>1, ProxyInvariance, PTL

\* A file that is not whole has a writer or its last one did not come to the
\* end; a mark has a download behind it unless a caller hung up, and a download
\* its mark unless there were two (serve_image_by_file_id, image_proxy.rs).
THEOREM ImagesHold == ProxySpec => []ImagesAccounted
<1>1. ProxyInv => ImagesAccounted
  BY DEF ProxyInv, ImagesAccounted, WholeInv, MarkInv, DownloadInv, Downloads, Downloading
<1> QED
  BY <1>1, ProxyInvariance, PTL

-----------------------------------------------------------------------------
(***************************************************************************)
(* The API keys, for any finite number of requests and any quotas.  The    *)
(* inductive invariant counts the calls on their way against what their    *)
(* key was charged (ServedInv, QuotaInv), and says which key of a chain is *)
(* enabled while a rotation is between its two statements (DisableInv,     *)
(* LastInv).                                                               *)
(***************************************************************************)

Deals == [at : {"idle", "quota", "charge", "serve", "disable", "issue"}, id : KeyIds \cup {0}]

\* The calls with key i that are at a place; whether r is in a rotation.
Calls(i, s) == {r \in Requesters : deal[r].at = s /\ deal[r].id = i}
Turning(r)   == deal[r].at \in {"disable", "issue"}

\* The parts of the type invariant: the rows, the requests, and what is told of both.
TypeKeys   == apiKey \in [KeyIds -> KeyRow \cup {NoKey}]
TypeDeals  == /\ deal \in [Requesters -> Deals]
              /\ \A r \in Requesters : deal[r].at # "idle" => deal[r].id \in Issued
TypeServed == served \in [KeyIds -> Nat] /\ tangled \cup halved \cup revoked \subseteq KeyIds

\* The first of a key's chain was issued.
FirstInv == \A i \in Issued : apiKey[i].first \in Issued

\* A call that is to be served was charged for; one of a key not issued is none.
ServedInv ==
  \A i \in KeyIds :
    IF i \in Issued THEN served[i] + Cardinality(Calls(i, "serve")) <= apiKey[i].used
                    ELSE served[i] = 0

\* The calls that are to be charged for count against the quota.
QuotaInv ==
  \A i \in Issued : apiKey[i].limit > 0 =>
    apiKey[i].used + Cardinality(Calls(i, "charge"))
      <= apiKey[i].limit + Cardinality(Requesters) - 1

\* Of a chain that is not tangled there is one rotation at a time ...
TurnInv ==
  \A r, q \in Requesters :
    (/\ Turning(r) /\ Turning(q)
     /\ apiKey[deal[r].id].first = apiKey[deal[q].id].first
     /\ apiKey[deal[r].id].first \notin tangled) => r = q

\* ... one enabled key ...
EnabledInv ==
  \A i, j \in Issued :
    (/\ Usable(i) /\ Usable(j) /\ apiKey[i].first = apiKey[j].first
     /\ apiKey[i].first \notin tangled) => i = j

\* ... which is the one that is about to be disabled, if there is a rotation, ...
DisableInv ==
  \A r \in Requesters : \A i \in Issued :
    (/\ Turning(r) /\ Usable(i) /\ apiKey[i].first = apiKey[deal[r].id].first
     /\ apiKey[i].first \notin tangled) => deal[r].at = "disable" /\ i = deal[r].id

\* ... and none only for a reason.
LastInv ==
  \A f \in KeyIds \ tangled : (Successors(f) # {} /\ \A i \in Successors(f) : ~Usable(i)) =>
    \/ f \in halved \/ Successors(f) \cap revoked # {}
    \/ \E r \in Requesters : deal[r].at = "issue" /\ deal[r].id \in Successors(f)

KeyInv == /\ TypeKeys /\ TypeDeals /\ TypeServed /\ FirstInv /\ ServedInv /\ QuotaInv
          /\ TurnInv /\ EnabledInv /\ DisableInv /\ LastInv

\* The bounds.
LEMMA KeyBoundFact ==
  /\ Quotas \subseteq Nat /\ MaxKeys \in Nat /\ NoKey \notin KeyRow
  /\ KeyIds \subseteq Nat /\ 0 \notin KeyIds
BY KeyAssumption DEF KeyIds

\* How many requests a set has, and one with a request more or less.
LEMMA RequestersFact ==
  ASSUME NEW S \in SUBSET Requesters, NEW r \in Requesters
  PROVE  /\ Cardinality(S) \in Nat /\ Cardinality(Requesters) \in Nat /\ Cardinality(Requesters) > 0
         /\ Cardinality(S) <= Cardinality(Requesters)
         /\ Cardinality(S \cup {r}) <= Cardinality(S) + 1 /\ Cardinality(S \cup {r}) \in Nat
         /\ r \in S => Cardinality(S \ {r}) = Cardinality(S) - 1
<1>1. IsFiniteSet(Requesters) /\ Cardinality(Requesters) \in Nat
  BY KeyAssumption, FS_CardinalityType
<1>2. IsFiniteSet(S) /\ Cardinality(S) \in Nat /\ Cardinality(S) <= Cardinality(Requesters)
  BY <1>1, FS_Subset, FS_CardinalityType
<1>3. Cardinality(Requesters) > 0
  BY <1>1, KeyAssumption, FS_EmptySet
<1>4. /\ Cardinality(S \cup {r}) = IF r \in S THEN Cardinality(S) ELSE Cardinality(S) + 1
      /\ Cardinality(S \ {r}) = IF r \in S THEN Cardinality(S) - 1 ELSE Cardinality(S)
  BY <1>2, FS_AddElement, FS_RemoveElement
<1> QED
  BY <1>1, <1>2, <1>3, <1>4

\* Sets of requesters are finite, and a smaller one has no more.
LEMMA FewerRequesters ==
  ASSUME NEW S \in SUBSET Requesters, NEW T \in SUBSET S
  PROVE  /\ Cardinality(T) \in Nat /\ Cardinality(S) \in Nat
         /\ Cardinality(T) <= Cardinality(S)
<1>1. IsFiniteSet(S) /\ Cardinality(S) \in Nat
  BY KeyAssumption, FS_Subset, FS_CardinalityType
<1> QED
  BY <1>1, FS_Subset, FS_CardinalityType

\* Nobody is in an empty set.
LEMMA NoRequesters == Cardinality({}) = 0
BY FS_EmptySet

\* No key was issued.
LEMMA KeyInitInv == KeyInit => KeyInv
<1> SUFFICES ASSUME KeyInit PROVE KeyInv
  OBVIOUS
<1> USE KeyBoundFact DEF KeyInit
<1>1. Issued = {} /\ TypeKeys
  BY DEF Issued, TypeKeys
<1>2. TypeDeals /\ TypeServed /\ FirstInv
  BY <1>1 DEF TypeDeals, TypeServed, FirstInv, Deals, NoDeal
<1>3. ServedInv /\ QuotaInv /\ EnabledInv /\ DisableInv
  BY <1>1 DEF ServedInv, QuotaInv, EnabledInv, DisableInv
<1>4. TurnInv /\ LastInv
  BY <1>1 DEF TurnInv, LastInv, Turning, Successors, NoDeal
<1> QED
  BY <1>1, <1>2, <1>3, <1>4 DEF KeyInv

-----------------------------------------------------------------------------
(* What the steps have in common *)

\* The rows keep what they are issued with and what was used of them; a new one
\* is unused.
RowsKept ==
  /\ Issued \subseteq Issued'
  /\ \A i \in Issued : /\ apiKey'[i].limit = apiKey[i].limit /\ apiKey'[i].used = apiKey[i].used
                       /\ apiKey'[i].first = apiKey[i].first
  /\ \A i \in Issued' \ Issued : apiKey'[i].used = 0

\* The rows stay as they are.
LEMMA SameRows ==
  ASSUME KeyInv, apiKey' = apiKey
  PROVE  /\ TypeKeys' /\ FirstInv' /\ RowsKept /\ Issued' = Issued
         /\ \A i \in KeyIds : Usable(i)' <=> Usable(i)
         /\ \A f \in KeyIds : Successors(f)' = Successors(f)
BY DEF KeyInv, TypeKeys, FirstInv, RowsKept, Issued, Usable, Successors

\* One row changes, but not whence it comes nor its limit.
LEMMA OneRow ==
  ASSUME KeyInv, NEW i \in Issued, NEW k \in KeyRow, apiKey' = [apiKey EXCEPT ![i] = k],
         k.first = apiKey[i].first, k.limit = apiKey[i].limit
  PROVE  /\ TypeKeys' /\ FirstInv' /\ Issued' = Issued /\ apiKey'[i] = k
         /\ \A j \in KeyIds \ {i} : apiKey'[j] = apiKey[j]
         /\ \A j \in Issued : /\ apiKey'[j].first = apiKey[j].first
                              /\ apiKey'[j].limit = apiKey[j].limit
         /\ \A j \in KeyIds \ {i} : Usable(j)' <=> Usable(j)
         /\ Usable(i)' <=> k.status = "enabled"
         /\ \A f \in KeyIds : Successors(f)' = Successors(f)
<1>1. apiKey \in [KeyIds -> KeyRow \cup {NoKey}] /\ i \in KeyIds
  BY DEF KeyInv, TypeKeys, Issued
<1>2. /\ TypeKeys' /\ apiKey'[i] = k /\ \A j \in KeyIds \ {i} : apiKey'[j] = apiKey[j]
  BY <1>1 DEF TypeKeys
<1>3. Issued' = Issued
  BY <1>1, <1>2, KeyBoundFact DEF Issued
<1>4. \A j \in Issued : /\ apiKey'[j].first = apiKey[j].first
                        /\ apiKey'[j].limit = apiKey[j].limit
  BY <1>2 DEF Issued
<1>5. FirstInv'
  BY <1>3, <1>4 DEF KeyInv, FirstInv
<1>6. /\ \A j \in KeyIds \ {i} : Usable(j)' <=> Usable(j)
      /\ Usable(i)' <=> k.status = "enabled"
  BY <1>2, <1>3 DEF Usable
<1>7. \A f \in KeyIds : Successors(f)' = Successors(f)
  BY <1>3, <1>4 DEF Successors
<1> QED
  BY <1>2, <1>3, <1>4, <1>5, <1>6, <1>7

\* The fields of an issued row.
LEMMA RowFact ==
  ASSUME KeyInv, NEW i \in Issued
  PROVE  /\ i \in KeyIds /\ apiKey[i] \in KeyRow /\ apiKey[i].first \in Issued
         /\ apiKey[i].status \in {"enabled", "disabled"}
         /\ apiKey[i].used \in Nat /\ apiKey[i].limit \in Nat /\ apiKey[i].first \in KeyIds
<1>1. i \in KeyIds /\ apiKey[i] \in KeyRow /\ apiKey[i].first \in Issued
  BY DEF KeyInv, TypeKeys, Issued, FirstInv
<1> QED
  BY <1>1, KeyBoundFact DEF KeyRow

\* A row is inserted: it is enabled, unused, and not of the rows that were.
LEMMA NewRow ==
  ASSUME KeyInv, NEW limit \in Quotas, NEW first \in Issued \cup {0}, InsertKey(limit, first)
  PROVE  /\ TypeKeys' /\ FirstInv' /\ RowsKept
         /\ \E n \in KeyIds \ Issued :
              /\ Issued' = Issued \cup {n} /\ Usable(n)'
              /\ apiKey'[n].first = IF first = 0 THEN n ELSE first
              /\ \A i \in Issued : /\ Usable(i)' <=> Usable(i)
                                   /\ apiKey'[i].first = apiKey[i].first
<1>1. PICK n \in KeyIds \ Issued :
        apiKey' = [apiKey EXCEPT ![n] = [status |-> "enabled", limit |-> limit, used |-> 0,
                                         first |-> IF first = 0 THEN n ELSE first]]
  BY DEF InsertKey
<1> DEFINE k == [status |-> "enabled", limit |-> limit, used |-> 0,
                 first |-> IF first = 0 THEN n ELSE first]
<1>2. Issued \subseteq KeyIds /\ apiKey \in [KeyIds -> KeyRow \cup {NoKey}]
  BY DEF Issued, KeyInv, TypeKeys
<1>3. k \in KeyRow /\ k.status = "enabled" /\ k.used = 0 /\ k.first = IF first = 0 THEN n ELSE first
  BY <1>2 DEF KeyRow
<1>4. apiKey' = [apiKey EXCEPT ![n] = k]
  BY <1>1
<1> HIDE DEF k
<1>5. TypeKeys' /\ apiKey'[n] = k /\ \A j \in KeyIds \ {n} : apiKey'[j] = apiKey[j]
  BY <1>2, <1>3, <1>4 DEF TypeKeys
<1>6. Issued' = Issued \cup {n}
  BY <1>3, <1>5, KeyBoundFact DEF Issued
<1>7. \A j \in Issued : apiKey'[j] = apiKey[j]
  BY <1>2, <1>5
<1>8. RowsKept
  BY <1>3, <1>5, <1>6, <1>7 DEF RowsKept
<1>9. FirstInv'
  BY <1>3, <1>5, <1>6, <1>7 DEF KeyInv, FirstInv
<1>10. Usable(n)' /\ \A j \in Issued : Usable(j)' <=> Usable(j)
  BY <1>3, <1>5, <1>6, <1>7 DEF Usable
<1> QED
  BY <1>3, <1>5, <1>6, <1>7, <1>8, <1>9, <1>10

\* One request moves on.
LEMMA OneDeal ==
  ASSUME KeyInv, NEW r \in Requesters, NEW d \in Deals, deal' = [deal EXCEPT ![r] = d],
         Issued \subseteq Issued', d.at # "idle" => d.id \in Issued'
  PROVE  /\ TypeDeals' /\ deal'[r] = d
         /\ \A q \in Requesters \ {r} : deal'[q] = deal[q]
         /\ \A i, s : Calls(i, s)' = IF d.at = s /\ d.id = i THEN Calls(i, s) \cup {r}
                                                              ELSE Calls(i, s) \ {r}
<1>1. deal \in [Requesters -> Deals]
  BY DEF KeyInv, TypeDeals
<1>2. /\ deal' \in [Requesters -> Deals] /\ deal'[r] = d
      /\ \A q \in Requesters \ {r} : deal'[q] = deal[q]
  BY <1>1
<1>3. TypeDeals'
  BY <1>2 DEF KeyInv, TypeDeals
<1>4. ASSUME NEW i, NEW s
      PROVE  Calls(i, s)' = IF d.at = s /\ d.id = i THEN Calls(i, s) \cup {r}
                                                    ELSE Calls(i, s) \ {r}
  BY <1>2 DEF Calls
<1> QED
  BY <1>2, <1>3, <1>4

\* The move of a request to another place keeps its key; its end is no request.
LEMMA MovedDeal ==
  ASSUME KeyInv, NEW r \in Requesters, deal[r].at # "idle",
         NEW s \in {"quota", "charge", "serve", "disable", "issue"}, Goes(r, s)
  PROVE  \E d \in Deals : /\ deal' = [deal EXCEPT ![r] = d] /\ d.at = s /\ d.id = deal[r].id
                          /\ d.id \in Issued
<1>1. deal \in [Requesters -> Deals] /\ deal[r].id \in Issued
  BY DEF KeyInv, TypeDeals
<1> DEFINE d == [deal[r] EXCEPT !.at = s]
<1>2. d \in Deals /\ d.at = s /\ d.id = deal[r].id
  BY <1>1 DEF Deals
<1>3. deal' = [deal EXCEPT ![r] = d]
  BY DEF Goes
<1> QED
  BY <1>1, <1>2, <1>3

\* No deal is one.
LEMMA NoDealFact == NoDeal \in Deals /\ NoDeal.at = "idle"
BY DEF NoDeal, Deals

\* What was charged for is served, as long as no more calls are to be.
LEMMA KeepServed ==
  ASSUME KeyInv, RowsKept, served' = served, Issued' \subseteq KeyIds,
         \A i \in KeyIds : Calls(i, "serve")' \subseteq Calls(i, "serve")
  PROVE  ServedInv'
<1> SUFFICES ASSUME NEW i \in KeyIds
             PROVE  IF i \in Issued' THEN served[i] + Cardinality(Calls(i, "serve")') <= apiKey'[i].used
                                     ELSE served[i] = 0
  BY DEF ServedInv
<1>1. Calls(i, "serve") \in SUBSET Requesters /\ Calls(i, "serve")' \in SUBSET Calls(i, "serve")
  BY DEF Calls
<1>2. /\ Cardinality(Calls(i, "serve")') \in Nat /\ Cardinality(Calls(i, "serve")) \in Nat
      /\ Cardinality(Calls(i, "serve")') <= Cardinality(Calls(i, "serve"))
  BY <1>1, FewerRequesters
<1>3. served[i] \in Nat
  BY DEF KeyInv, TypeServed
<1>4. CASE i \in Issued
  <2>1. served[i] + Cardinality(Calls(i, "serve")) <= apiKey[i].used
    BY <1>4 DEF KeyInv, ServedInv
  <2>2. apiKey'[i].used = apiKey[i].used /\ apiKey[i].used \in Nat /\ i \in Issued'
    BY <1>4, RowFact DEF RowsKept
  <2> QED
    BY <1>2, <1>3, <2>1, <2>2
<1>5. CASE i \notin Issued
  <2>1. served[i] = 0
    BY <1>5 DEF KeyInv, ServedInv
  <2>2. Calls(i, "serve")' = {}
    BY <1>1, <1>5 DEF Calls, KeyInv, TypeDeals
  <2>3. i \in Issued' => apiKey'[i].used = 0
    BY <1>5 DEF RowsKept
  <2> QED
    BY <2>1, <2>2, <2>3, NoRequesters
<1> QED
  BY <1>4, <1>5

\* The quotas are kept, as long as no more calls are to be charged for.
LEMMA KeepQuota ==
  ASSUME KeyInv, RowsKept, TypeKeys',
         \A i \in KeyIds : Calls(i, "charge")' \subseteq Calls(i, "charge")
  PROVE  QuotaInv'
<1> SUFFICES ASSUME NEW i \in Issued', apiKey'[i].limit > 0
             PROVE  apiKey'[i].used + Cardinality(Calls(i, "charge")')
                      <= apiKey'[i].limit + Cardinality(Requesters) - 1
  BY DEF QuotaInv
<1>1. i \in KeyIds
  BY DEF Issued
<1>2. Calls(i, "charge") \in SUBSET Requesters /\ Calls(i, "charge")' \in SUBSET Calls(i, "charge")
  BY <1>1 DEF Calls
<1>3. /\ Cardinality(Calls(i, "charge")') \in Nat /\ Cardinality(Calls(i, "charge")) \in Nat
      /\ Cardinality(Calls(i, "charge")') <= Cardinality(Calls(i, "charge"))
  BY <1>2, FewerRequesters
<1>4. Cardinality(Requesters) \in Nat /\ Cardinality(Requesters) > 0
  BY KeyAssumption, RequestersFact
<1>5. CASE i \in Issued
  <2>1. /\ apiKey'[i].used = apiKey[i].used /\ apiKey[i].used \in Nat
        /\ apiKey'[i].limit = apiKey[i].limit /\ apiKey[i].limit \in Nat
    BY <1>5, RowFact DEF RowsKept
  <2>2. apiKey[i].used + Cardinality(Calls(i, "charge")) <= apiKey[i].limit + Cardinality(Requesters) - 1
    BY <1>5, <2>1 DEF KeyInv, QuotaInv
  <2> QED
    BY <1>3, <1>4, <2>1, <2>2
<1>6. CASE i \notin Issued
  <2>1. Calls(i, "charge")' = {} /\ apiKey'[i].used = 0
    BY <1>2, <1>6 DEF Calls, KeyInv, TypeDeals, RowsKept
  <2>2. apiKey'[i] \in KeyRow
    BY <1>1 DEF TypeKeys, Issued
  <2>3. apiKey'[i].limit \in Nat
    BY <2>2, KeyBoundFact DEF KeyRow
  <2> QED
    BY <1>4, <2>1, <2>3, NoRequesters
<1> QED
  BY <1>5, <1>6

\* No rotation begins.
LEMMA KeepTurns ==
  ASSUME KeyInv, tangled \subseteq tangled',
         \A i \in Issued : apiKey'[i].first = apiKey[i].first,
         \A q \in Requesters : Turning(q)' => Turning(q) /\ deal'[q].id = deal[q].id
  PROVE  TurnInv'
<1>1. \A q \in Requesters : Turning(q) => deal[q].id \in Issued
  BY DEF KeyInv, TypeDeals, Turning
<1> SUFFICES ASSUME NEW r \in Requesters, NEW q \in Requesters, Turning(r)', Turning(q)',
                    apiKey'[deal'[r].id].first = apiKey'[deal'[q].id].first,
                    apiKey'[deal'[r].id].first \notin tangled'
             PROVE  r = q
  BY DEF TurnInv
<1>2. /\ Turning(r) /\ Turning(q) /\ deal'[r].id = deal[r].id /\ deal'[q].id = deal[q].id
  OBVIOUS
<1>3. /\ apiKey[deal[r].id].first = apiKey[deal[q].id].first
      /\ apiKey[deal[r].id].first \notin tangled
  BY <1>1, <1>2
<1> QED
  BY <1>2, <1>3 DEF KeyInv, TurnInv

\* No key is enabled.
LEMMA KeepEnabled ==
  ASSUME KeyInv, tangled \subseteq tangled', Issued' = Issued,
         \A i \in Issued : apiKey'[i].first = apiKey[i].first /\ (Usable(i)' => Usable(i))
  PROVE  EnabledInv'
BY DEF KeyInv, EnabledInv

\* No key is enabled, and no rotation begins or goes on.
LEMMA KeepDisable ==
  ASSUME KeyInv, tangled \subseteq tangled', Issued' = Issued,
         \A i \in Issued : apiKey'[i].first = apiKey[i].first /\ (Usable(i)' => Usable(i)),
         \A q \in Requesters : Turning(q)' => Turning(q) /\ deal'[q] = deal[q]
  PROVE  DisableInv'
<1> SUFFICES ASSUME NEW r \in Requesters, NEW i \in Issued', Turning(r)', Usable(i)',
                    apiKey'[i].first = apiKey'[deal'[r].id].first, apiKey'[i].first \notin tangled'
             PROVE  deal'[r].at = "disable" /\ i = deal'[r].id
  BY DEF DisableInv
<1>1. Turning(r) /\ deal'[r] = deal[r] /\ deal[r].id \in Issued
  BY DEF KeyInv, TypeDeals, Turning
<1>2. /\ Usable(i) /\ i \in Issued /\ apiKey[i].first = apiKey[deal[r].id].first
      /\ apiKey[i].first \notin tangled
  BY <1>1
<1> QED
  BY <1>1, <1>2 DEF KeyInv, DisableInv

\* No key is disabled, and no rotation ends before its issue.
LEMMA KeepLast ==
  ASSUME KeyInv, tangled \subseteq tangled', halved \subseteq halved', revoked \subseteq revoked',
         \A f \in KeyIds : Successors(f)' = Successors(f),
         \A i \in KeyIds : Usable(i) => Usable(i)',
         \A q \in Requesters : deal[q].at = "issue" => deal'[q] = deal[q]
  PROVE  LastInv'
<1> SUFFICES ASSUME NEW f \in KeyIds \ tangled', Successors(f)' # {},
                    \A i \in Successors(f)' : ~Usable(i)'
             PROVE  \/ f \in halved' \/ Successors(f)' \cap revoked' # {}
                    \/ \E r \in Requesters : deal'[r].at = "issue" /\ deal'[r].id \in Successors(f)'
  BY DEF LastInv
<1>1. Successors(f)' = Successors(f) /\ Successors(f) \subseteq KeyIds
  BY DEF Successors, Issued
<1>2. f \notin tangled /\ \A i \in Successors(f) : ~Usable(i)
  BY <1>1
<1>3. \/ f \in halved \/ Successors(f) \cap revoked # {}
      \/ \E r \in Requesters : deal[r].at = "issue" /\ deal[r].id \in Successors(f)
  BY <1>1, <1>2 DEF KeyInv, LastInv
<1> QED
  BY <1>1, <1>3

-----------------------------------------------------------------------------
(* The admins *)

\* A key is created: it is the first of a chain of its own.
LEMMA KeepCreateKey ==
  ASSUME KeyInv, CreateKey
  PROVE  KeyInv'
<1>1. PICK limit \in Quotas : InsertKey(limit, 0)
  BY DEF CreateKey
<1>2. /\ TypeKeys' /\ FirstInv' /\ RowsKept /\ UNCHANGED <<deal, served, revoked, tangled, halved>>
  BY <1>1, NewRow DEF CreateKey, keyGhosts
<1>3. PICK n \in KeyIds \ Issued :
        /\ Issued' = Issued \cup {n} /\ Usable(n)' /\ apiKey'[n].first = n
        /\ \A i \in Issued : (Usable(i)' <=> Usable(i)) /\ apiKey'[i].first = apiKey[i].first
  BY <1>1, NewRow
<1>4. \A i \in Issued : apiKey[i].first # n
  BY DEF KeyInv, FirstInv
<1>5. TypeDeals' /\ TypeServed'
  BY <1>2, <1>3 DEF KeyInv, TypeDeals, TypeServed
<1>6. \A i, s : Calls(i, s)' = Calls(i, s)
  BY <1>2 DEF Calls
<1>7. ServedInv' /\ QuotaInv'
  BY <1>2, <1>3, <1>6, KeepServed, KeepQuota DEF Issued
<1>8. TurnInv'
  BY <1>2, <1>3, KeepTurns DEF Turning
<1>9. EnabledInv'
  BY <1>2, <1>3, <1>4 DEF KeyInv, EnabledInv
<1>10. \A r \in Requesters : Turning(r) => deal[r].id \in Issued
  BY DEF KeyInv, TypeDeals, Turning
<1>11. DisableInv'
  BY <1>2, <1>3, <1>4, <1>10 DEF KeyInv, DisableInv, Turning
<1>12. LastInv'
  <2> SUFFICES ASSUME NEW f \in KeyIds \ tangled, Successors(f)' # {},
                      \A i \in Successors(f)' : ~Usable(i)'
               PROVE  \/ f \in halved \/ Successors(f)' \cap revoked # {}
                      \/ \E r \in Requesters : deal[r].at = "issue" /\ deal[r].id \in Successors(f)'
    BY <1>2 DEF LastInv
  <2>1. f # n
    BY <1>3 DEF Successors
  <2>2. Successors(f)' = Successors(f)
    BY <1>3, <2>1 DEF Successors
  <2>3. \A i \in Successors(f) : ~Usable(i)
    BY <1>3, <2>2 DEF Successors
  <2> QED
    BY <2>2, <2>3 DEF KeyInv, LastInv
<1> QED
  BY <1>2, <1>5, <1>7, <1>8, <1>9, <1>11, <1>12 DEF KeyInv

\* A key is revoked.
LEMMA KeepRevoke ==
  ASSUME KeyInv, NEW i \in KeyIds, Revoke(i)
  PROVE  KeyInv'
<1>1. /\ i \in Issued /\ Usable(i) /\ UNCHANGED <<deal, served, halved>>
      /\ revoked' = revoked \cup {i} /\ tangled' \in {tangled, tangled \cup {apiKey[i].first}}
  BY DEF Revoke, Usable
<1> DEFINE k == [apiKey[i] EXCEPT !.status = "disabled"]
<1>2. /\ k \in KeyRow /\ k.status = "disabled" /\ k.used = apiKey[i].used
      /\ k.first = apiKey[i].first /\ k.limit = apiKey[i].limit
  BY <1>1, RowFact DEF KeyRow
<1>3. apiKey' = [apiKey EXCEPT ![i] = k]
  BY DEF Revoke
<1> HIDE DEF k
<1>4. /\ TypeKeys' /\ FirstInv' /\ Issued' = Issued /\ apiKey'[i] = k
      /\ \A j \in KeyIds \ {i} : apiKey'[j] = apiKey[j]
      /\ \A j \in Issued : /\ apiKey'[j].first = apiKey[j].first
                           /\ apiKey'[j].limit = apiKey[j].limit
      /\ \A j \in KeyIds \ {i} : Usable(j)' <=> Usable(j)
      /\ ~Usable(i)'
      /\ \A f \in KeyIds : Successors(f)' = Successors(f)
  BY <1>1, <1>2, <1>3, OneRow
<1>5. Issued \subseteq KeyIds /\ apiKey[i].first \in KeyIds
  BY <1>1, RowFact DEF Issued
<1>6. RowsKept
  BY <1>2, <1>4, <1>5 DEF RowsKept
<1>7. TypeDeals' /\ TypeServed'
  BY <1>1, <1>4, <1>5 DEF KeyInv, TypeDeals, TypeServed
<1>8. \A j, s : Calls(j, s)' = Calls(j, s)
  BY <1>1 DEF Calls
<1>9. ServedInv' /\ QuotaInv'
  BY <1>1, <1>4, <1>5, <1>6, <1>8, KeepServed, KeepQuota
<1>10. tangled \subseteq tangled' /\ \A q \in Requesters : Turning(q)' => Turning(q) /\ deal'[q] = deal[q]
  BY <1>1 DEF Turning
<1>11. TurnInv'
  BY <1>4, <1>10, KeepTurns
<1>12. \A j \in Issued : apiKey'[j].first = apiKey[j].first /\ (Usable(j)' => Usable(j))
  BY <1>4, <1>5
<1>13. EnabledInv' /\ DisableInv'
  BY <1>4, <1>10, <1>12, KeepEnabled, KeepDisable
<1>14. LastInv'
  <2> SUFFICES ASSUME NEW f \in KeyIds \ tangled, Successors(f) # {},
                      \A j \in Successors(f) : ~Usable(j)'
               PROVE  \/ f \in halved \/ Successors(f) \cap revoked' # {}
                      \/ \E r \in Requesters : deal[r].at = "issue" /\ deal[r].id \in Successors(f)
    BY <1>1, <1>4, <1>10 DEF LastInv
  <2>1. CASE i \in Successors(f)
    BY <1>1, <2>1
  <2>2. CASE i \notin Successors(f)
    <3>1. \A j \in Successors(f) : ~Usable(j)
      BY <1>4, <1>5, <2>2 DEF Successors
    <3> QED
      BY <1>1, <3>1 DEF KeyInv, LastInv
  <2> QED
    BY <2>1, <2>2
<1> QED
  BY <1>4, <1>7, <1>9, <1>11, <1>13, <1>14 DEF KeyInv

\* A rotation begins: it is the only one of its chain, or tangles it.
LEMMA KeepRotate ==
  ASSUME KeyInv, NEW r \in Requesters, NEW i \in KeyIds, Rotate(r, i)
  PROVE  KeyInv'
<1> DEFINE f == apiKey[i].first
           d == [at |-> "disable", id |-> i]
<1>1. /\ i \in Issued /\ Usable(i) /\ deal[r] = NoDeal /\ UNCHANGED <<apiKey, served, revoked, halved>>
      /\ deal' = [deal EXCEPT ![r] = d]
      /\ tangled' = IF Rotating(f, r) # {} THEN tangled \cup {f} ELSE tangled
  BY DEF Rotate, Usable
<1>2. /\ TypeKeys' /\ FirstInv' /\ RowsKept /\ Issued' = Issued
      /\ \A j \in KeyIds : Usable(j)' <=> Usable(j)
      /\ \A g \in KeyIds : Successors(g)' = Successors(g)
  BY <1>1, SameRows
<1>3. f \in KeyIds /\ Issued \subseteq KeyIds /\ tangled \subseteq tangled'
  BY <1>1, RowFact DEF Issued
<1>4. d \in Deals /\ d.at = "disable" /\ d.id = i
  BY DEF Deals
<1> HIDE DEF d
<1>5. /\ TypeDeals' /\ deal'[r] = d
      /\ \A q \in Requesters \ {r} : deal'[q] = deal[q]
      /\ \A j, s : Calls(j, s)' = IF d.at = s /\ d.id = j THEN Calls(j, s) \cup {r}
                                                           ELSE Calls(j, s) \ {r}
  BY <1>1, <1>2, <1>4, OneDeal
<1>6. TypeServed'
  BY <1>1, <1>3 DEF KeyInv, TypeServed
<1>7. ServedInv' /\ QuotaInv'
  BY <1>1, <1>2, <1>3, <1>4, <1>5, KeepServed, KeepQuota
<1>8. \A q \in Requesters : q # r /\ Turning(q) /\ apiKey[deal[q].id].first = f => f \in tangled'
  BY <1>1 DEF Rotating, Turning
<1>9. TurnInv'
  <2> SUFFICES ASSUME NEW p \in Requesters, NEW q \in Requesters, Turning(p)', Turning(q)',
                      apiKey[deal'[p].id].first = apiKey[deal'[q].id].first,
                      apiKey[deal'[p].id].first \notin tangled', p # q
               PROVE  FALSE
    BY <1>1 DEF TurnInv
  <2>1. CASE p # r /\ q # r
    BY <1>3, <1>5, <2>1 DEF KeyInv, TurnInv, Turning
  <2>2. CASE p = r
    BY <1>4, <1>5, <1>8, <2>2 DEF Turning
  <2>3. CASE q = r
    BY <1>4, <1>5, <1>8, <2>3 DEF Turning
  <2> QED
    BY <2>1, <2>2, <2>3
<1>10. EnabledInv'
  BY <1>1, <1>2, <1>3, KeepEnabled
<1>11. DisableInv'
  <2> SUFFICES ASSUME NEW q \in Requesters, NEW j \in Issued, Turning(q)', Usable(j),
                      apiKey[j].first = apiKey[deal'[q].id].first, apiKey[j].first \notin tangled'
               PROVE  deal'[q].at = "disable" /\ j = deal'[q].id
    BY <1>1, <1>2, <1>3 DEF DisableInv
  <2>1. CASE q = r
    BY <1>1, <1>3, <1>4, <1>5, <2>1 DEF KeyInv, EnabledInv
  <2>2. CASE q # r
    BY <1>3, <1>5, <2>2 DEF KeyInv, DisableInv, Turning
  <2> QED
    BY <2>1, <2>2
<1>12. LastInv'
  <2>1. \A q \in Requesters : deal[q].at = "issue" => deal'[q] = deal[q]
    BY <1>1, <1>5 DEF NoDeal
  <2> QED
    BY <1>1, <1>2, <1>3, <2>1, KeepLast
<1> QED
  BY <1>2, <1>5, <1>6, <1>7, <1>9, <1>10, <1>11, <1>12 DEF KeyInv

\* A rotation disables its key: no other of the chain is enabled.
LEMMA KeepDisableStep ==
  ASSUME KeyInv, NEW r \in Requesters, Disable(r)
  PROVE  KeyInv'
<1>1. PICK i \in Issued : /\ deal[r].id = i /\ deal[r].at = "disable" /\ Goes(r, "issue")
                          /\ UNCHANGED <<served, revoked, tangled, halved>>
  BY DEF Disable, keyGhosts, KeyInv, TypeDeals
<1> DEFINE k == [apiKey[i] EXCEPT !.status = "disabled"]
<1>2. /\ k \in KeyRow /\ k.status = "disabled" /\ k.used = apiKey[i].used
      /\ k.first = apiKey[i].first /\ k.limit = apiKey[i].limit
  BY <1>1, RowFact DEF KeyRow
<1>3. apiKey' = [apiKey EXCEPT ![i] = k]
  BY <1>1 DEF Disable
<1> HIDE DEF k
<1>4. /\ TypeKeys' /\ FirstInv' /\ Issued' = Issued /\ apiKey'[i] = k
      /\ \A j \in KeyIds \ {i} : apiKey'[j] = apiKey[j]
      /\ \A j \in Issued : /\ apiKey'[j].first = apiKey[j].first
                           /\ apiKey'[j].limit = apiKey[j].limit
      /\ \A j \in KeyIds \ {i} : Usable(j)' <=> Usable(j)
      /\ ~Usable(i)'
      /\ \A f \in KeyIds : Successors(f)' = Successors(f)
  BY <1>1, <1>2, <1>3, OneRow
<1>5. PICK d \in Deals : deal' = [deal EXCEPT ![r] = d] /\ d.at = "issue" /\ d.id = i
  BY <1>1, MovedDeal
<1>6. /\ TypeDeals' /\ deal'[r] = d
      /\ \A q \in Requesters \ {r} : deal'[q] = deal[q]
      /\ \A j, s : Calls(j, s)' = IF d.at = s /\ d.id = j THEN Calls(j, s) \cup {r}
                                                           ELSE Calls(j, s) \ {r}
  <2>1. Issued \subseteq Issued' /\ d.id \in Issued'
    BY <1>4, <1>5
  <2> QED
    BY <1>5, <2>1, OneDeal
<1>7. Issued \subseteq KeyIds /\ apiKey[i].first \in KeyIds
  BY <1>1, RowFact DEF Issued
<1>8. RowsKept
  BY <1>2, <1>4, <1>7 DEF RowsKept
<1>9. TypeServed'
  BY <1>1 DEF KeyInv, TypeServed
<1>10. ServedInv' /\ QuotaInv'
  BY <1>1, <1>4, <1>5, <1>6, <1>7, <1>8, KeepServed, KeepQuota
<1>11. TurnInv'
  <2>1. \A q \in Requesters : Turning(q)' => Turning(q) /\ deal'[q].id = deal[q].id
    BY <1>1, <1>5, <1>6 DEF Turning
  <2> QED
    BY <1>1, <1>4, <2>1, KeepTurns
<1>12. \A j \in Issued : apiKey'[j].first = apiKey[j].first /\ (Usable(j)' => Usable(j))
  BY <1>4, <1>7
<1>13. EnabledInv'
  BY <1>1, <1>4, <1>12, KeepEnabled
<1>14. DisableInv'
  <2> SUFFICES ASSUME NEW q \in Requesters, NEW j \in Issued, Turning(q)', Usable(j)',
                      apiKey'[j].first = apiKey'[deal'[q].id].first, apiKey'[j].first \notin tangled
               PROVE  deal'[q].at = "disable" /\ j = deal'[q].id
    BY <1>1, <1>4 DEF DisableInv
  <2>1. j # i /\ Usable(j) /\ apiKey'[j].first = apiKey[j].first
    BY <1>4, <1>12
  <2>2. CASE q = r
    <3>1. apiKey[j].first = apiKey[i].first
      BY <1>1, <1>4, <1>5, <1>6, <2>1, <2>2
    <3> QED
      BY <1>1, <2>1, <3>1 DEF KeyInv, DisableInv, Turning
  <2>3. CASE q # r
    <3>1. Turning(q) /\ deal'[q] = deal[q] /\ deal[q].id \in Issued
      BY <1>6, <2>3 DEF Turning, KeyInv, TypeDeals
    <3>2. apiKey[j].first = apiKey[deal[q].id].first
      BY <1>4, <2>1, <3>1
    <3> QED
      BY <2>1, <3>1, <3>2 DEF KeyInv, DisableInv
  <2> QED
    BY <2>2, <2>3
<1>15. LastInv'
  <2> SUFFICES ASSUME NEW f \in KeyIds \ tangled, Successors(f) # {},
                      \A j \in Successors(f) : ~Usable(j)'
               PROVE  \/ f \in halved \/ Successors(f) \cap revoked # {}
                      \/ \E q \in Requesters : deal'[q].at = "issue" /\ deal'[q].id \in Successors(f)
    BY <1>1, <1>4 DEF LastInv
  <2>1. CASE i \in Successors(f)
    BY <1>5, <1>6, <2>1
  <2>2. CASE i \notin Successors(f)
    <3>1. \A j \in Successors(f) : ~Usable(j)
      BY <1>4, <1>7, <2>2 DEF Successors
    <3>2. \A q \in Requesters : deal[q].at = "issue" => deal'[q] = deal[q]
      BY <1>1, <1>6
    <3> QED
      BY <3>1, <3>2 DEF KeyInv, LastInv
  <2> QED
    BY <2>1, <2>2
<1> QED
  BY <1>4, <1>6, <1>9, <1>10, <1>11, <1>13, <1>14, <1>15 DEF KeyInv

\* A rotation issues the next key of its chain, the others of which are disabled.
LEMMA KeepReissue ==
  ASSUME KeyInv, NEW r \in Requesters, Reissue(r)
  PROVE  KeyInv'
<1> DEFINE i == deal[r].id
           f == apiKey[i].first
<1>1. /\ deal[r].at = "issue" /\ i \in Issued /\ deal' = [deal EXCEPT ![r] = NoDeal]
      /\ UNCHANGED <<served, revoked, tangled, halved>> /\ InsertKey(apiKey[i].limit, f)
  BY DEF Reissue, Ends, keyGhosts, KeyInv, TypeDeals
<1>2. f \in Issued /\ f # 0 /\ apiKey[i].limit \in Quotas
  BY <1>1, RowFact, KeyBoundFact DEF KeyRow
<1>3. TypeKeys' /\ FirstInv' /\ RowsKept
  BY <1>1, <1>2, NewRow
<1>4. PICK n \in KeyIds \ Issued :
        /\ Issued' = Issued \cup {n} /\ Usable(n)' /\ apiKey'[n].first = f
        /\ \A j \in Issued : (Usable(j)' <=> Usable(j)) /\ apiKey'[j].first = apiKey[j].first
  BY <1>1, <1>2, NewRow
<1>5. /\ TypeDeals' /\ deal'[r] = NoDeal
      /\ \A q \in Requesters \ {r} : deal'[q] = deal[q]
      /\ \A j, s : Calls(j, s)' = IF NoDeal.at = s /\ NoDeal.id = j THEN Calls(j, s) \cup {r}
                                                                      ELSE Calls(j, s) \ {r}
  BY <1>1, <1>4, NoDealFact, OneDeal
<1>6. TypeServed' /\ Issued' \subseteq KeyIds
  BY <1>1 DEF KeyInv, TypeServed, Issued
<1>7. ServedInv' /\ QuotaInv'
  BY <1>1, <1>3, <1>5, <1>6, NoDealFact, KeepServed, KeepQuota
<1>8. TurnInv'
  <2>1. \A q \in Requesters : Turning(q)' => Turning(q) /\ deal'[q].id = deal[q].id
    BY <1>5, NoDealFact DEF Turning
  <2> QED
    BY <1>1, <1>4, <2>1, KeepTurns
<1>9. f \notin tangled => \A j \in Issued : Usable(j) => apiKey[j].first # f
  BY <1>1 DEF KeyInv, DisableInv, Turning
<1>10. EnabledInv'
  BY <1>1, <1>4, <1>9 DEF KeyInv, EnabledInv
<1>11. DisableInv'
  <2> SUFFICES ASSUME NEW q \in Requesters, NEW j \in Issued', Turning(q)', Usable(j)',
                      apiKey'[j].first = apiKey'[deal'[q].id].first, apiKey'[j].first \notin tangled
               PROVE  deal'[q].at = "disable" /\ j = deal'[q].id
    BY <1>1 DEF DisableInv
  <2>1. q # r /\ Turning(q) /\ deal'[q] = deal[q] /\ deal[q].id \in Issued
    BY <1>5, NoDealFact DEF Turning, KeyInv, TypeDeals
  <2>2. apiKey'[deal'[q].id].first = apiKey[deal[q].id].first
    BY <1>4, <2>1
  <2>3. CASE j = n
    BY <1>1, <1>4, <2>1, <2>2, <2>3 DEF KeyInv, TurnInv, Turning
  <2>4. CASE j \in Issued
    BY <1>4, <2>1, <2>2, <2>4 DEF KeyInv, DisableInv
  <2> QED
    BY <1>4, <2>3, <2>4
<1>12. LastInv'
  <2> SUFFICES ASSUME NEW g \in KeyIds \ tangled, Successors(g)' # {},
                      \A j \in Successors(g)' : ~Usable(j)'
               PROVE  \/ g \in halved \/ Successors(g)' \cap revoked # {}
                      \/ \E q \in Requesters : deal'[q].at = "issue" /\ deal'[q].id \in Successors(g)'
    BY <1>1 DEF LastInv
  <2>1. g # f
    BY <1>4 DEF Successors
  <2>2. Successors(g)' = Successors(g)
    BY <1>4, <2>1 DEF Successors
  <2>3. \A j \in Successors(g) : ~Usable(j)
    BY <1>4, <2>2 DEF Successors
  <2>4. i \notin Successors(g)
    BY <2>1 DEF Successors
  <2>5. \/ g \in halved \/ Successors(g) \cap revoked # {}
        \/ \E q \in Requesters : deal[q].at = "issue" /\ deal[q].id \in Successors(g)
    BY <2>2, <2>3 DEF KeyInv, LastInv
  <2> QED
    BY <1>5, <2>2, <2>4, <2>5
<1> QED
  BY <1>3, <1>5, <1>6, <1>7, <1>8, <1>10, <1>11, <1>12 DEF KeyInv

-----------------------------------------------------------------------------
(* The calls *)

\* A step of a call, which is in no rotation, where it is not to be served nor
\* charged for, or ends.
LEMMA KeepCall ==
  ASSUME KeyInv, NEW r \in Requesters, NEW d \in Deals, deal' = [deal EXCEPT ![r] = d],
         d.at # "idle" => d.id \in Issued, d.at \notin {"disable", "issue"},
         deal[r].at = "issue" => apiKey[deal[r].id].first \in halved',
         UNCHANGED <<apiKey, revoked, tangled>>, halved \subseteq halved', halved' \subseteq KeyIds,
         served' \in [KeyIds -> Nat], ServedInv', QuotaInv'
  PROVE  KeyInv'
<1>1. /\ TypeKeys' /\ FirstInv' /\ RowsKept /\ Issued' = Issued
      /\ \A j \in KeyIds : Usable(j)' <=> Usable(j)
      /\ \A g \in KeyIds : Successors(g)' = Successors(g)
  BY SameRows
<1>2. /\ TypeDeals' /\ deal'[r] = d
      /\ \A q \in Requesters \ {r} : deal'[q] = deal[q]
  BY <1>1, OneDeal
<1>3. TypeServed'
  BY DEF KeyInv, TypeServed
<1>4. \A q \in Requesters : Turning(q)' => Turning(q) /\ deal'[q] = deal[q]
  BY <1>2 DEF Turning
<1>5. \A j \in Issued : apiKey'[j].first = apiKey[j].first /\ (Usable(j)' => Usable(j))
  BY <1>1 DEF Issued
<1>6. TurnInv' /\ EnabledInv' /\ DisableInv'
  BY <1>1, <1>4, <1>5, KeepTurns, KeepEnabled, KeepDisable
<1>7. LastInv'
  <2>1. CASE deal[r].at # "issue"
    BY <1>1, <1>2, <2>1, KeepLast
  <2>2. CASE deal[r].at = "issue"
    <3> SUFFICES ASSUME NEW g \in KeyIds \ tangled, Successors(g) # {}, g \notin halved',
                        \A j \in Successors(g) : ~Usable(j)
                 PROVE  \/ Successors(g) \cap revoked # {}
                        \/ \E q \in Requesters : deal'[q].at = "issue" /\ deal'[q].id \in Successors(g)
      BY <1>1, RowFact DEF LastInv, Successors
    <3>1. \/ g \in halved \/ Successors(g) \cap revoked # {}
          \/ \E q \in Requesters : deal[q].at = "issue" /\ deal[q].id \in Successors(g)
      BY DEF KeyInv, LastInv
    <3>2. deal[r].id \notin Successors(g)
      BY <2>2 DEF Successors
    <3> QED
      BY <1>2, <3>1, <3>2
  <2> QED
    BY <2>1, <2>2
<1> QED
  BY <1>1, <1>2, <1>3, <1>6, <1>7 DEF KeyInv

\* A call begins.
LEMMA KeepMakeCall ==
  ASSUME KeyInv, NEW r \in Requesters, NEW i \in KeyIds, MakeCall(r, i)
  PROVE  KeyInv'
<1> DEFINE d == [at |-> "quota", id |-> i]
<1>1. /\ i \in Issued /\ deal[r] = NoDeal /\ UNCHANGED <<apiKey, served, revoked, tangled, halved>>
      /\ deal' = [deal EXCEPT ![r] = d]
  BY DEF MakeCall, Usable, keyGhosts
<1>2. d \in Deals /\ d.at = "quota" /\ d.id = i
  BY DEF Deals
<1> HIDE DEF d
<1>3. RowsKept /\ TypeKeys' /\ Issued' = Issued /\ Issued \subseteq KeyIds
  BY <1>1, SameRows DEF Issued
<1>4. \A j, s : Calls(j, s)' = IF d.at = s /\ d.id = j THEN Calls(j, s) \cup {r}
                                                       ELSE Calls(j, s) \ {r}
  BY <1>1, <1>2, <1>3, OneDeal
<1>5. ServedInv' /\ QuotaInv'
  BY <1>1, <1>2, <1>3, <1>4, KeepServed, KeepQuota
<1>6. deal[r].at # "issue" /\ served' \in [KeyIds -> Nat] /\ halved' \subseteq KeyIds
  BY <1>1, NoDealFact DEF KeyInv, TypeServed
<1> QED
  BY <1>1, <1>2, <1>5, <1>6, KeepCall

\* A call ends.
LEMMA KeepEnds ==
  ASSUME KeyInv, NEW r \in Requesters, Ends(r), UNCHANGED <<apiKey, served, revoked, tangled>>,
         deal[r].at = "issue" => apiKey[deal[r].id].first \in halved',
         halved \subseteq halved', halved' \subseteq KeyIds
  PROVE  KeyInv'
<1>1. RowsKept /\ TypeKeys' /\ Issued' = Issued /\ Issued \subseteq KeyIds
  BY SameRows DEF Issued
<1>2. \A j, s : Calls(j, s)' = IF NoDeal.at = s /\ NoDeal.id = j THEN Calls(j, s) \cup {r}
                                                                 ELSE Calls(j, s) \ {r}
  BY <1>1, NoDealFact, OneDeal DEF Ends
<1>3. ServedInv' /\ QuotaInv'
  BY <1>1, <1>2, NoDealFact, KeepServed, KeepQuota
<1> QED
  BY <1>1, <1>3, NoDealFact, KeepCall DEF Ends, KeyInv, TypeServed

\* A call reads the quota: below it, the calls that were let pass with it
\* overdraw it by less than there are requests.
LEMMA KeepReadQuota ==
  ASSUME KeyInv, NEW r \in Requesters, ReadQuota(r)
  PROVE  KeyInv'
<1> DEFINE i == deal[r].id
<1>1. /\ deal[r].at = "quota" /\ i \in Issued /\ UNCHANGED <<apiKey, served, revoked, tangled, halved>>
  BY DEF ReadQuota, keyGhosts, KeyInv, TypeDeals
<1>2. CASE Ends(r)
  BY <1>1, <1>2, KeepEnds DEF KeyInv, TypeServed
<1>3. CASE ~(apiKey[i].limit > 0 /\ apiKey[i].used >= apiKey[i].limit) /\ Goes(r, "charge")
  <2>1. PICK d \in Deals : deal' = [deal EXCEPT ![r] = d] /\ d.at = "charge" /\ d.id = i
    BY <1>1, <1>3, MovedDeal
  <2>2. RowsKept /\ TypeKeys' /\ Issued' = Issued /\ Issued \subseteq KeyIds
    BY <1>1, SameRows DEF Issued
  <2>3. \A j, s : Calls(j, s)' = IF d.at = s /\ d.id = j THEN Calls(j, s) \cup {r}
                                                         ELSE Calls(j, s) \ {r}
    BY <1>1, <2>1, <2>2, OneDeal
  <2>4. ServedInv'
    BY <1>1, <2>1, <2>2, <2>3, KeepServed
  <2>5. QuotaInv'
    <3> SUFFICES ASSUME NEW j \in Issued, apiKey[j].limit > 0
                 PROVE  apiKey[j].used + Cardinality(Calls(j, "charge")')
                          <= apiKey[j].limit + Cardinality(Requesters) - 1
      BY <1>1, <2>2 DEF QuotaInv
    <3>1. CASE j # i
      <4>1. Calls(j, "charge")' \in SUBSET Calls(j, "charge") /\ Calls(j, "charge") \in SUBSET Requesters
        BY <2>1, <2>3, <3>1 DEF Calls
      <4>2. /\ Cardinality(Calls(j, "charge")') \in Nat /\ Cardinality(Calls(j, "charge")) \in Nat
            /\ Cardinality(Calls(j, "charge")') <= Cardinality(Calls(j, "charge"))
        BY <4>1, FewerRequesters
      <4>3. apiKey[j].used \in Nat /\ apiKey[j].limit \in Nat /\ Cardinality(Requesters) \in Nat
        BY RowFact, RequestersFact
      <4> QED
        BY <4>2, <4>3 DEF KeyInv, QuotaInv
    <3>2. CASE j = i
      <4>1. Calls(j, "charge")' \in SUBSET Requesters
        BY DEF Calls
      <4>2. /\ Cardinality(Calls(j, "charge")') \in Nat /\ Cardinality(Requesters) \in Nat
            /\ Cardinality(Calls(j, "charge")') <= Cardinality(Requesters)
        BY <4>1, RequestersFact
      <4>3. apiKey[j].used \in Nat /\ apiKey[j].limit \in Nat
        BY RowFact
      <4> QED
        BY <1>3, <3>2, <4>2, <4>3
    <3> QED
      BY <3>1, <3>2
  <2> QED
    BY <1>1, <2>1, <2>4, <2>5, KeepCall DEF KeyInv, TypeServed
<1> QED
  BY <1>2, <1>3 DEF ReadQuota

\* A call is charged for, and is then to be served.
LEMMA KeepCharge ==
  ASSUME KeyInv, NEW r \in Requesters, Charge(r)
  PROVE  KeyInv'
<1>1. PICK i \in Issued : /\ deal[r].id = i /\ deal[r].at = "charge" /\ Goes(r, "serve")
                          /\ UNCHANGED <<served, revoked, tangled, halved>>
  BY DEF Charge, keyGhosts, KeyInv, TypeDeals
<1> DEFINE k == [apiKey[i] EXCEPT !.used = apiKey[i].used + 1]
<1>2. /\ k \in KeyRow /\ k.status = apiKey[i].status /\ k.used = apiKey[i].used + 1
      /\ k.first = apiKey[i].first /\ k.limit = apiKey[i].limit
  BY <1>1, RowFact DEF KeyRow
<1>3. apiKey' = [apiKey EXCEPT ![i] = k]
  BY <1>1 DEF Charge
<1> HIDE DEF k
<1>4. /\ TypeKeys' /\ FirstInv' /\ Issued' = Issued /\ apiKey'[i] = k
      /\ \A j \in KeyIds \ {i} : apiKey'[j] = apiKey[j]
      /\ \A j \in Issued : /\ apiKey'[j].first = apiKey[j].first
                           /\ apiKey'[j].limit = apiKey[j].limit
      /\ \A j \in KeyIds \ {i} : Usable(j)' <=> Usable(j)
      /\ Usable(i)' <=> k.status = "enabled"
      /\ \A f \in KeyIds : Successors(f)' = Successors(f)
  BY <1>1, <1>2, <1>3, OneRow
<1>5. \A j \in KeyIds : Usable(j)' <=> Usable(j)
  BY <1>1, <1>2, <1>4 DEF Usable
<1>6. PICK d \in Deals : deal' = [deal EXCEPT ![r] = d] /\ d.at = "serve" /\ d.id = i
  BY <1>1, MovedDeal
<1>7. /\ TypeDeals' /\ deal'[r] = d
      /\ \A q \in Requesters \ {r} : deal'[q] = deal[q]
      /\ \A j, s : Calls(j, s)' = IF d.at = s /\ d.id = j THEN Calls(j, s) \cup {r}
                                                           ELSE Calls(j, s) \ {r}
  <2>1. Issued \subseteq Issued' /\ d.id \in Issued'
    BY <1>4, <1>6
  <2> QED
    BY <1>6, <2>1, OneDeal
<1>8. Issued \subseteq KeyIds
  BY DEF Issued
<1>9. TypeServed'
  BY <1>1 DEF KeyInv, TypeServed
<1>10. ServedInv'
  <2> SUFFICES ASSUME NEW j \in KeyIds
               PROVE  IF j \in Issued THEN served[j] + Cardinality(Calls(j, "serve")') <= apiKey'[j].used
                                      ELSE served[j] = 0
    BY <1>1, <1>4 DEF ServedInv
  <2>1. CASE j \notin Issued
    BY <2>1 DEF KeyInv, ServedInv
  <2>2. CASE j \in Issued
    <3> DEFINE S == Calls(j, "serve")
    <3>1. S \in SUBSET Requesters /\ S \ {r} \in SUBSET S
      BY DEF Calls
    <3>2. /\ Cardinality(S) \in Nat /\ Cardinality(S \ {r}) \in Nat /\ Cardinality(S \cup {r}) \in Nat
          /\ Cardinality(S \ {r}) <= Cardinality(S) /\ Cardinality(S \cup {r}) <= Cardinality(S) + 1
      BY <3>1, RequestersFact, FewerRequesters
    <3>3. served[j] + Cardinality(S) <= apiKey[j].used /\ served[j] \in Nat /\ apiKey[j].used \in Nat
      BY <2>2, RowFact DEF KeyInv, ServedInv, TypeServed
    <3>4. S' = IF j = i THEN S \cup {r} ELSE S \ {r}
      BY <1>6, <1>7
    <3>5. apiKey'[j].used = IF j = i THEN apiKey[j].used + 1 ELSE apiKey[j].used
      BY <1>2, <1>4
    <3> HIDE DEF S
    <3>6. served[j] + Cardinality(S') <= apiKey'[j].used
      BY <3>2, <3>3, <3>4, <3>5
    <3> QED
      BY <2>2, <3>6 DEF S
  <2> QED
    BY <2>1, <2>2
<1>11. QuotaInv'
  <2> SUFFICES ASSUME NEW j \in Issued, apiKey[j].limit > 0
               PROVE  apiKey'[j].used + Cardinality(Calls(j, "charge")')
                        <= apiKey[j].limit + Cardinality(Requesters) - 1
    BY <1>4 DEF QuotaInv
  <2> DEFINE S == Calls(j, "charge")
  <2>1. S \in SUBSET Requesters /\ S \ {r} \in SUBSET S /\ (j = i => r \in S)
    BY <1>1 DEF Calls
  <2>2. /\ Cardinality(S) \in Nat /\ Cardinality(S \ {r}) \in Nat /\ Cardinality(Requesters) \in Nat
        /\ Cardinality(S \ {r}) <= Cardinality(S)
        /\ j = i => Cardinality(S \ {r}) = Cardinality(S) - 1
    BY <2>1, RequestersFact, FewerRequesters
  <2>3. /\ apiKey[j].used + Cardinality(S) <= apiKey[j].limit + Cardinality(Requesters) - 1
        /\ apiKey[j].used \in Nat /\ apiKey[j].limit \in Nat
    BY RowFact DEF KeyInv, QuotaInv
  <2>4. S' = S \ {r}
    BY <1>6, <1>7
  <2>5. apiKey'[j].used = IF j = i THEN apiKey[j].used + 1 ELSE apiKey[j].used
    BY <1>2, <1>4, <1>8
  <2> HIDE DEF S
  <2>6. apiKey'[j].used + Cardinality(S') <= apiKey[j].limit + Cardinality(Requesters) - 1
    BY <2>2, <2>3, <2>4, <2>5
  <2> QED
    BY <2>6 DEF S
<1>12. \A q \in Requesters : Turning(q)' => Turning(q) /\ deal'[q] = deal[q]
  BY <1>6, <1>7 DEF Turning
<1>13. \A j \in Issued : apiKey'[j].first = apiKey[j].first /\ (Usable(j)' => Usable(j))
  BY <1>4, <1>5, <1>8
<1>14. TurnInv' /\ EnabledInv' /\ DisableInv'
  BY <1>1, <1>4, <1>12, <1>13, KeepTurns, KeepEnabled, KeepDisable
<1>15. LastInv'
  BY <1>1, <1>4, <1>5, <1>7, KeepLast
<1> QED
  BY <1>4, <1>7, <1>9, <1>10, <1>11, <1>14, <1>15 DEF KeyInv

\* A call is served.
LEMMA KeepServe ==
  ASSUME KeyInv, NEW r \in Requesters, Serve(r)
  PROVE  KeyInv'
<1> DEFINE i == deal[r].id
<1>1. /\ deal[r].at = "serve" /\ i \in Issued /\ deal' = [deal EXCEPT ![r] = NoDeal]
      /\ served' = [served EXCEPT ![i] = @ + 1]
      /\ UNCHANGED <<apiKey, revoked, tangled, halved>>
  BY DEF Serve, Ends, KeyInv, TypeDeals
<1>2. RowsKept /\ TypeKeys' /\ Issued' = Issued /\ Issued \subseteq KeyIds
  BY <1>1, SameRows DEF Issued
<1>3. \A j, s : Calls(j, s)' = IF NoDeal.at = s /\ NoDeal.id = j THEN Calls(j, s) \cup {r}
                                                                 ELSE Calls(j, s) \ {r}
  BY <1>1, <1>2, NoDealFact, OneDeal
<1>4. /\ served' \in [KeyIds -> Nat] /\ served'[i] = served[i] + 1
      /\ \A j \in KeyIds \ {i} : served'[j] = served[j]
  BY <1>1, <1>2 DEF KeyInv, TypeServed
<1>5. QuotaInv'
  BY <1>2, <1>3, NoDealFact, KeepQuota
<1>6. ServedInv'
  <2> SUFFICES ASSUME NEW j \in KeyIds
               PROVE  IF j \in Issued THEN served'[j] + Cardinality(Calls(j, "serve")') <= apiKey[j].used
                                      ELSE served'[j] = 0
    BY <1>1, <1>2 DEF ServedInv
  <2>1. CASE j \notin Issued
    BY <1>1, <1>4, <2>1 DEF KeyInv, ServedInv
  <2>2. CASE j \in Issued
    <3> DEFINE S == Calls(j, "serve")
    <3>1. S \in SUBSET Requesters /\ S \ {r} \in SUBSET S /\ (j = i => r \in S)
      BY <1>1 DEF Calls
    <3>2. /\ Cardinality(S) \in Nat /\ Cardinality(S \ {r}) \in Nat
          /\ Cardinality(S \ {r}) <= Cardinality(S)
          /\ j = i => Cardinality(S \ {r}) = Cardinality(S) - 1
      BY <3>1, RequestersFact, FewerRequesters
    <3>3. served[j] + Cardinality(S) <= apiKey[j].used /\ served[j] \in Nat /\ apiKey[j].used \in Nat
      BY <2>2, RowFact DEF KeyInv, ServedInv, TypeServed
    <3>4. S' = S \ {r}
      BY <1>3, NoDealFact
    <3>5. served'[j] = IF j = i THEN served[j] + 1 ELSE served[j]
      BY <1>4
    <3> HIDE DEF S
    <3>6. served'[j] + Cardinality(S') <= apiKey[j].used
      BY <3>2, <3>3, <3>4, <3>5
    <3> QED
      BY <2>2, <3>6 DEF S
  <2> QED
    BY <2>1, <2>2
<1> QED
  BY <1>1, <1>4, <1>5, <1>6, NoDealFact, KeepCall DEF KeyInv, TypeServed

\* A request is cut off.
LEMMA KeepDropDeal ==
  ASSUME KeyInv, NEW r \in Requesters, DropDeal(r)
  PROVE  KeyInv'
<1>1. /\ Ends(r) /\ UNCHANGED <<apiKey, served, revoked, tangled>>
      /\ halved' = IF deal[r].at = "issue" THEN halved \cup {apiKey[deal[r].id].first} ELSE halved
  BY DEF DropDeal
<1>2. halved \subseteq KeyIds /\ (deal[r].at = "issue" => apiKey[deal[r].id].first \in KeyIds)
  BY RowFact DEF KeyInv, TypeServed, TypeDeals
<1> QED
  BY <1>1, <1>2, KeepEnds

-----------------------------------------------------------------------------
\* Every step keeps the invariant.
LEMMA KeyStep == KeyInv /\ [KeyNext]_keyVars => KeyInv'
<1> SUFFICES ASSUME KeyInv, [KeyNext]_keyVars PROVE KeyInv'
  OBVIOUS
<1>1. CASE UNCHANGED keyVars
  BY <1>1 DEF keyVars, keyGhosts, keyBounds, KeyInv, TypeKeys, TypeDeals, TypeServed, FirstInv,
     ServedInv, QuotaInv, TurnInv, EnabledInv, DisableInv, LastInv, Issued, Usable, Calls,
     Turning, Successors
<1>2. CASE KeyNext
  BY <1>2, KeepCreateKey, KeepRevoke, KeepRotate, KeepDisableStep, KeepReissue, KeepMakeCall,
     KeepReadQuota, KeepCharge, KeepServe, KeepDropDeal DEF KeyNext
<1> QED
  BY <1>1, <1>2

\* The inductive invariant holds in every state.
THEOREM KeyInvariance == KeySpec => []KeyInv
BY KeyInitInv, KeyStep, PTL DEF KeySpec

\* The rows of the keys, the requests and what is told of them keep their types
\* (services/api_key.rs).
THEOREM KeyTypeCorrect == KeySpec => []KeyTypeOK
<1>1. KeyInv => KeyTypeOK
  BY DEF KeyInv, KeyTypeOK, TypeKeys, TypeDeals, TypeServed, Deals
<1> QED
  BY <1>1, KeyInvariance, PTL

\* A set no two members of which differ has at most one.
LEMMA AtMostOne ==
  ASSUME NEW S, \A i, j \in S : i = j
  PROVE  Cardinality(S) <= 1
<1>1. CASE S = {}
  BY <1>1, FS_EmptySet
<1>2. CASE S # {}
  <2>1. PICK x \in S : TRUE
    BY <1>2
  <2>2. S = {x}
    BY <2>1
  <2> QED
    BY <2>2, FS_Singleton
<1> QED
  BY <1>1, <1>2

\* No call is served that its key was not charged for, a quota is overdrawn by
\* less than the requests that may be open, and of a chain of rotations one key
\* is enabled and no other, but for what KeysAccounted names (api_key.rs,
\* handlers/api_keys.rs).
THEOREM KeysHold == KeySpec => []KeysAccounted
<1>1. KeyInv => KeysAccounted
  <2> SUFFICES ASSUME KeyInv PROVE KeysAccounted
    OBVIOUS
  <2>1. ASSUME NEW i \in Issued
        PROVE  /\ served[i] <= apiKey[i].used
               /\ apiKey[i].limit > 0 => apiKey[i].used <= apiKey[i].limit + Cardinality(Requesters) - 1
    <3>1. /\ apiKey[i].used \in Nat /\ apiKey[i].limit \in Nat /\ i \in KeyIds
      BY RowFact
    <3>2. Calls(i, "serve") \in SUBSET Requesters /\ Calls(i, "charge") \in SUBSET Requesters
      BY DEF Calls
    <3>3. /\ Cardinality(Calls(i, "serve")) \in Nat /\ Cardinality(Calls(i, "charge")) \in Nat
          /\ Cardinality(Requesters) \in Nat
      BY <3>2, RequestersFact, FewerRequesters
    <3>4. served[i] \in Nat /\ served[i] + Cardinality(Calls(i, "serve")) <= apiKey[i].used
      BY <3>1 DEF KeyInv, TypeServed, ServedInv
    <3>5. apiKey[i].limit > 0 =>
            apiKey[i].used + Cardinality(Calls(i, "charge")) <= apiKey[i].limit + Cardinality(Requesters) - 1
      BY DEF KeyInv, QuotaInv
    <3> QED
      BY <3>1, <3>3, <3>4, <3>5
  <2>2. ASSUME NEW f \in KeyIds \ tangled
        PROVE  Cardinality({i \in Successors(f) : Usable(i)}) <= 1
    <3>1. \A i, j \in {k \in Successors(f) : Usable(k)} : i = j
      BY DEF KeyInv, EnabledInv, Successors
    <3> QED
      BY <3>1, AtMostOne
  <2> QED
    BY <2>1, <2>2 DEF KeysAccounted, KeyInv, LastInv
<1> QED
  BY <1>1, KeyInvariance, PTL

=============================================================================
