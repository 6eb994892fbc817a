------------------------------ MODULE LinkCheck ------------------------------
(***************************************************************************)
(* The link check (services/link_check.rs, services/link_checker.rs) and   *)
(* those who call it: the push of one configuration, which leaves out the  *)
(* resources with a dead link; the check of a configuration's resources    *)
(* (services/push_config.rs) and of a single one (handlers/resource.rs);   *)
(* the resource list, which only reads the cache (services/resource.rs).   *)
(*                                                                         *)
(* A check reads the cache, asks PanCheck about the rest, chunk by chunk,  *)
(* and saves the answers one by one.  The links live and die meanwhile,    *)
(* other checks run, and hours pass.                                       *)
(***************************************************************************)
EXTENDS Naturals, FiniteSets

CONSTANTS Callers,    \* the check requests served at a time
          Pusher,     \* the scheduled push of the configuration
          Resources,
          Text,       \* the urls of a resource as they are stored
          Norm,       \* normalize_url: many spellings of one link, or ""
          TTL,        \* link_check_cache_ttl_hours
          ChunkSize,  \* URL_CHUNK_SIZE
          Vague,      \* what PanCheck may say instead of a verdict
          MaxChanges, \* bound: links that die or come back
          MaxRequests,\* bound: calls
          MaxFaults   \* bound: failed saves, checks left out or cut off

Links == {Norm[t] : t \in UNION {Text[r] : r \in Resources}} \ {""}
Procs == Callers \cup {Pusher}

ASSUME CheckAssumption ==
  /\ Pusher \notin Callers
  /\ {TTL, ChunkSize} \subseteq Nat \ {0}
  /\ Vague \subseteq {"pending", "unknown"}
  /\ {MaxChanges, MaxRequests, MaxFaults} \subseteq Nat

VARIABLES
  dead,      \* the links that do not work now
  cache,     \* link_check_results: the verdict and the hours until expires_at
  pushed,    \* the resources the configuration has received
  isPushed,  \* extracted_resources.is_pushed: pushed by whomever
  at,        \* what each check does next
  todo,      \* the links it has to ask about
  answer,    \* the answers it has not saved
  expires,   \* the hours until the expires_at it computed
  batch,     \* the resources the push selected
  result,    \* the statuses the push has; what a caller is told is not kept
  deadAgo,   \* the hours since a link was last dead
  worksAgo,  \* ... and since it last worked
  newest,    \* the newest verdict on each link; "lost" if two checks had verdicts
             \* on the link at a time, or a save failed or was cut off
  changes, requests, faults

world == <<dead, deadAgo, worksAgo>>
tables == <<cache, pushed, isPushed>>
checks == <<at, todo, answer, expires>>
push == <<batch, result>>
bounds == <<changes, requests, faults>>
vars == <<world, tables, checks, push, newest, bounds>>

Long == TTL + 1   \* hours are not counted any further
Nothing == [u \in Links |-> "none"]
Verdicts == {"valid", "invalid"}
NoRow == [status |-> "none", left |-> 0]

Init ==
  /\ \E d \in SUBSET Links :
       /\ dead = d
       /\ deadAgo = [u \in Links |-> IF u \in d THEN 0 ELSE Long]
       /\ worksAgo = [u \in Links |-> IF u \in d THEN Long ELSE 0]
  /\ cache = [u \in Links |-> NoRow]
  /\ pushed = {} /\ isPushed = {}
  /\ at = [p \in Procs |-> "idle"]
  /\ todo = [p \in Procs |-> {}]
  /\ answer = [p \in Procs |-> Nothing]
  /\ expires = [p \in Procs |-> 0]
  /\ batch = {} /\ result = Nothing
  /\ newest = Nothing
  /\ changes = 0 /\ requests = 0 /\ faults = 0

-----------------------------------------------------------------------------
(* The functions of link_check.rs *)

\* split_resource_urls
LinksOf(r) == {Norm[t] : t \in Text[r]} \ {""}

\* Mutant: the expiry is not looked at.
HitsExpired(S) == [u \in Links |-> IF u \in S THEN cache[u].status ELSE "none"]

\* read_cache_hits: the verdicts on S that have not expired.
Hits(S) == [u \in Links |-> IF u \in S /\ cache[u].left > 0 THEN cache[u].status ELSE "none"]

\* aggregate_link_status
Aggregate(r, statuses) ==
  IF LinksOf(r) = {} THEN "unknown"
  ELSE IF \E u \in LinksOf(r) : statuses[u] = "invalid" THEN "invalid"
  ELSE IF \A u \in LinksOf(r) : statuses[u] = "valid" THEN "valid"
  ELSE IF \E u \in LinksOf(r) : statuses[u] = "pending" THEN "pending"
  ELSE "unknown"

\* classify_resources: what has a dead link is left out; no other status bars.
Classified(S, statuses) == {r \in S : \A u \in LinksOf(r) : statuses[u] # "invalid"}

\* annotate_link_status: what the list of resources shows.
Listed(r) == Aggregate(r, Hits(LinksOf(r)))

-----------------------------------------------------------------------------
(* check_urls *)

Goto(p, where) == at' = [at EXCEPT ![p] = where]
MayFail == faults < MaxFaults /\ faults' = faults + 1

\* The verdicts of S that nobody will save now.
Lose(S) ==
  newest' = [u \in Links |-> IF \E p \in S : answer[p][u] \in Verdicts THEN "lost" ELSE newest[u]]

\* A check of the links of S: the cache first, unless it is to be ignored.
\* resolve_checker finds what the options say at that time; without a checker
\* the other links are unknown.
Check(p, S, ignore) ==
  LET urls == UNION {LinksOf(r) : r \in S}
      hits == IF ignore THEN Nothing ELSE Hits(urls)
      rest == {u \in urls : hits[u] = "none"}
      known(none) == [u \in Links |-> IF u \in rest THEN none ELSE hits[u]]
  IN  /\ at[p] = "idle"
      /\ \/ /\ rest # {}
            /\ todo' = [todo EXCEPT ![p] = rest]
            /\ expires' = [expires EXCEPT ![p] = TTL]
            /\ result' = IF p = Pusher THEN known("none") ELSE result
            /\ Goto(p, "ask")
         \/ /\ result' = IF p = Pusher THEN known("unknown") ELSE result
            /\ Goto(p, IF p = Pusher THEN "done" ELSE "idle")
            /\ UNCHANGED <<todo, expires>>
      /\ batch' = IF p = Pusher THEN S ELSE batch
      /\ UNCHANGED <<world, tables, answer, newest, changes>>

\* What PanCheck may say of a link: what it is, that it must wait, or nothing.
MaySay(u) == {IF u \in dead THEN "invalid" ELSE "valid"} \cup Vague

\* A chunk is answered; the chunks are asked about concurrently, each in one
\* request.
Answered(p) ==
  /\ at[p] = "ask"
  /\ \E chunk \in SUBSET todo[p] : \E say \in [chunk -> Verdicts \cup Vague] :
       LET judged == {u \in chunk : say[u] \in Verdicts}
           Crossed(u) == \E q \in Procs \ {p} : answer[q][u] \in Verdicts
       IN  /\ \/ Cardinality(chunk) = ChunkSize
              \/ chunk = todo[p] /\ Cardinality(chunk) < ChunkSize
           /\ \A u \in chunk : say[u] \in MaySay(u)
           /\ todo' = [todo EXCEPT ![p] = @ \ chunk]
           /\ answer' = [answer EXCEPT ![p] = [u \in Links |-> IF u \in chunk THEN say[u] ELSE @[u]]]
           /\ newest' = [u \in Links |-> IF u \notin judged THEN newest[u]
                                          ELSE IF Crossed(u) THEN "lost" ELSE say[u]]
           /\ Goto(p, IF todo[p] = chunk THEN "save" ELSE "ask")
  /\ UNCHANGED <<world, tables, expires, push, bounds>>

\* The answer on u is noted in the result; the last one ends the check.
Noted(p, u) ==
  LET last == \A v \in Links \ {u} : answer[p][v] = "none"
  IN  /\ answer' = [answer EXCEPT ![p][u] = "none"]
      /\ result' = IF p = Pusher THEN [result EXCEPT ![u] = answer[p][u]] ELSE result
      /\ Goto(p, IF ~last THEN "save" ELSE IF p = Pusher THEN "done" ELSE "idle")
      /\ expires' = [expires EXCEPT ![p] = IF last THEN 0 ELSE @]

\* Mutant: the expiry is computed when the verdict is saved.
SaveLate(p) ==
  /\ at[p] = "save"
  /\ \E u \in Links :
       /\ answer[p][u] # "none"
       /\ Noted(p, u)
       /\ IF answer[p][u] \in Verdicts
          THEN cache' = [cache EXCEPT ![u] = [status |-> answer[p][u], left |-> TTL]]
          ELSE UNCHANGED cache
  /\ UNCHANGED <<world, pushed, isPushed, todo, batch, newest, bounds>>

\* Mutant: INSERT ... ON CONFLICT DO NOTHING.
SaveFirst(p) ==
  /\ at[p] = "save"
  /\ \E u \in Links :
       /\ answer[p][u] # "none"
       /\ Noted(p, u)
       /\ IF answer[p][u] \in Verdicts /\ cache[u].status = "none"
          THEN cache' = [cache EXCEPT ![u] = [status |-> answer[p][u], left |-> expires[p]]]
          ELSE UNCHANGED cache
  /\ UNCHANGED <<world, pushed, isPushed, todo, batch, newest, bounds>>

\* When every chunk is answered: persist_verdict, one statement per verdict,
\* with one expiry computed before the first question.  A failure is logged.
Save(p) ==
  /\ at[p] = "save"
  /\ \E u \in Links :
       /\ answer[p][u] # "none"
       /\ Noted(p, u)
       /\ \/ /\ answer[p][u] \in Verdicts
             /\ cache' = [cache EXCEPT ![u] = [status |-> answer[p][u], left |-> expires[p]]]
             /\ UNCHANGED <<newest, faults>>
          \/ /\ answer[p][u] \in Verdicts /\ MayFail
             /\ newest' = [newest EXCEPT ![u] = "lost"]
             /\ UNCHANGED cache
          \/ answer[p][u] \notin Verdicts /\ UNCHANGED <<cache, newest, faults>>
  /\ UNCHANGED <<world, pushed, isPushed, todo, batch, changes, requests>>

-----------------------------------------------------------------------------
(* The callers *)

\* check_links_for_config: what nobody has received, whatever the
\* configuration has; check_resource_links: one resource.
CallCheck(p) ==
  /\ requests < MaxRequests /\ requests' = requests + 1
  /\ \E ignore \in BOOLEAN, S \in {Resources \ isPushed} \cup {{r} : r \in Resources} :
       Check(p, S, ignore)
  /\ UNCHANGED faults

\* push_for_config: the candidates, then the check, ...
StartPush ==
  /\ Resources # pushed
  /\ Check(Pusher, Resources \ pushed, FALSE)
  /\ UNCHANGED <<requests, faults>>

\* ... which it does without when link_check_before_push is off or the cache
\* cannot be read, ...
PushUnchecked ==
  /\ Resources # pushed /\ at[Pusher] = "idle" /\ MayFail
  /\ batch' = Resources \ pushed /\ result' = Nothing
  /\ Goto(Pusher, "done")
  /\ UNCHANGED <<world, tables, todo, answer, expires, newest, changes, requests>>

\* ... and what the check lets through is sent, if the API takes it.
PushEnds == at[Pusher] = "done" /\ Goto(Pusher, "idle") /\ batch' = {} /\ result' = Nothing

Push ==
  /\ PushEnds
  /\ pushed' = pushed \cup Classified(batch, result)
  /\ isPushed' = isPushed \cup Classified(batch, result)
  /\ UNCHANGED <<world, cache, todo, answer, expires, newest, bounds>>

PushRefused == PushEnds /\ UNCHANGED <<world, tables, todo, answer, expires, newest, bounds>>

\* push_single_resource, which checks nothing, or another configuration's push.
PushedElsewhere(r) ==
  /\ r \notin isPushed /\ requests < MaxRequests /\ requests' = requests + 1
  /\ isPushed' = isPushed \cup {r}
  /\ UNCHANGED <<world, cache, pushed, checks, push, newest, changes, faults>>

\* A caller hangs up, or the process stops and starts.
Cut(S) ==
  /\ MayFail
  /\ \E p \in S : at[p] # "idle"
  /\ at' = [p \in Procs |-> IF p \in S THEN "idle" ELSE at[p]]
  /\ todo' = [p \in Procs |-> IF p \in S THEN {} ELSE todo[p]]
  /\ answer' = [p \in Procs |-> IF p \in S THEN Nothing ELSE answer[p]]
  /\ expires' = [p \in Procs |-> IF p \in S THEN 0 ELSE expires[p]]
  /\ IF Pusher \in S THEN batch' = {} /\ result' = Nothing ELSE UNCHANGED push
  /\ Lose(S)
  /\ UNCHANGED <<world, tables, changes, requests>>

HangUp(p) == Cut({p})
Restart == Cut(Procs)

-----------------------------------------------------------------------------
(* The world *)

Dies(u) ==
  /\ u \notin dead /\ changes < MaxChanges /\ changes' = changes + 1
  /\ dead' = dead \cup {u}
  /\ deadAgo' = [deadAgo EXCEPT ![u] = 0]
  /\ UNCHANGED <<worksAgo, tables, checks, push, newest, requests, faults>>

ComesBack(u) ==
  /\ u \in dead /\ changes < MaxChanges /\ changes' = changes + 1
  /\ dead' = dead \ {u}
  /\ worksAgo' = [worksAgo EXCEPT ![u] = 0]
  /\ UNCHANGED <<deadAgo, tables, checks, push, newest, requests, faults>>

\* An hour passes.  No check lasts longer, since a request gives up after 60 s,
\* and what a check lets through is sent right away.
Hour ==
  LET Less(n) == IF n = 0 THEN 0 ELSE n - 1
      More(n) == IF n = Long THEN Long ELSE n + 1
  IN  /\ \A p \in Procs : at[p] \in {"ask", "save"} => expires[p] = TTL
      /\ at[Pusher] # "done"
      /\ cache' = [u \in Links |-> [cache[u] EXCEPT !.left = Less(@)]]
      /\ expires' = [p \in Procs |-> Less(expires[p])]
      /\ deadAgo' = [u \in Links |-> IF u \in dead THEN 0 ELSE More(deadAgo[u])]
      /\ worksAgo' = [u \in Links |-> IF u \in dead THEN More(worksAgo[u]) ELSE 0]
      /\ UNCHANGED <<dead, pushed, isPushed, at, todo, answer, push, newest, bounds>>

Step(p) == Answered(p) \/ Save(p)

Next ==
  \/ \E p \in Callers : CallCheck(p) \/ HangUp(p)
  \/ \E p \in Procs : Step(p)
  \/ StartPush \/ PushUnchecked \/ Push \/ PushRefused
  \/ \E r \in Resources : PushedElsewhere(r)
  \/ \E u \in Links : Dies(u) \/ ComesBack(u)
  \/ Hour \/ Restart

Spec == Init /\ [][Next]_vars

(***************************************************************************)
(* Calls return, the push scheduler ticks, hours pass, and an API that is  *)
(* asked again and again accepts at some time.                             *)
(***************************************************************************)
FairSpec ==
  /\ Spec
  /\ \A p \in Procs : WF_vars(Step(p))
  /\ WF_vars(StartPush) /\ SF_vars(Hour)
  /\ SF_vars(Push)

-----------------------------------------------------------------------------
Statuses == {"none", "valid", "invalid", "pending", "unknown"}
TypeOK ==
  /\ dead \subseteq Links
  /\ cache \in [Links -> [status : {"none"} \cup Verdicts, left : 0..TTL]]
  /\ pushed \subseteq isPushed /\ isPushed \subseteq Resources
  /\ at \in [Procs -> {"idle", "ask", "save", "done"}]
  /\ todo \in [Procs -> SUBSET Links] /\ answer \in [Procs -> [Links -> Statuses]]
  /\ expires \in [Procs -> 0..TTL]
  /\ batch \subseteq Resources /\ result \in [Links -> Statuses]
  /\ {deadAgo, worksAgo} \subseteq [Links -> 0..Long]
  /\ newest \in [Links -> {"none", "lost"} \cup Verdicts]
  /\ changes \in 0..MaxChanges /\ requests \in 0..MaxRequests
  /\ faults \in 0..MaxFaults

(***************************************************************************)
(* No verdict outlives its time to live, however slow the check that gave  *)
(* it and whatever overtook it: what the list shows of a resource was true *)
(* less than TTL hours ago, and a push leaves a resource out only for a    *)
(* link that was dead then.                                                *)
(***************************************************************************)
VerdictsRecent ==
  /\ \A r \in Resources :
       /\ Listed(r) = "invalid" => \E u \in LinksOf(r) : deadAgo[u] < TTL
       /\ Listed(r) = "valid" => \A u \in LinksOf(r) : worksAgo[u] < TTL
  /\ \A r \in batch \ Classified(batch, result) : \E u \in LinksOf(r) : deadAgo[u] <= TTL

(***************************************************************************)
(* The cache holds the newest verdict on a link, so that a forced check    *)
(* corrects what it held, unless another check had an older verdict on the *)
(* link to save, or the newest one got lost; and then the next check does. *)
(***************************************************************************)
NewestKept ==
  \A u \in Links :
    newest[u] # "lost" /\ (\A p \in Procs : answer[p][u] \notin Verdicts)
      => cache[u].status = newest[u]

(***************************************************************************)
(* A resource whose links work again reaches the configuration: a verdict  *)
(* against it expires, and the push that comes after asks again.           *)
(***************************************************************************)
Alive(r) == LinksOf(r) \cap dead = {}
RevivedPushed == \A r \in Resources : Alive(r) ~> r \in pushed \/ ~Alive(r)
=============================================================================
