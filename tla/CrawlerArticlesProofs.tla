----------------------- MODULE CrawlerArticlesProofs -----------------------
(***************************************************************************)
(* Proofs about the runs of a crawler task and its articles, for any pages,*)
(* links and settings of a task, any number of runs, any clients, and any  *)
(* number of requests and faults.                                          *)
(*                                                                         *)
(* IInv counts who is about to write a value: where no two writers were    *)
(* seen at once there is at most one, and then no hit; and nobody who can  *)
(* still write works on an article that is gone.  How a run walks the      *)
(* pages does not matter to it, so it knows of a run's record only its     *)
(* fields.                                                                 *)
(*                                                                         *)
(* CrawlInv adds the walk: of a run without a failure, every seed was met  *)
(* or is to come, the pages it came to lead to no others but the next, and *)
(* what they link to is stored or left to do, unless a limit stopped it.   *)
(***************************************************************************)
EXTENDS CrawlerArticles, FiniteSetTheorems, SequenceTheorems, WellFoundedInduction, TLAPS

-----------------------------------------------------------------------------
(* The inductive invariant *)

\* The tables, and the refreshes.
TypeTable ==
  /\ task \in {"live", "gone"}
  /\ article \in [Urls -> [by : Runs \cup {NoRun, EarlierRun}, edited : BOOLEAN]]
  /\ value \in [Urls -> [hits : Nat, miss : BOOLEAN]]
  /\ refresh \in [Clients -> [url : Urls \cup {NoUrl}, live : BOOLEAN]]

\* The fields of a run.
Shaped(rec) == DOMAIN rec = {"at", "seeds", "page", "next", "depth", "trail", "seen", "left",
                             "url", "live", "empties", "failed"}

RunShape == DOMAIN run = Runs /\ \A r \in Runs : Shaped(run[r])

\* A run, and a refresh, about to write the value of the article at u.
Writes(r, u) == run[r].at = "values" /\ run[r].url = u /\ run[r].live
Refreshes(c, u) == refresh[c].url = u /\ refresh[c].live
Written(u) == (\E r \in Runs : Writes(r, u)) \/ (\E c \in Clients : Refreshes(c, u))

\* No article: it has no value, and nobody is to write one.
LiveInv ==
  \A u \in Urls : ~Owned(u) =>
    /\ value[u] = NoValue
    /\ \A r \in Runs : run[r].url = u => ~run[r].live
    /\ \A c \in Clients : refresh[c].url = u => ~refresh[c].live

\* A task that is gone has no article.
GoneInv == task = "gone" => \A u \in Urls : ~Owned(u)

\* A value that is missing is written by someone, or was cut off.
MissingInv == \A u \in Urls : Owned(u) /\ value[u] = NoValue => u \in cut \/ Written(u)

\* Nobody writes to a value at the same time as another, or after one that wrote.
WriterInv ==
  \A u \in Urls : Owned(u) /\ u \notin crossed =>
    /\ value[u].hits <= 1
    /\ Written(u) => value[u].hits = 0
    /\ \A q, r \in Runs : Writes(q, u) /\ Writes(r, u) => q = r
    /\ \A b, c \in Clients : Refreshes(b, u) /\ Refreshes(c, u) => b = c
    /\ \A r \in Runs, c \in Clients : ~(Writes(r, u) /\ Refreshes(c, u))

IInv == TypeTable /\ RunShape /\ LiveInv /\ GoneInv /\ MissingInv /\ WriterInv

-----------------------------------------------------------------------------
(* The walk of a run *)

\* A walk changes neither the article the run is at nor whether it found it.
Walked(rec, new) ==
  /\ Shaped(new)
  /\ new.at \in {"open", "detail", "done"}
  /\ new.url = rec.url /\ new.live = rec.live

\* The next seed, page or detail is a walk.
LEMMA NextSeedWalks ==
  ASSUME NEW rec, Shaped(rec)
  PROVE  Walked(rec, NextSeed(rec))
BY DEF NextSeed, Walked, Shaped

\* The ways to the next page.
LEMMA TurnsWalk ==
  ASSUME NEW rec, Shaped(rec)
  PROVE  Walked(rec, TurnTemplate(rec)) /\ Walked(rec, TurnLink(rec)) /\ Walked(rec, Skip(rec))
<1>1. Walked(rec, TurnTemplate(rec))
  BY NextSeedWalks DEF TurnTemplate, Walked, Shaped
<1>2. Walked(rec, TurnLink(rec))
  BY NextSeedWalks DEF TurnLink, Walked, Shaped
<1> QED BY <1>1, <1>2, NextSeedWalks DEF Skip

\* The end of a page.
LEMMA TurnWalks ==
  ASSUME NEW rec, Shaped(rec)
  PROVE  Walked(rec, Turn(rec))
<1> DEFINE empties == IF config.force THEN rec.empties ELSE Empties(rec)
           counted == [rec EXCEPT !.empties = empties]
<1>1. Shaped(counted) /\ counted.url = rec.url /\ counted.live = rec.live
  BY DEF Shaped
<1>2. /\ Walked(counted, NextSeed(counted))
      /\ Walked(counted, TurnTemplate(counted))
      /\ Walked(counted, TurnLink(counted))
  <2> HIDE DEF counted
  <2> QED BY <1>1, NextSeedWalks, TurnsWalk
<1>3. Turn(rec) \in {NextSeed(counted), TurnTemplate(counted), TurnLink(counted)}
  BY DEF Turn
<1> QED BY <1>1, <1>2, <1>3 DEF Walked

\* The next detail, or the end of the page.
LEMMA DetailsWalk ==
  ASSUME NEW rec, Shaped(rec)
  PROVE  Walked(rec, Details(rec))
BY TurnWalks DEF Details, Walked, Shaped

\* A detail done with, or failed, is left behind.
LEMMA DetailLeft ==
  ASSUME NEW rec, Shaped(rec), NEW new, new \in {DetailDone(rec), DetailFails(rec)}
  PROVE  /\ Shaped(new) /\ new.at \in {"open", "detail", "done"}
         /\ new.url = NoUrl /\ new.live = FALSE
<1>1. ASSUME NEW old, Shaped(old)
      PROVE  /\ Shaped(DetailDone(old)) /\ DetailDone(old).at \in {"open", "detail", "done"}
             /\ DetailDone(old).url = NoUrl /\ DetailDone(old).live = FALSE
  <2> DEFINE left == [old EXCEPT !.left = Tail(@), !.url = NoUrl, !.live = FALSE]
  <2>1. Shaped(left) /\ left.url = NoUrl /\ left.live = FALSE
    BY <1>1 DEF Shaped
  <2>2. Walked(left, Details(left))
    <3> HIDE DEF left
    <3> QED BY <2>1, DetailsWalk
  <2> QED BY <2>1, <2>2 DEF DetailDone, Walked
<1>2. Shaped([rec EXCEPT !.failed = TRUE])
  BY DEF Shaped
<1> QED BY <1>1, <1>2 DEF DetailFails

\* A run before its first seed has no article.
LEMMA NewRunFact ==
  ASSUME NEW s
  PROVE  /\ Shaped(NewRun(s)) /\ NewRun(s).at = s
         /\ NewRun(s).url = NoUrl /\ NewRun(s).live = FALSE
BY DEF NewRun, Shaped

\* NoUrl is no article, and an article has a run.
LEMMA NoFacts ==
  /\ NoUrl \notin Urls
  /\ NoRun \notin Runs /\ EarlierRun # NoRun
  /\ NoArticle.by = NoRun /\ NoArticle.edited = FALSE
  /\ NoValue.hits = 0 /\ NoValue.miss = FALSE
  /\ NoRefresh.url = NoUrl /\ NoRefresh.live = FALSE
BY CrawlerArticlesAssumption
   DEF NoRun, Runs, EarlierRun, NoArticle, NoValue, NoRefresh

-----------------------------------------------------------------------------
(* Steps of a run *)

\* A step of a run that replaces its record.
LEMMA StepFact ==
  ASSUME RunShape, NEW r \in Runs, NEW rec, Shaped(rec), Step(r, rec)
  PROVE  /\ RunShape'
         /\ run'[r] = rec
         /\ \A q \in Runs : q # r => run'[q] = run[q]
BY DEF RunShape, Step, Shaped

\* Nobody starts or stops writing, and no article comes or goes.
LEMMA QuietStep ==
  ASSUME IInv, TypeTable', RunShape',
         \A u \in Urls : Owned(u)' <=> Owned(u),
         \A r \in Runs, u \in Urls :
           /\ Writes(r, u)' <=> Writes(r, u)
           /\ run'[r].url = u /\ run'[r].live => Owned(u),
         UNCHANGED <<task, value, refresh, cut, crossed>>
  PROVE  IInv'
<1>1. \A u \in Urls : Written(u)' <=> Written(u)
  BY DEF Written, Refreshes
<1>2. LiveInv' /\ GoneInv'
  BY DEF IInv, LiveInv, GoneInv
<1>3. MissingInv'
  BY <1>1 DEF IInv, MissingInv
<1>4. WriterInv'
  BY <1>1 DEF IInv, WriterInv, Refreshes
<1> QED BY <1>2, <1>3, <1>4 DEF IInv

\* A run that neither writes nor is about to, whatever it does to its record.
LEMMA WalkStep ==
  ASSUME IInv, NEW r \in Runs, NEW rec, Shaped(rec), Step(r, rec),
         run[r].at # "values", rec.at # "values",
         rec.live => (rec.url = run[r].url /\ run[r].live) \/ Owned(rec.url),
         UNCHANGED <<task, article, value, refresh, cut, crossed>>
  PROVE  IInv'
<1>1. /\ RunShape'
      /\ run'[r] = rec
      /\ \A q \in Runs : q # r => run'[q] = run[q]
  BY StepFact DEF IInv
<1>2. TypeTable'
  BY DEF IInv, TypeTable
<1>3. \A u \in Urls : Owned(u)' <=> Owned(u)
  BY DEF Owned
<1>4. ASSUME NEW q \in Runs, NEW u \in Urls
      PROVE  /\ Writes(q, u)' <=> Writes(q, u)
             /\ run'[q].url = u /\ run'[q].live => Owned(u)
  BY <1>1 DEF IInv, LiveInv, Writes
<1> QED BY <1>1, <1>2, <1>3, <1>4, QuietStep

\* The actions of a run that write nothing.
LEMMA KeepWalk ==
  ASSUME IInv, NEW r \in Runs,
         \/ Ask(r) \/ Begin(r) \/ Open(r) \/ OpenAgain(r) \/ OpenTooDeep(r) \/ Finish(r)
  PROVE  IInv'
<1>0. Shaped(run[r])
  BY DEF IInv, RunShape
<1>1. CASE Ask(r)
  <2>1. /\ run[r].at = "idle" /\ Step(r, NewRun("asked"))
        /\ UNCHANGED <<task, article, value, refresh, cut, crossed>>
    BY <1>1 DEF Ask, store, ghosts
  <2> QED BY <2>1, NewRunFact, WalkStep
<1>2. CASE Begin(r)
  <2>1. PICK rec : Step(r, rec) /\ rec \in {NewRun("over"),
          NextSeed([NewRun("asked") EXCEPT !.seeds = IF config.mode = "pure" THEN << 1 >> ELSE Seeds])}
    BY <1>2 DEF Begin
  <2>2. /\ run[r].at = "asked"
        /\ UNCHANGED <<task, article, value, refresh, cut, crossed>>
    BY <1>2 DEF Begin, store, ghosts
  <2>3. Shaped(rec) /\ rec.at # "values" /\ rec.live = FALSE
    <3>1. ASSUME NEW seeds
          PROVE  LET new == [NewRun("asked") EXCEPT !.seeds = seeds]
                 IN  Shaped(new) /\ new.live = FALSE
      BY NewRunFact DEF Shaped
    <3>2. ASSUME NEW seeds
          PROVE  LET new == NextSeed([NewRun("asked") EXCEPT !.seeds = seeds])
                 IN  Shaped(new) /\ new.at # "values" /\ new.live = FALSE
      BY <3>1, NextSeedWalks DEF Walked
    <3> QED BY <2>1, <3>2, NewRunFact
  <2> QED BY <2>1, <2>2, <2>3, WalkStep
<1>3. CASE Open(r)
  <2> DEFINE links == NewLinks(run[r])
             rec == [run[r] EXCEPT !.depth = @ + 1,
                       !.trail = Append(@, [page |-> run[r].page, news |-> FALSE])]
             read == [rec EXCEPT !.left = links, !.seen = @ \cup Range(links)]
             failed == [rec EXCEPT !.failed = TRUE]
  <2>1. /\ Shaped(read) /\ read.url = run[r].url /\ read.live = run[r].live
        /\ Shaped(failed) /\ failed.url = run[r].url /\ failed.live = run[r].live
    BY <1>0 DEF Shaped
  <2>2. /\ run[r].at = "open"
        /\ UNCHANGED <<task, article, value, refresh, cut, crossed>>
        /\ \/ Step(r, Details(read)) \/ Step(r, Skip(failed)) \/ Step(r, NextSeed(failed))
    BY <1>3 DEF Open, store, ghosts
  <2> HIDE DEF read, failed
  <2>3. PICK new : Step(r, new) /\ new \in {Details(read), Skip(failed), NextSeed(failed)}
    BY <2>2
  <2>4. Walked(run[r], new)
    BY <2>1, <2>3, DetailsWalk, TurnsWalk, NextSeedWalks DEF Walked
  <2> QED BY <2>2, <2>3, <2>4, WalkStep DEF Walked
<1>4. CASE OpenAgain(r)
  <2> DEFINE rec == [run[r] EXCEPT !.depth = @ + 1]
  <2>1. Shaped(rec) /\ rec.url = run[r].url /\ rec.live = run[r].live
    BY <1>0 DEF Shaped
  <2>2. /\ run[r].at = "open" /\ Step(r, Skip(rec))
        /\ UNCHANGED <<task, article, value, refresh, cut, crossed>>
    BY <1>4 DEF OpenAgain, store, ghosts
  <2> HIDE DEF rec
  <2>3. Walked(run[r], Skip(rec))
    BY <2>1, TurnsWalk DEF Walked
  <2> QED BY <2>2, <2>3, WalkStep DEF Walked
<1>5. CASE OpenTooDeep(r)
  <2>1. /\ run[r].at = "open" /\ Step(r, NextSeed(run[r]))
        /\ UNCHANGED <<task, article, value, refresh, cut, crossed>>
    BY <1>5 DEF OpenTooDeep, store, ghosts
  <2>2. Walked(run[r], NextSeed(run[r]))
    BY <1>0, NextSeedWalks
  <2> QED BY <2>1, <2>2, WalkStep DEF Walked
<1>6. CASE Finish(r)
  <2>1. /\ run[r].at = "done" /\ Step(r, NewRun("over"))
        /\ UNCHANGED <<task, article, value, refresh, cut, crossed>>
    BY <1>6 DEF Finish, store, ghosts
  <2> QED BY <2>1, NewRunFact, WalkStep
<1> QED BY <1>1, <1>2, <1>3, <1>4, <1>5, <1>6

\* SELECT: a run is at an article only if there is one.
LEMMA KeepDetail ==
  ASSUME IInv, NEW r \in Runs, Detail(r)
  PROVE  IInv'
<1>0. Shaped(run[r])
  BY DEF IInv, RunShape
<1>1. /\ run[r].at = "detail"
      /\ UNCHANGED <<task, article, value, refresh, cut, crossed>>
  BY DEF Detail, store, ghosts
<1>2. PICK u : u = Head(run[r].left)
  OBVIOUS
<1>3. \/ Step(r, [run[r] EXCEPT !.url = u, !.live = Owned(u),
                                !.at = IF Owned(u) THEN "update" ELSE "insert"])
      \/ Step(r, DetailFails(run[r]))
  BY <1>2 DEF Detail
<1>4. CASE Step(r, DetailFails(run[r]))
  BY <1>0, <1>1, <1>4, DetailLeft, WalkStep
<1>5. CASE Step(r, [run[r] EXCEPT !.url = u, !.live = Owned(u),
                                  !.at = IF Owned(u) THEN "update" ELSE "insert"])
  <2>1. PICK rec : rec = [run[r] EXCEPT !.url = u, !.live = Owned(u),
                                        !.at = IF Owned(u) THEN "update" ELSE "insert"]
    OBVIOUS
  <2>2. /\ Shaped(rec) /\ rec.url = u /\ rec.live = Owned(u)
        /\ rec.at = IF Owned(u) THEN "update" ELSE "insert"
    BY <1>0, <2>1 DEF Shaped
  <2>3. rec.at # "values"
    BY <2>2
  <2> QED BY <1>1, <1>5, <2>1, <2>2, <2>3, WalkStep
<1> QED BY <1>3, <1>4, <1>5

\* UPDATE ... WHERE is_edited = 0 leaves the values, and the article in the task.
LEMMA KeepUpdate ==
  ASSUME IInv, NEW r \in Runs, Update(r)
  PROVE  IInv'
<1>0. Shaped(run[r])
  BY DEF IInv, RunShape
<1>1. /\ run[r].at = "update"
      /\ UNCHANGED <<task, value, refresh, cut, crossed>>
  BY DEF Update, ghosts
<1>2. PICK u : u = run[r].url
  OBVIOUS
<1>3. /\ \/ article' = [article EXCEPT ![u].by = r] /\ run[r].live
         \/ UNCHANGED article
      /\ \E rec \in {DetailDone(run[r]), DetailFails(run[r])} : Step(r, rec)
  BY <1>2 DEF Update
<1>4. PICK rec \in {DetailDone(run[r]), DetailFails(run[r])} : Step(r, rec)
  BY <1>3
<1>5. Shaped(rec) /\ rec.at \in {"open", "detail", "done"} /\ rec.live = FALSE
  BY <1>0, <1>4, DetailLeft
<1>6. /\ RunShape'
      /\ run'[r] = rec
      /\ \A q \in Runs : q # r => run'[q] = run[q]
  BY <1>4, <1>5, StepFact DEF IInv
<1>7. TypeTable'
  BY <1>1, <1>3 DEF IInv, TypeTable
<1>8. ASSUME NEW v \in Urls PROVE Owned(v)' <=> Owned(v)
  <2>1. CASE UNCHANGED article
    BY <2>1 DEF Owned
  <2>2. CASE article' = [article EXCEPT ![u].by = r] /\ run[r].live
    <3>1. CASE v = u
      <4>1. Owned(v)
        BY <1>2, <2>2, <3>1 DEF IInv, LiveInv
      <4>2. article'[v].by = r
        BY <2>2, <3>1 DEF IInv, TypeTable
      <4> QED BY <4>1, <4>2, NoFacts DEF Owned
    <3>2. CASE v # u
      BY <2>2, <3>2 DEF IInv, TypeTable, Owned
    <3> QED BY <3>1, <3>2
  <2> QED BY <1>3, <2>1, <2>2
<1>9. ASSUME NEW q \in Runs, NEW v \in Urls
      PROVE  /\ Writes(q, v)' <=> Writes(q, v)
             /\ run'[q].url = v /\ run'[q].live => Owned(v)
  BY <1>1, <1>5, <1>6 DEF IInv, LiveInv, Writes
<1> QED BY <1>1, <1>6, <1>7, <1>8, <1>9, QuietStep

\* INSERT: an article that was not there has no value and nobody to write it but
\* the run that made it.
LEMMA KeepInsert ==
  ASSUME IInv, NEW r \in Runs, Insert(r)
  PROVE  IInv'
<1>0. Shaped(run[r])
  BY DEF IInv, RunShape
<1>1. /\ run[r].at = "insert"
      /\ UNCHANGED <<task, value, refresh>>
  BY DEF Insert
<1>2. PICK u : u = run[r].url
  OBVIOUS
<1>3. CASE Step(r, DetailFails(run[r])) /\ UNCHANGED <<article, cut, crossed>>
  BY <1>0, <1>1, <1>3, DetailLeft, WalkStep
<1>4. CASE /\ ~Owned(u) /\ task = "live"
           /\ article' = [article EXCEPT ![u] = [by |-> r, edited |-> FALSE]]
           /\ Step(r, [run[r] EXCEPT !.at = "values", !.live = TRUE,
                          !.trail[Len(run[r].trail)].news = TRUE])
           /\ cut' = cut \ {u} /\ crossed' = crossed \ {u}
  <2>1. PICK rec : rec = [run[r] EXCEPT !.at = "values", !.live = TRUE,
                                        !.trail[Len(run[r].trail)].news = TRUE]
    OBVIOUS
  <2>2. Shaped(rec) /\ rec.at = "values" /\ rec.url = u /\ rec.live = TRUE
    BY <1>0, <1>2, <2>1 DEF Shaped
  <2>3. /\ RunShape'
        /\ run'[r] = rec
        /\ \A q \in Runs : q # r => run'[q] = run[q]
    BY <1>4, <2>1, <2>2, StepFact DEF IInv
  <2>4. TypeTable'
    BY <1>1, <1>4 DEF IInv, TypeTable
  <2>5. /\ \A v \in Urls : v # u => article'[v] = article[v]
        /\ u \in Urls => Owned(u)'
    <3>1. u \in Urls => article'[u].by = r
      BY <1>4 DEF IInv, TypeTable
    <3> QED BY <1>4, <3>1, NoFacts DEF IInv, TypeTable, Owned
  <2>6. \A q \in Runs, v \in Urls : Writes(q, v)' <=> Writes(q, v) \/ (q = r /\ v = u)
    BY <1>1, <1>2, <2>2, <2>3 DEF Writes
  <2>7. \A c \in Clients, v \in Urls : Refreshes(c, v)' <=> Refreshes(c, v)
    BY <1>1 DEF Refreshes
  <2>8. u \in Urls => /\ value[u] = NoValue
                      /\ \A q \in Runs : run[q].url = u => ~run[q].live
                      /\ \A c \in Clients : refresh[c].url = u => ~refresh[c].live
    BY <1>4 DEF IInv, LiveInv
  <2>9. \A v \in Urls : v # u => (Owned(v)' <=> Owned(v))
    BY <2>5 DEF Owned
  <2>10. LiveInv'
    BY <1>1, <2>2, <2>3, <2>5, <2>9 DEF IInv, LiveInv
  <2>11. GoneInv'
    BY <1>1, <1>4 DEF GoneInv
  <2>12. MissingInv'
    BY <1>1, <1>4, <2>6, <2>7, <2>9 DEF IInv, MissingInv, Written
  <2>13. WriterInv'
    <3>1. ASSUME NEW v \in Urls, v # u, Owned(v)', v \notin crossed'
          PROVE  /\ value'[v].hits <= 1
                 /\ Written(v)' => value'[v].hits = 0
                 /\ \A p, q \in Runs : Writes(p, v)' /\ Writes(q, v)' => p = q
                 /\ \A b, c \in Clients : Refreshes(b, v)' /\ Refreshes(c, v)' => b = c
                 /\ \A q \in Runs, c \in Clients : ~(Writes(q, v)' /\ Refreshes(c, v)')
      BY <1>1, <1>4, <2>6, <2>7, <2>9, <3>1 DEF IInv, WriterInv, Written
    <3>2. ASSUME u \in Urls
          PROVE  /\ value'[u].hits = 0
                 /\ \A q \in Runs : Writes(q, u)' => q = r
                 /\ \A c \in Clients : ~Refreshes(c, u)'
      <4>1. \A q \in Runs : ~Writes(q, u)
        BY <2>8, <3>2 DEF Writes
      <4>2. \A c \in Clients : ~Refreshes(c, u)
        BY <2>8, <3>2 DEF Refreshes
      <4> QED BY <1>1, <2>6, <2>7, <2>8, <3>2, <4>1, <4>2, NoFacts
    <3> QED BY <3>1, <3>2 DEF WriterInv
  <2> QED BY <2>3, <2>4, <2>10, <2>11, <2>12, <2>13 DEF IInv
<1> QED BY <1>2, <1>3, <1>4 DEF Insert

\* Nothing of this happens.
LEMMA UnchangedStep ==
  ASSUME IInv, UNCHANGED <<task, article, value, run, refresh, cut, crossed>>
  PROVE  IInv'
<1>1. TypeTable' /\ RunShape'
  BY DEF IInv, TypeTable, RunShape
<1>2. \A u \in Urls : Owned(u)' <=> Owned(u)
  BY DEF Owned
<1>3. \A r \in Runs, u \in Urls :
        /\ Writes(r, u)' <=> Writes(r, u)
        /\ run'[r].url = u /\ run'[r].live => Owned(u)
  BY DEF IInv, LiveInv, Writes
<1> QED BY <1>1, <1>2, <1>3, QuietStep

-----------------------------------------------------------------------------
(* Writers of a value *)

\* Someone may stop writing to u, having added a hit, or noted a miss or an error.
LEMMA WriterStops ==
  ASSUME IInv, NEW u,
         RunShape',
         refresh' \in [Clients -> [url : Urls \cup {NoUrl}, live : BOOLEAN]],
         \A r \in Runs, v \in Urls :
           /\ Writes(r, v)' => Writes(r, v)
           /\ v # u => (Writes(r, v) => Writes(r, v)')
           /\ run'[r].url = v /\ run'[r].live => Owned(v),
         \A c \in Clients, v \in Urls :
           /\ Refreshes(c, v)' => Refreshes(c, v)
           /\ v # u => (Refreshes(c, v) => Refreshes(c, v)'),
         u \in Urls /\ u \notin crossed /\ value'[u].hits > value[u].hits => ~Written(u)',
         u \in Urls /\ value'[u].hits > value[u].hits => Written(u),
         \/ UNCHANGED value /\ (u \in cut' \/ u \notin Urls \/ UNCHANGED <<run, refresh>>)
         \/ value' = [value EXCEPT ![u].hits = @ + 1] /\ (u \in Urls => Owned(u))
         \/ value' = [value EXCEPT ![u].miss = TRUE] /\ (u \in Urls => Owned(u)),
         cut \subseteq cut',
         UNCHANGED <<task, article, crossed>>
  PROVE  IInv'
<1>1. \A v \in Urls : Owned(v)' <=> Owned(v)
  BY DEF Owned
<1>2. /\ value' \in [Urls -> [hits : Nat, miss : BOOLEAN]]
      /\ \A v \in Urls : v # u => value'[v] = value[v]
  <2>1. CASE UNCHANGED value
    BY <2>1 DEF IInv, TypeTable
  <2>2. CASE value' = [value EXCEPT ![u].hits = @ + 1]
    <3>1. CASE u \in Urls
      BY <2>2, <3>1 DEF IInv, TypeTable
    <3>2. CASE u \notin Urls
      <4>1. PICK x : x = [value[u] EXCEPT !.hits = @ + 1]
        OBVIOUS
      <4>2. value' = [value EXCEPT ![u] = x]
        BY <2>2, <4>1
      <4> QED BY <3>2, <4>2 DEF IInv, TypeTable
    <3> QED BY <3>1, <3>2
  <2>3. CASE value' = [value EXCEPT ![u].miss = TRUE]
    BY <2>3 DEF IInv, TypeTable
  <2> QED BY <2>1, <2>2, <2>3
<1>3. TypeTable'
  BY <1>2 DEF IInv, TypeTable
<1>4. \A v \in Urls : ~Owned(v) => value'[v] = value[v]
  BY <1>2
<1>5. LiveInv'
  <2>1. \A c \in Clients, v \in Urls : refresh'[c].url = v /\ refresh'[c].live => Owned(v)
    BY DEF IInv, LiveInv, Refreshes
  <2> QED BY <1>1, <1>4, <2>1 DEF IInv, LiveInv
<1>6. GoneInv'
  BY <1>1 DEF IInv, GoneInv
<1>7. \A v \in Urls : v # u => (Written(v)' <=> Written(v))
  BY DEF Written
<1>8. MissingInv'
  <2>1. ASSUME NEW v \in Urls, v # u, Owned(v), value'[v] = NoValue
        PROVE  v \in cut' \/ Written(v)'
    BY <1>2, <1>7, <2>1 DEF IInv, MissingInv
  <2>2. ASSUME u \in Urls, Owned(u), value'[u] = NoValue
        PROVE  u \in cut' \/ Written(u)'
    <3>1. CASE UNCHANGED value /\ u \in cut'
      BY <3>1
    <3>2. CASE UNCHANGED <<value, run, refresh>>
      BY <2>2, <3>2 DEF IInv, MissingInv, Written, Writes, Refreshes
    <3>3. CASE value' = [value EXCEPT ![u].hits = @ + 1]
      <4>1. value'[u].hits = value[u].hits + 1 /\ value[u].hits \in Nat
        BY <2>2, <3>3 DEF IInv, TypeTable
      <4> QED BY <2>2, <4>1, NoFacts
    <3>4. CASE value' = [value EXCEPT ![u].miss = TRUE]
      <4>1. value'[u].miss = TRUE
        BY <2>2, <3>4 DEF IInv, TypeTable
      <4> QED BY <2>2, <4>1, NoFacts
    <3> QED BY <2>2, <3>1, <3>2, <3>3, <3>4
  <2> QED BY <1>1, <2>1, <2>2 DEF MissingInv
<1>9. WriterInv'
  <2> SUFFICES ASSUME NEW v \in Urls, Owned(v), v \notin crossed
               PROVE  /\ value'[v].hits <= 1
                      /\ Written(v)' => value'[v].hits = 0
                      /\ \A p, q \in Runs : Writes(p, v)' /\ Writes(q, v)' => p = q
                      /\ \A b, c \in Clients : Refreshes(b, v)' /\ Refreshes(c, v)' => b = c
                      /\ \A q \in Runs, c \in Clients : ~(Writes(q, v)' /\ Refreshes(c, v)')
    BY <1>1 DEF WriterInv
  <2>1. /\ value[v].hits <= 1
        /\ Written(v) => value[v].hits = 0
        /\ \A p, q \in Runs : Writes(p, v) /\ Writes(q, v) => p = q
        /\ \A b, c \in Clients : Refreshes(b, v) /\ Refreshes(c, v) => b = c
        /\ \A q \in Runs, c \in Clients : ~(Writes(q, v) /\ Refreshes(c, v))
    BY DEF IInv, WriterInv
  <2>2. Written(v)' => Written(v)
    BY DEF Written
  <2>3. value[v].hits \in Nat /\ value'[v].hits \in {value[v].hits, value[v].hits + 1}
    BY DEF IInv, TypeTable
  <2>4. CASE value'[v].hits = value[v].hits
    BY <2>1, <2>2, <2>4
  <2>5. CASE value'[v].hits > value[v].hits
    <3>1. v = u
      BY <1>2, <2>3, <2>5
    <3>2. ~Written(v)' /\ Written(v)
      BY <2>5, <3>1
    <3> QED BY <2>1, <2>3, <3>2 
  <2> QED BY <2>3, <2>4, <2>5
<1> QED BY <1>3, <1>5, <1>6, <1>8, <1>9 DEF IInv

\* write_field_values.
LEMMA KeepWriteValue ==
  ASSUME IInv, NEW r \in Runs, WriteValue(r)
  PROVE  IInv'
<1>0. Shaped(run[r])
  BY DEF IInv, RunShape
<1>1. /\ run[r].at = "values" /\ Step(r, DetailDone(run[r]))
      /\ UNCHANGED <<task, article, refresh, crossed>>
  BY DEF WriteValue
<1>2. PICK u : u = run[r].url
  OBVIOUS
<1>3. PICK rec : rec = DetailDone(run[r])
  OBVIOUS
<1>4. Shaped(rec) /\ rec.at # "values" /\ rec.live = FALSE
  BY <1>0, <1>3, DetailLeft
<1>5. /\ RunShape'
      /\ run'[r] = rec
      /\ \A q \in Runs : q # r => run'[q] = run[q]
  BY <1>1, <1>3, <1>4, StepFact DEF IInv
<1>6. \/ /\ \/ value' = [value EXCEPT ![u].hits = @ + 1]
            \/ value' = [value EXCEPT ![u].miss = TRUE]
         /\ run[r].live /\ UNCHANGED cut
      \/ /\ ~run[r].live \/ task = "gone"
         /\ UNCHANGED <<value, cut>>
      \/ run[r].live /\ cut' = cut \cup {u} /\ UNCHANGED value
  BY <1>2 DEF WriteValue
<1>7. u \in Urls /\ run[r].live => Owned(u) /\ task = "live" /\ Writes(r, u)
  BY <1>1, <1>2 DEF IInv, LiveInv, GoneInv, TypeTable, Writes
<1>8. ASSUME NEW q \in Runs, NEW v \in Urls
      PROVE  /\ Writes(q, v)' => Writes(q, v)
             /\ v # u => (Writes(q, v) => Writes(q, v)')
             /\ run'[q].url = v /\ run'[q].live => Owned(v)
  BY <1>2, <1>4, <1>5 DEF IInv, LiveInv, Writes
<1>9. \A c \in Clients, v \in Urls : Refreshes(c, v)' <=> Refreshes(c, v)
  BY <1>1 DEF Refreshes
<1>10. CASE ~run[r].live /\ UNCHANGED <<value, cut>>
  <2>1. \A q \in Runs, v \in Urls : Writes(q, v)' <=> Writes(q, v)
    BY <1>4, <1>5, <1>10 DEF Writes
  <2>2. TypeTable'
    BY <1>1, <1>10 DEF IInv, TypeTable
  <2>3. \A v \in Urls : Owned(v)' <=> Owned(v)
    BY <1>1 DEF Owned
  <2> QED BY <1>1, <1>5, <1>8, <1>10, <2>1, <2>2, <2>3, QuietStep
<1>11. CASE run[r].live
  <2>1. ASSUME u \in Urls, u \notin crossed
        PROVE  ~Written(u)'
    <3>1. Writes(r, u) /\ Owned(u)
      BY <1>7, <1>11, <2>1
    <3>2. \A q \in Runs : Writes(q, u) => q = r
      BY <2>1, <3>1 DEF IInv, WriterInv
    <3>3. \A c \in Clients : ~Refreshes(c, u)
      BY <2>1, <3>1 DEF IInv, WriterInv
    <3>4. ~Writes(r, u)'
      BY <1>4, <1>5 DEF Writes
    <3> QED BY <1>8, <1>9, <2>1, <3>2, <3>3, <3>4 DEF Written
  <2>2. u \in Urls => Written(u)
    BY <1>7, <1>11 DEF Written
  <2>3. refresh' \in [Clients -> [url : Urls \cup {NoUrl}, live : BOOLEAN]]
    BY <1>1 DEF IInv, TypeTable
  <2>4. \/ UNCHANGED value /\ (u \in cut' \/ u \notin Urls)
        \/ value' = [value EXCEPT ![u].hits = @ + 1] /\ (u \in Urls => Owned(u))
        \/ value' = [value EXCEPT ![u].miss = TRUE] /\ (u \in Urls => Owned(u))
    BY <1>6, <1>7, <1>11 DEF IInv, TypeTable
  <2>5. cut \subseteq cut'
    BY <1>6
  <2> QED BY <1>1, <1>5, <1>8, <1>9, <2>1, <2>2, <2>3, <2>4, <2>5, WriterStops
<1> QED BY <1>6, <1>10, <1>11

\* The INSERT of a refresh.
LEMMA KeepRefreshInsert ==
  ASSUME IInv, NEW c \in Clients, RefreshInsert(c)
  PROVE  IInv'
<1>1. /\ refresh' = [refresh EXCEPT ![c] = NoRefresh]
      /\ UNCHANGED <<task, article, run, crossed>>
  BY DEF RefreshInsert
<1>2. PICK u : u = refresh[c].url
  OBVIOUS
<1>3. \/ /\ value' = IF refresh[c].live /\ task = "live"
                     THEN [value EXCEPT ![u].hits = @ + 1] ELSE value
         /\ UNCHANGED cut
      \/ cut' = cut \cup {u} /\ UNCHANGED value
  BY <1>2 DEF RefreshInsert
<1>4. /\ refresh' \in [Clients -> [url : Urls \cup {NoUrl}, live : BOOLEAN]]
      /\ refresh'[c] = NoRefresh
      /\ \A b \in Clients : b # c => refresh'[b] = refresh[b]
  BY <1>1 DEF IInv, TypeTable, NoRefresh
<1>5. u \in Urls /\ refresh[c].live => Owned(u) /\ task = "live" /\ Refreshes(c, u)
  BY <1>2 DEF IInv, LiveInv, GoneInv, TypeTable, Refreshes
<1>6. \A b \in Clients, v \in Urls :
        /\ Refreshes(b, v)' => Refreshes(b, v)
        /\ v # u => (Refreshes(b, v) => Refreshes(b, v)')
  BY <1>2, <1>4, NoFacts DEF Refreshes
<1>7. \A r \in Runs, v \in Urls :
        /\ Writes(r, v)' <=> Writes(r, v)
        /\ run'[r].url = v /\ run'[r].live => Owned(v)
  BY <1>1 DEF IInv, LiveInv, Writes
<1>8. RunShape'
  BY <1>1 DEF IInv, RunShape
<1>9. CASE ~refresh[c].live /\ UNCHANGED <<value, cut>>
  <2>1. \A b \in Clients, v \in Urls : Refreshes(b, v)' <=> Refreshes(b, v)
    BY <1>2, <1>4, <1>9, NoFacts DEF Refreshes
  <2>2. \A v \in Urls : (Owned(v)' <=> Owned(v)) /\ (Written(v)' <=> Written(v))
    BY <1>1, <1>7, <2>1 DEF Owned, Written
  <2>3. TypeTable'
    BY <1>1, <1>4, <1>9 DEF IInv, TypeTable
  <2>4. LiveInv'
    <3>1. \A b \in Clients, v \in Urls : refresh'[b].url = v /\ refresh'[b].live => Owned(v)
      BY <2>1 DEF IInv, LiveInv, Refreshes
    <3> QED BY <1>1, <1>9, <2>2, <3>1 DEF IInv, LiveInv
  <2>5. GoneInv' /\ MissingInv'
    BY <1>1, <1>9, <2>2 DEF IInv, GoneInv, MissingInv
  <2>6. WriterInv'
    BY <1>1, <1>7, <1>9, <2>1, <2>2 DEF IInv, WriterInv
  <2> QED BY <1>8, <2>3, <2>4, <2>5, <2>6 DEF IInv
<1>10. CASE refresh[c].live
  <2>1. ASSUME u \in Urls, u \notin crossed
        PROVE  ~Written(u)'
    <3>1. Refreshes(c, u) /\ Owned(u)
      BY <1>5, <1>10, <2>1
    <3>2. \A b \in Clients : Refreshes(b, u) => b = c
      BY <2>1, <3>1 DEF IInv, WriterInv
    <3>3. \A r \in Runs : ~Writes(r, u)
      BY <2>1, <3>1 DEF IInv, WriterInv
    <3>4. ~Refreshes(c, u)'
      BY <1>4, NoFacts DEF Refreshes
    <3> QED BY <1>6, <1>7, <2>1, <3>2, <3>3, <3>4 DEF Written
  <2>2. u \in Urls => Written(u)
    BY <1>5, <1>10 DEF Written
  <2>4. \/ UNCHANGED value /\ (u \in cut' \/ u \notin Urls)
        \/ value' = [value EXCEPT ![u].hits = @ + 1] /\ (u \in Urls => Owned(u))
    <3>1. CASE task = "live"
      BY <1>3, <1>5, <1>10, <3>1
    <3>2. CASE task # "live"
      BY <1>3, <1>5, <1>10, <3>2
    <3> QED BY <3>1, <3>2
  <2>5. cut \subseteq cut'
    BY <1>3
  <2> QED BY <1>1, <1>4, <1>6, <1>7, <1>8, <2>1, <2>2, <2>4, <2>5, WriterStops
<1>11. CASE ~refresh[c].live /\ ~UNCHANGED <<value, cut>>
  BY <1>3, <1>11 DEF RefreshInsert
<1> QED BY <1>9, <1>10, <1>11

\* The DELETE of a refresh: one more writer, and no hit.
LEMMA KeepRefreshDelete ==
  ASSUME IInv, NEW c \in Clients, NEW u \in Urls, RefreshDelete(c, u)
  PROVE  IInv'
<1>1. /\ refresh[c] = NoRefresh /\ Owned(u)
      /\ value' = [value EXCEPT ![u].hits = 0]
      /\ refresh' = [refresh EXCEPT ![c] = [url |-> u, live |-> TRUE]]
      /\ crossed' = IF \/ \E d \in Clients : refresh[d] = [url |-> u, live |-> TRUE]
                       \/ \E r \in Runs : run[r].at = "values" /\ run[r].url = u /\ run[r].live
                    THEN crossed \cup {u} ELSE crossed
      /\ UNCHANGED <<task, article, run, cut>>
  BY DEF RefreshDelete
<1>2. TypeTable'
  BY <1>1 DEF IInv, TypeTable
<1>3. /\ value'[u].hits = 0
      /\ \A v \in Urls : v # u => value'[v] = value[v]
  BY <1>1 DEF IInv, TypeTable
<1>4. \A b \in Clients : refresh'[b] = IF b = c THEN [url |-> u, live |-> TRUE] ELSE refresh[b]
  BY <1>1 DEF IInv, TypeTable
<1>5. \A b \in Clients, v \in Urls : Refreshes(b, v)' <=> Refreshes(b, v) \/ (b = c /\ v = u)
  BY <1>1, <1>4, NoFacts DEF Refreshes
<1>6. \A r \in Runs, v \in Urls : Writes(r, v)' <=> Writes(r, v)
  BY <1>1 DEF Writes
<1>7. \A v \in Urls : Owned(v)' <=> Owned(v)
  BY <1>1 DEF Owned
<1>8. crossed \subseteq crossed' /\ (Written(u) => u \in crossed')
  <2>1. \A d \in Clients : Refreshes(d, u) => refresh[d] = [url |-> u, live |-> TRUE]
    BY DEF Refreshes, IInv, TypeTable
  <2> QED BY <1>1, <2>1 DEF Written, Writes
<1>9. RunShape' /\ GoneInv'
  BY <1>1, <1>7 DEF IInv, RunShape, GoneInv
<1>10. LiveInv'
  BY <1>1, <1>3, <1>4, <1>7 DEF IInv, LiveInv
<1>11. MissingInv'
  BY <1>1, <1>3, <1>5, <1>6, <1>7 DEF IInv, MissingInv, Written
<1>12. WriterInv'
  <2>1. ASSUME NEW v \in Urls, v # u, Owned(v), v \notin crossed'
        PROVE  /\ value'[v].hits <= 1
               /\ Written(v)' => value'[v].hits = 0
               /\ \A p, q \in Runs : Writes(p, v)' /\ Writes(q, v)' => p = q
               /\ \A b, d \in Clients : Refreshes(b, v)' /\ Refreshes(d, v)' => b = d
               /\ \A q \in Runs, d \in Clients : ~(Writes(q, v)' /\ Refreshes(d, v)')
    BY <1>3, <1>5, <1>6, <1>8, <2>1 DEF IInv, WriterInv, Written
  <2>2. ASSUME u \notin crossed'
        PROVE  /\ \A q \in Runs : ~Writes(q, u)'
               /\ \A d \in Clients : Refreshes(d, u)' => d = c
    BY <1>5, <1>6, <1>8, <2>2 DEF Written
  <2> QED BY <1>3, <1>7, <2>1, <2>2 DEF WriterInv
<1> QED BY <1>2, <1>9, <1>10, <1>11, <1>12 DEF IInv

-----------------------------------------------------------------------------
(* Requests and restarts *)

\* An edit leaves the article in the task.
LEMMA KeepUpdateArticle ==
  ASSUME IInv, NEW u \in Urls, UpdateArticle(u)
  PROVE  IInv'
<1>1. /\ Owned(u) /\ article' = [article EXCEPT ![u].edited = TRUE]
      /\ UNCHANGED <<task, value, run, refresh, cut, crossed>>
  BY DEF UpdateArticle, ghosts
<1>2. TypeTable' /\ RunShape'
  BY <1>1 DEF IInv, TypeTable, RunShape
<1>3. \A v \in Urls : Owned(v)' <=> Owned(v)
  <2>1. article'[u].edited = TRUE /\ \A v \in Urls : v # u => article'[v] = article[v]
    BY <1>1 DEF IInv, TypeTable
  <2> QED BY <1>1, <2>1, NoFacts DEF Owned
<1>4. \A r \in Runs, v \in Urls :
        /\ Writes(r, v)' <=> Writes(r, v)
        /\ run'[r].url = v /\ run'[r].live => Owned(v)
  BY <1>1 DEF IInv, LiveInv, Writes
<1> QED BY <1>1, <1>2, <1>3, <1>4, QuietStep

\* What is forgotten has no article, no value and nobody to write it.
LEMMA ForgetFact ==
  ASSUME IInv, NEW us \in SUBSET Urls, Forget(us),
         task' = task \/ us = OwnedUrls,
         task' \in {"live", "gone"}, UNCHANGED <<cut, crossed>>
  PROVE  IInv'
<1>1. /\ \A u \in Urls : article'[u] = IF u \in us THEN NoArticle ELSE article[u]
      /\ \A u \in Urls : value'[u] = IF u \in us THEN NoValue ELSE value[u]
      /\ \A r \in Runs : run'[r] = IF run[r].url \in us THEN [run[r] EXCEPT !.live = FALSE]
                                   ELSE run[r]
      /\ \A c \in Clients : refresh'[c] = IF refresh[c].url \in us
                                          THEN [refresh[c] EXCEPT !.live = FALSE] ELSE refresh[c]
  BY DEF Forget
<1>2. /\ article' \in [Urls -> [by : Runs \cup {NoRun, EarlierRun}, edited : BOOLEAN]]
      /\ value' \in [Urls -> [hits : Nat, miss : BOOLEAN]]
  BY DEF Forget, IInv, TypeTable, NoArticle, NoValue
<1>3. /\ refresh' \in [Clients -> [url : Urls \cup {NoUrl}, live : BOOLEAN]]
      /\ \A c \in Clients : /\ refresh'[c].url = refresh[c].url
                            /\ refresh'[c].live => refresh[c].live /\ refresh[c].url \notin us
                            /\ refresh[c].url \notin us => refresh'[c] = refresh[c]
  <2>1. ASSUME NEW x \in [url : Urls \cup {NoUrl}, live : BOOLEAN]
        PROVE  /\ [x EXCEPT !.live = FALSE] \in [url : Urls \cup {NoUrl}, live : BOOLEAN]
               /\ [x EXCEPT !.live = FALSE].url = x.url
               /\ [x EXCEPT !.live = FALSE].live = FALSE
    OBVIOUS
  <2>2. \A c \in Clients : refresh[c] \in [url : Urls \cup {NoUrl}, live : BOOLEAN]
    BY DEF IInv, TypeTable
  <2>3. refresh' \in [Clients -> [url : Urls \cup {NoUrl}, live : BOOLEAN]]
    BY <2>1, <2>2 DEF Forget
  <2> QED BY <1>1, <2>1, <2>2, <2>3
<1>4. /\ RunShape'
      /\ \A r \in Runs : /\ run'[r].url = run[r].url /\ run'[r].at = run[r].at
                         /\ run'[r].live => run[r].live /\ run[r].url \notin us
                         /\ run[r].url \notin us => run'[r] = run[r]
  <2>1. ASSUME NEW x, Shaped(x)
        PROVE  /\ Shaped([x EXCEPT !.live = FALSE])
               /\ [x EXCEPT !.live = FALSE].url = x.url
               /\ [x EXCEPT !.live = FALSE].at = x.at
               /\ [x EXCEPT !.live = FALSE].live = FALSE
    BY <2>1 DEF Shaped
  <2>2. \A r \in Runs : Shaped(run[r])
    BY DEF IInv, RunShape
  <2>3. DOMAIN run' = Runs
    BY DEF Forget
  <2>4. \A r \in Runs : /\ Shaped(run'[r])
                        /\ run'[r].url = run[r].url /\ run'[r].at = run[r].at
                        /\ run'[r].live => run[r].live /\ run[r].url \notin us
                        /\ run[r].url \notin us => run'[r] = run[r]
    BY <1>1, <2>1, <2>2
  <2> QED BY <2>3, <2>4 DEF RunShape
<1>5. TypeTable'
  BY <1>2, <1>3 DEF TypeTable
<1>6. \A u \in Urls : Owned(u)' <=> Owned(u) /\ u \notin us
  BY <1>1 DEF Owned
<1>7. LiveInv'
  <2> SUFFICES ASSUME NEW u \in Urls, ~Owned(u)'
               PROVE  /\ value'[u] = NoValue
                      /\ \A r \in Runs : run'[r].url = u => ~run'[r].live
                      /\ \A c \in Clients : refresh'[c].url = u => ~refresh'[c].live
    BY DEF LiveInv
  <2>1. CASE u \in us
    BY <1>1, <1>3, <1>4, <2>1
  <2>2. CASE ~Owned(u)
    BY <1>1, <1>3, <1>4, <2>2 DEF IInv, LiveInv
  <2> QED BY <1>6, <2>1, <2>2
<1>8. GoneInv'
  BY <1>6 DEF IInv, GoneInv, OwnedUrls
<1>9. \A u \in Urls \ us : /\ value'[u] = value[u]
                           /\ \A r \in Runs : Writes(r, u)' <=> Writes(r, u)
                           /\ \A c \in Clients : Refreshes(c, u)' <=> Refreshes(c, u)
  <2>1. ASSUME NEW u \in Urls \ us, NEW r \in Runs PROVE Writes(r, u)' <=> Writes(r, u)
    BY <1>4 DEF Writes
  <2>2. ASSUME NEW u \in Urls \ us, NEW c \in Clients PROVE Refreshes(c, u)' <=> Refreshes(c, u)
    BY <1>3 DEF Refreshes
  <2> QED BY <1>1, <2>1, <2>2
<1>10. MissingInv'
  BY <1>6, <1>9 DEF IInv, MissingInv, Written
<1>11. WriterInv'
  BY <1>6, <1>9 DEF IInv, WriterInv, Written
<1> QED BY <1>4, <1>5, <1>7, <1>8, <1>10, <1>11 DEF IInv

\* An article deleted by hand is forgotten.
LEMMA KeepDeleteArticle ==
  ASSUME IInv, NEW u \in Urls, DeleteArticle(u)
  PROVE  IInv'
<1>1. Forget({u}) /\ UNCHANGED <<task, cut, crossed>> /\ task' \in {"live", "gone"}
  BY DEF DeleteArticle, IInv, TypeTable
<1> QED BY <1>1, ForgetFact

\* The statements of delete_task: with the row nothing of the task is left.
LEMMA KeepDeleteTask ==
  ASSUME IInv, DeleteTask \/ DeleteTaskRow \/ DeleteTaskFails
  PROVE  IInv'
<1>1. CASE DeleteTask \/ DeleteTaskRow
  <2>1. /\ Forget(OwnedUrls) /\ UNCHANGED <<cut, crossed>>
        /\ task' = task \/ task' = "gone"
    BY <1>1 DEF DeleteTask, DeleteTaskRow
  <2>2. OwnedUrls \in SUBSET Urls /\ task' \in {"live", "gone"}
    BY <2>1 DEF OwnedUrls, IInv, TypeTable
  <2> QED BY <2>1, <2>2, ForgetFact
<1>2. CASE DeleteTaskFails
  <2>1. UNCHANGED <<task, article, value, run, refresh, cut, crossed>>
    BY <1>2 DEF DeleteTaskFails, ghosts
  <2> QED BY <2>1, UnchangedStep
<1> QED BY <1>1, <1>2

\* Who was about to write is gone, and noted.
LEMMA KeepRestart ==
  ASSUME IInv, Restart
  PROVE  IInv'
<1>1. /\ run' = [r \in Runs |-> IF Running(r) \/ run[r].at = "asked" THEN NewRun("over")
                                ELSE run[r]]
      /\ refresh' = [c \in Clients |-> NoRefresh]
      /\ UNCHANGED <<task, article, value, crossed>>
  BY DEF Restart
<1>2. cut \subseteq cut' /\ \A u \in Urls : Written(u) => u \in cut'
  BY DEF Restart, Written, Writes, Refreshes
<1>3. \A r \in Runs : run'[r] = NewRun("over") \/ (run'[r] = run[r] /\ run[r].at # "values")
  BY <1>1 DEF Running
<1>4. RunShape'
  <2>1. \A r \in Runs : Shaped(run'[r])
    BY <1>3, NewRunFact DEF IInv, RunShape
  <2> QED BY <1>1, <2>1 DEF RunShape
<1>5. \A c \in Clients : refresh'[c].url = NoUrl /\ refresh'[c].live = FALSE
  BY <1>1, NoFacts
<1>6. \A u \in Urls : (Owned(u)' <=> Owned(u)) /\ ~Written(u)'
  <2>1. \A r \in Runs, u \in Urls : ~Writes(r, u)'
    BY <1>3, NewRunFact DEF Writes
  <2>2. \A c \in Clients, u \in Urls : ~Refreshes(c, u)'
    BY <1>5 DEF Refreshes
  <2> QED BY <1>1, <2>1, <2>2 DEF Owned, Written
<1>7. TypeTable'
  BY <1>1 DEF IInv, TypeTable, NoRefresh
<1>8. LiveInv' /\ GoneInv'
  BY <1>1, <1>3, <1>5, <1>6, NoFacts, NewRunFact DEF IInv, LiveInv, GoneInv
<1>9. MissingInv'
  BY <1>1, <1>2, <1>6 DEF IInv, MissingInv
<1>10. WriterInv'
  BY <1>1, <1>6 DEF IInv, WriterInv, Written
<1> QED BY <1>4, <1>7, <1>8, <1>9, <1>10 DEF IInv

-----------------------------------------------------------------------------
(* The theorems *)

\* The articles of an earlier run have their values.
LEMMA InitIInv == Init => IInv
<1> SUFFICES ASSUME Init PROVE IInv
  OBVIOUS
<1> DEFINE found == [NoArticle EXCEPT !.by = EarlierRun]
           hit == [NoValue EXCEPT !.hits = 1]
<1>0. /\ found \in [by : Runs \cup {NoRun, EarlierRun}, edited : BOOLEAN]
      /\ found.by = EarlierRun
      /\ hit \in [hits : Nat, miss : BOOLEAN] /\ hit.hits = 1
  BY DEF NoArticle, NoValue
<1>10. /\ NoArticle \in [by : Runs \cup {NoRun, EarlierRun}, edited : BOOLEAN]
       /\ NoValue \in [hits : Nat, miss : BOOLEAN]
  BY DEF NoArticle, NoValue
<1>11. PICK known \in SUBSET Urls :
         /\ article = [u \in Urls |-> IF u \in known THEN found ELSE NoArticle]
         /\ value = [u \in Urls |-> IF u \in known THEN hit ELSE NoValue]
  BY DEF Init
<1> HIDE DEF found, hit
<1>1. \A u \in Urls : /\ Owned(u) => value[u].hits = 1
                      /\ ~Owned(u) => value[u] = NoValue
  BY <1>0, <1>11, NoFacts DEF Owned
<1>2. TypeTable
  <2>2. /\ article \in [Urls -> [by : Runs \cup {NoRun, EarlierRun}, edited : BOOLEAN]]
        /\ value \in [Urls -> [hits : Nat, miss : BOOLEAN]]
    BY <1>0, <1>10, <1>11
  <2> QED BY <2>2 DEF Init, TypeTable, NoRefresh
<1>3. RunShape /\ \A r \in Runs : run[r] = NewRun("idle")
  BY NewRunFact DEF Init, RunShape
<1>4. \A c \in Clients : refresh[c] = NoRefresh
  BY DEF Init
<1>5. \A u \in Urls : ~Written(u)
  BY <1>3, <1>4, NewRunFact, NoFacts DEF Written, Writes, Refreshes
<1>6. LiveInv
  BY <1>1, <1>3, <1>4, NewRunFact, NoFacts DEF LiveInv
<1>7. \A u \in Urls : Owned(u) => value[u].hits = 1 /\ value[u] # NoValue
  BY <1>1, NoFacts
<1>8. GoneInv /\ MissingInv /\ WriterInv
  BY <1>5, <1>7 DEF Init, GoneInv, MissingInv, WriterInv, Written
<1> QED BY <1>2, <1>3, <1>6, <1>8 DEF IInv

\* Every step keeps the inductive invariant.
LEMMA NextIInv == IInv /\ [Next]_vars => IInv'
<1> SUFFICES ASSUME IInv, [Next]_vars PROVE IInv'
  OBVIOUS
<1>1. CASE UNCHANGED vars
  BY <1>1, UnchangedStep DEF vars, store, ghosts
<1>2. ASSUME NEW r \in Runs, Ask(r) \/ RunStep(r) PROVE IInv'
  BY <1>2, KeepWalk, KeepDetail, KeepUpdate, KeepInsert, KeepWriteValue DEF RunStep
<1>3. ASSUME NEW u \in Urls, UpdateArticle(u) \/ DeleteArticle(u) PROVE IInv'
  BY <1>3, KeepUpdateArticle, KeepDeleteArticle
<1>4. ASSUME NEW c \in Clients, RefreshInsert(c) \/ \E u \in Urls : RefreshDelete(c, u)
      PROVE  IInv'
  BY <1>4, KeepRefreshInsert, KeepRefreshDelete
<1>5. CASE DeleteTask \/ DeleteTaskRow \/ DeleteTaskFails
  BY <1>5, KeepDeleteTask
<1>6. CASE Restart
  BY <1>6, KeepRestart
<1> QED BY <1>1, <1>2, <1>3, <1>4, <1>5, <1>6 DEF Next

\* The inductive invariant holds in every reachable state of a task's articles
\* (crawler/engine.rs, crawler/refresh.rs, handlers/crawler.rs).
THEOREM ArticlesInvariance == Spec => []IInv
<1> QED BY InitIInv, NextIInv, PTL DEF Spec

\* No article lacks its value but where the writing of it failed, was cut off or
\* is on its way, and none has it twice but where two writers met: whatever is
\* crawled, refreshed, edited and deleted meanwhile (write_field_values,
\* refresh.rs).
THEOREM ValuesHold == Spec => []ValuesAccounted
<1>1. ASSUME IInv PROVE ValuesAccounted
  <2> SUFFICES ASSUME NEW u \in Urls, Owned(u)
               PROVE  /\ value[u] = NoValue =>
                           \/ u \in cut
                           \/ \E r \in Runs : run[r].at = "values" /\ run[r].url = u /\ run[r].live
                           \/ \E c \in Clients : refresh[c] = [url |-> u, live |-> TRUE]
                      /\ value[u].hits > 1 => u \in crossed
    BY DEF ValuesAccounted, OwnedUrls
  <2>1. \A c \in Clients : Refreshes(c, u) => refresh[c] = [url |-> u, live |-> TRUE]
    BY <1>1 DEF IInv, TypeTable, Refreshes
  <2>2. value[u] = NoValue => u \in cut \/ Written(u)
    BY <1>1 DEF IInv, MissingInv
  <2>3. u \notin crossed => value[u].hits <= 1
    BY <1>1 DEF IInv, WriterInv
  <2>4. value[u].hits \in Nat
    BY <1>1 DEF IInv, TypeTable
  <2>5. Written(u) => \/ \E r \in Runs : run[r].at = "values" /\ run[r].url = u /\ run[r].live
                      \/ \E c \in Clients : refresh[c] = [url |-> u, live |-> TRUE]
    BY <2>1 DEF Written, Writes
  <2>6. value[u].hits > 1 => u \in crossed
    BY <2>3, <2>4
  <2> QED BY <2>2, <2>5, <2>6
<1> QED BY <1>1, ArticlesInvariance, PTL

\* No step of a run, a refresh or a request writes over what a user edited and
\* leaves it edited (UPDATE ... WHERE is_edited = 0 in crawler/engine.rs).
THEOREM EditedHolds == Spec => EditedKept
<1>1. ASSUME IInv, [Next]_vars, NEW u \in Urls, article[u].edited, article'[u].edited
      PROVE  article'[u] = article[u]
  <2>0. TypeTable
    BY <1>1 DEF IInv
  <2>1. \/ UNCHANGED article
        \/ \E r \in Runs : Update(r) \/ Insert(r)
        \/ \E v \in Urls : UpdateArticle(v) \/ DeleteArticle(v)
        \/ DeleteTask \/ DeleteTaskRow
    BY <1>1
       DEF Next, RunStep, Ask, Begin, Open, OpenAgain, OpenTooDeep, Detail, WriteValue, Finish,
           RefreshInsert, RefreshDelete, DeleteTaskFails, Restart, vars, store
  <2>2. ASSUME NEW r \in Runs, Update(r) PROVE article'[u] = article[u]
    BY <1>1, <2>0, <2>2 DEF Update, TypeTable
  <2>3. ASSUME NEW r \in Runs, Insert(r) PROVE article'[u] = article[u]
    BY <1>1, <2>0, <2>3, NoFacts DEF Insert, TypeTable, Owned
  <2>4. ASSUME NEW v \in Urls, UpdateArticle(v) PROVE article'[u] = article[u]
    BY <1>1, <2>0, <2>4 DEF UpdateArticle, TypeTable
  <2>5. ASSUME NEW us, Forget(us) PROVE article'[u] = article[u]
    BY <1>1, <2>5, NoFacts DEF Forget
  <2> QED BY <2>1, <2>2, <2>3, <2>4, <2>5 DEF DeleteArticle, DeleteTask, DeleteTaskRow
<1>2. IInv /\ [Next]_vars =>
        [\A u \in Urls : article[u].edited /\ article'[u].edited => article'[u] = article[u]]_vars
  BY <1>1
<1> QED BY <1>2, ArticlesInvariance, PTL DEF Spec, EditedKept

-----------------------------------------------------------------------------
(* What a run has walked and stored *)

\* Between two pages a run is to open one, or done; on a page it has details left.
OnPage == {"detail", "update", "insert", "values"}
Resting == {"idle", "asked", "over"}

Records ==
  [at : {"open", "done"} \cup OnPage, seeds : Seq(Pages), page : Pages, next : 1..(PageEnd + 1),
   depth : Nat, trail : Seq([page : Pages, news : BOOLEAN]), seen : SUBSET Urls,
   left : Seq(Urls), url : Urls \cup {NoUrl}, live : BOOLEAN, empties : 0..EmptyLimit,
   failed : BOOLEAN]

\* EmptyLimit of the first n pages in a row had nothing new, or there is a depth limit.
GaveUpBy(trail, n) ==
  \E i \in 0..(n - EmptyLimit) : \A j \in 1..EmptyLimit : ~trail[i + j].news
Excused(c, trail, n) == c.depth > 0 \/ (~c.force /\ GaveUpBy(trail, n))

\* The last of the first n pages that the count of empty pages stands for.
Counted(c, rec, n) ==
  /\ rec.empties <= n
  /\ \A j \in 1..n : j > n - rec.empties => ~rec.trail[j].news
  /\ c.force => rec.empties = 0

\* Every seed has been met or is to come, every page of the template before the
\* cursor, and every page a link led to, but for the pages of front.
Met(c, rec, front) ==
  /\ c.mode # "pure" => Range(Seeds) \subseteq Range(rec.seeds) \cup Visited(rec) \cup front
  /\ c.mode # "dom" => 1..(rec.next - 1) \subseteq Visited(rec) \cup front
  /\ c.mode = "dom" => \A p \in Visited(rec) : NextPage[p] \in Visited(rec) \cup front \cup {0}

\* The articles of the pages there were, in the set K, or among the details left.
Stored(K, rec) ==
  /\ \A p \in Visited(rec) : Range(Links[p]) \subseteq rec.seen
  /\ rec.seen \subseteq K \cup Range(rec.left)

\* A run walks in the set R of pages, and the first seed of pure is the page 1.
Sited(c, R, rec) ==
  /\ rec \in Records
  /\ Visited(rec) \cup Range(rec.seeds) \cup {rec.page} \subseteq R
  /\ c.mode = "pure" => Range(rec.seeds) \subseteq {1}

\* The page a link of this one leads to.
Ahead(c, rec) == IF c.mode = "dom" THEN {NextPage[rec.page]} ELSE {}

\* On a page: it is the last of the trail, and not counted yet.
Staged(c, R, K, rec) ==
  LET n == Len(rec.trail)
  IN  /\ Sited(c, R, rec)
      /\ n > 0 /\ rec.page = rec.trail[n].page
      /\ rec.empties < EmptyLimit /\ Counted(c, rec, n - 1)
      /\ ~rec.failed => Stored(K, rec)
      /\ ~rec.failed => Excused(c, rec.trail, n - 1) \/ Met(c, rec, Ahead(c, rec))

\* Before a page.
Facing(c, R, K, rec, front) ==
  LET n == Len(rec.trail)
  IN  /\ Sited(c, R, rec)
      /\ rec.left = <<>>
      /\ rec.empties < EmptyLimit /\ Counted(c, rec, n)
      /\ ~rec.failed => Stored(K, rec)
      /\ ~rec.failed => Excused(c, rec.trail, n) \/ Met(c, rec, front)

\* After the last page.
Ended(c, R, K, rec) ==
  /\ Sited(c, R, rec)
  /\ rec.left = <<>>
  /\ ~rec.failed => Stored(K, rec)
  /\ ~rec.failed =>
       \/ Excused(c, rec.trail, Len(rec.trail))
       \/ rec.seeds = <<>> /\ Met(c, rec, {}) /\ (c.mode # "dom" => rec.next > PageEnd)

\* A run in a task with the settings c, whose pages are R, and whose articles are,
\* or have been, K.
Walking(c, R, K, rec) ==
  \/ rec.at = "open" /\ Facing(c, R, K, rec, {rec.page})
  \/ /\ rec.at \in OnPage /\ Staged(c, R, K, rec)
     /\ rec.left # <<>>
     /\ rec.at # "detail" => rec.url = Head(rec.left)
     /\ rec.at \in {"update", "values"} => rec.url \in K
  \/ rec.at = "done" /\ Ended(c, R, K, rec)

Kept == OwnedUrls \cup removed

WalkInv ==
  \A r \in Runs : \/ run[r].at \in Resting /\ run[r] = NewRun(run[r].at)
                  \/ Walking(config, Reachable, Kept, run[r])

\* The counts and sets of the task.
CountInv ==
  /\ config \in Configs
  /\ deleting \in {"no", "unlink", "empty"}
  /\ orphans \subseteq Urls /\ removed \subseteq Urls
  /\ cut \subseteq Urls /\ crossed \subseteq Urls
  /\ requests \in 0..MaxRequests /\ events \in 0..MaxEvents

\* Only an article can be edited, and only one that is there is refreshed.
RowInv ==
  /\ \A u \in Urls : article[u].by = NoRun => ~article[u].edited
  /\ \A c \in Clients : refresh[c].live => refresh[c].url \in Urls

\* Each hit of a value has a writer of its own: those of the refreshes, but one.
Refreshing(u) == {c \in Clients : Refreshes(c, u)}
HitInv ==
  \A u \in Urls :
    /\ \A q, r \in Runs : Writes(q, u) /\ Writes(r, u) => q = r
    /\ value[u].hits + Cardinality(Refreshing(u))
         + (IF \E r \in Runs : Writes(r, u) THEN 1 ELSE 0) <= 1 + Cardinality(Clients)

-----------------------------------------------------------------------------
(* Sequences, and the links of a page *)

\* A nonempty set of numbers has a least one.
LEMMA LeastNumber ==
  ASSUME NEW T \in SUBSET Nat, T # {}
  PROVE  \E n \in T : \A m \in T : n <= m
<1>1. IsWellFoundedOn(OpToRel(<, Nat), Nat)
  BY NatLessThanWellFounded
<1>2. PICK n \in T : \A m \in T : ~ (<<m, n>> \in OpToRel(<, Nat))
  BY <1>1, WFMin
<1>3. \A m \in T : ~ (m < n)
  BY <1>2 DEF OpToRel
<1> QED BY <1>3

\* The first of a list, and the others.
LEMMA HeadAndTail ==
  ASSUME NEW S, NEW s \in Seq(S), s # <<>>
  PROVE  /\ Head(s) \in S /\ Tail(s) \in Seq(S)
         /\ Range(s) = {Head(s)} \cup Range(Tail(s))
<1>1. /\ Head(s) = s[1] /\ 1 \in DOMAIN s
      /\ Tail(s) \in Seq(S) /\ Len(Tail(s)) = Len(s) - 1
      /\ \A i \in 1..(Len(s) - 1) : Tail(s)[i] = s[i + 1]
  OBVIOUS
<1>2. Range(Tail(s)) \subseteq Range(s)
  BY <1>1 DEF Range
<1>3. ASSUME NEW i \in DOMAIN s PROVE s[i] \in {Head(s)} \cup Range(Tail(s))
  <2>1. CASE i = 1
    BY <1>1, <2>1
  <2>2. CASE i # 1
    <3>1. i - 1 \in DOMAIN Tail(s) /\ Tail(s)[i - 1] = s[i]
      BY <1>1, <1>3, <2>2
    <3> QED BY <3>1 DEF Range
  <2> QED BY <2>1, <2>2
<1>4. Head(s) \in Range(s)
  BY <1>1 DEF Range
<1> QED BY <1>1, <1>2, <1>3, <1>4 DEF Range

\* An empty list has no element.
LEMMA RangeOfEmpty == Range(<<>>) = {}
BY DEF Range

\* The new links of a page are its links that have not been seen
\* (collect_detail_links).
LEMMA NewLinksFact ==
  ASSUME NEW rec, rec.page \in Pages
  PROVE  /\ NewLinks(rec) \in Seq(Urls)
         /\ Range(NewLinks(rec)) = Range(Links[rec.page]) \ rec.seen
<1> DEFINE links == Links[rec.page]
           first == {i \in DOMAIN links : links[i] \notin rec.seen
                                          /\ \A j \in 1..(i - 1) : links[j] # links[i]}
           upto(i) == {j \in first : j <= i}
           rank(i) == Cardinality(upto(i))
           total == Cardinality(first)
           chosen(k) == CHOOSE i \in first : rank(i) = k
<1>1. /\ links \in Seq(Urls) /\ DOMAIN links = 1..Len(links) /\ Len(links) \in Nat
      /\ \A i \in 1..Len(links) : links[i] \in Urls
  <2>1. links \in Seq(Urls)
    BY CrawlerArticlesAssumption
  <2> HIDE DEF links
  <2> QED BY <2>1
<1>2. first \subseteq 1..Len(links) /\ IsFiniteSet(first)
  <2>1. first \subseteq 1..Len(links)
    BY <1>1
  <2>2. IsFiniteSet(1..Len(links))
    BY <1>1, FS_Interval
  <2> QED BY <2>1, <2>2, FS_Subset
<1>3. NewLinks(rec) = [k \in 1..total |-> links[chosen(k)]]
  BY DEF NewLinks
<1>4. \A i : IsFiniteSet(upto(i)) /\ rank(i) \in Nat /\ rank(i) <= total
  <2>1. ASSUME NEW i PROVE IsFiniteSet(upto(i)) /\ rank(i) \in Nat /\ rank(i) <= total
    <3>1. upto(i) \subseteq first
      OBVIOUS
    <3> HIDE DEF first, upto
    <3> QED BY <1>2, <3>1, FS_Subset, FS_CardinalityType
  <2> QED BY <2>1
<1>5. rank(0) = 0 /\ rank(Len(links)) = total /\ total \in Nat
  <2>1. upto(0) = {}
    BY <1>2
  <2>2. upto(Len(links)) = first
    BY <1>1, <1>2
  <2> QED BY <1>2, <2>1, <2>2, FS_EmptySet, FS_CardinalityType
<1>6. \A i \in first : rank(i) = rank(i - 1) + 1
  <2>1. ASSUME NEW i \in first PROVE rank(i) = rank(i - 1) + 1
    <3>1. upto(i) = upto(i - 1) \cup {i} /\ i \notin upto(i - 1)
      BY <1>1, <1>2
    <3> HIDE DEF first, upto
    <3> QED BY <1>4, <3>1, FS_AddElement
  <2> QED BY <2>1
<1>7. \A i \in 1..Len(links) : i \notin first => rank(i) = rank(i - 1)
  <2>1. ASSUME NEW i \in 1..Len(links), i \notin first PROVE upto(i) = upto(i - 1)
    BY <1>2, <2>1
  <2> QED BY <2>1
<1> HIDE DEF first, rank, upto, total, chosen
<1>8. \A i, j \in first : i < j => rank(i) < rank(j)
  <2>1. ASSUME NEW i \in first, NEW j \in first, i < j PROVE rank(i) < rank(j)
    <3>0. i \in Nat /\ j \in Nat /\ i <= j - 1
      BY <1>1, <1>2, <2>1
    <3>1. upto(i) \subseteq upto(j - 1)
      <4>1. ASSUME NEW k \in first, k <= i PROVE k <= j - 1
        BY <1>1, <1>2, <3>0, <4>1
      <4> QED BY <4>1 DEF upto
    <3>2. rank(i) <= rank(j - 1)
      BY <1>4, <3>1, FS_Subset DEF rank
    <3> QED BY <1>4, <1>6, <2>1, <3>2
  <2> QED BY <2>1
<1>9. ASSUME NEW k \in 1..total PROVE chosen(k) \in first /\ rank(chosen(k)) = k
  <2> DEFINE T == {i \in 0..Len(links) : rank(i) >= k}
  <2>1. T \subseteq Nat /\ Len(links) \in T
    BY <1>1, <1>5, <1>9
  <2>2. PICK m \in T : \A i \in T : m <= i
    <3> HIDE DEF T
    <3> QED BY <2>1, LeastNumber
  <2>3. m # 0 /\ m - 1 \in 0..Len(links) /\ m - 1 \notin T
    BY <1>1, <1>5, <1>9, <2>2
  <2>4. rank(m - 1) < k /\ rank(m) >= k
    BY <1>4, <1>9, <2>2, <2>3
  <2>5. m \in first /\ rank(m) = k
    BY <1>1, <1>4, <1>6, <1>7, <1>9, <2>2, <2>3, <2>4
  <2> QED BY <2>5 DEF chosen
<1>10. \A i \in first : rank(i) \in 1..total /\ chosen(rank(i)) = i
  <2>1. ASSUME NEW i \in first PROVE rank(i) \in 1..total
    BY <1>1, <1>2, <1>4, <1>5, <1>6, <2>1
  <2>2. ASSUME NEW i \in first PROVE chosen(rank(i)) = i
    <3>1. chosen(rank(i)) \in first /\ rank(chosen(rank(i))) = rank(i)
      BY <1>9, <2>1
    <3>2. ~(i < chosen(rank(i))) /\ ~(chosen(rank(i)) < i)
      BY <1>4, <1>8, <3>1
    <3>3. i \in 1..Len(links) /\ chosen(rank(i)) \in 1..Len(links)
      BY <1>2, <2>2, <3>1
    <3> QED BY <1>1, <3>2, <3>3
  <2> QED BY <2>1, <2>2
<1>11. NewLinks(rec) \in Seq(Urls)
  <2>1. \A k \in 1..total : links[chosen(k)] \in Urls
    BY <1>1, <1>2, <1>9
  <2> QED BY <1>3, <1>5, <2>1
<1>12. Range(NewLinks(rec)) = {links[chosen(k)] : k \in 1..total}
  BY <1>3 DEF Range
<1>13. {links[chosen(k)] : k \in 1..total} = {links[i] : i \in first}
  BY <1>9, <1>10
<1>14. {links[i] : i \in first} \subseteq Range(links) \ rec.seen
  BY <1>2 DEF first, Range
<1>15. ASSUME NEW u \in Range(links) \ rec.seen PROVE u \in {links[i] : i \in first}
  <2> DEFINE T == {i \in DOMAIN links : links[i] = u}
  <2>1. T \subseteq Nat /\ T # {}
    BY <1>1, <1>15 DEF Range
  <2>2. PICK m \in T : \A i \in T : m <= i
    <3> HIDE DEF T
    <3> QED BY <2>1, LeastNumber
  <2>3. m \in first
    BY <1>1, <1>15, <2>2 DEF first
  <2> QED BY <2>2, <2>3
<1> QED BY <1>11, <1>12, <1>13, <1>14, <1>15

-----------------------------------------------------------------------------
(* The pages of a task *)

\* The chain of a page has it, and goes on with the page its link leads to.
LEMMA ChainGoesOn ==
  ASSUME NEW s \in Pages
  PROVE  /\ s \in Chain(s) /\ Chain(s) \subseteq Pages
         /\ \A p \in Chain(s) : NextPage[p] \in Chain(s) \cup {0}
<1>1. s \in Chain(s) /\ Chain(s) \subseteq Pages
  BY DEF Chain
<1>2. ASSUME NEW p \in Chain(s), NextPage[p] # 0, NEW S \in SUBSET Pages, s \in S, Closed(S)
      PROVE  NextPage[p] \in S
  BY <1>2 DEF Chain, Closed
<1>3. \A p \in Pages : NextPage[p] \in Pages \cup {0}
  BY CrawlerArticlesAssumption
<1> QED BY <1>1, <1>2, <1>3 DEF Chain

\* Pages that have the seed and all their links lead to have its chain.
LEMMA ChainIsLeast ==
  ASSUME NEW s \in Pages, NEW S \in SUBSET Pages, s \in S, Closed(S)
  PROVE  Chain(s) \subseteq S
BY DEF Chain

\* What a run may come to, from the seeds on, is Reachable.
LEMMA ReachableFact ==
  ASSUME config \in Configs
  PROVE  /\ Reachable \subseteq Pages
         /\ config.mode = "pure" => 1 \in Reachable
         /\ config.mode # "pure" => Range(Seeds) \subseteq Reachable
         /\ config.mode # "dom" => 1..PageEnd \subseteq Reachable
         /\ config.mode = "dom" => \A p \in Reachable : NextPage[p] \in Reachable \cup {0}
<1>1. Range(Seeds) \subseteq Pages /\ 1..PageEnd \subseteq Pages /\ 1 \in 1..PageEnd
  <2>1. Seeds \in Seq(Pages) /\ 1..PageEnd \subseteq Pages
    BY CrawlerArticlesAssumption
  <2>2. PageEnd \in Nat /\ PageEnd > 0
    BY CrawlerArticlesAssumption
  <2> QED BY <2>1, <2>2, RangeOfSeq
<1>2. config.mode \in {"dom", "pure", "mixed"}
  BY CrawlerArticlesAssumption
<1>3. CASE config.mode = "dom"
  <2>1. Reachable = UNION {Chain(s) : s \in Range(Seeds)}
    BY <1>3 DEF Reachable
  <2>2. \A s \in Range(Seeds) : /\ s \in Chain(s) /\ Chain(s) \subseteq Pages
                                /\ \A p \in Chain(s) : NextPage[p] \in Chain(s) \cup {0}
    BY <1>1, ChainGoesOn
  <2> QED BY <1>3, <2>1, <2>2
<1>4. CASE config.mode # "dom"
  BY <1>1, <1>2, <1>4 DEF Reachable
<1> QED BY <1>3, <1>4

-----------------------------------------------------------------------------
(* From page to page *)

\* The pages of a longer trail.
LEMMA VisitedMore ==
  ASSUME NEW rec, NEW S, rec.trail \in Seq(S), NEW new, NEW e \in S,
         new.trail = Append(rec.trail, e)
  PROVE  Visited(new) = Visited(rec) \cup {e.page}
<1>1. /\ DOMAIN new.trail = (1..Len(rec.trail)) \cup {Len(rec.trail) + 1}
      /\ DOMAIN rec.trail = 1..Len(rec.trail)
      /\ \A i \in DOMAIN rec.trail : new.trail[i] = rec.trail[i]
      /\ new.trail[Len(rec.trail) + 1] = e
  OBVIOUS
<1> QED BY <1>1 DEF Visited

\* The next seed, when the one before is done with: nothing is ahead of the run.
LEMMA NextSeedFaces ==
  ASSUME config \in Configs, NEW R \in SUBSET Pages, NEW K, NEW rec,
         Sited(config, R, rec), rec.left = <<>>,
         config.force => rec.empties = 0,
         ~rec.failed => Stored(K, rec),
         ~rec.failed => \/ Excused(config, rec.trail, Len(rec.trail))
                        \/ Met(config, rec, {}) /\ (config.mode # "dom" => rec.next > PageEnd)
  PROVE  Walking(config, R, K, NextSeed(rec))
<1>0. PageEnd \in Nat /\ PageEnd > 0 /\ EmptyLimit \in Nat \ {0}
  BY CrawlerArticlesAssumption
<1>1. CASE rec.seeds = <<>>
  <2> DEFINE new == [rec EXCEPT !.at = "done"]
  <2>1. /\ NextSeed(rec) = new
        /\ new.at = "done" /\ new.trail = rec.trail /\ new.left = rec.left
        /\ new.seeds = rec.seeds /\ new.next = rec.next /\ new.failed = rec.failed
        /\ new.seen = rec.seen /\ new.page = rec.page /\ new \in Records
    BY <1>1 DEF NextSeed, Sited, Records
  <2> HIDE DEF new
  <2>2. Visited(new) = Visited(rec)
    BY <2>1 DEF Visited
  <2>3. Sited(config, R, new)
    BY <2>1, <2>2 DEF Sited
  <2>4. Stored(K, rec) => Stored(K, new)
    BY <2>1, <2>2 DEF Stored
  <2>5. Met(config, rec, {}) => Met(config, new, {})
    BY <2>1, <2>2 DEF Met
  <2> QED BY <1>1, <2>1, <2>3, <2>4, <2>5 DEF Walking, Ended
<1>2. CASE rec.seeds # <<>>
  <2> DEFINE new == [rec EXCEPT !.at = "open", !.seeds = Tail(@), !.page = Head(rec.seeds),
                       !.next = IF config.mode = "pure" THEN 2 ELSE 1, !.depth = 0, !.empties = 0]
  <2>1. rec.seeds \in Seq(Pages)
    BY DEF Sited, Records
  <2>2. /\ Head(rec.seeds) \in Pages /\ Tail(rec.seeds) \in Seq(Pages)
        /\ Range(rec.seeds) = {Head(rec.seeds)} \cup Range(Tail(rec.seeds))
    BY <1>2, <2>1, HeadAndTail
  <2>3. /\ NextSeed(rec) = new
        /\ new.at = "open" /\ new.trail = rec.trail /\ new.left = rec.left
        /\ new.seeds = Tail(rec.seeds) /\ new.failed = rec.failed
        /\ new.next = IF config.mode = "pure" THEN 2 ELSE 1
        /\ new.seen = rec.seen /\ new.page = Head(rec.seeds) /\ new.empties = 0
    BY <1>2 DEF NextSeed, Sited, Records
  <2>9. new \in Records
    <3>1. (IF config.mode = "pure" THEN 2 ELSE 1) \in 1..(PageEnd + 1)
      BY <1>0
    <3>2. 0 \in 0..EmptyLimit
      BY <1>0
    <3> QED BY <2>2, <3>1, <3>2 DEF Sited, Records
  <2> HIDE DEF new
  <2>4. Visited(new) = Visited(rec)
    BY <2>3 DEF Visited
  <2>5. Sited(config, R, new)
    BY <2>2, <2>3, <2>4, <2>9 DEF Sited
  <2>6. Stored(K, rec) => Stored(K, new)
    BY <2>3, <2>4 DEF Stored
  <2>7. Met(config, rec, {}) => Met(config, new, {new.page})
    <3>1. config.mode = "pure" => new.page = 1
      BY <2>2, <2>3 DEF Sited
    <3>2. 1..(new.next - 1) \subseteq IF config.mode = "pure" THEN {new.page} ELSE {}
      BY <2>3, <3>1
    <3> QED BY <2>2, <2>3, <2>4, <3>2 DEF Met
  <2>8. Counted(config, new, Len(new.trail))
    <3>1. Len(rec.trail) \in Nat
      BY DEF Sited, Records
    <3> QED BY <2>3, <3>1 DEF Counted
  <2> QED BY <1>0, <2>3, <2>5, <2>6, <2>7, <2>8 DEF Walking, Facing
<1> QED BY <1>1, <1>2

\* The next page of the template, or the next seed (next_template_page).
LEMMA TemplateFaces ==
  ASSUME config \in Configs, config.mode # "dom",
         NEW R \in SUBSET Pages, 1..PageEnd \subseteq R, NEW K, NEW rec,
         Facing(config, R, K, rec, {})
  PROVE  Walking(config, R, K, TurnTemplate(rec))
<1>0. PageEnd \in Nat \ {0} /\ rec \in Records
  BY CrawlerArticlesAssumption DEF Facing, Sited
<1>1. CASE rec.next > PageEnd
  <2>1. Walking(config, R, K, NextSeed(rec))
    BY <1>1, NextSeedFaces DEF Facing, Counted
  <2> QED BY <1>1, <2>1 DEF TurnTemplate
<1>2. CASE ~(rec.next > PageEnd)
  <2> DEFINE new == [rec EXCEPT !.at = "open", !.page = rec.next, !.next = @ + 1]
  <2>1. rec.next \in 1..PageEnd /\ rec.next \in Pages /\ rec.next + 1 \in 1..(PageEnd + 1)
    BY <1>0, <1>2 DEF Records
  <2>2. /\ TurnTemplate(rec) = new
        /\ new.at = "open" /\ new.trail = rec.trail /\ new.left = rec.left
        /\ new.seeds = rec.seeds /\ new.failed = rec.failed /\ new.next = rec.next + 1
        /\ new.seen = rec.seen /\ new.page = rec.next /\ new.empties = rec.empties
        /\ new \in Records
    BY <1>0, <1>2, <2>1 DEF TurnTemplate, Records
  <2> HIDE DEF new
  <2>3. Visited(new) = Visited(rec)
    BY <2>2 DEF Visited
  <2>4. Sited(config, R, new)
    BY <2>1, <2>2, <2>3 DEF Facing, Sited
  <2>5. Stored(K, rec) => Stored(K, new)
    BY <2>2, <2>3 DEF Stored
  <2>6. Met(config, rec, {}) => Met(config, new, {new.page})
    <3>1. 1..(new.next - 1) \subseteq 1..(rec.next - 1) \cup {new.page}
      BY <2>1, <2>2
    <3> QED BY <2>2, <2>3, <3>1 DEF Met
  <2>7. Counted(config, new, Len(new.trail))
    BY <2>2 DEF Facing, Counted
  <2> QED BY <2>2, <2>4, <2>5, <2>6, <2>7 DEF Facing, Walking
<1> QED BY <1>1, <1>2

\* The page a link leads to, or the next seed (find_next_page_url).
LEMMA LinkFaces ==
  ASSUME config \in Configs, config.mode = "dom",
         NEW R \in SUBSET Pages, \A p \in R : NextPage[p] \in R \cup {0}, NEW K, NEW rec,
         Facing(config, R, K, rec, {NextPage[rec.page]})
  PROVE  Walking(config, R, K, TurnLink(rec))
<1>0. rec \in Records /\ rec.page \in R /\ 0 \notin Pages /\ Range(Seeds) \subseteq Pages
  <2>1. 0 \notin Pages /\ Seeds \in Seq(Pages)
    BY CrawlerArticlesAssumption
  <2> QED BY <2>1, RangeOfSeq DEF Facing, Sited
<1>1. CASE NextPage[rec.page] = 0
  <2>1. Met(config, rec, {0}) => Met(config, rec, {})
    BY <1>0 DEF Met
  <2>2. Walking(config, R, K, NextSeed(rec))
    BY <1>1, <2>1, NextSeedFaces DEF Facing, Counted
  <2> QED BY <1>1, <2>2 DEF TurnLink
<1>2. CASE NextPage[rec.page] # 0
  <2> DEFINE new == [rec EXCEPT !.at = "open", !.page = NextPage[rec.page]]
  <2>1. NextPage[rec.page] \in R
    BY <1>0, <1>2
  <2>2. /\ TurnLink(rec) = new
        /\ new.at = "open" /\ new.trail = rec.trail /\ new.left = rec.left
        /\ new.seeds = rec.seeds /\ new.failed = rec.failed /\ new.next = rec.next
        /\ new.seen = rec.seen /\ new.page = NextPage[rec.page] /\ new.empties = rec.empties
        /\ new \in Records
    BY <1>0, <1>2, <2>1 DEF TurnLink, Records
  <2> HIDE DEF new
  <2>3. Visited(new) = Visited(rec)
    BY <2>2 DEF Visited
  <2>4. Sited(config, R, new)
    BY <2>1, <2>2, <2>3 DEF Facing, Sited
  <2>5. Stored(K, rec) => Stored(K, new)
    BY <2>2, <2>3 DEF Stored
  <2>6. Met(config, rec, {NextPage[rec.page]}) => Met(config, new, {new.page})
    BY <2>2, <2>3 DEF Met
  <2>7. Counted(config, new, Len(new.trail))
    BY <2>2 DEF Facing, Counted
  <2> QED BY <2>2, <2>4, <2>5, <2>6, <2>7 DEF Facing, Walking
<1> QED BY <1>1, <1>2

\* The page that is skipped: the template goes on, a chain of links ends.
LEMMA SkipFaces ==
  ASSUME config \in Configs,
         NEW R \in SUBSET Pages, config.mode # "dom" => 1..PageEnd \subseteq R, NEW K, NEW rec,
         Facing(config, R, K, rec, {})
  PROVE  Walking(config, R, K, Skip(rec))
<1>1. CASE config.mode = "dom"
  <2>1. Walking(config, R, K, NextSeed(rec))
    BY <1>1, NextSeedFaces DEF Facing, Counted
  <2> QED BY <1>1, <2>1 DEF Skip, Template
<1>2. CASE config.mode # "dom"
  BY <1>2, TemplateFaces DEF Skip, Template
<1> QED BY <1>1, <1>2

\* The end of a page: it is counted, and the run stops early or goes on
\* (should_stop_after_page).
LEMMA TurnFaces ==
  ASSUME config \in Configs,
         NEW R \in SUBSET Pages, config.mode # "dom" => 1..PageEnd \subseteq R,
         config.mode = "dom" => \A p \in R : NextPage[p] \in R \cup {0}, NEW K, NEW rec,
         Staged(config, R, K, rec), rec.left = <<>>
  PROVE  Walking(config, R, K, Turn(rec))
<1>0. EmptyLimit \in Nat \ {0} /\ config.force \in BOOLEAN
  BY CrawlerArticlesAssumption
<1>1. PICK n \in Nat : n = Len(rec.trail)
  BY DEF Staged, Sited, Records
<1>2. PICK e : e = IF config.force THEN rec.empties ELSE Empties(rec)
  OBVIOUS
<1> DEFINE new == [rec EXCEPT !.empties = e]
<1>3. /\ rec.trail \in Seq([page : Pages, news : BOOLEAN]) /\ n > 0
      /\ Last(rec.trail) = rec.trail[n] /\ rec.trail[n].news \in BOOLEAN
  <2>1. rec.trail \in Seq([page : Pages, news : BOOLEAN]) /\ n > 0
    BY <1>1 DEF Staged, Sited, Records
  <2>2. rec.trail[n] \in [page : Pages, news : BOOLEAN]
    <3>1. PICK S : S = [page : Pages, news : BOOLEAN]
      OBVIOUS
    <3>2. rec.trail \in Seq(S) /\ n \in 1..Len(rec.trail)
      BY <1>1, <2>1, <3>1
    <3>3. rec.trail[n] \in S
      BY <3>2, ElementOfSeq
    <3> QED BY <3>1, <3>3
  <2> QED BY <1>1, <2>1, <2>2 DEF Last
<1>4. /\ e \in 0..EmptyLimit /\ e <= n
      /\ \A j \in 1..n : j > n - e => ~rec.trail[j].news
      /\ config.force => e = 0
  <2>1. /\ rec.empties \in Nat /\ rec.empties < EmptyLimit /\ rec.empties <= n - 1
        /\ \A j \in 1..(n - 1) : j > n - 1 - rec.empties => ~rec.trail[j].news
        /\ config.force => rec.empties = 0
    BY <1>0, <1>1 DEF Staged, Counted, Sited, Records
  <2>2. CASE config.force
    BY <1>0, <1>2, <1>3, <2>1, <2>2
  <2>3. CASE ~config.force /\ rec.trail[n].news
    BY <1>0, <1>2, <1>3, <2>1, <2>3 DEF Empties
  <2>4. CASE ~config.force /\ ~rec.trail[n].news
    <3>1. e = rec.empties + 1
      BY <1>2, <1>3, <2>4 DEF Empties
    <3>2. ASSUME NEW j \in 1..n, j > n - e PROVE ~rec.trail[j].news
      BY <2>1, <2>4, <3>1, <3>2
    <3> QED BY <1>0, <2>1, <2>4, <3>1, <3>2
  <2> QED BY <2>2, <2>3, <2>4
<1>5. /\ new.trail = rec.trail /\ new.left = <<>> /\ new.seeds = rec.seeds
      /\ new.failed = rec.failed /\ new.next = rec.next /\ new.seen = rec.seen
      /\ new.page = rec.page /\ new.empties = e /\ new \in Records
  BY <1>4 DEF Staged, Sited, Records
<1>6. Turn(rec) = IF ~config.force /\ e >= EmptyLimit THEN NextSeed(new)
                  ELSE IF Template THEN TurnTemplate(new) ELSE TurnLink(new)
  BY <1>2 DEF Turn
<1> HIDE DEF new
<1>7. Visited(new) = Visited(rec)
  BY <1>5 DEF Visited
<1>8. Sited(config, R, new)
  BY <1>5, <1>7 DEF Staged, Sited
<1>9. ~new.failed => Stored(K, new)
  BY <1>5, <1>7 DEF Staged, Stored
<1>10. ~new.failed => Excused(config, new.trail, n) \/ Met(config, new, Ahead(config, rec))
  <2>1. Excused(config, rec.trail, n - 1) => Excused(config, new.trail, n)
    <3>1. 0..(n - 1 - EmptyLimit) \subseteq 0..(n - EmptyLimit)
      BY <1>0
    <3> QED BY <1>5, <3>1 DEF Excused, GaveUpBy
  <2>2. Met(config, rec, Ahead(config, rec)) => Met(config, new, Ahead(config, rec))
    BY <1>5, <1>7 DEF Met
  <2> QED BY <1>1, <1>5, <2>1, <2>2 DEF Staged
<1>11. CASE ~config.force /\ e >= EmptyLimit
  <2>1. GaveUpBy(new.trail, n)
    <3>1. e = EmptyLimit /\ n - EmptyLimit \in 0..(n - EmptyLimit)
      BY <1>0, <1>4, <1>11
    <3>2. \A j \in 1..EmptyLimit : ~new.trail[(n - EmptyLimit) + j].news
      BY <1>0, <1>4, <1>5, <3>1
    <3> QED BY <3>1, <3>2 DEF GaveUpBy
  <2>2. Excused(config, new.trail, Len(new.trail))
    BY <1>1, <1>5, <1>11, <2>1 DEF Excused
  <2> QED BY <1>5, <1>6, <1>8, <1>9, <1>11, <2>2, NextSeedFaces
<1>12. CASE ~(~config.force /\ e >= EmptyLimit)
  <2>1. Facing(config, R, K, new, Ahead(config, rec))
    BY <1>0, <1>1, <1>4, <1>5, <1>8, <1>9, <1>10, <1>12 DEF Facing, Counted
  <2> QED BY <1>5, <1>6, <1>12, <2>1, TemplateFaces, LinkFaces DEF Ahead, Template
<1> QED BY <1>11, <1>12

\* The next detail of the page, or its end.
LEMMA DetailsFace ==
  ASSUME config \in Configs,
         NEW R \in SUBSET Pages, config.mode # "dom" => 1..PageEnd \subseteq R,
         config.mode = "dom" => \A p \in R : NextPage[p] \in R \cup {0}, NEW K, NEW rec,
         Staged(config, R, K, rec)
  PROVE  Walking(config, R, K, Details(rec))
<1>1. CASE rec.left = <<>>
  BY <1>1, TurnFaces DEF Details
<1>2. CASE rec.left # <<>>
  <2> DEFINE new == [rec EXCEPT !.at = "detail"]
  <2>1. /\ Details(rec) = new
        /\ new.at = "detail" /\ new.trail = rec.trail /\ new.left = rec.left
        /\ new.seeds = rec.seeds /\ new.failed = rec.failed /\ new.next = rec.next
        /\ new.seen = rec.seen /\ new.page = rec.page /\ new.empties = rec.empties
        /\ new \in Records
    BY <1>2 DEF Details, Staged, Sited, Records, OnPage
  <2> HIDE DEF new
  <2>2. Staged(config, R, K, new)
    <3>1. Visited(new) = Visited(rec)
      BY <2>1 DEF Visited
    <3> QED BY <2>1, <3>1 DEF Staged, Sited, Counted, Stored, Met, Ahead
  <2> QED BY <1>2, <2>1, <2>2 DEF Walking, OnPage
<1> QED BY <1>1, <1>2

\* A detail that is stored, or failed, leaves the others.
LEMMA DetailDoneFaces ==
  ASSUME config \in Configs,
         NEW R \in SUBSET Pages, config.mode # "dom" => 1..PageEnd \subseteq R,
         config.mode = "dom" => \A p \in R : NextPage[p] \in R \cup {0}, NEW K, NEW rec,
         Staged(config, R, K, rec), rec.left # <<>>, ~rec.failed => Head(rec.left) \in K
  PROVE  Walking(config, R, K, DetailDone(rec))
<1> DEFINE new == [rec EXCEPT !.left = Tail(@), !.url = NoUrl, !.live = FALSE]
<1>1. rec \in Records /\ rec.left \in Seq(Urls)
  BY DEF Staged, Sited, Records
<1>2. Tail(rec.left) \in Seq(Urls) /\ Range(rec.left) = {Head(rec.left)} \cup Range(Tail(rec.left))
  BY <1>1, HeadAndTail
<1>3. /\ DetailDone(rec) = Details(new)
      /\ new.trail = rec.trail /\ new.left = Tail(rec.left)
      /\ new.seeds = rec.seeds /\ new.failed = rec.failed /\ new.next = rec.next
      /\ new.seen = rec.seen /\ new.page = rec.page /\ new.empties = rec.empties
      /\ new \in Records
  BY <1>1, <1>2 DEF DetailDone, Records
<1> HIDE DEF new
<1>4. Staged(config, R, K, new)
  <2>1. Visited(new) = Visited(rec)
    BY <1>3 DEF Visited
  <2>2. ~new.failed => Stored(K, new)
    BY <1>2, <1>3, <2>1 DEF Staged, Stored
  <2> QED BY <1>3, <2>1, <2>2 DEF Staged, Sited, Counted, Met, Ahead
<1> QED BY <1>3, <1>4, DetailsFace

\* A failure asks no more of a run.
LEMMA FailedStaged ==
  ASSUME NEW c, NEW R, NEW K, NEW rec, Staged(c, R, K, rec)
  PROVE  LET new == [rec EXCEPT !.failed = TRUE]
         IN  Staged(c, R, K, new) /\ new.left = rec.left /\ new.failed
<1> DEFINE new == [rec EXCEPT !.failed = TRUE]
<1>1. /\ new.trail = rec.trail /\ new.left = rec.left /\ new.seeds = rec.seeds
      /\ new.failed = TRUE /\ new.page = rec.page /\ new.empties = rec.empties
      /\ new \in Records
  BY DEF Staged, Sited, Records
<1> HIDE DEF new
<1>2. Visited(new) = Visited(rec)
  BY <1>1 DEF Visited
<1>3. Staged(c, R, K, new)
  BY <1>1, <1>2 DEF Staged, Sited, Counted
<1> QED BY <1>1, <1>3 DEF new

\* A detail that cannot be fetched or stored leaves the others.
LEMMA DetailFailsFaces ==
  ASSUME config \in Configs,
         NEW R \in SUBSET Pages, config.mode # "dom" => 1..PageEnd \subseteq R,
         config.mode = "dom" => \A p \in R : NextPage[p] \in R \cup {0}, NEW K, NEW rec,
         Staged(config, R, K, rec), rec.left # <<>>
  PROVE  Walking(config, R, K, DetailFails(rec))
<1> DEFINE new == [rec EXCEPT !.failed = TRUE]
<1>1. Staged(config, R, K, new) /\ new.left = rec.left /\ new.failed
  BY FailedStaged
<1> HIDE DEF new
<1>2. Walking(config, R, K, DetailDone(new))
  BY <1>1, DetailDoneFaces
<1> QED BY <1>2 DEF DetailFails, new

\* More articles there are, or have been, take nothing from a run.
LEMMA MoreKept ==
  ASSUME NEW c, NEW R, NEW K, NEW L, K \subseteq L, NEW rec, Walking(c, R, K, rec)
  PROVE  Walking(c, R, L, rec)
<1>1. Stored(K, rec) => Stored(L, rec)
  BY DEF Stored
<1> QED BY <1>1 DEF Walking, Facing, Staged, Ended

\* Whether the run still finds its article is nothing to its walk.
LEMMA LiveIsNothing ==
  ASSUME NEW c, NEW R, NEW K, NEW rec, Walking(c, R, K, rec), NEW b \in BOOLEAN
  PROVE  Walking(c, R, K, [rec EXCEPT !.live = b])
<1> DEFINE new == [rec EXCEPT !.live = b]
<1>1. rec \in Records
  BY DEF Walking, Facing, Staged, Ended, Sited
<1>2. /\ new.trail = rec.trail /\ new.left = rec.left /\ new.seeds = rec.seeds
      /\ new.failed = rec.failed /\ new.page = rec.page /\ new.empties = rec.empties
      /\ new.seen = rec.seen /\ new.next = rec.next /\ new.url = rec.url /\ new.at = rec.at
      /\ new \in Records
  BY <1>1 DEF Records
<1> HIDE DEF new
<1>3. Visited(new) = Visited(rec)
  BY <1>2 DEF Visited
<1>4. /\ Sited(c, R, rec) => Sited(c, R, new)
      /\ Stored(K, rec) => Stored(K, new)
      /\ \A front : Met(c, rec, front) => Met(c, new, front)
      /\ \A n : Counted(c, rec, n) => Counted(c, new, n)
      /\ Ahead(c, rec) = Ahead(c, new)
  BY <1>2, <1>3 DEF Sited, Stored, Met, Counted, Ahead
<1>5. Walking(c, R, K, new)
  <2>1. CASE rec.at = "open"
    BY <1>2, <1>4, <2>1 DEF Walking, Facing, OnPage
  <2>2. CASE rec.at \in OnPage
    BY <1>2, <1>4, <2>2 DEF Walking, Staged, OnPage
  <2>3. CASE rec.at = "done"
    BY <1>2, <1>4, <2>3 DEF Walking, Ended, OnPage
  <2> QED BY <2>1, <2>2, <2>3 DEF Walking
<1> QED BY <1>5 DEF new

-----------------------------------------------------------------------------
(* The actions of a run, and its walk *)

\* A run before its first page, or one that walks.
Fit(c, R, K, rec) ==
  \/ rec.at \in Resting /\ rec = NewRun(rec.at)
  \/ Walking(c, R, K, rec)

\* One run steps, and no article is lost.
LEMMA OneWalks ==
  ASSUME RunShape, WalkInv, NEW r \in Runs, NEW rec, Step(r, rec), config' = config,
         Kept \subseteq Kept', Fit(config, Reachable, Kept', rec)
  PROVE  WalkInv'
<1>1. Reachable' = Reachable
  BY DEF Reachable
<1>2. run'[r] = rec /\ \A q \in Runs : q # r => run'[q] = run[q]
  BY DEF Step, RunShape
<1>3. PICK c, R, K, L : c = config /\ R = Reachable /\ K = Kept /\ L = Kept'
  OBVIOUS
<1>4. ASSUME NEW q \in Runs PROVE Fit(c, R, L, run'[q])
  <2>1. CASE q = r
    BY <1>2, <1>3, <2>1
  <2>2. CASE q # r
    <3>1. PICK old : old = run[q]
      OBVIOUS
    <3>2. Fit(c, R, K, old)
      BY <1>3, <3>1 DEF WalkInv, Fit
    <3>3. Fit(c, R, L, old)
      BY <1>3, <3>2, MoreKept DEF Fit
    <3> QED BY <1>2, <2>2, <3>1, <3>3
  <2> QED BY <2>1, <2>2
<1> QED BY <1>1, <1>3, <1>4 DEF WalkInv, Fit

\* The facts on Reachable that the walk asks for.
LEMMA ReachableSet ==
  ASSUME config \in Configs
  PROVE  /\ Reachable \in SUBSET Pages
         /\ config.mode # "dom" => 1..PageEnd \subseteq Reachable
         /\ config.mode = "dom" => \A p \in Reachable : NextPage[p] \in Reachable \cup {0}
BY ReachableFact

\* load_task: the first seed.
LEMMA BeginFaces ==
  ASSUME config \in Configs, NEW K,
         NEW seeds, seeds = IF config.mode = "pure" THEN << 1 >> ELSE Seeds
  PROVE  Walking(config, Reachable, K, NextSeed([NewRun("asked") EXCEPT !.seeds = seeds]))
<1> DEFINE old == [NewRun("asked") EXCEPT !.seeds = seeds]
           new == [old EXCEPT !.at = "open", !.seeds = Tail(@), !.page = Head(old.seeds),
                     !.next = IF config.mode = "pure" THEN 2 ELSE 1, !.depth = 0, !.empties = 0]
<1>0. PageEnd \in Nat \ {0} /\ EmptyLimit \in Nat \ {0} /\ 1 \in Pages
      /\ Seeds \in Seq(Pages) /\ Seeds # <<>>
  <2>1. PageEnd \in Nat \ {0} /\ 1..PageEnd \subseteq Pages
    BY CrawlerArticlesAssumption
  <2>2. EmptyLimit \in Nat \ {0} /\ Seeds \in Seq(Pages) /\ Seeds # <<>>
    BY CrawlerArticlesAssumption
  <2> QED BY <2>1, <2>2
<1>1. seeds \in Seq(Pages) /\ seeds # <<>>
  BY <1>0
<1>2. /\ Head(seeds) \in Pages /\ Tail(seeds) \in Seq(Pages)
      /\ Range(seeds) = {Head(seeds)} \cup Range(Tail(seeds))
  BY <1>1, HeadAndTail
<1>3. Range(seeds) \subseteq Reachable /\ (config.mode = "pure" => Range(seeds) \subseteq {1})
  <2>1. CASE config.mode = "pure"
    <3>1. seeds = << 1 >>
      BY <2>1
    <3>2. Head(seeds) = 1 /\ Range(Tail(seeds)) = {}
      BY <3>1 DEF Range
    <3> QED BY <1>2, <2>1, <3>2, ReachableFact
  <2>2. CASE config.mode # "pure"
    BY <2>2, ReachableFact
  <2> QED BY <2>1, <2>2
<1>4. NextSeed(old) = new
  BY <1>1 DEF NextSeed, NewRun
<1>5. /\ new.at = "open" /\ new.seeds = Tail(seeds) /\ new.page = Head(seeds)
      /\ new.next = (IF config.mode = "pure" THEN 2 ELSE 1) /\ new.trail = <<>>
      /\ new.seen = {} /\ new.left = <<>> /\ new.empties = 0 /\ new.failed = FALSE
  BY DEF NewRun
<1>6. new \in Records
  <2>1. (IF config.mode = "pure" THEN 2 ELSE 1) \in 1..(PageEnd + 1)
    BY <1>0
  <2>2. 0 \in 0..EmptyLimit /\ <<>> \in Seq(Urls)
        /\ <<>> \in Seq([page : Pages, news : BOOLEAN])
    BY <1>0
  <2> QED BY <1>2, <2>1, <2>2 DEF NewRun, Records
<1> HIDE DEF old, new
<1>7. Visited(new) = {} /\ Len(new.trail) = 0
  BY <1>5 DEF Visited
<1>8. Sited(config, Reachable, new)
  BY <1>2, <1>3, <1>5, <1>6, <1>7 DEF Sited
<1>9. Met(config, new, {new.page})
  <2>1. config.mode # "pure" => Range(Seeds) \subseteq Range(new.seeds) \cup {new.page}
    BY <1>2, <1>5
  <2>2. 1..(new.next - 1) \subseteq {new.page}
    <3>1. CASE config.mode = "pure"
      <4>1. new.page = 1 /\ new.next = 2
        BY <1>2, <1>3, <1>5, <3>1
      <4> QED BY <4>1
    <3>2. CASE config.mode # "pure"
      BY <1>5, <3>2
    <3> QED BY <3>1, <3>2
  <2> QED BY <1>7, <2>1, <2>2 DEF Met
<1>10. Walking(config, Reachable, K, new)
  BY <1>0, <1>5, <1>7, <1>8, <1>9 DEF Walking, Facing, Counted, Stored
<1> QED BY <1>4, <1>10 DEF old

\* What a run on its way satisfies.
LEMMA WalkFact ==
  ASSUME WalkInv, NEW r \in Runs, NEW rec, rec = run[r], rec.at \notin Resting
  PROVE  Walking(config, Reachable, Kept, rec)
BY DEF WalkInv

\* Fetching a list page, or failing to, or being blocked.
LEMMA OpenWalks ==
  ASSUME RunShape, WalkInv, CountInv, NEW r \in Runs, Open(r)
  PROVE  WalkInv'
<1>1. PICK old : old = run[r]
  OBVIOUS
<1> DEFINE links == NewLinks(old)
           rec == [old EXCEPT !.depth = @ + 1,
                     !.trail = Append(@, [page |-> old.page, news |-> FALSE])]
           read == [rec EXCEPT !.left = links, !.seen = @ \cup Range(links)]
           failed == [rec EXCEPT !.failed = TRUE]
           n == Len(old.trail)
<1>2. /\ old.at = "open"
      /\ config' = config /\ Kept' = Kept
      /\ \/ Step(r, Details(read)) \/ Step(r, Skip(failed)) \/ Step(r, NextSeed(failed))
  BY <1>1 DEF Open, store, ghosts, Kept, OwnedUrls, Owned
<1>3. Facing(config, Reachable, Kept, old, {old.page}) /\ old \in Records /\ old.page \in Pages
  <2>1. Facing(config, Reachable, Kept, old, {old.page})
    BY <1>1, <1>2, WalkFact DEF Walking, OnPage, Resting
  <2> QED BY <2>1 DEF Facing, Sited, Records
<1>4. /\ config \in Configs /\ Reachable \in SUBSET Pages
      /\ config.mode # "dom" => 1..PageEnd \subseteq Reachable
      /\ config.mode = "dom" => \A p \in Reachable : NextPage[p] \in Reachable \cup {0}
  BY ReachableSet DEF CountInv
<1>5. /\ links \in Seq(Urls)
      /\ Range(links) = Range(Links[old.page]) \ old.seen
  BY <1>3, NewLinksFact
<1>6. Range(links) \subseteq Urls
  BY <1>5, RangeOfSeq
<1>7. PICK S, e : /\ S = [page : Pages, news : BOOLEAN]
                  /\ e = [page |-> old.page, news |-> FALSE]
  OBVIOUS
<1>8. /\ old.trail \in Seq(S) /\ e \in S /\ e.page = old.page /\ e.news = FALSE
      /\ Append(old.trail, e) \in Seq(S)
  BY <1>3, <1>7 DEF Records
<1>9. /\ n \in Nat /\ Len(Append(old.trail, e)) = n + 1
      /\ Append(old.trail, e)[n + 1] = e
      /\ \A j \in 1..n : Append(old.trail, e)[j] = old.trail[j]
  BY <1>8
<1>10. ASSUME NEW new, new \in Records, new.trail = Append(old.trail, e),
              new.seeds = old.seeds, new.page = old.page, new.next = old.next,
              new.empties = old.empties
       PROVE  /\ Visited(new) = Visited(old) \cup {old.page}
              /\ Sited(config, Reachable, new)
              /\ Counted(config, new, n) /\ Counted(config, new, n + 1)
              /\ Len(new.trail) = n + 1 /\ new.trail[n + 1].page = old.page
              /\ Excused(config, old.trail, n) => Excused(config, new.trail, n)
  <2>1. Visited(new) = Visited(old) \cup {old.page}
    BY <1>8, <1>10, VisitedMore
  <2>2. Sited(config, Reachable, new)
    BY <1>3, <1>10, <2>1 DEF Facing, Sited
  <2>3. /\ old.empties \in Nat /\ old.empties <= n
        /\ \A j \in 1..n : j > n - old.empties => ~old.trail[j].news
        /\ config.force => old.empties = 0
    BY <1>3 DEF Facing, Counted, Records
  <2>4. Counted(config, new, n)
    BY <1>9, <1>10, <2>3 DEF Counted
  <2>5. Counted(config, new, n + 1)
    <3>1. ASSUME NEW j \in 1..(n + 1), j > n + 1 - old.empties PROVE ~new.trail[j].news
      <4>1. CASE j = n + 1
        BY <1>8, <1>9, <1>10, <4>1
      <4>2. CASE j # n + 1
        BY <1>9, <1>10, <2>3, <3>1, <4>2
      <4> QED BY <4>1, <4>2
    <3> QED BY <1>9, <1>10, <2>3, <3>1 DEF Counted
  <2>6. Excused(config, old.trail, n) => Excused(config, new.trail, n)
    <3>1. ASSUME GaveUpBy(old.trail, n) PROVE GaveUpBy(new.trail, n)
      <4>1. PICK i \in 0..(n - EmptyLimit) : \A j \in 1..EmptyLimit : ~old.trail[i + j].news
        BY <3>1 DEF GaveUpBy
      <4>2. EmptyLimit \in Nat
        BY CrawlerArticlesAssumption
      <4>3. \A j \in 1..EmptyLimit : i + j \in 1..n
        BY <1>9, <4>2
      <4> QED BY <1>9, <1>10, <4>1, <4>3 DEF GaveUpBy
    <3> QED BY <3>1 DEF Excused
  <2> QED BY <1>8, <1>9, <1>10, <2>1, <2>2, <2>4, <2>5, <2>6
<1>18. old.left = <<>> /\ old.depth + 1 \in Nat
  BY <1>3 DEF Records, Facing
<1>11. /\ read.trail = Append(old.trail, e) /\ read.seeds = old.seeds /\ read.page = old.page
       /\ read.next = old.next /\ read.empties = old.empties /\ read.left = links
       /\ read.seen = old.seen \cup Range(links) /\ read.failed = old.failed
       /\ read \in Records
  BY <1>3, <1>5, <1>6, <1>7, <1>8, <1>18 DEF Records
<1>12. /\ failed.trail = Append(old.trail, e) /\ failed.seeds = old.seeds
       /\ failed.page = old.page /\ failed.next = old.next /\ failed.empties = old.empties
       /\ failed.left = <<>> /\ failed.failed = TRUE
       /\ failed \in Records
  BY <1>3, <1>7, <1>8, <1>18 DEF Records
<1> HIDE DEF links, rec, read, failed, n
<1>13. Walking(config, Reachable, Kept, Details(read))
  <2>1. /\ Visited(read) = Visited(old) \cup {old.page}
        /\ Sited(config, Reachable, read) /\ Counted(config, read, n)
        /\ Len(read.trail) = n + 1 /\ read.trail[n + 1].page = old.page
        /\ Excused(config, old.trail, n) => Excused(config, read.trail, n)
    BY <1>10, <1>11
  <2>2. ~read.failed => Stored(Kept, read)
    <3>1. ~old.failed => Stored(Kept, old)
      BY <1>3 DEF Facing
    <3>2. old.left = <<>>
      BY <1>3 DEF Facing
    <3> QED BY <1>5, <1>11, <2>1, <3>1, <3>2, RangeOfEmpty DEF Stored
  <2>3. ~read.failed => Excused(config, read.trail, n) \/ Met(config, read, Ahead(config, read))
    <3>1. Met(config, old, {old.page}) => Met(config, read, Ahead(config, read))
      BY <1>11, <2>1 DEF Met, Ahead
    <3> QED BY <1>3, <1>11, <2>1, <3>1 DEF Facing, n
  <2>4. Staged(config, Reachable, Kept, read)
    <3>1. old.empties < EmptyLimit
      BY <1>3 DEF Facing
    <3> QED BY <1>9, <1>11, <2>1, <2>2, <2>3, <3>1 DEF Staged
  <2> QED BY <1>4, <2>4, DetailsFace
<1>14. Facing(config, Reachable, Kept, failed, {})
  <2>1. Sited(config, Reachable, failed) /\ Counted(config, failed, n + 1)
        /\ Len(failed.trail) = n + 1
    BY <1>10, <1>12
  <2> QED BY <1>3, <1>12, <2>1 DEF Facing
<1>15. Walking(config, Reachable, Kept, Skip(failed))
  BY <1>4, <1>14, SkipFaces
<1>16. Walking(config, Reachable, Kept, NextSeed(failed))
  BY <1>4, <1>12, <1>14, NextSeedFaces DEF Facing, Counted
<1>17. PICK new : /\ Step(r, new)
                  /\ Walking(config, Reachable, Kept, new)
  BY <1>2, <1>13, <1>15, <1>16
<1> QED BY <1>2, <1>17, OneWalks DEF Fit

\* The other steps from page to page.
LEMMA PageWalks ==
  ASSUME RunShape, WalkInv, CountInv, NEW r \in Runs,
         Ask(r) \/ Begin(r) \/ OpenAgain(r) \/ OpenTooDeep(r) \/ Finish(r)
  PROVE  WalkInv'
<1>0. /\ config \in Configs /\ Reachable \in SUBSET Pages
      /\ config.mode # "dom" => 1..PageEnd \subseteq Reachable
  BY ReachableSet DEF CountInv
<1>1. config' = config /\ Kept' = Kept
  BY DEF Ask, Begin, OpenAgain, OpenTooDeep, Finish, store, ghosts, Kept, OwnedUrls, Owned
<1>2. ASSUME NEW s \in Resting PROVE Fit(config, Reachable, Kept, NewRun(s))
  BY NewRunFact DEF Fit
<1>3. CASE Ask(r)
  BY <1>1, <1>2, <1>3, OneWalks DEF Ask, Resting
<1>4. CASE Begin(r)
  <2>1. PICK seeds : seeds = IF config.mode = "pure" THEN << 1 >> ELSE Seeds
    OBVIOUS
  <2>2. \/ Step(r, NewRun("over"))
        \/ Step(r, NextSeed([NewRun("asked") EXCEPT !.seeds = seeds]))
    BY <1>4, <2>1 DEF Begin
  <2>3. Walking(config, Reachable, Kept, NextSeed([NewRun("asked") EXCEPT !.seeds = seeds]))
    BY <1>0, <2>1, BeginFaces
  <2>4. PICK new : Step(r, new) /\ Fit(config, Reachable, Kept, new)
    BY <1>2, <2>2, <2>3 DEF Fit, Resting
  <2> QED BY <1>1, <2>4, OneWalks
<1>5. CASE OpenAgain(r)
  <2>1. PICK old : old = run[r]
    OBVIOUS
  <2> DEFINE new == [old EXCEPT !.depth = @ + 1]
  <2>2. old.at = "open" /\ old.page \in Visited(old) /\ Step(r, Skip(new))
    BY <1>5, <2>1 DEF OpenAgain
  <2>3. Facing(config, Reachable, Kept, old, {old.page})
    BY <2>1, <2>2, WalkFact DEF Walking, OnPage, Resting
  <2>4. /\ new.trail = old.trail /\ new.left = old.left /\ new.seeds = old.seeds
        /\ new.failed = old.failed /\ new.next = old.next /\ new.seen = old.seen
        /\ new.page = old.page /\ new.empties = old.empties /\ new \in Records
    <3>1. old \in Records /\ old.depth + 1 \in Nat
      BY <2>3 DEF Facing, Sited, Records
    <3> QED BY <3>1 DEF Records
  <2> HIDE DEF new
  <2>5. Visited(new) = Visited(old)
    BY <2>4 DEF Visited
  <2>6. Met(config, old, {old.page}) => Met(config, new, {})
    BY <2>2, <2>4, <2>5 DEF Met
  <2>7. Facing(config, Reachable, Kept, new, {})
    BY <2>3, <2>4, <2>5, <2>6 DEF Facing, Sited, Counted, Stored
  <2>8. Walking(config, Reachable, Kept, Skip(new))
    BY <1>0, <2>7, SkipFaces
  <2> QED BY <1>1, <2>2, <2>8, OneWalks DEF Fit
<1>6. CASE OpenTooDeep(r)
  <2>1. PICK old : old = run[r]
    OBVIOUS
  <2>2. old.at = "open" /\ config.depth > 0 /\ Step(r, NextSeed(old))
    BY <1>6, <2>1 DEF OpenTooDeep, TooDeep
  <2>3. Facing(config, Reachable, Kept, old, {old.page})
    BY <2>1, <2>2, WalkFact DEF Walking, OnPage, Resting
  <2>4. Walking(config, Reachable, Kept, NextSeed(old))
    BY <1>0, <2>2, <2>3, NextSeedFaces DEF Facing, Counted, Excused
  <2> QED BY <1>1, <2>2, <2>4, OneWalks DEF Fit
<1>7. CASE Finish(r)
  BY <1>1, <1>2, <1>7, OneWalks DEF Finish, Resting
<1> QED BY <1>3, <1>4, <1>5, <1>6, <1>7

\* On a page: what there is of the run's record.
LEMMA OnPageFact ==
  ASSUME WalkInv, NEW r \in Runs, NEW old, old = run[r], old.at \in OnPage
  PROVE  /\ Staged(config, Reachable, Kept, old) /\ old.left # <<>>
         /\ old.at # "detail" => old.url = Head(old.left)
         /\ old.at \in {"update", "values"} => old.url \in Kept
  BY WalkFact DEF Walking, OnPage, Resting

\* SELECT: what is there to update is in the task.
LEMMA DetailWalks ==
  ASSUME RunShape, WalkInv, CountInv, NEW r \in Runs, Detail(r)
  PROVE  WalkInv'
<1>1. PICK old : old = run[r]
  OBVIOUS
<1>2. PICK u, b : u = Head(old.left) /\ b = Owned(u)
  OBVIOUS
<1> DEFINE new == [old EXCEPT !.url = u, !.live = b, !.at = IF b THEN "update" ELSE "insert"]
<1>3. /\ old.at = "detail" /\ config' = config /\ Kept' = Kept
      /\ Step(r, new) \/ Step(r, DetailFails(old))
  BY <1>1, <1>2 DEF Detail, store, ghosts, Kept, OwnedUrls, Owned
<1>4. Staged(config, Reachable, Kept, old) /\ old.left # <<>>
  BY <1>1, <1>3, OnPageFact DEF OnPage
<1>5. Walking(config, Reachable, Kept, DetailFails(old))
  BY <1>4, ReachableSet, DetailFailsFaces DEF CountInv
<1>6. Walking(config, Reachable, Kept, new)
  <2>1. old \in Records /\ u \in Urls /\ b \in BOOLEAN
    <3>1. old \in Records /\ old.left \in Seq(Urls)
      BY <1>4 DEF Staged, Sited, Records
    <3>2. u \in Urls
      BY <1>2, <1>4, <3>1, HeadAndTail
    <3>3. b \in BOOLEAN
      BY <1>2 DEF Owned
    <3> QED BY <3>1, <3>2, <3>3
  <2>2. /\ new.trail = old.trail /\ new.left = old.left /\ new.seeds = old.seeds
        /\ new.failed = old.failed /\ new.next = old.next /\ new.seen = old.seen
        /\ new.page = old.page /\ new.empties = old.empties /\ new.url = u
        /\ new.at = IF b THEN "update" ELSE "insert"
    BY <2>1 DEF Records
  <2>3. new \in Records
    BY <2>1 DEF Records, OnPage
  <2> HIDE DEF new
  <2>4. Visited(new) = Visited(old)
    BY <2>2 DEF Visited
  <2>5. Staged(config, Reachable, Kept, new)
    BY <1>4, <2>2, <2>3, <2>4 DEF Staged, Sited, Counted, Stored, Met, Ahead
  <2>6. b => u \in Kept
    BY <1>2, <2>1 DEF Kept, OwnedUrls
  <2> QED BY <1>2, <1>4, <2>2, <2>5, <2>6 DEF Walking, OnPage
<1>7. PICK rec : Step(r, rec) /\ Walking(config, Reachable, Kept, rec)
  BY <1>3, <1>5, <1>6
<1> QED BY <1>3, <1>7, OneWalks DEF Fit

\* UPDATE, and the INSERT of the values: the article is or was there.
LEMMA StoreWalks ==
  ASSUME RunShape, WalkInv, CountInv, NEW r \in Runs, Update(r) \/ WriteValue(r),
         \A u \in Urls : Owned(u)' <=> Owned(u)
  PROVE  WalkInv'
<1>1. PICK old : old = run[r]
  OBVIOUS
<1>2. /\ old.at \in {"update", "values"} /\ config' = config
      /\ Step(r, DetailDone(old)) \/ Step(r, DetailFails(old))
      /\ removed' = removed
  BY <1>1 DEF Update, WriteValue, ghosts
<1>3. Kept' = Kept
  <2>1. OwnedUrls' = OwnedUrls
    BY DEF OwnedUrls
  <2> QED BY <1>2, <2>1 DEF Kept
<1>4. Staged(config, Reachable, Kept, old) /\ old.left # <<>> /\ Head(old.left) \in Kept
  BY <1>1, <1>2, OnPageFact DEF OnPage
<1>5. /\ config \in Configs /\ Reachable \in SUBSET Pages
      /\ config.mode # "dom" => 1..PageEnd \subseteq Reachable
      /\ config.mode = "dom" => \A p \in Reachable : NextPage[p] \in Reachable \cup {0}
  BY ReachableSet DEF CountInv
<1>6. Walking(config, Reachable, Kept, DetailFails(old))
  BY <1>4, <1>5, DetailFailsFaces
<1>7. Walking(config, Reachable, Kept, DetailDone(old))
  BY <1>4, <1>5, DetailDoneFaces
<1>8. PICK rec : Step(r, rec) /\ Walking(config, Reachable, Kept, rec)
  BY <1>2, <1>6, <1>7
<1> QED BY <1>2, <1>3, <1>8, OneWalks DEF Fit

\* INSERT: the page has something new.
LEMMA InsertWalks ==
  ASSUME TypeTable, RunShape, WalkInv, CountInv, NEW r \in Runs, Insert(r)
  PROVE  WalkInv'
<1>1. PICK old : old = run[r]
  OBVIOUS
<1>2. PICK n \in Nat : n = Len(old.trail)
  <2>1. Staged(config, Reachable, Kept, old)
    BY <1>1, OnPageFact DEF Insert, OnPage
  <2> QED BY <2>1 DEF Staged, Sited, Records
<1> DEFINE new == [old EXCEPT !.at = "values", !.live = TRUE, !.trail[n].news = TRUE]
<1>3. /\ old.at = "insert" /\ config' = config /\ removed' = removed
      /\ \/ /\ ~Owned(old.url)
            /\ article' = [article EXCEPT ![old.url] = [by |-> r, edited |-> FALSE]]
            /\ Step(r, new)
         \/ UNCHANGED article /\ Step(r, DetailFails(old))
  BY <1>1, <1>2 DEF Insert
<1>4. /\ Staged(config, Reachable, Kept, old) /\ old.left # <<>>
      /\ old.url = Head(old.left)
  BY <1>1, <1>3, OnPageFact DEF OnPage
<1>5. CASE UNCHANGED article /\ Step(r, DetailFails(old))
  <2>1. Kept' = Kept
    BY <1>3, <1>5 DEF Kept, OwnedUrls, Owned
  <2>2. Walking(config, Reachable, Kept, DetailFails(old))
    BY <1>4, ReachableSet, DetailFailsFaces DEF CountInv
  <2> QED BY <1>3, <1>5, <2>1, <2>2, OneWalks DEF Fit
<1>6. CASE /\ article' = [article EXCEPT ![old.url] = [by |-> r, edited |-> FALSE]]
           /\ Step(r, new)
  <2>1. old \in Records /\ old.left \in Seq(Urls) /\ n > 0
        /\ old.trail \in Seq([page : Pages, news : BOOLEAN])
    BY <1>2, <1>4 DEF Staged, Sited, Records
  <2>2. old.url \in Urls
    BY <1>4, <2>1, HeadAndTail
  <2>3. Kept \subseteq Kept' /\ old.url \in Kept'
    <3>1. r # NoRun
      BY NoFacts
    <3>2. Owned(old.url)'
      BY <1>6, <2>2, <3>1 DEF TypeTable, Owned, NoArticle
    <3>3. \A u \in Urls : Owned(u) => Owned(u)'
      <4>1. \A u \in Urls : u # old.url => article'[u] = article[u]
        BY <1>6 DEF TypeTable
      <4> QED BY <3>2, <4>1 DEF Owned
    <3> QED BY <1>3, <2>2, <3>2, <3>3 DEF Kept, OwnedUrls
  <2>4. PICK S, t : /\ S = [page : Pages, news : BOOLEAN]
                    /\ t = [old.trail EXCEPT ![n].news = TRUE]
    OBVIOUS
  <2>5. old.trail \in Seq(S) /\ n \in 1..Len(old.trail)
    BY <1>2, <2>1, <2>4
  <2>6. old.trail[n] \in S
    BY <2>5, ElementOfSeq
  <2>7. PICK e \in S : e = [old.trail[n] EXCEPT !.news = TRUE]
    BY <2>4, <2>6
  <2>8. t = [old.trail EXCEPT ![n] = e] /\ e.page = old.trail[n].page
    BY <2>4, <2>5, <2>6, <2>7
  <2>9. /\ t \in Seq(S) /\ Len(t) = n /\ t[n] = e
        /\ \A j \in 1..(n - 1) : t[j] = old.trail[j]
    BY <1>2, <2>5, <2>8
  <2>10. /\ new.trail = t /\ new.left = old.left /\ new.seeds = old.seeds
         /\ new.failed = old.failed /\ new.next = old.next /\ new.seen = old.seen
         /\ new.page = old.page /\ new.empties = old.empties /\ new.url = old.url
         /\ new.at = "values"
    BY <2>1, <2>4 DEF Records
  <2>11. new \in Records
    BY <2>1, <2>4, <2>9 DEF Records, OnPage
  <2> HIDE DEF new
  <2>12. Visited(new) = Visited(old)
    <3>1. DOMAIN t = 1..n /\ DOMAIN old.trail = 1..n
      BY <1>2, <2>5, <2>9
    <3>2. \A j \in 1..n : t[j].page = old.trail[j].page
      BY <2>1, <2>8, <2>9
    <3> QED BY <2>10, <3>1, <3>2 DEF Visited
  <2>13. Staged(config, Reachable, Kept, new)
    <3>1. Sited(config, Reachable, new) /\ new.page = new.trail[n].page
      BY <1>2, <1>4, <2>8, <2>9, <2>10, <2>11, <2>12 DEF Staged, Sited
    <3>2. Counted(config, new, n - 1)
      BY <1>2, <1>4, <2>9, <2>10 DEF Staged, Counted
    <3>3. ~new.failed => Stored(Kept, new)
      BY <1>4, <2>10, <2>12 DEF Staged, Stored
    <3>4. Met(config, old, Ahead(config, old)) => Met(config, new, Ahead(config, new))
      BY <2>10, <2>12 DEF Met, Ahead
    <3>5. Excused(config, old.trail, n - 1) => Excused(config, new.trail, n - 1)
      <4>1. ASSUME GaveUpBy(old.trail, n - 1) PROVE GaveUpBy(new.trail, n - 1)
        <5>1. PICK i \in 0..(n - 1 - EmptyLimit) :
                \A j \in 1..EmptyLimit : ~old.trail[i + j].news
          BY <4>1 DEF GaveUpBy
        <5>2. EmptyLimit \in Nat
          BY CrawlerArticlesAssumption
        <5>3. \A j \in 1..EmptyLimit : i + j \in 1..(n - 1)
          BY <5>2
        <5> QED BY <2>9, <2>10, <5>1, <5>3 DEF GaveUpBy
      <4> QED BY <4>1 DEF Excused
    <3> QED BY <1>2, <1>4, <2>1, <2>9, <2>10, <3>1, <3>2, <3>3, <3>4, <3>5 DEF Staged
  <2>14. Staged(config, Reachable, Kept', new)
    <3>1. Stored(Kept, new) => Stored(Kept', new)
      BY <2>3 DEF Stored
    <3> QED BY <2>13, <3>1 DEF Staged
  <2>15. Walking(config, Reachable, Kept', new)
    BY <1>4, <2>3, <2>10, <2>14 DEF Walking, OnPage
  <2> QED BY <1>3, <1>6, <2>3, <2>15, OneWalks DEF Fit
<1> QED BY <1>3, <1>5, <1>6

\* No run steps but for the article it no longer finds.
LEMMA OthersWalk ==
  ASSUME RunShape, WalkInv, config' = config, Kept \subseteq Kept',
         \A r \in Runs : \/ run'[r] = run[r]
                         \/ run'[r] = NewRun("over")
                         \/ run'[r] = [run[r] EXCEPT !.live = FALSE]
                            /\ run[r].url # NoUrl
  PROVE  WalkInv'
<1>1. Reachable' = Reachable
  BY DEF Reachable
<1>2. PICK c, R, K, L : c = config /\ R = Reachable /\ K = Kept /\ L = Kept'
  OBVIOUS
<1>3. ASSUME NEW q \in Runs PROVE Fit(c, R, L, run'[q])
  <2>1. PICK old, new : old = run[q] /\ new = run'[q]
    OBVIOUS
  <2>2. Fit(c, R, K, old)
    BY <1>2, <2>1 DEF WalkInv, Fit
  <2>3. CASE new = old
    BY <1>2, <2>1, <2>2, <2>3, MoreKept DEF Fit
  <2>4. CASE new = NewRun("over")
    BY <2>1, <2>4, NewRunFact DEF Fit, Resting
  <2>5. CASE new = [old EXCEPT !.live = FALSE] /\ old.url # NoUrl
    <3>1. Walking(c, R, K, old)
      BY <2>2, <2>5, NewRunFact DEF Fit
    <3>2. Walking(c, R, K, new)
      BY <2>5, <3>1, LiveIsNothing
    <3> QED BY <1>2, <2>1, <3>2, MoreKept DEF Fit
  <2> QED BY <2>1, <2>3, <2>4, <2>5
<1> QED BY <1>1, <1>2, <1>3 DEF WalkInv, Fit

\* Articles that go are remembered.
LEMMA ForgetWalks ==
  ASSUME RunShape, WalkInv, NEW us \in SUBSET Urls, Forget(us), config' = config,
         removed' = removed \cup (us \cap Urls)
  PROVE  WalkInv'
<1>1. NoUrl \notin Urls
  BY NoFacts
<1>2. \A u \in Urls : Owned(u) => Owned(u)' \/ u \in us
  BY DEF Forget, Owned
<1>3. Kept \subseteq Kept'
  BY <1>2 DEF Kept, OwnedUrls
<1>4. \A r \in Runs : run'[r] = IF run[r].url \in us THEN [run[r] EXCEPT !.live = FALSE]
                                ELSE run[r]
  BY DEF Forget
<1> QED BY <1>1, <1>3, <1>4, OthersWalk

\* A run ends, or neither runs nor articles change.
LEMMA RestWalks ==
  ASSUME RunShape, WalkInv, CountInv,
         \/ \E u \in Urls : UpdateArticle(u) \/ DeleteArticle(u)
         \/ \E c \in Clients : RefreshInsert(c) \/ \E u \in Urls : RefreshDelete(c, u)
         \/ DeleteTask \/ DeleteTaskRow \/ DeleteTaskFails \/ Restart \/ UNCHANGED vars,
         TypeTable
  PROVE  WalkInv'
<1>1. OwnedUrls \in SUBSET Urls /\ OwnedUrls \cap Urls = OwnedUrls
  BY DEF OwnedUrls
<1>2. CASE \E u \in Urls : DeleteArticle(u)
  <2>1. PICK us \in SUBSET Urls : /\ Forget(us) /\ config' = config
                                  /\ removed' = removed \cup (us \cap Urls)
    BY <1>2 DEF DeleteArticle
  <2> QED BY <2>1, ForgetWalks
<1>3. CASE DeleteTask \/ DeleteTaskRow
  <2>1. Forget(OwnedUrls) /\ config' = config
        /\ removed' = removed \cup (OwnedUrls \cap Urls)
    BY <1>1, <1>3 DEF DeleteTask, DeleteTaskRow
  <2> QED BY <1>1, <2>1, ForgetWalks
<1>4. CASE \E u \in Urls : UpdateArticle(u)
  <2>1. PICK u \in Urls : UpdateArticle(u)
    BY <1>4
  <2>2. /\ config' = config /\ removed' = removed /\ run' = run
        /\ article' = [article EXCEPT ![u].edited = TRUE]
    BY <2>1 DEF UpdateArticle, ghosts
  <2>3. \A v \in Urls : Owned(v) => Owned(v)'
    BY <2>2 DEF TypeTable, Owned, NoArticle
  <2>4. Kept \subseteq Kept'
    BY <2>2, <2>3 DEF Kept, OwnedUrls
  <2> QED BY <2>2, <2>4, OthersWalk
<1>5. CASE \/ \E c \in Clients : RefreshInsert(c) \/ \E u \in Urls : RefreshDelete(c, u)
           \/ DeleteTaskFails \/ UNCHANGED vars
  <2>1. config' = config /\ removed' = removed /\ run' = run /\ article' = article
    BY <1>5 DEF RefreshInsert, RefreshDelete, DeleteTaskFails, vars, store, ghosts
  <2>2. Kept' = Kept
    BY <2>1 DEF Kept, OwnedUrls, Owned
  <2> QED BY <2>1, <2>2, OthersWalk
<1>6. CASE Restart
  <2>1. /\ config' = config /\ removed' = removed /\ article' = article
        /\ \A r \in Runs : run'[r] = run[r] \/ run'[r] = NewRun("over")
    BY <1>6 DEF Restart
  <2>2. Kept' = Kept
    BY <2>1 DEF Kept, OwnedUrls, Owned
  <2> QED BY <2>1, <2>2, OthersWalk
<1> QED BY <1>2, <1>3, <1>4, <1>5, <1>6

-----------------------------------------------------------------------------
(* The counts and sets of the task *)

\* Only urls are remembered, and the bounds are kept.
LEMMA KeepCount ==
  ASSUME TypeTable, WalkInv, CountInv, RowInv, [Next]_vars
  PROVE  CountInv'
<1>0. \A r \in Runs : run[r].at = "values" => run[r].url \in Urls
  <2>1. ASSUME NEW r \in Runs, run[r].at = "values" PROVE run[r].url \in Urls
    <3>1. PICK old : old = run[r]
      OBVIOUS
    <3>2. Staged(config, Reachable, Kept, old) /\ old.left # <<>> /\ old.url = Head(old.left)
      BY <2>1, <3>1, OnPageFact DEF OnPage
    <3>3. old.left \in Seq(Urls)
      BY <3>2 DEF Staged, Sited, Records
    <3> QED BY <3>1, <3>2, <3>3, HeadAndTail
  <2> QED BY <2>1
<1>1. /\ config' = config
      /\ deleting' \in {"no", "unlink", "empty"}
      /\ orphans' \subseteq Urls /\ removed' \subseteq Urls
  BY DEF CountInv, Next, RunStep, Ask, Begin, Open, OpenAgain, OpenTooDeep, Detail, Update,
         Insert, WriteValue, Finish, UpdateArticle, DeleteArticle, RefreshInsert, RefreshDelete,
         DeleteTask, DeleteTaskRow, DeleteTaskFails, Restart, OwnedUrls, vars, store, ghosts
<1>2. requests' \in 0..MaxRequests /\ events' \in 0..MaxEvents
  <2>1. {MaxRequests, MaxEvents} \subseteq Nat
    BY CrawlerArticlesAssumption
  <2>2. \/ UNCHANGED <<requests, events>>
        \/ Request
        \/ Event /\ UNCHANGED requests
    BY DEF Next, RunStep, Ask, Begin, Open, OpenAgain, OpenTooDeep, Detail, Update,
           Insert, WriteValue, Finish, UpdateArticle, DeleteArticle, RefreshInsert,
           RefreshDelete, DeleteTask, DeleteTaskRow, DeleteTaskFails, Restart, vars, bounds
  <2> QED BY <2>1, <2>2 DEF CountInv, Request, Event
<1>3. cut' \subseteq Urls /\ crossed' \subseteq Urls
  <2>1. CASE UNCHANGED <<cut, crossed>>
    BY <2>1 DEF CountInv
  <2>2. ASSUME NEW r \in Runs, Insert(r) PROVE cut' \subseteq Urls /\ crossed' \subseteq Urls
    BY <2>2 DEF CountInv, Insert
  <2>3. ASSUME NEW r \in Runs, WriteValue(r) PROVE cut' \subseteq Urls /\ crossed' \subseteq Urls
    BY <1>0, <2>3 DEF CountInv, WriteValue
  <2>4. ASSUME NEW c \in Clients, RefreshInsert(c)
        PROVE  cut' \subseteq Urls /\ crossed' \subseteq Urls
    BY <2>4 DEF CountInv, RowInv, RefreshInsert
  <2>5. ASSUME NEW c \in Clients, NEW u \in Urls, RefreshDelete(c, u)
        PROVE  cut' \subseteq Urls /\ crossed' \subseteq Urls
    BY <2>5 DEF CountInv, RefreshDelete
  <2>6. CASE Restart
    BY <1>0, <2>6 DEF CountInv, RowInv, Restart
  <2>7. CASE \E r \in Runs : \/ Ask(r) \/ Begin(r) \/ Open(r) \/ OpenAgain(r) \/ OpenTooDeep(r)
                             \/ Detail(r) \/ Update(r) \/ Finish(r)
    BY <2>1, <2>7 DEF Ask, Begin, Open, OpenAgain, OpenTooDeep, Detail, Update, Finish, ghosts
  <2>8. CASE \/ \E u \in Urls : UpdateArticle(u) \/ DeleteArticle(u)
             \/ DeleteTask \/ DeleteTaskRow \/ DeleteTaskFails \/ UNCHANGED vars
    BY <2>1, <2>8
       DEF UpdateArticle, DeleteArticle, DeleteTask, DeleteTaskRow, DeleteTaskFails, vars, ghosts
  <2> QED BY <2>2, <2>3, <2>4, <2>5, <2>6, <2>7, <2>8 DEF Next, RunStep
<1> QED BY <1>1, <1>2, <1>3 DEF CountInv

\* An edit is of an article that is there, a refresh of one that was.
LEMMA KeepRow ==
  ASSUME TypeTable, RowInv, [Next]_vars
  PROVE  RowInv'
<1>0. NoUrl \notin Urls /\ NoRun \notin Runs
  BY NoFacts
<1>1. \A u \in Urls : article'[u].by = NoRun => ~article'[u].edited
  <2>1. ASSUME NEW us, Forget(us) PROVE \A u \in Urls : article'[u].by = NoRun => ~article'[u].edited
    BY <2>1, NoFacts DEF RowInv, Forget
  <2>2. CASE UNCHANGED article
    BY <2>2 DEF RowInv
  <2>3. ASSUME NEW r \in Runs, Update(r)
        PROVE  \A u \in Urls : article'[u].by = NoRun => ~article'[u].edited
    BY <1>0, <2>3 DEF RowInv, TypeTable, Update
  <2>4. ASSUME NEW r \in Runs, Insert(r)
        PROVE  \A u \in Urls : article'[u].by = NoRun => ~article'[u].edited
    BY <2>4 DEF RowInv, TypeTable, Insert
  <2>5. ASSUME NEW v \in Urls, UpdateArticle(v)
        PROVE  \A u \in Urls : article'[u].by = NoRun => ~article'[u].edited
    <3>1. article[v].by # NoRun
      BY <2>5, NoFacts DEF RowInv, TypeTable, UpdateArticle, Owned, NoArticle
    <3> QED BY <2>5, <3>1 DEF RowInv, TypeTable, UpdateArticle
  <2>6. \/ UNCHANGED article
        \/ \E r \in Runs : Update(r) \/ Insert(r)
        \/ \E v \in Urls : UpdateArticle(v) \/ DeleteArticle(v)
        \/ DeleteTask \/ DeleteTaskRow
    BY DEF Next, RunStep, Ask, Begin, Open, OpenAgain, OpenTooDeep, Detail, WriteValue, Finish,
           RefreshInsert, RefreshDelete, DeleteTaskFails, Restart, vars, store
  <2> QED BY <2>1, <2>2, <2>3, <2>4, <2>5, <2>6 DEF DeleteArticle, DeleteTask, DeleteTaskRow
<1>2. \A c \in Clients : refresh'[c].live => refresh'[c].url \in Urls
  <2>1. ASSUME NEW us, Forget(us) PROVE \A c \in Clients : refresh'[c].live => refresh'[c].url \in Urls
    BY <2>1 DEF RowInv, TypeTable, Forget
  <2>2. CASE UNCHANGED refresh
    BY <2>2 DEF RowInv
  <2>3. ASSUME NEW b \in Clients, RefreshInsert(b)
        PROVE  \A c \in Clients : refresh'[c].live => refresh'[c].url \in Urls
    BY <2>3, NoFacts DEF RowInv, TypeTable, RefreshInsert
  <2>4. ASSUME NEW b \in Clients, NEW u \in Urls, RefreshDelete(b, u)
        PROVE  \A c \in Clients : refresh'[c].live => refresh'[c].url \in Urls
    BY <2>4 DEF RowInv, TypeTable, RefreshDelete
  <2>5. CASE Restart
    BY <2>5, NoFacts DEF Restart
  <2>6. \/ UNCHANGED refresh \/ Restart
        \/ \E c \in Clients : RefreshInsert(c) \/ \E u \in Urls : RefreshDelete(c, u)
        \/ \E v \in Urls : DeleteArticle(v)
        \/ DeleteTask \/ DeleteTaskRow
    BY DEF Next, RunStep, Ask, Begin, Open, OpenAgain, OpenTooDeep, Detail, Update, Insert,
           WriteValue, Finish, UpdateArticle, DeleteTaskFails, vars
  <2> QED BY <2>1, <2>2, <2>3, <2>4, <2>5, <2>6 DEF DeleteArticle, DeleteTask, DeleteTaskRow
<1> QED BY <1>1, <1>2 DEF RowInv

-----------------------------------------------------------------------------
(* The hits of a value *)

\* No step of a run but the INSERT of an article makes it a writer.
LEMMA OnlyInsertWrites ==
  ASSUME RunShape, NEW r \in Runs,
         \/ Ask(r) \/ Begin(r) \/ Open(r) \/ OpenAgain(r) \/ OpenTooDeep(r)
         \/ Detail(r) \/ Update(r) \/ WriteValue(r) \/ Finish(r)
  PROVE  \E rec : Step(r, rec) /\ rec.at # "values"
<1>1. PICK old : old = run[r] /\ Shaped(old)
  BY DEF RunShape
<1>2. CASE Ask(r) \/ Finish(r)
  BY <1>2, NewRunFact DEF Ask, Finish
<1>3. CASE Begin(r)
  <2>1. PICK new : /\ DOMAIN new = DOMAIN NewRun("asked")
                   /\ Step(r, NewRun("over")) \/ Step(r, NextSeed(new))
    BY <1>3 DEF Begin
  <2>2. NextSeed(new).at # "values"
    BY <2>1, NewRunFact, NextSeedWalks DEF Walked, Shaped
  <2> QED BY <2>1, <2>2, NewRunFact
<1>4. CASE Open(r)
  <2>1. PICK new : /\ Shaped(new)
                   /\ Step(r, Details(new)) \/ Step(r, Skip(new)) \/ Step(r, NextSeed(new))
    <3> DEFINE rec == [old EXCEPT !.depth = @ + 1,
                         !.trail = Append(@, [page |-> old.page, news |-> FALSE])]
               read == [rec EXCEPT !.left = NewLinks(old), !.seen = @ \cup Range(NewLinks(old))]
               failed == [rec EXCEPT !.failed = TRUE]
    <3>1. Step(r, Details(read)) \/ Step(r, Skip(failed)) \/ Step(r, NextSeed(failed))
      BY <1>1, <1>4 DEF Open
    <3>2. Shaped(read) /\ Shaped(failed)
      BY <1>1 DEF Shaped
    <3> QED BY <3>1, <3>2
  <2>2. Details(new).at # "values" /\ Skip(new).at # "values" /\ NextSeed(new).at # "values"
    BY <2>1, DetailsWalk, TurnsWalk, NextSeedWalks DEF Walked
  <2> QED BY <2>1, <2>2
<1>5. CASE OpenAgain(r)
  <2>1. PICK new : Shaped(new) /\ Step(r, Skip(new))
    BY <1>1, <1>5 DEF OpenAgain, Shaped
  <2> QED BY <2>1, TurnsWalk DEF Walked
<1>6. CASE OpenTooDeep(r)
  BY <1>1, <1>6, NextSeedWalks DEF OpenTooDeep, Walked
<1>7. CASE Detail(r)
  <2>1. CASE Step(r, DetailFails(old))
    BY <1>1, <2>1, DetailLeft
  <2>2. CASE \E u, b : Step(r, [old EXCEPT !.url = u, !.live = b,
                                           !.at = IF b THEN "update" ELSE "insert"])
    <3>1. PICK u, b : Step(r, [old EXCEPT !.url = u, !.live = b,
                                          !.at = IF b THEN "update" ELSE "insert"])
      BY <2>2
    <3>2. PICK new : new = [old EXCEPT !.url = u, !.live = b,
                                       !.at = IF b THEN "update" ELSE "insert"]
      OBVIOUS
    <3>3. new.at # "values"
      BY <1>1, <3>2 DEF Shaped
    <3> QED BY <3>1, <3>2, <3>3
  <2> QED BY <1>1, <1>7, <2>1, <2>2 DEF Detail
<1>8. CASE Update(r) \/ WriteValue(r)
  <2>1. PICK rec \in {DetailDone(old), DetailFails(old)} : Step(r, rec)
    BY <1>1, <1>8 DEF Update, WriteValue
  <2> QED BY <1>1, <2>1, DetailLeft
<1> QED BY <1>2, <1>3, <1>4, <1>5, <1>6, <1>7, <1>8

\* Numbers of refreshes.
LEMMA RefreshingFact ==
  ASSUME NEW u
  PROVE  /\ IsFiniteSet(Clients) /\ IsFiniteSet(Refreshing(u))
         /\ Cardinality(Clients) \in Nat /\ Cardinality(Refreshing(u)) \in Nat
         /\ Cardinality(Refreshing(u)) <= Cardinality(Clients)
<1>1. IsFiniteSet(Clients)
  BY CrawlerArticlesAssumption
<1>2. Refreshing(u) \subseteq Clients
  BY DEF Refreshing
<1> QED BY <1>1, <1>2, FS_Subset, FS_CardinalityType

\* Nobody starts to write, and no hit is added.
LEMMA FewerHits ==
  ASSUME TypeTable, TypeTable', HitInv, NEW u \in Urls, value'[u].hits <= value[u].hits,
         \A c \in Clients : Refreshes(c, u)' => Refreshes(c, u),
         \A r \in Runs : Writes(r, u)' => Writes(r, u)
  PROVE  /\ \A q, r \in Runs : Writes(q, u)' /\ Writes(r, u)' => q = r
         /\ value'[u].hits + Cardinality(Refreshing(u)')
              + (IF \E r \in Runs : Writes(r, u)' THEN 1 ELSE 0) <= 1 + Cardinality(Clients)
<1>1. /\ \A q, r \in Runs : Writes(q, u) /\ Writes(r, u) => q = r
      /\ value[u].hits + Cardinality(Refreshing(u))
           + (IF \E r \in Runs : Writes(r, u) THEN 1 ELSE 0) <= 1 + Cardinality(Clients)
  BY DEF HitInv
<1>2. value[u].hits \in Nat /\ value'[u].hits \in Nat
  BY DEF TypeTable
<1>3. Refreshing(u)' \subseteq Refreshing(u)
  BY DEF Refreshing
<1>4. /\ Cardinality(Refreshing(u)') \in Nat
      /\ Cardinality(Refreshing(u)') <= Cardinality(Refreshing(u))
  BY <1>3, RefreshingFact, FS_Subset, FS_CardinalityType
<1> QED BY <1>1, <1>2, <1>4, RefreshingFact

\* Whoever adds a hit of a value stops writing it, and a refresh that starts has
\* deleted them.
LEMMA KeepHits ==
  ASSUME IInv, TypeTable', RunShape', HitInv, [Next]_vars
  PROVE  HitInv'
<1>0. TypeTable /\ RunShape /\ LiveInv
  BY DEF IInv
<1>1. ASSUME NEW u \in Urls, value'[u].hits <= value[u].hits,
             \A c \in Clients : Refreshes(c, u)' => Refreshes(c, u),
             \A r \in Runs : Writes(r, u)' => Writes(r, u)
      PROVE  /\ \A q, r \in Runs : Writes(q, u)' /\ Writes(r, u)' => q = r
             /\ value'[u].hits + Cardinality(Refreshing(u)')
                  + (IF \E r \in Runs : Writes(r, u)' THEN 1 ELSE 0) <= 1 + Cardinality(Clients)
  BY <1>0, <1>1, FewerHits
<1>2. CASE \/ UNCHANGED vars \/ DeleteTaskFails \/ \E u \in Urls : UpdateArticle(u)
  <2>1. UNCHANGED <<value, run, refresh>>
    BY <1>2 DEF vars, store, DeleteTaskFails, UpdateArticle
  <2>2. \A u \in Urls : value'[u].hits <= value[u].hits
    BY <1>0, <2>1 DEF TypeTable
  <2> QED BY <1>1, <2>1, <2>2 DEF HitInv, Refreshes, Writes
<1>3. ASSUME NEW us, Forget(us) PROVE HitInv'
  <2>1. \A u \in Urls : value'[u].hits <= value[u].hits
    BY <1>0, <1>3, NoFacts DEF Forget, TypeTable
  <2>2. \A r \in Runs, u \in Urls : Writes(r, u)' => Writes(r, u)
    BY <1>0, <1>3 DEF Forget, Writes, RunShape, Shaped
  <2>3. \A c \in Clients, u \in Urls : Refreshes(c, u)' => Refreshes(c, u)
    BY <1>0, <1>3 DEF Forget, Refreshes, TypeTable
  <2> QED BY <1>1, <2>1, <2>2, <2>3 DEF HitInv
<1>4. CASE Restart
  <2>1. \A u \in Urls : value'[u].hits <= value[u].hits
    BY <1>0, <1>4 DEF Restart, TypeTable
  <2>2. \A r \in Runs, u \in Urls : Writes(r, u)' => Writes(r, u)
    BY <1>4, NewRunFact DEF Restart, Writes
  <2>3. \A c \in Clients, u \in Urls : Refreshes(c, u)' => Refreshes(c, u)
    BY <1>4, NoFacts DEF Restart, Refreshes
  <2> QED BY <1>1, <2>1, <2>2, <2>3 DEF HitInv
<1>5. ASSUME NEW r \in Runs,
             \/ Ask(r) \/ Begin(r) \/ Open(r) \/ OpenAgain(r) \/ OpenTooDeep(r)
             \/ Detail(r) \/ Update(r) \/ WriteValue(r) \/ Finish(r)
      PROVE  HitInv'
  <2>1. PICK rec : Step(r, rec) /\ rec.at # "values"
    BY <1>0, <1>5, OnlyInsertWrites
  <2>2. /\ \A u \in Urls : ~Writes(r, u)'
        /\ \A q \in Runs, u \in Urls : Writes(q, u)' => Writes(q, u)
    BY <1>0, <2>1 DEF Step, RunShape, Writes
  <2>3. UNCHANGED refresh
    BY <1>5 DEF Ask, Begin, Open, OpenAgain, OpenTooDeep, Detail, Update, WriteValue, Finish
  <2>4. \A c \in Clients, u \in Urls : Refreshes(c, u)' <=> Refreshes(c, u)
    BY <2>3 DEF Refreshes
  <2>5. ASSUME NEW v \in Urls, ~(value'[v].hits <= value[v].hits)
        PROVE  Writes(r, v) /\ value'[v].hits = value[v].hits + 1
    <3>1. value'[v] # value[v] /\ value[v].hits \in Nat
      BY <1>0, <2>5 DEF TypeTable
    <3>2. CASE WriteValue(r)
      BY <1>0, <2>5, <3>1, <3>2 DEF WriteValue, TypeTable, Writes
    <3>3. CASE ~WriteValue(r)
      BY <1>5, <3>1, <3>3
         DEF Ask, Begin, Open, OpenAgain, OpenTooDeep, Detail, Update, Finish, store
    <3> QED BY <3>2, <3>3
  <2>6. ASSUME NEW v \in Urls, ~(value'[v].hits <= value[v].hits)
        PROVE  /\ \A q, p \in Runs : Writes(q, v)' /\ Writes(p, v)' => q = p
               /\ value'[v].hits + Cardinality(Refreshing(v)')
                    + (IF \E q \in Runs : Writes(q, v)' THEN 1 ELSE 0) <= 1 + Cardinality(Clients)
    <3>1. Writes(r, v) /\ value'[v].hits = value[v].hits + 1 /\ value[v].hits \in Nat
      BY <1>0, <2>5, <2>6 DEF TypeTable
    <3>2. \A q \in Runs : ~Writes(q, v)'
      BY <2>2, <3>1 DEF HitInv
    <3>3. Refreshing(v)' = Refreshing(v)
      BY <2>4 DEF Refreshing
    <3>4. value[v].hits + Cardinality(Refreshing(v)) + 1 <= 1 + Cardinality(Clients)
      BY <3>1 DEF HitInv
    <3> QED BY <3>1, <3>2, <3>3, <3>4, RefreshingFact
  <2> QED BY <1>1, <2>2, <2>4, <2>6 DEF HitInv
<1>6. ASSUME NEW r \in Runs, Insert(r) PROVE HitInv'
  <2>1. UNCHANGED <<value, refresh>> /\ run[r].at = "insert"
    BY <1>6 DEF Insert
  <2>2. \A u \in Urls : /\ value'[u].hits <= value[u].hits
                        /\ \A c \in Clients : Refreshes(c, u)' <=> Refreshes(c, u)
    BY <1>0, <2>1 DEF TypeTable, Refreshes
  <2>3. CASE Step(r, DetailFails(run[r]))
    <3>1. DetailFails(run[r]).at # "values"
      BY <1>0, DetailLeft DEF RunShape
    <3>2. \A q \in Runs, u \in Urls : Writes(q, u)' => Writes(q, u)
      BY <1>0, <2>3, <3>1 DEF Step, RunShape, Writes
    <3> QED BY <1>1, <2>2, <3>2 DEF HitInv
  <2>4. CASE /\ ~Owned(run[r].url)
             /\ Step(r, [run[r] EXCEPT !.at = "values", !.live = TRUE,
                           !.trail[Len(run[r].trail)].news = TRUE])
    <3>1. PICK v : v = run[r].url
      OBVIOUS
    <3>2. \A q \in Runs, u \in Urls : Writes(q, u)' => Writes(q, u) \/ (q = r /\ u = v)
      BY <1>0, <2>4, <3>1 DEF Step, RunShape, Shaped, Writes
    <3>3. ASSUME v \in Urls
          PROVE  /\ value[v].hits = 0
                 /\ \A q \in Runs : ~Writes(q, v)
                 /\ \A c \in Clients : ~Refreshes(c, v)
      BY <1>0, <2>4, <3>1, <3>3, NoFacts DEF LiveInv, Writes, Refreshes
    <3>4. ASSUME v \in Urls
          PROVE  /\ \A q, p \in Runs : Writes(q, v)' /\ Writes(p, v)' => q = p
                 /\ value'[v].hits + Cardinality(Refreshing(v)')
                      + (IF \E q \in Runs : Writes(q, v)' THEN 1 ELSE 0)
                    <= 1 + Cardinality(Clients)
      <4>1. Refreshing(v)' = {}
        BY <2>2, <3>3, <3>4 DEF Refreshing
      <4> QED BY <2>1, <3>2, <3>3, <3>4, <4>1, FS_EmptySet, RefreshingFact
    <3> QED BY <1>1, <2>2, <3>2, <3>4 DEF HitInv
  <2> QED BY <1>6, <2>3, <2>4 DEF Insert
<1>7. ASSUME NEW c \in Clients, RefreshInsert(c) PROVE HitInv'
  <2>1. PICK v : v = refresh[c].url
    OBVIOUS
  <2>2. /\ UNCHANGED run
        /\ refresh' = [refresh EXCEPT ![c] = NoRefresh]
        /\ \/ UNCHANGED value
           \/ value' = [value EXCEPT ![v].hits = @ + 1] /\ refresh[c].live
    BY <1>7, <2>1 DEF RefreshInsert
  <2>3. /\ \A q \in Runs, u \in Urls : Writes(q, u)' <=> Writes(q, u)
        /\ \A d \in Clients, u \in Urls : Refreshes(d, u)' <=> Refreshes(d, u) /\ d # c
    BY <1>0, <2>2, NoFacts DEF TypeTable, Writes, Refreshes
  <2>4. \A u \in Urls : u # v \/ UNCHANGED value => value'[u].hits <= value[u].hits
    BY <1>0, <2>2 DEF TypeTable
  <2>5. ASSUME v \in Urls, ~(value'[v].hits <= value[v].hits)
        PROVE  /\ \A q, p \in Runs : Writes(q, v)' /\ Writes(p, v)' => q = p
               /\ value'[v].hits + Cardinality(Refreshing(v)')
                    + (IF \E q \in Runs : Writes(q, v)' THEN 1 ELSE 0) <= 1 + Cardinality(Clients)
    <3>1. /\ refresh[c].live /\ value[v].hits \in Nat
          /\ value'[v].hits = value[v].hits + 1
      BY <1>0, <2>2, <2>4, <2>5 DEF TypeTable
    <3>2. c \in Refreshing(v) /\ Refreshing(v)' = Refreshing(v) \ {c}
      BY <2>1, <2>3, <2>5, <3>1 DEF Refreshing, Refreshes
    <3>3. Cardinality(Refreshing(v)') = Cardinality(Refreshing(v)) - 1
      BY <3>2, RefreshingFact, FS_RemoveElement
    <3>4. /\ \A q, p \in Runs : Writes(q, v) /\ Writes(p, v) => q = p
          /\ value[v].hits + Cardinality(Refreshing(v))
               + (IF \E q \in Runs : Writes(q, v) THEN 1 ELSE 0) <= 1 + Cardinality(Clients)
      BY <2>5 DEF HitInv
    <3> QED BY <2>3, <2>5, <3>1, <3>3, <3>4, RefreshingFact
  <2> QED BY <1>1, <2>3, <2>4, <2>5 DEF HitInv
<1>8. ASSUME NEW c \in Clients, NEW v \in Urls, RefreshDelete(c, v) PROVE HitInv'
  <2>1. /\ UNCHANGED run
        /\ value' = [value EXCEPT ![v].hits = 0]
        /\ refresh' = [refresh EXCEPT ![c] = [url |-> v, live |-> TRUE]]
        /\ refresh[c] = NoRefresh
    BY <1>8 DEF RefreshDelete
  <2>2. /\ \A q \in Runs, u \in Urls : Writes(q, u)' <=> Writes(q, u)
        /\ \A d \in Clients, u \in Urls : u # v => (Refreshes(d, u)' => Refreshes(d, u))
    BY <1>0, <2>1 DEF TypeTable, Writes, Refreshes
  <2>3. value'[v].hits = 0 /\ \A u \in Urls : u # v => value'[u].hits <= value[u].hits
    BY <1>0, <2>1 DEF TypeTable
  <2>4. /\ Cardinality(Refreshing(v)') \in Nat
        /\ Cardinality(Refreshing(v)') <= Cardinality(Clients)
    <3>1. Refreshing(v)' \subseteq Clients
      BY DEF Refreshing
    <3> QED BY <3>1, RefreshingFact, FS_Subset, FS_CardinalityType
  <2>5. \A q, p \in Runs : Writes(q, v)' /\ Writes(p, v)' => q = p
    BY <2>2 DEF HitInv
  <2>6. value'[v].hits + Cardinality(Refreshing(v)')
          + (IF \E q \in Runs : Writes(q, v)' THEN 1 ELSE 0) <= 1 + Cardinality(Clients)
    BY <2>3, <2>4, RefreshingFact
  <2> QED BY <1>1, <2>2, <2>3, <2>5, <2>6 DEF HitInv
<1> QED BY <1>2, <1>3, <1>4, <1>5, <1>6, <1>7, <1>8
        DEF Next, RunStep, DeleteArticle, DeleteTask, DeleteTaskRow

-----------------------------------------------------------------------------
(* The theorems on the walk *)

CrawlInv == IInv /\ WalkInv /\ CountInv /\ RowInv /\ HitInv

\* Before the first run the articles there are were stored by an earlier one.
LEMMA InitCrawlInv == Init => CrawlInv
<1> SUFFICES ASSUME Init PROVE CrawlInv
  OBVIOUS
<1>1. IInv
  BY InitIInv
<1>2. WalkInv
  BY NewRunFact DEF Init, WalkInv, Resting
<1>3. CountInv
  BY CrawlerArticlesAssumption DEF Init, CountInv
<1>4. RowInv
  BY NoFacts DEF Init, RowInv
<1>5. HitInv
  <2> SUFFICES ASSUME NEW u \in Urls
               PROVE  /\ \A r \in Runs : ~Writes(r, u)
                      /\ Refreshing(u) = {} /\ value[u].hits \in 0..1
    BY FS_EmptySet, RefreshingFact DEF HitInv
  <2>1. \A r \in Runs : ~Writes(r, u)
    BY NewRunFact DEF Init, Writes
  <2>2. Refreshing(u) = {}
    BY NoFacts DEF Init, Refreshing, Refreshes
  <2>3. value[u].hits \in 0..1
    BY NoFacts DEF Init, NoValue
  <2> QED BY <2>1, <2>2, <2>3
<1> QED BY <1>1, <1>2, <1>3, <1>4, <1>5 DEF CrawlInv

\* Every step keeps it: each lemma above is of one part.
LEMMA NextCrawlInv == CrawlInv /\ [Next]_vars => CrawlInv'
<1> SUFFICES ASSUME CrawlInv, [Next]_vars PROVE CrawlInv'
  OBVIOUS
<1>0. IInv /\ WalkInv /\ CountInv /\ RowInv /\ HitInv /\ TypeTable /\ RunShape
  BY DEF CrawlInv, IInv
<1>1. IInv' /\ TypeTable' /\ RunShape'
  BY <1>0, NextIInv DEF IInv
<1>2. CountInv' /\ RowInv' /\ HitInv'
  BY <1>0, <1>1, KeepCount, KeepRow, KeepHits
<1>3. WalkInv'
  <2>1. ASSUME NEW r \in Runs, Update(r) PROVE \A u \in Urls : Owned(u)' <=> Owned(u)
    <3>1. r # NoRun
      BY NoFacts
    <3>2. ASSUME NEW u \in Urls, article'[u] # article[u]
          PROVE  Owned(u)' /\ Owned(u)
      <4>1. article' = [article EXCEPT ![u].by = r] /\ u = run[r].url /\ run[r].live
        BY <1>0, <2>1, <3>2 DEF Update, TypeTable
      <4>2. Owned(u)
        BY <1>0, <4>1 DEF IInv, LiveInv
      <4>3. article'[u].by = r
        BY <1>0, <4>1 DEF TypeTable
      <4> QED BY <3>1, <4>2, <4>3, NoFacts DEF Owned
    <3> QED BY <3>2 DEF Owned
  <2>2. ASSUME NEW r \in Runs, WriteValue(r) PROVE \A u \in Urls : Owned(u)' <=> Owned(u)
    BY <2>2 DEF WriteValue, Owned
  <2>3. ASSUME NEW r \in Runs, Ask(r) \/ RunStep(r) PROVE WalkInv'
    BY <1>0, <2>1, <2>2, <2>3, PageWalks, OpenWalks, DetailWalks, StoreWalks, InsertWalks
       DEF RunStep
  <2> QED BY <1>0, <2>3, RestWalks DEF Next
<1> QED BY <1>1, <1>2, <1>3 DEF CrawlInv

\* What every reachable state of the articles and the runs of a task satisfies.
THEOREM CrawlInvariance == Spec => []CrawlInv
<1> QED BY InitCrawlInv, NextCrawlInv, PTL DEF Spec

\* The tables and the records of the runs have their types: an article without
\* a run has neither an edit nor a value, a value has at most one hit more than
\* there are refreshes, and a cursor stays in the template.
THEOREM ArticlesTypeCorrect == Spec => []TypeOK
<1>1. ASSUME CrawlInv PROVE TypeOK
  <2>0. /\ IInv /\ WalkInv /\ CountInv /\ RowInv /\ HitInv /\ TypeTable
    BY <1>1 DEF CrawlInv, IInv
  <2>1. /\ PageEnd \in Nat \ {0} /\ EmptyLimit \in Nat \ {0}
    BY CrawlerArticlesAssumption
  <2>2. \A u \in Urls : article[u].by = NoRun => ~article[u].edited /\ value[u] = NoValue
    <3>1. ASSUME NEW u \in Urls, article[u].by = NoRun PROVE ~Owned(u) /\ ~article[u].edited
      BY <2>0, <3>1 DEF RowInv, TypeTable, Owned, NoArticle
    <3> QED BY <2>0, <3>1 DEF IInv, LiveInv
  <2>3. value \in [Urls -> [hits : 0..(1 + Cardinality(Clients)), miss : BOOLEAN]]
    <3>1. ASSUME NEW u \in Urls PROVE value[u].hits \in 0..(1 + Cardinality(Clients))
      <4>1. value[u].hits \in Nat
        BY <2>0 DEF TypeTable
      <4>2. value[u].hits + Cardinality(Refreshing(u))
              + (IF \E r \in Runs : Writes(r, u) THEN 1 ELSE 0) <= 1 + Cardinality(Clients)
        BY <2>0 DEF HitInv
      <4> QED BY <4>1, <4>2, RefreshingFact
    <3> QED BY <2>0, <3>1 DEF TypeTable
  <2>4. ASSUME NEW r \in Runs
        PROVE
       /\ run[r].at \in {"idle", "asked", "open", "detail", "update", "insert", "values",
                         "done", "over"}
       /\ run[r].seeds \in Seq(Pages) /\ run[r].left \in Seq(Urls) /\ run[r].seen \subseteq Urls
       /\ run[r].trail \in Seq([page : Pages, news : BOOLEAN])
       /\ run[r].page \in Pages \cup {0} /\ run[r].next \in 0..(PageEnd + 1)
       /\ run[r].depth \in Nat /\ run[r].empties \in 0..EmptyLimit
       /\ run[r].url \in Urls \cup {NoUrl} /\ {run[r].live, run[r].failed} \subseteq BOOLEAN
    <3>1. PICK rec : rec = run[r]
      OBVIOUS
    <3>2. CASE rec.at \in Resting /\ rec = NewRun(rec.at)
      <4>1. /\ rec.at \in {"idle", "asked", "over"}
            /\ rec.seeds = <<>> /\ rec.left = <<>> /\ rec.seen = {} /\ rec.trail = <<>>
            /\ rec.page = 0 /\ rec.next = 0 /\ rec.depth = 0 /\ rec.empties = 0
            /\ rec.url = NoUrl /\ rec.live = FALSE /\ rec.failed = FALSE
        BY <3>2 DEF Resting, NewRun
      <4>2. /\ <<>> \in Seq(Pages) /\ <<>> \in Seq(Urls)
            /\ <<>> \in Seq([page : Pages, news : BOOLEAN])
        OBVIOUS
      <4>3. 0 \in 0..(PageEnd + 1) /\ 0 \in 0..EmptyLimit
        BY <2>1
      <4>4. /\ rec.seeds \in Seq(Pages) /\ rec.left \in Seq(Urls) /\ rec.seen \subseteq Urls
            /\ rec.trail \in Seq([page : Pages, news : BOOLEAN])
        BY <4>1, <4>2
      <4>5. /\ rec.at \in {"idle", "asked", "over"}
            /\ rec.page \in Pages \cup {0} /\ rec.next \in 0..(PageEnd + 1)
            /\ rec.depth \in Nat /\ rec.empties \in 0..EmptyLimit
            /\ rec.url \in Urls \cup {NoUrl}
        BY <4>1, <4>3
      <4>6. {rec.live, rec.failed} \subseteq BOOLEAN
        BY <4>1
      <4> QED BY <3>1, <4>4, <4>5, <4>6
    <3>3. CASE Walking(config, Reachable, Kept, rec)
      <4>1. rec \in Records
        BY <3>3 DEF Walking, Facing, Staged, Ended, Sited
      <4> QED BY <2>1, <3>1, <4>1 DEF Records, OnPage
    <3> QED BY <2>0, <3>1, <3>2, <3>3 DEF WalkInv
  <2> QED BY <2>0, <2>2, <2>3, <2>4 DEF TypeOK, TypeTable, CountInv
<1> QED BY <1>1, CrawlInvariance, PTL

\* A run that ended without a failure has come to every page it could, unless the
\* depth limit or the count of empty pages stopped it, and every article of the
\* pages it came to is stored, or was stored and deleted since: for any pages
\* and links, also such that lead back (run_task in crawler/engine.rs).
THEOREM CollectsHold == Spec => []CollectsAll
<1>1. ASSUME CrawlInv PROVE CollectsAll
  <2> SUFFICES ASSUME NEW r \in Runs, run[r].at = "done", ~run[r].failed
               PROVE  /\ \A p \in Visited(run[r]) : Range(Links[p]) \subseteq OwnedUrls \cup removed
                      /\ \/ Visited(run[r]) = Reachable
                         \/ config.depth > 0
                         \/ ~config.force /\ GaveUp(run[r].trail)
    BY DEF CollectsAll
  <2>0. config \in Configs /\ config.mode \in {"dom", "pure", "mixed"}
    <3>1. config \in Configs
      BY <1>1 DEF CrawlInv, CountInv
    <3> QED BY <3>1, CrawlerArticlesAssumption
  <2>1. PICK rec : rec = run[r]
    OBVIOUS
  <2>2. Ended(config, Reachable, Kept, rec)
    BY <1>1, <2>1, WalkFact DEF CrawlInv, Walking, Resting, OnPage
  <2>3. \A p \in Visited(rec) : Range(Links[p]) \subseteq OwnedUrls \cup removed
    BY <2>1, <2>2, RangeOfEmpty DEF Ended, Stored, Kept
  <2>4. CASE Excused(config, rec.trail, Len(rec.trail))
    BY <2>1, <2>3, <2>4 DEF Excused, GaveUpBy, GaveUp
  <2>5. CASE /\ rec.seeds = <<>> /\ Met(config, rec, {})
             /\ config.mode # "dom" => rec.next > PageEnd
    <3>1. Visited(rec) \subseteq Reachable /\ Reachable \subseteq Pages
      BY <2>0, <2>2, ReachableFact DEF Ended, Sited
    <3>2. config.mode # "pure" => Range(Seeds) \subseteq Visited(rec)
      BY <2>5, RangeOfEmpty DEF Met
    <3>3. config.mode # "dom" => 1..PageEnd \subseteq Visited(rec)
      <4>1. rec.next \in Nat /\ PageEnd \in Nat
        BY <2>2, CrawlerArticlesAssumption DEF Ended, Sited, Records
      <4> QED BY <2>5, <4>1 DEF Met
    <3>4. config.mode = "dom" => Closed(Visited(rec))
      BY <2>5 DEF Met, Closed
    <3>5. Reachable \subseteq Visited(rec)
      <4>1. CASE config.mode = "dom"
        <5>1. \A s \in Range(Seeds) : Chain(s) \subseteq Visited(rec)
          BY <3>1, <3>2, <3>4, <4>1, ChainIsLeast
        <5> QED BY <4>1, <5>1 DEF Reachable
      <4>2. CASE config.mode # "dom"
        BY <2>0, <3>2, <3>3, <4>2 DEF Reachable
      <4> QED BY <4>1, <4>2
    <3> QED BY <2>1, <2>3, <3>1, <3>5
  <2> QED BY <2>1, <2>2, <2>4, <2>5 DEF Ended
<1> QED BY <1>1, CrawlInvariance, PTL
=============================================================================
