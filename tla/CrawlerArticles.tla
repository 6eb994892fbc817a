--------------------------- MODULE CrawlerArticles ---------------------------
(***************************************************************************)
(* What the runs of one crawler task do to its articles (run_task and      *)
(* upsert_article_with_fields of crawler/engine.rs), with the requests     *)
(* that edit, refresh and delete them meanwhile (handlers/crawler.rs,      *)
(* crawler/refresh.rs).                                                    *)
(*                                                                         *)
(* A run walks the list pages from each seed, by their pagination links or *)
(* by the page numbers of a template, and gives up a seed after EmptyLimit *)
(* pages in a row without a new article.  Every detail link it has not     *)
(* seen yet is fetched and looked up; a known article is updated, a new    *)
(* one is inserted and its field values after it, without a transaction.   *)
(* One field stands for all: a script field, so it can be refreshed.       *)
(***************************************************************************)
EXTENDS Naturals, Sequences, FiniteSets, SequencesExt

CONSTANTS
  Urls, NoUrl,     \* the detail pages
  Pages,           \* the list pages, by number
  Links,           \* the detail links of a list page
  NextPage,        \* the page its pagination link leads to; 0: no such link
  Seeds,           \* list_urls
  PageEnd,         \* the template makes the pages 1..PageEnd
  Configs,         \* the settings of the task: how it turns pages (by links, by the
                   \* template alone, by the template from its list_urls on),
                   \* force_full_collect, max_pagination_depth
  EmptyLimit,      \* EMPTY_PAGE_LIMIT
  MaxRuns,         \* bounds: runs there ever are,
  Clients,         \* refreshes at once,
  MaxRequests, MaxEvents  \* what users ask for, what goes wrong

ASSUME CrawlerArticlesAssumption ==
  /\ Pages \subseteq Nat \ {0} /\ PageEnd \in Nat \ {0} /\ 1..PageEnd \subseteq Pages
  /\ NoUrl \notin Urls
  /\ Links \in [Pages -> Seq(Urls)] /\ NextPage \in [Pages -> Pages \cup {0}]
  /\ Seeds \in Seq(Pages) /\ Seeds # <<>>
  /\ Configs \subseteq [mode : {"dom", "pure", "mixed"}, force : BOOLEAN, depth : Nat]
  /\ EmptyLimit \in Nat \ {0} /\ IsFiniteSet(Clients)
  /\ {MaxRuns, MaxRequests, MaxEvents} \subseteq Nat

VARIABLES
  config,       \* the settings of the task
  task,         \* its row: live, or gone
  deleting,     \* delete_task between its statements: no, unlink, empty
  article,      \* the article of the task at a url
  value,        \* its rows in crawler_article_field_values: hits, and a miss
  orphans,      \* urls with an article whose task_id is NULL
  run,          \* the runs
  refresh,      \* a refresh between its DELETE and its INSERT: the article's url
  requests, events,
  removed,      \* urls an article of which was deleted or unlinked
  cut,          \* urls the writing of whose value failed or was cut off
  crossed       \* urls with two writers of the value at once

store  == <<task, deleting, article, value, orphans>>
bounds == <<requests, events>>
ghosts == <<removed, cut, crossed>>
vars   == <<config, store, run, refresh, bounds, ghosts>>

Runs == 1..MaxRuns
EarlierRun == MaxRuns + 1
NoRun == 0

NoArticle == [by |-> NoRun, edited |-> FALSE]
NoValue == [hits |-> 0, miss |-> FALSE]
NoRefresh == [url |-> NoUrl, live |-> FALSE]

Owned(u) == article[u] # NoArticle
Running(r) == run[r].at \notin {"idle", "asked", "over"}

\* A run before its first seed.
NewRun(s) == [at |-> s, seeds |-> <<>>, page |-> 0, next |-> 0, depth |-> 0, trail |-> <<>>,
              seen |-> {}, left |-> <<>>, url |-> NoUrl, live |-> FALSE, empties |-> 0,
              failed |-> FALSE]

Template == config.mode # "dom"

Init ==
  /\ config \in Configs
  /\ task = "live" /\ deleting = "no"
  /\ \E known \in SUBSET Urls :
       /\ article = [u \in Urls |-> IF u \in known THEN [NoArticle EXCEPT !.by = EarlierRun] ELSE NoArticle]
       /\ value = [u \in Urls |-> IF u \in known THEN [NoValue EXCEPT !.hits = 1] ELSE NoValue]
  /\ orphans = {}
  /\ run = [r \in Runs |-> NewRun("idle")]
  /\ refresh = [c \in Clients |-> NoRefresh]
  /\ requests = 0 /\ events = 0
  /\ removed = {} /\ cut = {} /\ crossed = {}

Request == requests < MaxRequests /\ requests' = requests + 1 /\ UNCHANGED events
Event == events < MaxEvents /\ events' = events + 1

-----------------------------------------------------------------------------
(* The walk over the list pages *)

\* The pages the run has been to, from any seed.
Visited(rec) == {rec.trail[i].page : i \in DOMAIN rec.trail}

\* The next seed, or the end.
NextSeed(rec) ==
  IF rec.seeds = <<>> THEN [rec EXCEPT !.at = "done"]
  ELSE [rec EXCEPT !.at = "open", !.seeds = Tail(@), !.page = Head(rec.seeds),
          !.next = IF config.mode = "pure" THEN 2 ELSE 1, !.depth = 0, !.empties = 0]

\* next_template_page: the cursor's page, or the seed is done with.
TurnTemplate(rec) ==
  IF rec.next > PageEnd THEN NextSeed(rec)
  ELSE [rec EXCEPT !.at = "open", !.page = rec.next, !.next = @ + 1]

\* find_next_page_url
TurnLink(rec) ==
  IF NextPage[rec.page] = 0 THEN NextSeed(rec)
  ELSE [rec EXCEPT !.at = "open", !.page = NextPage[rec.page]]

\* Mutant: a page with a new article does not restart the count.
EmptiesKept(rec) == IF Last(rec.trail).news THEN rec.empties ELSE rec.empties + 1

\* should_stop_after_page: the pages in a row without a new article.
Empties(rec) == IF Last(rec.trail).news THEN 0 ELSE rec.empties + 1

\* The page is done with: stop early, or go to the next.
Turn(rec) ==
  LET empties == IF config.force THEN rec.empties ELSE Empties(rec)
      counted == [rec EXCEPT !.empties = empties]
  IN  IF ~config.force /\ empties >= EmptyLimit THEN NextSeed(counted)
      ELSE IF Template THEN TurnTemplate(counted) ELSE TurnLink(counted)

\* The details there are, or else the end of the page.
Details(rec) == IF rec.left = <<>> THEN Turn(rec) ELSE [rec EXCEPT !.at = "detail"]

\* What a page that is skipped does to the walk: the template goes on.
Skip(rec) == IF Template THEN TurnTemplate(rec) ELSE NextSeed(rec)

\* max_pagination_depth; the template has its own bound.
TooDeep(rec) == ~Template /\ config.depth > 0 /\ rec.depth >= config.depth

\* The links of a page the run has not seen yet, each once.
NewLinks(rec) ==
  LET links == Links[rec.page]
      first == {i \in DOMAIN links : /\ links[i] \notin rec.seen
                                     /\ \A j \in 1..(i - 1) : links[j] # links[i]}
      rank(i) == Cardinality({j \in first : j <= i})
  IN  [k \in 1..Cardinality(first) |-> links[CHOOSE i \in first : rank(i) = k]]

Step(r, rec) == run' = [run EXCEPT ![r] = rec]

\* The handler's and the scheduler's is_task_running; the run's row comes later.
Ask(r) ==
  /\ run[r].at = "idle" /\ \A q \in 1..(r - 1) : run[q].at # "idle"
  /\ task = "live" /\ \A q \in Runs : ~Running(q)
  /\ Step(r, NewRun("asked"))
  /\ UNCHANGED <<config, store, refresh, bounds, ghosts>>

\* load_task, and the running row.
Begin(r) ==
  /\ run[r].at = "asked"
  /\ LET seeds == IF config.mode = "pure" THEN <<1>> ELSE Seeds
     IN  Step(r, IF task = "gone" THEN NewRun("over")
                 ELSE NextSeed([NewRun("asked") EXCEPT !.seeds = seeds]))
  /\ UNCHANGED <<config, store, refresh, bounds, ghosts>>

Open(r) ==
  /\ run[r].at = "open" /\ ~TooDeep(run[r]) /\ run[r].page \notin Visited(run[r])
  /\ LET links == NewLinks(run[r])
         rec == [run[r] EXCEPT !.depth = @ + 1,
                   !.trail = Append(@, [page |-> run[r].page, news |-> FALSE])]
     IN  \/ /\ Step(r, Details([rec EXCEPT !.left = links, !.seen = @ \cup Range(links)]))
            /\ UNCHANGED events
         \/ \* the page cannot be fetched
            Event /\ Step(r, Skip([rec EXCEPT !.failed = TRUE]))
         \/ \* the site blocks the crawler
            Event /\ Step(r, NextSeed([rec EXCEPT !.failed = TRUE]))
  /\ UNCHANGED <<config, store, refresh, requests, ghosts>>

\* A page seen before, from this seed or another.
OpenAgain(r) ==
  /\ run[r].at = "open" /\ ~TooDeep(run[r]) /\ run[r].page \in Visited(run[r])
  /\ Step(r, Skip([run[r] EXCEPT !.depth = @ + 1]))
  /\ UNCHANGED <<config, store, refresh, bounds, ghosts>>

OpenTooDeep(r) ==
  /\ run[r].at = "open" /\ TooDeep(run[r])
  /\ Step(r, NextSeed(run[r]))
  /\ UNCHANGED <<config, store, refresh, bounds, ghosts>>

\* The row of the run is ended and the task given its next time.
Finish(r) ==
  /\ run[r].at = "done"
  /\ Step(r, NewRun("over"))
  /\ UNCHANGED <<config, store, refresh, bounds, ghosts>>

-----------------------------------------------------------------------------
(* upsert_article_with_fields *)

\* The detail is done with.
DetailDone(rec) == Details([rec EXCEPT !.left = Tail(@), !.url = NoUrl, !.live = FALSE])

\* Mutant: a detail that failed is tried again.
DetailRetried(rec) == [rec EXCEPT !.at = "detail", !.url = NoUrl, !.live = FALSE, !.failed = TRUE]

\* Fetching it or storing it failed: the run goes on.
DetailFails(rec) == DetailDone([rec EXCEPT !.failed = TRUE])

\* Fetch the detail page, unless that fails, and SELECT the article.
Detail(r) ==
  /\ run[r].at = "detail"
  /\ LET u == Head(run[r].left)
     IN  \/ /\ Step(r, [run[r] EXCEPT !.url = u, !.live = Owned(u),
                                      !.at = IF Owned(u) THEN "update" ELSE "insert"])
            /\ UNCHANGED events
         \/ Event /\ Step(r, DetailFails(run[r]))
  /\ UNCHANGED <<config, store, refresh, requests, ghosts>>

\* Mutant: the update does not ask for is_edited = 0.
UpdateEdited(r) ==
  /\ run[r].at = "update"
  /\ article' = IF run[r].live THEN [article EXCEPT ![run[r].url].by = r] ELSE article
  /\ Step(r, DetailDone(run[r]))
  /\ UNCHANGED <<config, task, deleting, value, orphans, refresh, bounds, ghosts>>

\* Mutant: the values are written for a known article as well.
UpdateWithValues(r) ==
  /\ run[r].at = "update"
  /\ Step(r, [run[r] EXCEPT !.at = "values"])
  /\ article' = IF run[r].live /\ ~article[run[r].url].edited
                THEN [article EXCEPT ![run[r].url].by = r] ELSE article
  /\ UNCHANGED <<config, task, deleting, value, orphans, refresh, bounds, ghosts>>

\* UPDATE ... WHERE id = ? AND is_edited = 0
Update(r) ==
  /\ run[r].at = "update"
  /\ LET u == run[r].url
     IN  \/ /\ article' = IF run[r].live /\ ~article[u].edited
                          THEN [article EXCEPT ![u].by = r] ELSE article
            /\ Step(r, DetailDone(run[r]))
            /\ UNCHANGED events
         \/ Event /\ Step(r, DetailFails(run[r])) /\ UNCHANGED article
  /\ UNCHANGED <<config, task, deleting, value, orphans, refresh, requests, ghosts>>

\* INSERT: refused by the unique index when another run was faster, and by the
\* foreign key when the task is gone.
Insert(r) ==
  /\ run[r].at = "insert"
  /\ LET u == run[r].url
     IN  \/ /\ ~Owned(u) /\ task = "live"
            /\ article' = [article EXCEPT ![u] = [by |-> r, edited |-> FALSE]]
            /\ Step(r, [run[r] EXCEPT !.at = "values", !.live = TRUE,
                          !.trail[Len(run[r].trail)].news = TRUE])
            /\ cut' = cut \ {u} /\ crossed' = crossed \ {u}
            /\ UNCHANGED events
         \/ /\ \/ (Owned(u) \/ task = "gone") /\ UNCHANGED events
               \/ Event
            /\ Step(r, DetailFails(run[r]))
            /\ UNCHANGED <<article, cut, crossed>>
  /\ UNCHANGED <<config, task, deleting, value, orphans, refresh, requests, removed>>

\* write_field_values: a hit or a miss; an INSERT that fails is passed over.
WriteValue(r) ==
  /\ run[r].at = "values"
  /\ LET u == run[r].url
     IN  \/ /\ \/ value' = [value EXCEPT ![u].hits = @ + 1]
               \/ value' = [value EXCEPT ![u].miss = TRUE]
            /\ run[r].live /\ task = "live"
            /\ UNCHANGED <<events, cut>>
         \/ /\ ~run[r].live \/ task = "gone"
            /\ UNCHANGED <<value, events, cut>>
         \/ run[r].live /\ Event /\ cut' = cut \cup {u} /\ UNCHANGED value
  /\ Step(r, DetailDone(run[r]))
  /\ UNCHANGED <<config, task, deleting, article, orphans, refresh, requests,
                 removed, crossed>>

-----------------------------------------------------------------------------
(* Requests: an article *)

\* What works on the article of u by its id no longer finds it, or finds it no
\* longer in the task.
Forget(us) ==
  /\ run' = [r \in Runs |-> IF run[r].url \in us THEN [run[r] EXCEPT !.live = FALSE] ELSE run[r]]
  /\ refresh' = [c \in Clients |-> IF refresh[c].url \in us THEN [refresh[c] EXCEPT !.live = FALSE]
                                   ELSE refresh[c]]
  /\ article' = [u \in Urls |-> IF u \in us THEN NoArticle ELSE article[u]]
  /\ value' = [u \in Urls |-> IF u \in us THEN NoValue ELSE value[u]]

UpdateArticle(u) ==
  /\ Owned(u) /\ Request
  /\ article' = [article EXCEPT ![u].edited = TRUE]
  /\ UNCHANGED <<config, task, deleting, value, orphans, run, refresh, ghosts>>

\* Mutant: the row of the value stays behind (no ON DELETE CASCADE).
DeleteArticleOnly(u) ==
  /\ Owned(u) /\ Request
  /\ article' = [article EXCEPT ![u] = NoArticle]
  /\ removed' = removed \cup {u}
  /\ UNCHANGED <<config, task, deleting, value, orphans, run, refresh, cut, crossed>>

DeleteArticle(u) ==
  /\ Owned(u) /\ Request
  /\ Forget({u})
  /\ removed' = removed \cup {u}
  /\ UNCHANGED <<config, task, deleting, orphans, cut, crossed>>

\* The script has given its new value: DELETE the hits there are.
RefreshDelete(c, u) ==
  /\ refresh[c] = NoRefresh /\ Owned(u) /\ task = "live" /\ Request
  /\ value' = [value EXCEPT ![u].hits = 0]
  /\ refresh' = [refresh EXCEPT ![c] = [url |-> u, live |-> TRUE]]
  /\ crossed' = IF \/ \E d \in Clients : refresh[d] = [url |-> u, live |-> TRUE]
                   \/ \E r \in Runs : run[r].at = "values" /\ run[r].url = u /\ run[r].live
                THEN crossed \cup {u} ELSE crossed
  /\ UNCHANGED <<config, task, deleting, article, orphans, run, removed, cut>>

\* INSERT the new one, unless that fails.
RefreshInsert(c) ==
  /\ refresh[c] # NoRefresh
  /\ LET u == refresh[c].url
     IN  \/ /\ value' = IF refresh[c].live /\ task = "live"
                        THEN [value EXCEPT ![u].hits = @ + 1] ELSE value
            /\ UNCHANGED <<events, cut>>
         \/ refresh[c].live /\ Event /\ cut' = cut \cup {u} /\ UNCHANGED value
  /\ refresh' = [refresh EXCEPT ![c] = NoRefresh]
  /\ UNCHANGED <<config, task, deleting, article, orphans, run, requests,
                 removed, crossed>>

-----------------------------------------------------------------------------
(* Requests: delete_task, statement by statement *)

OwnedUrls == {u \in Urls : Owned(u)}

\* Without cascade_articles the articles lose their task, with it they go.
DeleteTask ==
  /\ task = "live" /\ deleting = "no" /\ Request
  /\ \/ deleting' = "unlink" /\ orphans' = orphans \cup OwnedUrls
     \/ deleting' = "empty" /\ UNCHANGED orphans
  /\ Forget(OwnedUrls)
  /\ removed' = removed \cup OwnedUrls
  /\ UNCHANGED <<config, task, cut, crossed>>

\* DELETE FROM crawler_tasks: ON DELETE SET NULL for what was inserted since.
DeleteTaskRow ==
  /\ deleting # "no"
  /\ task' = "gone" /\ deleting' = "no"
  /\ orphans' = orphans \cup OwnedUrls
  /\ Forget(OwnedUrls)
  /\ removed' = removed \cup OwnedUrls
  /\ UNCHANGED <<config, bounds, cut, crossed>>

DeleteTaskFails ==
  /\ deleting # "no" /\ Event
  /\ deleting' = "no"
  /\ UNCHANGED <<config, task, article, value, orphans, run, refresh, requests,
                 ghosts>>

-----------------------------------------------------------------------------
\* The process stops and starts: the running rows are ended, the runs are gone.
Restart ==
  /\ Event
  /\ cut' = cut \cup {run[r].url : r \in {q \in Runs : run[q].at = "values" /\ run[q].live}}
                \cup {refresh[c].url : c \in {d \in Clients : refresh[d].live}}
  /\ run' = [r \in Runs |-> IF Running(r) \/ run[r].at = "asked" THEN NewRun("over") ELSE run[r]]
  /\ refresh' = [c \in Clients |-> NoRefresh]
  /\ deleting' = "no"
  /\ UNCHANGED <<config, task, article, value, orphans, requests, removed, crossed>>

RunStep(r) ==
  \/ Begin(r) \/ Open(r) \/ OpenAgain(r) \/ OpenTooDeep(r)
  \/ Detail(r) \/ Update(r) \/ Insert(r) \/ WriteValue(r) \/ Finish(r)

Next ==
  \/ \E r \in Runs : Ask(r) \/ RunStep(r)
  \/ \E u \in Urls : UpdateArticle(u) \/ DeleteArticle(u)
  \/ \E c \in Clients : RefreshInsert(c) \/ \E u \in Urls : RefreshDelete(c, u)
  \/ DeleteTask \/ DeleteTaskRow \/ DeleteTaskFails
  \/ Restart

Spec == Init /\ [][Next]_vars

\* A run's task is scheduled, and its requests end in an answer or an error.
FairSpec == Spec /\ \A r \in Runs : WF_vars(RunStep(r))

-----------------------------------------------------------------------------
TypeOK ==
  /\ config \in Configs
  /\ task \in {"live", "gone"} /\ deleting \in {"no", "unlink", "empty"}
  /\ article \in [Urls -> [by : Runs \cup {NoRun, EarlierRun}, edited : BOOLEAN]]
  /\ \A u \in Urls : article[u].by = NoRun => ~article[u].edited /\ value[u] = NoValue
  /\ value \in [Urls -> [hits : 0..(1 + Cardinality(Clients)), miss : BOOLEAN]]
  /\ orphans \subseteq Urls /\ removed \subseteq Urls
  /\ cut \subseteq Urls /\ crossed \subseteq Urls
  /\ \A r \in Runs :
       /\ run[r].at \in {"idle", "asked", "open", "detail", "update", "insert", "values",
                         "done", "over"}
       /\ run[r].seeds \in Seq(Pages) /\ run[r].left \in Seq(Urls) /\ run[r].seen \subseteq Urls
       /\ run[r].trail \in Seq([page : Pages, news : BOOLEAN])
       /\ run[r].page \in Pages \cup {0} /\ run[r].next \in 0..(PageEnd + 1)
       /\ run[r].depth \in Nat /\ run[r].empties \in 0..EmptyLimit
       /\ run[r].url \in Urls \cup {NoUrl} /\ {run[r].live, run[r].failed} \subseteq BOOLEAN
  /\ refresh \in [Clients -> [url : Urls \cup {NoUrl}, live : BOOLEAN]]
  /\ requests \in 0..MaxRequests /\ events \in 0..MaxEvents

(***************************************************************************)
(* An article has its field's value, once: there is no second chance, as   *)
(* only the run that inserts an article writes its values, after it, and   *)
(* a refresh deletes before it inserts.  None is missing but where a       *)
(* statement failed or the process stopped in between, and none is double  *)
(* but where two of them ran at once.                                      *)
(***************************************************************************)
ValuesAccounted ==
  \A u \in OwnedUrls :
    /\ value[u] = NoValue =>
         \/ u \in cut
         \/ \E r \in Runs : run[r].at = "values" /\ run[r].url = u /\ run[r].live
         \/ \E c \in Clients : refresh[c] = [url |-> u, live |-> TRUE]
    /\ value[u].hits > 1 => u \in crossed

(***************************************************************************)
(* What a user edited no run writes over, wherever the edit falls between  *)
(* the run's SELECT and its UPDATE.                                        *)
(***************************************************************************)
EditedKept ==
  [][\A u \in Urls : article[u].edited /\ article'[u].edited => article'[u] = article[u]]_vars

\* The pages a run is to visit when nothing stops it.
Closed(S) == \A p \in S : NextPage[p] \in S \cup {0}
Chain(s) == {p \in Pages : \A S \in SUBSET Pages : s \in S /\ Closed(S) => p \in S}
Reachable == CASE config.mode = "dom"   -> UNION {Chain(s) : s \in Range(Seeds)}
               [] config.mode = "pure"  -> 1..PageEnd
               [] config.mode = "mixed" -> Range(Seeds) \cup 1..PageEnd

\* EmptyLimit pages in a row without a new article.
GaveUp(trail) ==
  \E i \in 0..(Len(trail) - EmptyLimit) : \A j \in 1..EmptyLimit : ~trail[i + j].news

(***************************************************************************)
(* A run without a failure has stored every article of the pages it        *)
(* visited, and visited every page there is, but those behind the depth    *)
(* limit, or behind EmptyLimit pages in a row that had nothing new.        *)
(***************************************************************************)
CollectsAll ==
  \A r \in Runs : run[r].at = "done" /\ ~run[r].failed =>
    /\ \A p \in Visited(run[r]) : Range(Links[p]) \subseteq OwnedUrls \cup removed
    /\ \/ Visited(run[r]) = Reachable
       \/ config.depth > 0
       \/ ~config.force /\ GaveUp(run[r].trail)

\* Every run ends, also on a site whose pages link back.
RunEnds == \A r \in Runs : []<>~Running(r)
=============================================================================
