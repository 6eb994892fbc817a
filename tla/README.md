# TLA+ models of TG Tool

TG Tool is a Rust server (axum, tokio, sqlx over SQLite or PostgreSQL) that collects
Telegram messages, crawls web pages, extracts resources (a title, pan links, a cover
image) from the messages, pushes them to external APIs, moves cover images into Telegram
groups and transfers shared files between pan accounts.  Its logic is a set of tokio
tasks and HTTP handlers that share one database and a few maps behind locks.  Almost
no operation runs in a transaction: each SQL statement commits alone, each call to
Telegram, a pan provider or a push API happens between two of them, and the process
may stop anywhere.  The models make every such statement and call a step of its own.

## Inventory

| Component | State it keeps | Operations | What makes it correct |
|---|---|---|---|
| Image forward queue (`services/forward_queue.rs`) | `forward_tasks`, `image_mappings`, `extracted_resources.img`; one or two workers | `enqueue`, recovery scan, automatic and manual retry, stage 1, stage 2, dead letter | no row sent twice but after a lost receipt; the workers never share a row; every row settles; a cover is cleared only by the last failure |
| Telegram clients (`services/tg_manager.rs`, `tg_auth.rs`, `handlers/client.rs`) | the map of clients, the row's status, the session file, spawned listeners | start, stop, remove, three logins, reconnector, listener's exit | an active client is signed in, listened to and saved, but for a Bot that was only added; no listener out of reach; an offline client comes back |
| Collection and extraction (`message_handler.rs`, `collector.rs`, `resource.rs`, `handlers/collector.rs`) | `collectors`, `collector_histories`, `extracted_resources` | save of a post, full fetch, tick, batch and single extraction, deletion | every history is extracted and what is marked was; no share twice; the start keeps what is distinct |
| Push engine (`services/push_config.rs`, `scheduler.rs`) | `push_configs`, `resource_push_status`, `is_pushed`, `last_run` | tick, trigger, push of one configuration | no second push of a resource to one configuration, none hidden by another one, every resource gets through |
| Link check (`services/link_check.rs`, `link_checker.rs`) | `link_check_results` | check for a push, for a configuration, for a resource; reads by the list | a verdict is never older than its time to live; the newest one stands |
| Pan transfer (`services/transfer.rs`, `staging.rs`, `share.rs`) | `transfer_tasks`, `share_records`, staging files; spawned runs | create, run, retry, clean up, deletion of the account | one task per source; shares recorded; files removed and whole |
| Crawler scheduler (`crawler/scheduler.rs`, `handlers/crawler.rs`) | `crawler_tasks`, `crawler_run_histories`, running set, permits | tick, manual run, edit, toggle, block, delete | marks exact, a block kept, every active task keeps being crawled |
| Crawler articles (`crawler/engine.rs`, `refresh.rs`) | `crawler_articles`, `crawler_article_field_values` | a run's walk, upsert, refresh, edit, delete | articles complete and once; nothing missed but behind the limits; edits stay |
| Field tree (`handlers/crawler.rs`, `crawler_field_node.rs`, `engine.rs`) | `crawler_task_field_nodes` | create, edit, move, delete, reorder, export and import; the tree a run loads | a tree whose rows a run sees, whose values meet their articles, which a copy keeps |
| Scheduler lifecycle (`scheduler.rs`, `handlers/push.rs`) | running flag, handle, cancellation token, options | start, stop, update of the interval, exit of a worker | one worker, which the state knows, with the interval of the options |
| Push configurations (`push_config.rs`, `main.rs`) | `push_configs`, their collectors and statuses | create, update, copy, toggle, delete, the migration at the start | a configuration is what its requests made it; nothing counts as pushed that was not |
| Rules and forwarder (`message_handler.rs`, `forwarder.rs`, `handlers/rule.rs`) | `rules`, `messages`, `collectors` | a message heard by a client; edits of rules and collectors | one copy per rule, account and time that Telegram tells the account of the message, recorded; one collector per channel |
| Text extraction (`extractor.rs`, `ai_extractor.rs`) | the counter of the endpoints | rules, AI with fallback, merge | no link is lost but behind the first `|` of joined ones; the rules stand in only when no model answers |
| Pan accounts (`pan_account.rs`) | `pan_accounts`, the key that seals credentials | create, update, check, delete | status and credential belong together |
| Pan provider (`pan/quark.rs`) | the drive's folder and tasks | save a share, upload, share | what a run says and what it left on the drive agree |
| Image proxy (`image_proxy.rs`) | cached files, marks of downloads | serve, download | a file that is not whole has a writer; a mark has a download |
| Bot commands (`bot_command.rs`) | cursor and back-off of each bot | tick | a command is answered once, and again only after a restart that finds it young |
| API keys (`api_key.rs`, `middleware/api_key.rs`) | `api_keys` | issue, revoke, rotate, a call | no call uncharged; one usable key of a line of rotations |
| Crawler image uploader (`crawler/image_uploader.rs`) | upload status and back-off | tick, upload, fail | - (its table is never filled) |
| Users, sessions, options | rows written one at a time | CRUD | - |
| Page extraction (selectors, expressions, scripts, probes, templates) | none | pure functions of pages | - |
| Web interface (`web/`) | none the server relies on | - | - |

How they interact.  A client's listener hands each post to the message handler, which
stores a history and forwards it by the rules.  The extraction reads histories, stores
resources and calls `enqueue` for a photo; the forward queue settles the cover (a
mapping, or a cleared `img`); the push engine reads resources, covers and link verdicts
(it runs the link check inside a push) and records what it pushed.  The crawler's
scheduler starts runs, a run loads the field tree and stores articles.  All of it goes
through tables, never through messages.  The schedulers are loops of `sleep`, scan,
work; the administration pages call the same functions from concurrent handlers.

| Interaction | Where it is composed |
|---|---|
| extraction queues a photo | `ForwardQueue` (`EnqueueCheckMapping` .. `EnqueueInsert`, any number of producers); `Collection` records that it was queued |
| covers settle, and the push waits for them | `PushEngine` (`CoverSettles`, `CoverRequeued`), the effect `Settles` of `ForwardQueue` promises |
| the push checks links | `LinkCheck` has the check and the push around it; `PushEngine` keeps the classification and one verdict per resource |
| resources are stored and deleted under a push | `PushEngine` (`Extract`, `DeleteResource`) |
| a collector is deleted under the listener, a fetch and an extraction | `Collection` |
| the scheduler starts runs; runs write articles | `CrawlerSchedule` decides when, `CrawlerArticles` what; the second allows any two runs of a task to overlap, since the first shows that they may |
| a run loads the tree that requests edit | `FieldTree` |
| a push reads a configuration that requests edit | `PushConfigs`, with a push in two steps; `PushEngine` has the steps of a push of configurations that stay |
| a transfer calls the drive | `PanTransfer` takes each of the three calls as one step that may fail; `PanDrive` has what happens in them |
| a request restarts a scheduler that works | `Schedulers` has the workers; `PushEngine` and `Collection` what an abort cuts off |

What is hard about it: receipts lost between a remote call and the statement that
records it; SELECTs whose rows are acted on later by id alone; two tasks doing the same
thing because the check and the write are two statements; answers that belong to a
connection or a row which has been replaced meanwhile; recovery scans that move a
row under a worker that still has it; errors that are logged and dropped; and batches
with a LIMIT whose head never goes away.  `PROJECT.json` lists these under "hazards",
each at its line with the properties that watch it.

## The modules

Each component module declares its parameters, assumes of them what the code justifies, and has
one action per statement, call or section under a lock.  `MC<Module>` extends it with the
values of the instance, `<Module>Proofs` with its theorems.  Ghost variables count what the
code itself cannot know (what Telegram really received) or name the losses an invariant is
stated relative to; no guard of a code action reads one.

### ForwardQueue, and the promise ImageDelivery

`ForwardQueue` has one function per column of `forward_tasks` (`status`, `remote_id`,
`hasMsgId` for `image_message_id IS NOT NULL`, `hasFileId` for `file_id`,
`retry_count`, and `age` for `updated_at`: this second, earlier, or past the threshold
of the scan), the mapped images, the images some resource shows, where each worker is
(`pc`, `held`), and where each `enqueue` call is.  `albumsA` and `forwardsB` count what
reached Telegram for a row; `orphanA` and `orphanB` the part of it whose receipt was
lost.  They count by row: two rows of one image, which two crossing calls of `enqueue`
may insert, are two deliveries, each of which is posted.

| Action | Code |
|---|---|
| `EnqueueCheckMapping`, `EnqueueCheckQueue`, `EnqueueInsert`, `EnqueueFails` | `enqueue`, one action per layer |
| `RecoverUnsent` .. `RecoverForwarded`, `RecoverAborts` | the five statements of `recover_stuck_tasks`, in order, and an error in one of them |
| `SelectFailed`, `Revive` | `retry_eligible_failed`: the SELECT, then one UPDATE per row |
| `RetryTask`, `RetryAllFailed` | the administration page |
| `FetchAwaitingBot`, `FetchPending`, `FetchFails` | `process_next_task`, `process_stage1_task`, `process_stage2_task` |
| `SendAlbum`, `PersistStage1`, `MarkAwaitingBot` | `execute_stage1` |
| `Forward`, `PersistStage2`, `SaveMapping`, `MarkForwarded` | `execute_stage2` |
| `MarkFailed` | `mark_task_failed`, one transaction |
| `Crash`, `Age` | the end of the process or an abort by `stop_forward_scheduler`, then the start; the clock |

`ImageDelivery` is what the queue promises for each item: queued, posted, delivered, in
that order and once, or dropped after so many failed attempts.  `ForwardQueue` in single
mode implements it (`ImplementsDelivery`) with a mapping that reads only the receipts of
a row: a delivered row keeps its phase whatever its status still goes through; this is
proved as well as checked (`SingleModeDelivers`).  In dual
mode the refinement is not claimed: the scan may return a row that worker B is still
forwarding to `awaiting_bot`, and both the late receipt and a second forward then land.

### TelegramClients

One client of the program, since clients share nothing: its row (`row`, the status, "deleted",
or "added": a Bot's row, which `add_client` inserts as active although nobody has signed in and
there is no session file) and session file (`session`), its entry in the map `tg_clients`
(`entry`: the status, the connection, the listener's handle, the two login tokens), the
connections signed in (`authed`), the listeners spawned and what each does (`listener`), those
whose handle the spawned helper has still to store (`storing`), and what each process does next
with which connection (`at`, `job`).  The processes are the administrators' requests and the
reconnector, which first runs `reconnect_on_startup` (`booting`).  A section under the map's
lock is one step; a call to Telegram or a statement is another.

| Action | Code |
|---|---|
| `StartClient`, `Connect`, `ConnectFails`, `SpawnListener`, `InsertEntry`, `WriteRow` | `start_client`: the check under one lock, the connection, the spawn, the insert under another lock |
| `StopClient`, `StopEntry`, `RemoveClient`, `RemoveEntry`, `DeleteRow` | `stop_client`, `remove_client` and the handler's DELETE |
| `RequestLoginCode`, `SubmitCode`, `SubmitPassword`, `BotSignIn`, `SignedIn`, `PasswordRequired`, `SignInRejected`, `SignInFails`, `SaveSession`, `ActiveRow`, `Activate` | `tg_auth.rs`: the tokens taken from the entry, the answer, then session, row and entry one after the other |
| `StoreHandle`, `ListenerGivesUp`, `MarkOffline`, `RecordOffline` | the listener's helper task and its exit |
| `ReconnectTick`, `ReconnectStart`, `Restart` | the 30 s loop, `reconnect_on_startup`, the end of the process |

Three ghosts name the losses: `lost` (a listener whose handle was dropped while it runs),
`crossed` (a step meant for one generation of the entry hit another one) and `halfGone`
(a removal deleted the session file and not the row).

### Collection

One channel with a few posts.  `collector` and `history` are the rows, `stored` counts
the resources a post has for each draft, `queued` are the posts whose photo is in the
forward queue.  `posted` is the channel; `saving` and `fetching` are what a listener and
`full_collect` have yet to write; `on` is the extraction's switch; `rec` is where each of
the three kinds of extraction is with each history of its batch, since a batch runs its
records concurrently; `at` is the statement a request for a collector has come to.

| Action | Code |
|---|---|
| `CreateCheck`, `CreateInsert`, `Toggle` | `handlers/collector.rs` |
| `DeleteResources`, `DeleteHistories`, `DeleteRow`, `RequestBreaks` | `delete_collector`, three statements, any of which a foreign key or an error may stop |
| `Post`, `SaveRealtime` | a post, and the message handler's save |
| `FetchHistory`, `WriteBatch`, `FetchBreaks` | `full_collect` and its batches |
| `ExtractTick`, `ExtractResources`, `ExtractSingle` | the scheduler's tick, a requested batch, one history |
| `Check`, `Insert`, `Enqueue`, `Mark`, `HangUp` | one record: `insert_resource`'s look-up and its INSERT for each draft, the photo, the mark; the caller goes away |
| `UpdateConfig`, `DeleteResource`, `Restart` | the scheduler is aborted and started; a resource is deleted; the process ends, and the start runs migration 006 |

`overlapped`, `repeated`, `gone` and `uncovered` name what the properties except: shares
two inserts raced for, posts extracted twice, drafts refused or deleted, photos that could
not be queued.  The drafts an extraction makes of a post are an arbitrary choice among
`Results`; how the rules and the AI make them is in `Extraction`.

### PushEngine

The resources (`link`, `cover`), the two records of a push (`pushed` per configuration, and the
shared `isPushed`), and where each pusher is: the scheduler and the callers of the trigger
endpoints.  A push keeps the batch it selected while the world goes on: `Select`
(configuration, candidates, classification by rows, or all candidates when the classification
fails), `Classify` (link verdicts), `Send`, `MarkPushed`, `InsertPushStatus` row by row.
`received` and `lost` count what the API of a configuration accepted and what of it was never
recorded; `overlapped` are the configurations two pushes ever worked on at a time.  `Extract`,
`LinkDies`, `CoverSettles`, `CoverRequeued` and `DeleteResource` are the rest of the program,
each the effect its code has on these tables.

### LinkCheck

The links that do not work (`dead`), the cache (`cache`: verdict and hours left until
`expires_at`), the two records of a push (`pushed`, `isPushed`), and each check: `at`,
the links it has to ask about (`todo`), the answers it has not saved (`answer`), the time
it gives them (`expires`), the push's batch and the statuses it was told (`batch`,
`result`).  Links are spelled in many ways: `Norm` is `normalize_url`.

| Action | Code |
|---|---|
| `CallCheck`, `StartPush` | `check_links_for_config`, `check_resource_links`, the push's call with its candidates |
| `Answered`, `Save` | `check_urls_batch`: one chunk of PanCheck's answers, then one statement per link |
| `Push`, `PushUnchecked`, `PushRefused`, `PushedElsewhere` | what the push does with the statuses; the check is off; the API refuses; another configuration pushes |
| `HangUp`, `Restart` | a request or the process ends |
| `Dies`, `ComesBack`, `Hour` | the world and the clock |

`deadAgo` and `worksAgo` are the hours since a link was last dead or last worked;
`newest` is the newest verdict on a link, or "lost" if two checks had verdicts on it at a
time, or a save failed or was cut off.

### PanTransfer

The rows of `transfer_tasks`, the staging file of each task (who truncated it last, and
whether it is whole), the runs alive (`at`, `on`, `read`) and the requests being
served.  `Find` spawns a run for a task of any status, as both handlers do; `Insert` is
refused by the unique index or by the missing account.  `made`, `recorded` and `lost`
count shares.  Four sets remember what befell a task: `cut` (its run or request ended
without settling it), `overlapped` (two runs at once), `truncated` (a share of a file
that was not whole) and `broken` (a staging file whose run broke off); the properties
are stated relative to them, so they say exactly when the code goes wrong.

### CrawlerSchedule

The columns of `crawler_tasks` that decide whether a task runs, the number of `running`
rows each task has in `crawler_run_histories`, the scheduler (`marked`, the set of
running tasks; `todo`, the due tasks it has yet to visit; `checking`, the one it has just
marked; `tick`, the semaphore the tick made), the runs alive (`at`, `task`, `of` for the
tick a run came from, `row`, `bad` for its verdict) and the row that an edit has read
(`draft`).  `leaked` counts running rows that no run will end, `panicked` are the tasks
whose scheduled run panicked.

| Action | Code |
|---|---|
| `Scan`, `Mark`, `Check` | the loop of `tick`: due tasks, the set, `is_task_running` and the spawn |
| `Acquire`, `Unmark` | the spawned task before and after `run_task` |
| `Begin`, `Crawl`, `Finish`, `Schedule`, `Panic` | `run_task` of the engine: load and running row, crawl and verdict, end of the row, next time and block; a panic in between |
| `ManualRun`, `UpdateRead`, `UpdateWrite`, `Toggle`, `DeleteTask` | `handlers/crawler.rs`; an edit reads the row and writes all of it later |
| `Restart`, `Time` | the end of the process and the two recoveries at its start; the clock |

### CrawlerArticles

The articles of one task: who inserted each and whether a user edited it (`article`), the
rows of its field values (`value`), the task's row and where its deletion is (`task`,
`deleting`), articles left without a task (`orphans`), the runs (`run`: a record with the
seeds and links to come, the page, the depth, the count of pages without a new article)
and the refreshes between their DELETE and INSERT (`refresh`).  A run walks the list
pages in one of three ways of turning them (`config.mode`).

| Action | Code |
|---|---|
| `Ask` and the steps of `RunStep` | `run_task`: the seeds, one list page with its detail links, the turn of the page with the early stop; per link the look-up, the UPDATE or the INSERT, the values |
| `UpdateArticle`, `DeleteArticle`, `DeleteTask`, `DeleteTaskRow`, `DeleteTaskFails` | `handlers/crawler.rs` |
| `RefreshDelete`, `RefreshInsert` | `refresh.rs` |
| `Restart` | the process ends, and with it its runs |

`removed`, `cut` and `crossed` name deleted articles, values whose writing failed or was
cut off, and values with two writers at once.

### FieldTree

The rows of `crawler_task_field_nodes` by id (`node`), the requests between their checks
and their write (`req`), whether task 1 was exported and imported as task 2 (`copied`).
`CreateFieldNode`, `UpdateFieldNode`, `DeleteFieldNode` and `ReorderFieldNodes` are the
checks of the handlers, `InsertNode`, `UpdateNode`, `DeleteNode`, `ReorderNode` their
statements, `RequestBreaks` a request that ends in between, `CopyTask` the import.
What a run makes of the rows is an operator: the tree of `from_rows`, the walk of
`extract_layer` over the materials it cuts, and `pair_list_card_fields_for_url`, which
gives each article the values of its card by the number in the material's name.  `Found`
says how many elements a field finds in a fragment; it stands for every selector and
expression.  `raced` and `moved` are the tasks in which two requests crossed or a node
was moved with its children.

### The services of MCServices

Nine more modules and `FieldTree` model services that share no state with each other, so
one instance, `MCServices`, has them all: a behaviour chooses one (`part`), and the others
stay as they begin. Their parameters are constants of the modules as everywhere, and the
names of their variables differ, so that they can be extended together.

| Module | State | Actions and code |
|---|---|---|
| `PushConfigs` | `row`, `link`, `marked`, `named` (histories), `job` (requests between statements), `boot`, `push` | `StartCreate` .. `StartDelete` begin a request, `Insert`, `ReadLinks`, `InsertLink`, `UpdateRow`, `ClearLinks`, `Detach`, `DeleteRow` are its statements, `Toggle` is one; `BootCount` .. `BootStatuses` the migration in `main.rs`; `PushRead`, `PushSend` a push; `DeleteCollector` takes a collector with its links and its resource away (`removed`) |
| `Routing` | `rule`, `record`, `gatherer`, `stored`, `post` (messages in the chats), `work` (a listener's place), `told` (how often a listener was told of a message) | `Receive`, `Forward`, `Record`, `Collect`, `SaveHistory`: `handle_new_message`, statement by statement; `CreateRule` .. `DeleteRule`; `CheckChannel`, `WriteCollector`: count, then write; `StartListener` connects with `catch_up` from the session that the login saved, so that messages since then come again |
| `Extraction` | `pool` (endpoints), `turn` (their counter), `task` | operators for the rules (`RuleResources`), an item of an answer (`Resource`, which joins an array of links to one url) and the merge of an answer (`Merged`); `Choose`, `CallFails`, `CallAnswers`: the three tries |
| `PanAccounts` | `pan`, `seal`, `honoured`, `ask` | `InsertAccount`, `WriteAccount`, `ReadCredential`, `Judge`, `SaveVerdict`: a request and its check; `Reboot` may change the key |
| `PanDrive` | `folder`, `dirs` (how many of it are directories, which are listed first), `worker`, `chore` (the drive's task) | `ReadShare` .. `PollSave`, `StartUpload` .. `FindFid`, `ShareAtOnce` .. `SharePassword`: the three calls; `ChoreEnds`, `SomeoneUploads`, `ShareRefused`: the drive |
| `ImageProxy` | `content`, `writer`, `pen`, `inflight`, `view` | `Look`, `LookForMark`, `Claim`, `Wait`, `Read`, `OpenFile`, `Written`, `Release`; `LeaveViewer` drops the handler at an await, while the thread that writes goes on |
| `BotCommands` | `updates`, `cursors`, `resting`, `loop`; `replies`, `restarts` (starts that found an update young) | `BeginTick`, `NextBot`, `Polled`, `PollFails`, `SendReply`, `RestartListener` |
| `ApiKeys` | `apiKey`, `deal` | `MakeCall`, `ReadQuota`, `Charge`, `Serve`: a call; `Rotate`, `Disable`, `Reissue`; `Revoke` |
| `Schedulers` | `option`, `running`, `handle`, `workers`, `tuning` | `Save`, `ReadOptions`, `StopForRequest`, `StartForRequest`: a request, lock by lock; `Tick`, `Exit`: a worker |

As in the other modules, ghosts name the losses the properties except, each after what it
stands for: `mixed` (two requests on one configuration overlapped), `unrecorded`,
`contested`, `entangled`, `forsaken`, `doubled`, `tangled`, `halved`, `cleared`.

## The runs

| Run | Instance | What it shows |
|---|---|---|
| ForwardSingle | 1 image, 2 producers, 2 rows, limit 2, 1 crash, fair | no row posted or forwarded twice but after a lost receipt; dead letters; the refinement of ImageDelivery; both rows settle, whichever stage the worker prefers |
| ForwardDual | 1 row, two workers, 2 faults, 1 crash, fair | the workers never hold one row; the row settles |
| PanTransfer | 2 keys, 2 requests at once of 3, 2 runs, 1 fault, 1 crash, fair | ownership of tasks, shares and files; every task settles unless cut |
| PushEngine | 2 configurations, 2 resources, scheduler and caller, 1 deletion, 1 cut | no double push but after an overlap or a loss; configurations independent |
| PushEngineLive | the scheduler, batch of 2, 1 unpushable resource, 1 fault, fair | every pushable resource gets through |
| CrawlerSchedule | 2 tasks, 2 runs at once, 1 permit, 1 manual run, edit, fault or crash, fair | the marks are exact; blocks are kept; an active task keeps being crawled |
| TelegramClients | 1 request at a time of 2, 4 connections, 5 listeners, 1 fault, 1 restart, fair | an active client is signed in, listened to, saved, also when a Bot was only added; listeners within reach; an offline client comes back |
| Collection | 2 posts of one share, 3 drafts, 2 requests, 1 fault or restart, fair | what is marked was extracted; no share twice; nothing waits for ever |
| CollectionStart (violation) | the same | the next start deletes a resource that has no url, as if it were a duplicate |
| CrawlerArticles | 4 list pages, 2 articles, 4 settings, 2 runs, 1 request, 1 failure, fair | values complete and once; a run misses nothing but behind its limits; edits stay; runs end |
| Services | see below; one service in each behaviour | what each of the ten services promises (`RowsAccounted` .. `SchedulersAccounted`) |
| LinkCheck | 1 resource with 2 links and 3 spellings, push and caller, 1 change, 1 request, 1 fault, TTL 1, fair | no verdict outlives its time to live; the newest stands; a revived resource is pushed |

CollectionStart is the one disagreement with a text of the repository that a run shows:
`migrations/006_dedup_extracted_resources_sqlite.sql:1` says that it removes the
resources that repeat a url; it also removes every one that has none, at every start.

### Bounds, and why they are enough

Two rows are enough for the order of ids, for the choice between the stages and for two rows of
one image; a limit of two retries has a failure below it and one at it (the code's limit,
`MAX_RETRIES`, is 5, and the theorems hold for every limit). One fault and one crash meet every
statement, since each is nondeterministic about where it falls; liveness of the two workers
takes two faults, so that a row can fail up to its limit and be given up by failing statements
alone. Starvation (SC-003) needs one worker and a row in each stage: ForwardSingle has two
rows, and with them stage 1 of one waits while stage 2 of the other fails and comes back; in
its mutant the worker prefers the other stage. Two runs and two requests are what a race of two
needs; three requests let a retry meet a race. Two resources and a batch of one or two make the
LIMIT bite or not.

A client's request takes a connection and at most one listener; with two requests, the
reconnector and a restart, four connections and five listeners never run out in a way that
hides a step. Codes and passwords that complete a login do not count as requests, so a
login in two or three parts fits in `MaxRequests`. The posts of `Collection` are two so
that both race for one share; one of them ends in a draft without a url, and one has a
photo. The pages of `CrawlerArticles` start at the third, list an article twice, hold one
empty page, and link back to the first; `EmptyLimit` is 2 (the code's is 3), so that the
walk gives up before the four pages end; the four settings are the three ways of turning
pages, one with a depth limit and one forced.

Services gives each service two requests (viewers, runs, extractions, listeners) that may
cross, one fault and one restart. In `FieldTree` the limit of fields is 4 (the code's is 100),
so that two crossing requests pass it; the first tree has three levels and the second one
top-level siblings, an inactive script and both scopes. The two chats of `Routing` have a rule
in each direction; one account hears both of them and another one the second, so that one
message is heard by two, and a start may tell each again of what came. The texts of
`Extraction` are all of two lines and all of three lines with four links, one more than a
message needs to be split; two answers have a title twice, with links that are one text, a
list, and joined with a code before the first `|`; and three pools have two endpoints, three
with one disabled, and none. `PanDrive` has a page of two files and two polls (30 in the code),
`ImageProxy` two looks (60), `BotCommands` answers of one update (100), so that each limit is
met; the one restart of `BotCommands` may fall before and after an answer, the update being
young or old; a quota of `ApiKeys` is one call, with two calls at once.

In `LinkCheck` a TTL of one hour has a verdict that is fresh, one that meets its last hour, and
one that is over; a chunk of one link has two chunks answered at different times.

In the crawler `MaxEvents` is one budget for everything that is not the scheduler's own
course; one event meets every statement of the tick and of both runs, and a block that
falls between the two halves of an edit needs no more. `MaxRows`, `MaxFaults`,
`MaxCrashes`, `MaxRequests`, `MaxUnpushable`, `MaxRequeues`, `MaxDeletes`, `MaxCuts`,
`MaxEvents`, `MaxChanges`, `MaxRuns`, `MaxIds`, `MaxTasks`, `MaxConfigs`, `MaxResources`,
the other bounds declared last in each module but `MaxLooks`, `MaxParts` and `MaxPolls`,
and the size of `Slots` are caps in guards and stand for nothing in the code. Deadlock is
checked in the forward queue, whose timers never stop; the others may run out of budget or
of enabled tasks, and their configurations say CHECK_DEADLOCK FALSE.

Symmetry is declared in Services only (requests, credentials, folders and keys), whose
properties are invariants.  The largest runs have 5.2 million distinct states (PushEngine),
1.5 million (Services), 890,000 (ForwardSingle) and 750,000 (TelegramClients).

### Fairness, and why the code justifies it

- `ForwardQueue`: each worker is weakly fair, because a tokio interval drives it, and so is
  the clock; nobody is bound to enqueue or retry.
- `PanTransfer`: each run and each accepted request is weakly fair: tokio polls what was
  spawned.
- `PushEngine`: the scheduler is weakly fair, and strong fairness says two things about
  its environment: a configuration's interval has passed in some of infinitely many visits
  (the code compares a clock), and an API that is asked for ever accepts at some time. The
  covers in it settle with weak fairness, which is what `Settles` shows of the forward queue.
- `CrawlerSchedule`: the scheduler's timer, each spawned run and the clock are weakly fair.
  With as many runs alive as there are `Slots` the tick waits, which the code never does;
  the runs are fair, so it only waits for one to end.
- `TelegramClients`: each process, the reconnector's timer and each listener are weakly
  fair; connections may fail only `MaxFaults` times. Nobody is bound to log in.
- `Collection`: the extraction's scheduler is weakly fair, and nothing else: a user's
  extraction, a fetch or a deletion may stop half-way for ever.
- `CrawlerArticles`: the steps of each run are weakly fair.
- `LinkCheck`: the steps of a check and the start of a push are weakly fair. `Push` is
  strongly fair, again for an API that accepts at some time. `Hour` is strongly fair only
  because the model holds it up while a check lasts longer than an hour, which its
  timeout of 60 s rules out; time itself is never held up for ever.

## What is proved

Eight modules of proofs, each for every value of its module's constants. Each follows one
line of argument: an inductive invariant in named parts, one lemma per action that the
action keeps it, with a step for each part, one theorem that collects the lemmas, and the
properties from it by temporal logic. Few of the properties are inductive by themselves; the
parts listed here are what had to be added.

| Module of proofs | Modules it is about |
|---|---|
| `ForwardQueueProofs` | `ForwardQueue`, `ImageDelivery`; `PushConfigs` |
| `TelegramClientsProofs` | `TelegramClients`; `BotCommands`, `Schedulers` |
| `LinkCheckProofs` | `LinkCheck`; `ImageProxy`, `ApiKeys` |
| `PanTransferProofs` | `PanTransfer`; `PanAccounts`, `PanDrive` |
| `PushEngineProofs` | `PushEngine`; `Routing` |
| `CollectionProofs` | `Collection`; the fall-back of `Extraction` |
| `CrawlerScheduleProofs`, `CrawlerArticlesProofs` | `CrawlerSchedule`, `CrawlerArticles` |

The services follow the component in their module and have nothing to do with its
specification: every theorem names the one it is about.

`ForwardQueueProofs` (any images, producers, mode, limit of retries and bounds):
`Invariance`, `TypeCorrect`, `AlbumCopies`, `Disjoint`, `BotStage`, `ForwardCopies`,
`ClearedByDeadLetter` and the refinement `SingleModeDelivers`. `IInv` is `TypeOK` with

- `RowInv`, what a row's status says of its receipts: no message id before stage 1 is
  over, one in every status of stage 2, and failures below the limit until it is deleted;
- `CallInv`, an `enqueue` call past its first check knows its image;
- `HeldInvA` and `HeldInvB`, where each worker can be and in which statuses the row it
  holds.  Worker A's row keeps its running status, because the scan that could take it is
  a step of the same worker; worker B's row may be moved, but only among
  `awaiting_bot`, `stage2_running` and `forwarded`, so A never fetches it;
- `DueInv`, the rows that the automatic retry selected: the target of each agrees with
  its message id even if an administrator has revived it since;
- `AlbumInv`, the count of `AlbumCopiesAccounted` with the receipt in flight pinned to
  worker A.

For stage 2 `SingleInv` adds, in single mode only, that a row with a `file_id` is
`stage2_running` or `forwarded` (`ReceiptInv`), what a row on the revival list can be
(`QuietInv`), whether the held row has its `file_id`, by step (`StageInv`), and the count
(`ForwardInv`). It says why no scan and no revival forwards twice, and it is what makes
every step of the queue a step of `ImageDelivery` or a stutter. In dual mode it is false.

`TelegramClientsProofs` (any number of requests at a time, connections, listeners, faults
and restarts): `ClientInvariance`, `ClientTypeCorrect`, `ListenersReachable`,
`ActiveClientHeard` and `ActiveRowSaved`. `IInv` is `TypeOK`, `ListenersAccounted` and
`ActiveIsAlive` with

- `ConnInv`, which steps have a connection, and which of them a signed-in one;
- `FreshInv`, a connection that `start_client` made belongs to nobody else until it is in
  the map; without it a stop or a login could touch it before;
- `JobInv`, what an operation is to write is left over from no earlier one;
- `SavedInv`, whoever is about to write "active", in the row or in the map, has a session
  on disk, which makes `ActiveIsSaved` inductive; the row of a Bot that was only added says
  active too (`SaysActive`), and the start-up tries to reconnect it like the others, so
  the property is about rows that a login or a start made active;
- `HeardInv`, the connection about to enter the map as active has a listener, which
  `ActiveIsAlive` needs at `InsertEntry`.

`LinkCheckProofs` (any callers, resources, spellings, TTL and chunk size):
`CheckInvariance`, `CheckTypeCorrect`, `ExpiryHolds` and `NewestHeld`. `IInv` is `TypeOK` with

- `WorldInv`, the two clocks of a link agree with whether it works;
- `AnswerInv`, where answers are held, and never on a link still to be asked about;
- `CacheInv` and `HeldInv`, the heart of it: what is left of a verdict's time and the time
  since it was true add up to no more than TTL, in the cache and while a check still holds
  the answer; it works because the expiry is computed before the first question;
- `PushInv`, the same for the statuses a push was told, with an hour to spare;
- `NewestInv`, unless it is lost, the newest verdict is in the cache or the only one held.

`PanTransferProofs` (any keys, finitely many slots, any requests, tasks, faults and
crashes): `TransferInvariance`, `TransferTypeCorrect`, `OneTaskHolds`, `SharesHold`,
`WholeHolds` and `StagingHolds`. `IInv` is `TypeOK` and the four properties with `RunInv`
(a slot is free or runs a task), `RequestInv` (a request about to update has a task) and

- `AloneInv`, of a task that never had two runs: its run is the only one, truncated the
  file it writes or reads, and has it whole from the upload on. Without it
  `WholeUnlessOverlapped` does not survive the upload.

`PushEngineProofs` (any configurations, resources and batch size, finitely many callers, any
deletions, faults and cuts): `PushInvariance`, `PushTypeCorrect` and `PushesHold`. `IInv` is
`TypeOK` and `PushesAccounted` with

- `AloneInv` and `FreshInv`, of a configuration whose pushes never overlapped: it has one push
  at most, and what that push holds is not marked yet;
- `AbsentInv`, a resource that is not there yet is in no batch and has no record, so
  an id that appears starts from nothing.

`CrawlerScheduleProofs` (any tasks, permits and events, finitely many slots):
`ScheduleInvariance`, `ScheduleTypeCorrect`, `MarkedOnceHolds` and the action property
`BlockHolds`. `IInv` is `TypeOK` and `MarkedOnce` with

- `RunInv`, only a run that a tick spawned waits for a permit or has a mark to remove;
- `TickInv`, a tick with tasks to visit is not over;
- `RowsInv`, the running rows of a task are those of its runs and the leaked ones, so that
  a run that ends finds its own row among them.

`CollectionProofs` (any posts, drafts, shares, collectors, batch size, requests and events,
and any finite lists of drafts as results): `CollectionInvariance`, `CollectionTypeCorrect`,
`ExtractedHolds` and `StoredHolds`. `IInv` is the types and the foreign keys (`OwnedInv`,
`UniqueInv`) with

- `LiveInv`, an extraction that still reaches its history finds its collector too;
- `RestInv`, what a record has left is the rest of a list whose beginning is accounted for;
  this is what makes the mark at its end true;
- `PhotoInv` and `MarkedInv`, where the photo is when its history is marked, and after;
- `ShareInv`, a share outside `overlapped` is about to be inserted by one record only, and
  only while no resource has it;
- `OnceInv`, a post extracted once has one record, which has not yet stored what it has left.

`CrawlerArticlesProofs` (any graph of list pages, links and settings, any runs, finitely many
clients, any requests and faults), in two layers. `ArticlesInvariance`, `ValuesHold` and
`EditedHolds` rest on `IInv`, which knows nothing of the walk:

- `LiveInv` and `GoneInv`, nobody who can still write works on an article or a task that
  is gone;
- `MissingInv`, a missing value has a writer or was cut off;
- `WriterInv`, where no two writers were seen at once there is at most one, and then no hit.

`CrawlInvariance`, `ArticlesTypeCorrect` and `CollectsHold` rest on `CrawlInv`, which adds

- `WalkInv`, for every run that works: each seed was met or is to come (`Staged`), the
  pages it came to lead to no others but the next, also around a loop of pages (`Sited`),
  its count is that of the empty pages at the end of its trail (`Counted`), and what the
  pages link to is stored, removed or left to do (`Met`, `Stored`), but where a limit
  stopped the walk (`Excused`);
- `CountInv`, `RowInv` and `HitInv`, the bounds of the counters: each hit of a value has a
  writer of its own.

### The services

Each service has an invariant of its own, `ConfigInv` .. `SchedInv`, with theorems that it
holds (`ConfigInvariance` .. `SchedulerInvariance`) and that the service's property in the
run of MCServices does.

`ConfigsHold` (`PushConfigs`; any bodies of requests, administrators, errors and halts):

- `AloneInv`, outside `mixed` one request at most is on a configuration;
- `WorkInv`, what such a request has written of row and links so far, by step; `SettledInv`,
  with none between two statements the configuration is as asked;
- `BootInv` and `BatchInv`, nobody pushes before the migration is over, and no batch holds
  what it took over;
- `FreshRows`, `FreshJobs` and `FreshStatuses`, an id that is yet to come starts from nothing.

A collector that is deleted takes its links with it, and what was asked loses it too
(`KeepDeleteCollector`), so the invariant needs no part for it.

`RoutingHolds` (`Routing`; any accounts, chats, rules, edits and errors):

- `InboxInv`, what a listener has yet to work on was posted by no rule for it since it was
  last told of it; `WorkInv`, what it works on is not in its inbox as well; `TodoInv`, what it has
  yet to post is as the rule was set, and not posted this time. Together they say why nothing
  is posted twice for one telling although copies come in as messages; `told` counts the
  tellings, of which `catch_up` makes one more at each start;
- `AliveInv`, a listener that ended has nothing in its hands, so that what a start tells it
  of again is all there is;
- `RecordInv` and `KnownInv`, the two directions between posts and records;
- `RequestInv`, a request about to write a channel outside `contested` is the only one about
  it and has found no other collector of it.

`AccountsHold` (`PanAccounts`; any credentials, keys and requests):

- `SealInv`, no request seals without a key; `DrivenInv`, only accounts with a driver are checked;
- `OneRequestInv`, outside `entangled` what a request has read is what the account holds, which
  makes the write of every column harmless;
- `JudgedInv`, a credential without a verdict is being checked or its check failed;
  `ExpiredInv`, which needs that the provider never takes back what it refused.

`DriveHolds` (`PanDrive`; any runs, files, parts and sizes of a page): `ChoreFits`, how far
the drive's task is when a run has come so far, and `FileFits`, where in the folder a run's file
is. New files and directories come before it, so that what was found moves by one place
(`Grown`). A file whose id the drive did not tell is shared under the empty id or refused. That
`find_fid_by_name` finds the first match is a least place; it exists by well-founded induction
on the natural numbers (`LeastExists`), the one induction of the project.

`ImagesHold` (`ImageProxy`; any viewers, images, errors and ends of the process):

- `PenInv` and `WholeInv`, a thread writes for the request that started it or one that is gone,
  and a file that is not whole has it, or it broke off;
- `MarkInv`, `DownloadInv` and `TwiceInv`, marks and downloads against each other.

`KeysHold` (`ApiKeys`; any finite number of requests, any keys and quotas):

- `ServedInv` and `QuotaInv`, the calls at a place are counted against what the key was charged:
  a call that passed the check is one of at most as many as there are requests;
- `TurnInv`, `EnabledInv`, `DisableInv` and `LastInv`, of a line of rotations: one rotation at a
  time, one enabled key, which is the one about to be disabled, and none only for a reason.

`RepliesHold` (`BotCommands`; any bots, updates, slips and restarts): `QueueInv`, what is to be
answered is a young command that the cursor has passed and that was not answered since the last
start; `YoungInv`, the same of the young ones the cursor has not passed, and the reason why a
restart, which takes the cursor back to 0, allows one more answer to each of them (`OnceInv`) and
none to the old ones; `PassedInv`, what became of the others behind the cursor; `OldInv`, which the
cursor's cut-off needs. The answers counted are those Telegram received: no restart resets them.

`SchedulersHold` (`Schedulers`; any requests, workers, cuts and starts):

- `HandleInv` and `LoopInv`, the flag, the handle and the workers;
- `SoloInv`, a request that met no other has read what the options are, and starts what it has
  stopped; `MetInv`, one that met another is known; `WantedInv`, with none open the scheduler is
  as the last one wanted.

`FallbackHolds` (`Extraction`; any extractions, texts and lists of endpoints) is about the
second conjunct of `ExtractionAccounted` only. `TriesInv` says that the tries of an extraction
that no other took a turn from were the last turns of the counter (`Consecutive`); as many
consecutive turns as there are enabled endpoints reach each of them (`EveryTurn`, which is
arithmetic modulo one, two and three).

### What the theorems rest on

The theorems rest on the named assumptions about the constants of these modules, which TLC
evaluates in their runs. They say no more than the code does: names of nobody are not names of
somebody, bounds are natural numbers, the ways to be alive at one time (`Slots`, `Callers`,
`Clients`) are finitely many, and two drafts without a url in one list are two drafts
(`CollectionAssumption`). `SingleModeDelivers` assumes single mode, the setting of the
scheduler it is about. What is proved for every instance and is checked by no run: type
correctness of the components and of the services (but `FieldTree`, `Extraction` and `PanDrive`),
and `OneTaskPerKey` and `StagingOwned` of `PanTransfer`.

Only model-checked:

- liveness (`Settles` of both queues, `RemainingPushed`, `KeepsCrawled`, `Reconnected`,
  `AllExtracted`, `RunEnds`, `RevivedPushed`), which needs fairness and ENABLED and is out of
  the provers' reach;
- `FieldTree` with its types, `RowsAccounted` and `PairedAccounted`: its trees are recursive
  data and the operators on them RECURSIVE, and what they compute for every tree would take an
  induction whose hypothesis is an operator;
- `RuleLinksAccounted` and `AnswerKept` of `ExtractionAccounted`: both are about one step, whose
  outcome is a fold over lines or items (`Netdisks`, `SplitOf`, `Merged`); they would take
  induction over these sequences.

`SingleModeDelivers` shows the safety half of `ImageDelivery`, which states no liveness.

## Met while modelling

Behaviour that a reader of the code would want to know of, and that no run is about.

Forward queue and push:
- A failed `save_mapping` is logged as to be completed by `recover_stuck_tasks`
  (`forward_queue.rs:446`), but every path that writes a mapping later asks for a status the
  row has left by then. The image is forwarded and not mapped.
- With group B unset a row fails and its image is cleared at the limit, where
  `forward_queue.rs:759` says the task stays `awaiting_bot`.
- The third layer of `enqueue` (`forward_queue.rs:265`) counts on a UNIQUE `remote_id` that
  the schema does not have. `ForwardQueue` therefore lets two calls insert two rows of one
  image, and its properties hold with them.
- The candidates of a push are the oldest ones (`push_config.rs:520`, 573): as many
  unpushable resources as fill a batch starve the rest. `RemainingPushed` holds with fewer.
- `check_links_for_config` filters by the global `is_pushed` (`push_config.rs:1053`), the
  candidates of a push by the configuration's record (596): what another configuration has
  received is checked by the push only. `CallCheck` and `StartPush` keep the difference.
- Deleting all configurations lets the next start create the legacy one again (`main.rs`);
  a duplicated configuration is active at once with an empty push record.
- `services/push.rs` and its `push_resources` have no caller.

Transfers and links:
- `create_task` of the transfers is idempotent in its row only (`transfer.rs:15`): the
  handlers spawn a run for the task they get whatever its status, so that a second
  submission of a direct link shares the file again; `SharesAccounted` counts such shares.
- `normalize_url` is not idempotent for a text with a blank before `#`, and `check_urls`
  normalises twice: the status of such a link is looked up in vain. The model takes
  normal forms to be stable.

Crawler:
- `create_task` stores a disabled task with the status `active` (`handlers/crawler.rs:157`),
  the pair the comment of `update_task` calls a contradiction; it does no harm, because
  the due list asks for both.
- A manual run does not take a mark, so one task may have two runs (`engine.rs:866`).
- `create_task_from_template` (`handlers/crawler.rs`, near 927) inserts 22 columns with 19
  values and always fails.
- A field below a field that yields its cards is paired by the number of its direct parent's
  hit, not the card's (`engine.rs:1344`): a grandchild's values meet their article only when
  the field above it finds one element per card. `PairedAccounted` says exactly this.
- An inactive script or link field runs at the top level (`engine.rs:661`) and is never
  evaluated below it; children of a parent without a hit are extracted on the whole page.
- A node may be moved below its own descendant or, with children, to another scope.
  `from_rows` then drops rows silently, and a delete of a row on a loop runs a recursive
  UNION ALL that never ends; the model's `Descendants` stops at what it has seen.
- Nothing inserts into `crawler_article_images` and `crawler_article_links`.

Telegram clients:
- A stop drops a listener whose handle was lost (`tg_manager.rs:181`) without ending its
  connection; it keeps reading until it gives up (`lost`).
- A client removed while it is being started comes back as an entry without a row; a stop by
  an administrator is undone by the reconnector within 30 s.
- A Bot's row is inserted as `active` before it is signed in (`handlers/client.rs:62`); the
  next start tries to reconnect it, makes a connection that is not authorized, and writes what
  it finds. Until then `row = "added"`.

Services:
- A client connects with `catch_up: true` (`tg_manager.rs:96`) from a session that only a login
  saves (`tg_auth.rs:268`): after a restart or a reconnection Telegram may tell it again of
  messages since then, and `handle_new_message` forwards them again, since nothing
  remembers what was forwarded.
- The cursors of the bots are kept in the process (`bot_command.rs:76`): a command younger than
  `FRESH_WINDOW_SECS` is answered again after a restart.
- An array of links, or a text of links that begins with `http`, becomes one url
  (`ai_extractor.rs:676`), links joined by commas; what `normalize_url` cuts off at the first `|`
  is then every link and code behind it, if there was a code before. A text of links that does not
  begin so is split.
- An upload that the drive has already may come without an id (`quark.rs:714`): an empty
  one goes on to `create_share`.
- When the classification of a push fails, all candidates are sent as they were selected
  (`push_config.rs:764`).
- A client that hangs up during a download leaves its mark (`image_proxy.rs:147`) for ever:
  every later view of the image that is not cached waits its 30 s and fails, until the
  program restarts (`forsaken`).
- A call reads its key's quota and adds to it in two statements (`api_key.rs:95`): as many
  calls as are open at once can pass a limit that one of them uses up.
- A request that sets an interval of 0 minutes stops the extraction's scheduler
  (`update_extract_scheduler`); with the switch on, the next start of the program begins it
  with 0 minutes (`main.rs:234`), and the worker then scans without a pause.
- The exit of a cancelled worker clears the flag and the handle of the one started after it
  (`scheduler.rs:81`), which then runs on unknown to the state (`strays`).

## Abstractions and assumptions

- Statuses other than the modelled ones, error texts, histories and the wording of
  messages are left out.
- Forward queue: the option store (`read_pipeline_config`) is complete: with a
  missing chat id of group A the code skips the task, which is not modelled.  The two
  chat ids do not change in a behaviour (`Groups`), as the scheduler reads its mode only
  when it starts.  `Age` counts the time of worker A's own task when that task is over: only
  A reads the age, between two tasks.  The batch of 100 of `retry_all_failed` exceeds
  `MaxRows`.
- Push engine: its link checker may miss a dead link and never condemns a working one; what
  caches do to that is `LinkCheck`.  A resource's cover is shared with other resources only
  through `Extract` (a cover may be forwarded from the start) and `shown` in the forward queue.
- Link check: PanCheck's verdicts are right at the time of the answer; a check, which gives up
  a request after 60 s, meets the end of at most one hour, and the push is sent right after it.
  "Pending" stands for every answer that is no verdict ("unknown", a chunk whose request
  failed): the code saves none of them, and none bars a resource from the push.
- Telegram clients: a listener gives up 8 s after its spawn at the earliest (five errors
  with pauses of 2 s), which is after `InsertEntry`.
- Collection: one channel; the rules and the AI give a post one of its `Results`.
- Crawler articles: one field, a script field, so that it can be refreshed; the template's
  pages start at 1.
- Field tree: `Found` gives the number of elements a field finds in a fragment, whatever its
  selector is.

## Not modelled

- The crawler's image uploader: no statement fills its table, so it has nothing to do in any
  reachable state.
- `update_resource`, `retry_push` and the histories of pushes.
- Page parsing, users and sessions, options and the web interface: I/O, functions of pages, or
  single-row writes without a protocol between their steps.

`PushEngine` and `Collection` abort and start a scheduler in one step; `Schedulers` has the
steps in between, and the exit of an old worker after a restart (`scheduler.rs:81`), without
what the worker does.

The map covers about 30 % of the implementation's lines.  The rest is for the most part
what this list names: the parsing of pages, the details of the providers' and Telegram's
protocols, SQL of lists and statistics, and the handlers that read.

## Plan

1. ForwardQueue, ImageDelivery, PanTransfer, PushEngine and CrawlerSchedule with their
   runs; the proofs of the forward queue's invariants (done).
2. TelegramClients with its proofs; Collection; CrawlerArticles; FieldTree; LinkCheck with
   its proofs (done).
3. Proofs of the safety and action properties of all components but the field tree: the
   second half of the forward queue with the refinement of ImageDelivery, PanTransfer,
   PushEngine, CrawlerSchedule, Collection and CrawlerArticles (done).
4. The editing of push configurations, the rules with the forwarder, how a text becomes
   drafts, the pan accounts and the provider's protocol, the image proxy, the bot commands,
   the API keys, and the schedulers' flag and handle (done).
5. Proofs about these services: all but the field tree, and of the extraction the fall-back
   (done).
6. Open: the field tree's rows without its trees (limit, siblings, parents), in a module of
   their own, could be proved about; the tree of a run stays with TLC.
