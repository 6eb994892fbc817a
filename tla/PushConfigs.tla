----------------------------- MODULE PushConfigs -----------------------------
(***************************************************************************)
(* The push configurations: the requests of handlers/push.rs that create,  *)
(* edit, copy, switch and delete them (services/push_config.rs), the       *)
(* migration of the old push options at the start (main.rs), and what a    *)
(* push makes of a configuration.                                          *)
(*                                                                         *)
(* A configuration is a row and, apart from it, its links to the           *)
(* collectors it is fed from.  No request uses a transaction: each writes  *)
(* one statement after the other, other requests and pushes go on in       *)
(* between, and an error or the end of the process leaves what was         *)
(* written.  PushEngine has the steps of one push; here a push reads, then *)
(* sends.                                                                  *)
(***************************************************************************)
EXTENDS Naturals, FiniteSets

CONSTANTS Admins,        \* requests that may be open at a time
          Collectors,    \* each has one extracted resource, which stands for it
          Apis,          \* values of api_url
          LegacyApi,     \* the option push_api_url
          PushedBefore,  \* the sets the version with one API may have pushed
          Creations,     \* bodies of create_push_config
          Edits,         \* bodies of update_push_config
          Absent,        \* stands for no row
          Keep,          \* stands for a field the body of an update leaves out
          MaxConfigs,    \* bound: ids of push_configs (AUTOINCREMENT)
          MaxRequests,   \* bound: requests in all
          MaxPushes,     \* bound: pushes in all
          MaxErrors,     \* bound: SQL errors
          MaxHalts       \* bound: ends of the process

Sources == {"all", "selected"}       \* data_source_type
Body    == [api : Apis \cup {Keep}, source : Sources \cup {Keep},
            ids : (SUBSET Collectors) \cup {Keep}]

ASSUME LegacyAssumption == LegacyApi \in Apis /\ PushedBefore \subseteq SUBSET Collectors
ASSUME BodyAssumption == /\ Edits \subseteq Body
                         /\ Creations \subseteq [api : Apis, source : Sources,
                                                ids : SUBSET Collectors]
ASSUME ConfigBoundAssumption ==
  {MaxConfigs, MaxRequests, MaxPushes, MaxErrors, MaxHalts} \subseteq Nat

Configs == 1..MaxConfigs

VARIABLES
  row,       \* push_configs
  link,      \* push_config_collectors
  marked,    \* resource_push_status: the resources marked, per configuration
  named,     \* the configurations that rows of push_histories name
  orphan,    \* push_histories has rows that name none
  isPushed,  \* extracted_resources.is_pushed
  next,      \* the next id
  boot,      \* where the start of the process is
  job,       \* the open request of each administrator
  push,      \* the push at work: its configuration and its batch
  asked,     \* what the finished requests on a configuration add up to
  mixed,     \* configurations two requests worked on at a time, or one only in part
  before,    \* what the migration found pushed when it made a configuration
  halfway,   \* configurations whose migration did not come to its end
  sent,      \* what was accepted of a configuration
  removed,   \* collectors that were deleted, each with its resource
  requests, pushes, errors, halts

statuses == <<marked, isPushed>>
table    == <<row, next>>
past     == <<named, orphan>>
budgets  == <<requests, pushes, errors, halts>>
configVars == <<table, link, statuses, past, boot, job, push, asked, mixed, before,
                halfway, sent, removed, budgets>>

Row    == [api : Apis, source : Sources, active : BOOLEAN]
Wanted == [api : Apis, source : Sources, active : BOOLEAN, ids : SUBSET Collectors]

ConfigTypeOK ==
  /\ row \in [Configs -> Row \cup {Absent}]
  /\ link \in [Configs -> SUBSET Collectors]
  /\ marked \in [Configs -> SUBSET Collectors]
  /\ named \subseteq Configs
  /\ orphan \in BOOLEAN
  /\ isPushed \subseteq Collectors
  /\ next \in 1..(MaxConfigs + 1)
  /\ boot \in {"count", "create", "histories", "statuses", "up"}
  /\ \A a \in Admins : /\ job[a].step \in {"idle", "insert", "write", "clear",
                                           "read", "link", "detach", "delete"}
                       /\ job[a].conf \in Configs \cup {0}
  /\ push.conf \in Configs \cup {0} /\ push.batch \subseteq Collectors
  /\ asked \in [Configs -> Wanted]
  /\ mixed \subseteq Configs /\ halfway \subseteq Configs
  /\ before \in [Configs -> SUBSET Collectors]
  /\ sent \in [Configs -> SUBSET Collectors] /\ removed \subseteq Collectors

-----------------------------------------------------------------------------
(* Helpers *)

Exists(c) == row[c] # Absent

ConfigFault == errors < MaxErrors /\ errors' = errors + 1

Or(v, old) == IF v = Keep THEN old ELSE v

NoJob  == [step |-> "idle", conf |-> 0, from |-> 0]
NoPush == [conf |-> 0, batch |-> {}]

\* The configurations a request works on.
Touched(j) == {j.conf, j.from} \cap Configs

\* The INSERT of create_config, for a request or for the migration.
InsertRow(api, source) ==
  /\ next <= MaxConfigs
  /\ row' = [row EXCEPT ![next] = [api |-> api, source |-> source, active |-> TRUE]]
  /\ next' = next + 1

\* A request begins; it and whoever works on its configuration get mixed up.
Begin(a, j) ==
  /\ boot = "up" /\ job[a] = NoJob
  /\ requests < MaxRequests /\ requests' = requests + 1
  /\ job' = [job EXCEPT ![a] = j]
  /\ LET others == {b \in Admins : Touched(j) \cap Touched(job[b]) # {}}
     IN mixed' = mixed \cup UNION {Touched(j) \cup Touched(job[b]) : b \in others}
  /\ UNCHANGED <<table, link, statuses, past, boot, push, asked, before, halfway, sent,
                 pushes, errors, halts, removed>>

Continue(a, j) == job' = [job EXCEPT ![a] = j] /\ UNCHANGED <<asked, mixed, errors>>

\* It ends: all is written, ...
Done(a, c, what) ==
  /\ job' = [job EXCEPT ![a] = NoJob]
  /\ asked' = [asked EXCEPT ![c] = [what EXCEPT !.active = asked[c].active]]
  /\ mixed' = mixed \cup {d \in {c} : job[a].from \in mixed}
  /\ UNCHANGED errors

\* ... nothing is, ...
Refused(a) == job' = [job EXCEPT ![a] = NoJob] /\ UNCHANGED <<asked, mixed, errors>>

\* ... or what comes before an error.
Torn(a) ==
  /\ job' = [job EXCEPT ![a] = NoJob]
  /\ mixed' = mixed \cup ({job[a].conf} \cap Configs)
  /\ UNCHANGED asked

\* The links of j.todo come next, if there are any.
ThenLink(a, j) ==
  IF j.todo = {} THEN Done(a, j.conf, j.what)
                 ELSE Continue(a, [j EXCEPT !.step = "link"])

-----------------------------------------------------------------------------
ConfigInit ==
  /\ row = [c \in Configs |-> Absent]
  /\ link = [c \in Configs |-> {}]
  /\ marked = [c \in Configs |-> {}]
  /\ named = {}
  /\ isPushed \in PushedBefore
  /\ orphan = (isPushed # {})
  /\ next = 1
  /\ boot = "count"
  /\ job = [a \in Admins |-> NoJob]
  /\ push = NoPush
  /\ asked = [c \in Configs |-> [api |-> LegacyApi, source |-> "all",
                                 active |-> TRUE, ids |-> {}]]
  /\ mixed = {} /\ halfway = {}
  /\ before = [c \in Configs |-> {}]
  /\ sent = [c \in Configs |-> {}]
  /\ removed = {}
  /\ requests = 0 /\ pushes = 0 /\ errors = 0 /\ halts = 0

-----------------------------------------------------------------------------
(* The start of the process                                                *)

\* SELECT COUNT(*): an error counts as no configuration.
BootCount ==
  /\ boot = "count"
  /\ \/ /\ boot' = IF \E c \in Configs : Exists(c) THEN "up" ELSE "create"
        /\ UNCHANGED errors
     \/ ConfigFault /\ boot' = "create"
  /\ UNCHANGED <<table, link, statuses, past, job, push, asked, mixed, before, halfway,
                 sent, requests, pushes, halts, removed>>

\* create_config with the options; its error is logged.
BootCreate ==
  /\ boot = "create"
  /\ \/ /\ InsertRow(LegacyApi, "all")
        /\ before' = [before EXCEPT ![next] = isPushed]
        /\ halfway' = halfway \cup {next}
        /\ boot' = "histories"
        /\ UNCHANGED errors
     \/ ConfigFault /\ boot' = "up" /\ UNCHANGED <<table, before, halfway>>
  /\ UNCHANGED <<link, statuses, past, job, push, asked, mixed, sent, requests,
                 pushes, halts, removed>>

\* UPDATE push_histories: the rows without a configuration get the new one.
\* The error of this statement is dropped, and so is the one of the next.
BootHistories ==
  /\ boot = "histories"
  /\ boot' = "statuses"
  /\ \/ /\ named' = named \cup {c \in {next - 1} : orphan}
        /\ orphan' = FALSE
        /\ UNCHANGED errors
     \/ ConfigFault /\ UNCHANGED past
  /\ UNCHANGED <<table, link, statuses, job, push, asked, mixed, before, halfway, sent,
                 requests, pushes, halts, removed>>

\* INSERT OR IGNORE INTO resource_push_status ... WHERE is_pushed
BootStatuses ==
  /\ boot = "statuses"
  /\ boot' = "up"
  /\ \/ /\ marked' = [marked EXCEPT ![next - 1] = @ \cup isPushed]
        /\ halfway' = halfway \ {next - 1}
        /\ UNCHANGED errors
     \/ ConfigFault /\ UNCHANGED <<marked, halfway>>
  /\ UNCHANGED <<table, link, isPushed, past, job, push, asked, mixed, before, sent,
                 requests, pushes, halts, removed>>

Boot == BootCount \/ BootCreate \/ BootHistories \/ BootStatuses

\* The process ends wherever it is and starts again; the batch on its way may
\* have been accepted.
Restart ==
  /\ halts < MaxHalts /\ halts' = halts + 1
  /\ mixed' = mixed \cup ({job[a].conf : a \in Admins} \cap Configs)
  /\ job' = [a \in Admins |-> NoJob]
  /\ push' = NoPush
  /\ \/ UNCHANGED sent
     \/ push # NoPush /\ sent' = [sent EXCEPT ![push.conf] = @ \cup push.batch]
  /\ boot' = "count"
  /\ UNCHANGED <<table, link, statuses, past, asked, before, halfway, requests, pushes,
                 errors, removed>>

-----------------------------------------------------------------------------
(* The requests                                                            *)

\* create_push_config
StartCreate(a) ==
  \E body \in Creations :
    LET wanted == IF body.source = "selected" THEN body.ids ELSE {}
    IN Begin(a, [step |-> "insert", conf |-> 0, from |-> 0, todo |-> wanted,
                 what |-> [api |-> body.api, source |-> body.source, active |-> TRUE,
                           ids |-> wanted]])

\* update_config reads the row it merges the body into.
StartUpdate(a) ==
  \E c \in Configs, body \in Edits :
    /\ Exists(c)
    /\ Begin(a, [step |-> "write", conf |-> c, from |-> 0, body |-> body, old |-> row[c]])

\* duplicate_config reads the row it copies.
StartDuplicate(a) ==
  \E c \in Configs :
    /\ Exists(c)
    /\ Begin(a, [step |-> "insert", conf |-> 0, from |-> c, todo |-> {},
                 what |-> [api |-> row[c].api, source |-> row[c].source,
                           active |-> TRUE, ids |-> {}]])

StartDelete(a) ==
  \E c \in Configs :
    Exists(c) /\ Begin(a, [step |-> "detach", conf |-> c, from |-> 0])

\* INSERT INTO push_configs; a copy comes without its collectors.
Insert(a) ==
  /\ job[a].step = "insert"
  /\ LET new == [job[a] EXCEPT !.conf = next]
     IN \/ /\ InsertRow(new.what.api, new.what.source)
           /\ IF new.from = 0 THEN ThenLink(a, new)
                              ELSE Continue(a, [new EXCEPT !.step = "read"])
        \/ ConfigFault /\ job' = [job EXCEPT ![a] = NoJob]
           /\ UNCHANGED <<table, asked, mixed>>
  /\ UNCHANGED <<link, statuses, past, boot, push, before, halfway, sent, requests,
                 pushes, halts, removed>>

\* duplicate_config: the collectors of the original, if it selects them.
ReadLinks(a) ==
  /\ job[a].step = "read"
  /\ LET ids == IF job[a].what.source = "selected" THEN link[job[a].from] ELSE {}
         j   == [job[a] EXCEPT !.todo = ids]
     IN ThenLink(a, [j EXCEPT !.what.ids = ids])
  /\ UNCHANGED <<table, link, statuses, past, boot, push, before, halfway, sent, requests,
                 pushes, halts, removed>>

\* INSERT OR IGNORE INTO push_config_collectors, one statement per collector.
\* A configuration or a collector that is not there violates a foreign key.
InsertLink(a) ==
  /\ job[a].step = "link"
  /\ LET j == job[a]
     IN \E k \in j.todo :
          \/ /\ Exists(j.conf) /\ k \notin removed
             /\ link' = [link EXCEPT ![j.conf] = @ \cup {k}]
             /\ ThenLink(a, [j EXCEPT !.todo = @ \ {k}])
          \/ (~Exists(j.conf) \/ k \in removed) /\ Torn(a) /\ UNCHANGED <<link, errors>>
          \/ ConfigFault /\ Torn(a) /\ UNCHANGED link
  /\ UNCHANGED <<table, statuses, past, boot, push, before, halfway, sent, requests,
                 pushes, halts, removed>>

\* The UPDATE of update_config sets every column but is_active, those the body
\* leaves out as they were when the request read the row.
Merge(old, now, body) ==
  [api |-> Or(body.api, old.api), source |-> Or(body.source, old.source),
   active |-> now.active]

Add(wanted, body) ==
  [api |-> Or(body.api, wanted.api), source |-> Or(body.source, wanted.source),
   active |-> wanted.active, ids |-> Or(body.ids, wanted.ids)]

UpdateRow(a) ==
  /\ job[a].step = "write"
  /\ LET j == job[a] c == j.conf
     IN \/ /\ Exists(c)
           /\ row' = [row EXCEPT ![c] = Merge(j.old, @, j.body)]
           /\ IF j.body.ids = Keep THEN Done(a, c, Add(asked[c], j.body))
                                   ELSE Continue(a, [j EXCEPT !.step = "clear"])
        \/ ~Exists(c) /\ Refused(a) /\ UNCHANGED row
        \/ ConfigFault /\ job' = [job EXCEPT ![a] = NoJob]
           /\ UNCHANGED <<row, asked, mixed>>
  /\ UNCHANGED <<next, link, statuses, past, boot, push, before, halfway, sent, requests,
                 pushes, halts, removed>>

\* Mutant: the new links are added to the old ones.
KeepLinks(a) ==
  /\ job[a].step = "clear"
  /\ LET j == job[a]
     IN ThenLink(a, [step |-> "clear", conf |-> j.conf, from |-> 0, todo |-> j.body.ids,
                     what |-> Add(asked[j.conf], j.body)])
  /\ UNCHANGED <<table, link, statuses, past, boot, push, before, halfway, sent, requests,
                 pushes, halts, removed>>

\* DELETE FROM push_config_collectors, before the new links.
ClearLinks(a) ==
  /\ job[a].step = "clear"
  /\ LET j == job[a] c == j.conf
     IN \/ /\ link' = [link EXCEPT ![c] = {}]
           /\ ThenLink(a, [step |-> "clear", conf |-> c, from |-> 0, todo |-> j.body.ids,
                           what |-> Add(asked[c], j.body)])
        \/ ConfigFault /\ Torn(a) /\ UNCHANGED link
  /\ UNCHANGED <<table, statuses, past, boot, push, before, halfway, sent, requests,
                 pushes, halts, removed>>

\* delete_config: the histories let go of the configuration ...
Detach(a) ==
  /\ job[a].step = "detach"
  /\ LET c == job[a].conf
     IN \/ /\ named' = named \ {c}
           /\ orphan' = (orphan \/ c \in named)
           /\ Continue(a, [job[a] EXCEPT !.step = "delete"])
        \/ ConfigFault /\ job' = [job EXCEPT ![a] = NoJob]
           /\ UNCHANGED <<past, asked, mixed>>
  /\ UNCHANGED <<table, link, statuses, boot, push, before, halfway, sent, requests, pushes,
                 halts, removed>>

\* ... and it goes, with its links and statuses.  A history that names it
\* since then forbids it.
DeleteRow(a) ==
  /\ job[a].step = "delete"
  /\ LET c == job[a].conf
     IN \/ /\ Exists(c) /\ c \notin named
           /\ row' = [row EXCEPT ![c] = Absent]
           /\ link' = [link EXCEPT ![c] = {}]
           /\ marked' = [marked EXCEPT ![c] = {}]
           /\ Refused(a)
        \/ ~Exists(c) /\ Refused(a) /\ UNCHANGED <<row, link, marked>>
        \/ Exists(c) /\ c \in named /\ Refused(a) /\ UNCHANGED <<row, link, marked>>
        \/ ConfigFault /\ job' = [job EXCEPT ![a] = NoJob]
           /\ UNCHANGED <<row, link, marked, asked, mixed>>
  /\ UNCHANGED <<next, isPushed, past, boot, push, before, halfway, sent, requests, pushes,
                 halts, removed>>

\* toggle_config is one statement.
Toggle ==
  /\ boot = "up"
  /\ requests < MaxRequests /\ requests' = requests + 1
  /\ \E c \in Configs :
       /\ Exists(c)
       /\ row' = [row EXCEPT ![c].active = ~@]
       /\ asked' = [asked EXCEPT ![c].active = ~@]
  /\ UNCHANGED <<next, link, statuses, past, boot, job, push, mixed, before, halfway, sent,
                 pushes, errors, halts, removed>>

\* delete_collector: its resource goes, with its statuses, and so do the links to
\* it.  A request that is at work on a configuration may know it still.
\* (Collection has the statements of this request one by one.)
DeleteCollector(k) ==
  /\ boot = "up" /\ k \notin removed
  /\ requests < MaxRequests /\ requests' = requests + 1
  /\ removed' = removed \cup {k}
  /\ link' = [c \in Configs |-> link[c] \ {k}]
  /\ asked' = [c \in Configs |-> [asked[c] EXCEPT !.ids = @ \ {k}]]
  /\ mixed' = mixed \cup UNION {Touched(job[a]) : a \in Admins}
  /\ marked' = [c \in Configs |-> marked[c] \ {k}]
  /\ before' = [c \in Configs |-> before[c] \ {k}]
  /\ isPushed' = isPushed \ {k}
  /\ UNCHANGED <<table, past, boot, job, push, halfway, sent, pushes, errors, halts>>

Step(a) == \/ Insert(a) \/ ReadLinks(a) \/ InsertLink(a) \/ UpdateRow(a) \/ ClearLinks(a)
           \/ Detach(a) \/ DeleteRow(a)

-----------------------------------------------------------------------------
(* push_for_config, for the scheduler, trigger_push and trigger_push_for_config *)

\* The row, and the resources it is fed from that are not marked.  With none
\* of them the push leaves a history and ends.
PushRead(c) ==
  /\ boot = "up" /\ push = NoPush
  /\ pushes < MaxPushes /\ pushes' = pushes + 1
  /\ Exists(c) /\ row[c].active
  /\ LET batch == (IF row[c].source = "all" THEN Collectors \ removed ELSE link[c]) \ marked[c]
     IN IF batch = {} THEN named' = named \cup {c} /\ UNCHANGED push
                      ELSE push' = [conf |-> c, batch |-> batch] /\ UNCHANGED named
  /\ UNCHANGED <<table, link, statuses, orphan, boot, job, asked, mixed, before, halfway,
                 sent, requests, errors, halts, removed>>

\* The request is refused, or accepted and recorded.  The records of a deleted
\* configuration are refused, and the first one of a deleted resource ends the
\* loop that writes them.
PushSend ==
  /\ push # NoPush
  /\ push' = NoPush
  /\ LET c == push.conf
     IN /\ named' = named \cup {d \in {c} : Exists(d)}
        /\ \/ UNCHANGED <<statuses, sent>>
           \/ /\ sent' = [sent EXCEPT ![c] = @ \cup push.batch]
              /\ isPushed' = isPushed \cup (push.batch \ removed)
              /\ \E done \in SUBSET (push.batch \ removed) :
                   /\ push.batch \cap removed = {} => done = push.batch
                   /\ marked' = [marked EXCEPT ![c] = IF Exists(c) THEN @ \cup done ELSE @]
  /\ UNCHANGED <<table, link, orphan, boot, job, asked, mixed, before, halfway, budgets, removed>>

-----------------------------------------------------------------------------
ConfigNext ==
  \/ Boot \/ Restart \/ Toggle \/ PushSend
  \/ \E a \in Admins : \/ StartCreate(a) \/ StartUpdate(a) \/ StartDuplicate(a)
                       \/ StartDelete(a) \/ Step(a)
  \/ \E c \in Configs : PushRead(c)
  \/ \E k \in Collectors : DeleteCollector(k)

ConfigSpec == ConfigInit /\ [][ConfigNext]_configVars

-----------------------------------------------------------------------------
(* Properties *)

Worked(c) == \E a \in Admins : c \in Touched(job[a])

\* A configuration that no request works on is what the finished requests on
\* it add up to, row and links, unless two of them overlapped, or one of them
\* and the deletion of a collector, or one was cut off; whether it is switched
\* on even then (update_config, duplicate_config and toggle_config write without
\* a transaction).
EditsKept ==
  \A c \in Configs : Exists(c) =>
    /\ row[c].active = asked[c].active
    /\ Worked(c) \/ c \in mixed
       \/ /\ row[c].api = asked[c].api
          /\ row[c].source = asked[c].source
          /\ link[c] = asked[c].ids

\* A configuration counts as pushed what was accepted of it and what the
\* migration took over, no more; and it never sends again what the version
\* with one API had sent, unless its migration was cut off or failed.
StatusesAccounted ==
  \A c \in Configs : Exists(c) =>
    /\ marked[c] \subseteq sent[c] \cup before[c]
    /\ c \in halfway \/ (before[c] \subseteq marked[c] /\ sent[c] \cap before[c] = {})

\* Both: no configuration, and no status of one, is other than its requests and
\* its pushes left it (push_config.rs, main.rs).
ConfigsAccounted == EditsKept /\ StatusesAccounted

=============================================================================
