------------------------------- MODULE Routing -------------------------------
(***************************************************************************)
(* What becomes of a message: the rules that forward it and the collectors *)
(* that store it (services/message_handler.rs, services/forwarder.rs), and *)
(* the requests that change both (handlers/rule.rs, handlers/collector.rs).*)
(*                                                                         *)
(* Each client is an account of its own and has one listener, which works  *)
(* on the messages of its chats one after the other: it reads the rules of *)
(* the chat, posts a copy for each that lets the message pass, records     *)
(* what came of it, and only then reads the collectors of the chat and     *)
(* stores the message.  Rules and collectors change in between, and the    *)
(* listener may end between any two statements.  A listener that starts    *)
(* is told of messages again: its connection catches up (tg_manager.rs)    *)
(* from the session file, which only a login writes (tg_auth.rs).          *)
(* Collection has what becomes of a stored message and the deletion of a   *)
(* collector; TelegramClients has the life of a listener.                  *)
(***************************************************************************)
EXTENDS Naturals, Sequences

CONSTANTS
  Clients,
  Chats, Hooks,      \* where messages are posted; webhooks
  Members,           \* the chats of a client's account
  Outsider,          \* who posts what no client posts
  Words, Media,      \* the keywords of rules; what a message may carry
  Originals,         \* what may be posted: the chat, the words and the media
  NewRules,          \* bodies of create_rule
  RuleEdits,         \* bodies of update_rule: the fields they set
  Operators,         \* requests on collectors that may be open at a time
  ChannelBodies,     \* bodies of create_collector and update_collector
  NoChannel,         \* channel_id 0
  Unset,             \* stands for no row, and for a field that is null or left out
  MaxRules, MaxGatherers,        \* bounds: ids of rules, ids of collectors,
  MaxPosts, MaxCalls, MaxBreaks  \* messages, requests, and what goes wrong

Rules     == 1..MaxRules
Gatherers == 1..MaxGatherers
Posts     == 1..MaxPosts

\* A rule: source_chat_id, forward_target, source_client_id, is_active and its filters.
Settings == [source : Chats, target : Chats \cup Hooks, via : Clients \cup {Unset},
             active : BOOLEAN, mode : {"none", "include", "exclude"},
             keywords : (SUBSET Words) \cup {Unset}, media : Media \cup {"all"}]

\* The fields of a rule that a body has, and the others as they were.
Edited(s, e) == [f \in DOMAIN s |-> IF f \in DOMAIN e THEN e[f] ELSE s[f]]

\* A collector's row.
Gathering == [channel : Chats \cup {NoChannel}, active : BOOLEAN]

ASSUME RoutingAssumption ==
  /\ Members \in [Clients -> SUBSET Chats] /\ Hooks \cap Chats = {} /\ Outsider \notin Clients
  /\ Media \subseteq {"photo", "document", "text"} /\ "text" \in Media
  /\ Originals \subseteq [chat : Chats, words : SUBSET Words, media : Media]
  /\ NewRules \subseteq Settings
  /\ \A e \in RuleEdits : /\ DOMAIN e # {}
                          /\ \A s \in Settings : Edited(s, e) \in Settings
  /\ ChannelBodies \subseteq [channel : Chats \cup {NoChannel, Unset},
                             active : BOOLEAN \cup {Unset}]
  /\ {MaxRules, MaxGatherers, MaxPosts, MaxCalls, MaxBreaks} \subseteq Nat
  /\ Unset \notin Settings \cup Gathering

VARIABLES
  rule,       \* rules
  record,     \* messages: per rule, the message, the listener, the turn and the status
  gatherer,   \* collectors: channel_id and is_active
  stored,     \* collector_histories: the messages
  post,       \* the messages there are
  inbox,      \* what a listener has yet to work on
  told,       \* how often a listener was told of each message
  listening,  \* the clients whose listener is alive
  work,       \* where a listener is in handle_new_message
  request,    \* the open requests on collectors
  deleting,   \* the rules whose deletion is under way
  calls, breaks,
  settings,   \* what a rule has been set to so far
  unrecorded, \* what was posted for a rule and could not be recorded
  emptied,    \* rules a deletion of which began
  contested   \* channels two open requests were about

tables   == <<rule, record, gatherer, stored>>
traffic  == <<post, inbox, told, listening, work>>
asking   == <<request, deleting, calls>>
memories == <<settings, unrecorded, emptied, contested>>
routingVars == <<tables, traffic, asking, breaks, memories>>

IsRule(r) == rule[r] # Unset
IdleWork  == [step |-> "idle"]
NoRequest == [step |-> "none"]

RoutingTypeOK ==
  /\ rule \in [Rules -> Settings \cup {Unset}]
  /\ record \in [Rules -> SUBSET (Posts \X Clients \X Nat \X {"success", "failed"})]
  /\ gatherer \in [Gatherers -> Gathering \cup {Unset}]
  /\ stored \subseteq Posts /\ Len(post) <= MaxPosts
  /\ inbox \in [Clients -> SUBSET Posts] /\ listening \subseteq Clients
  /\ told \in [Clients -> [Posts -> Nat]]
  /\ \A c \in Clients : work[c].step \in {"idle", "forward", "record", "collect", "save"}
  /\ \A o \in Operators : request[o].step \in {"none", "check", "write"}
  /\ deleting \subseteq Rules

RoutingInit ==
  /\ rule = [r \in Rules |-> Unset]
  /\ record = [r \in Rules |-> {}]
  /\ gatherer = [k \in Gatherers |-> Unset]
  /\ stored = {} /\ post = <<>>
  /\ inbox = [c \in Clients |-> {}]
  /\ told = [c \in Clients |-> [m \in Posts |-> 0]]
  /\ listening = Clients
  /\ work = [c \in Clients |-> IdleWork]
  /\ request = [o \in Operators |-> NoRequest]
  /\ deleting = {} /\ calls = 0 /\ breaks = 0
  /\ settings = [r \in Rules |-> {}]
  /\ unrecorded = {} /\ emptied = {} /\ contested = {}

Call  == calls < MaxCalls /\ calls' = calls + 1
Break == breaks < MaxBreaks /\ breaks' = breaks + 1

-----------------------------------------------------------------------------
(* The filters *)

\* keyword_pass
KeywordPass(words, mode, keywords) ==
  CASE mode = "include" -> keywords # Unset /\ words \cap keywords # {}
    [] mode = "exclude" -> keywords = Unset \/ words \cap keywords = {}
    [] OTHER -> TRUE

\* media_pass
MediaPass(media, filter) == filter \in {"all", media}

Passes(p, s) ==
  /\ s.active /\ s.source = p.chat
  /\ KeywordPass(p.words, s.mode, s.keywords) /\ MediaPass(p.media, s.media)

-----------------------------------------------------------------------------
(* Messages *)

\* A message reaches the listeners of its chat; its author's own may or may
\* not be told of it.
Publish(p) ==
  /\ Len(post) < MaxPosts
  /\ post' = Append(post, p)
  /\ LET new     == Len(post) + 1
         present == {c \in listening : p.chat \in Members[c]}
     IN \E reached \in {present, present \ {p.author}} :
          /\ inbox' = [c \in Clients |-> IF c \in reached THEN inbox[c] \cup {new} ELSE inbox[c]]
          /\ told' = [c \in Clients |-> [m \in Posts |-> IF m = new /\ c \in reached THEN 1
                                                                          ELSE told[c][m]]]

\* Somebody posts in a chat.
Outside ==
  /\ \E o \in Originals :
       Publish([chat |-> o.chat, words |-> o.words, media |-> o.media, author |-> Outsider,
                from |-> 0, rule |-> 0, by |-> Outsider, turn |-> 0])
  /\ UNCHANGED <<tables, listening, work, asking, breaks, memories>>

GoTo(c, w) == work' = [work EXCEPT ![c] = w]

\* The rules that are to post message m, as they are now, and then the collectors.
ForwardThen(c, m, todo) ==
  GoTo(c, [step |-> IF todo = {} THEN "collect" ELSE "forward", msg |-> m, todo |-> todo])

Matching(m) ==
  {[id |-> r, s |-> rule[r]] : r \in {q \in Rules : IsRule(q) /\ Passes(post[m], rule[q])}}

\* Mutant: the messages of the account itself are forwarded, too.
ReceiveAny(c) ==
  /\ work[c] = IdleWork
  /\ \E m \in inbox[c] : /\ \A n \in inbox[c] : m <= n
                         /\ inbox' = [inbox EXCEPT ![c] = @ \ {m}]
                         /\ ForwardThen(c, m, Matching(m))
  /\ UNCHANGED <<tables, post, told, listening, asking, breaks, memories>>

\* handle_new_message, of the messages in the order they come in: no rules for
\* what the account posted itself; an error of the SELECT counts as no rules.
Receive(c) ==
  /\ work[c] = IdleWork
  /\ \E m \in inbox[c] :
       /\ \A n \in inbox[c] : m <= n
       /\ inbox' = [inbox EXCEPT ![c] = @ \ {m}]
       /\ \/ /\ ForwardThen(c, m, IF post[m].author = c THEN {} ELSE Matching(m))
             /\ UNCHANGED breaks
          \/ Break /\ ForwardThen(c, m, {})
  /\ UNCHANGED <<tables, post, told, listening, asking, memories>>

\* What rule t posts of message m for the listener c, which was told of m
\* turn times by now.
Via(c, s)     == IF s.via = Unset THEN c ELSE s.via
Copy(c, m, t) ==
  LET hook == t.s.target \in Hooks
  IN [chat |-> t.s.target, words |-> post[m].words,
      media |-> IF hook THEN "text" ELSE post[m].media,
      author |-> IF hook THEN Outsider ELSE Via(c, t.s), from |-> m, rule |-> t.id, by |-> c,
      turn |-> told[c][m]]

\* The rules take their turns in the order of their ids.  forward_webhook,
\* forward_chat: the copy is posted and the answer is good, or not; or it is
\* not posted.  A chat needs the client the rule names, or else the one that
\* received the message.
Forward(c) ==
  /\ work[c].step = "forward"
  /\ \E t \in work[c].todo :
     LET m    == work[c].msg
         hook == t.s.target \in Hooks
         via  == Via(c, t.s)
         copy == Copy(c, m, t)
         Answer(status) == GoTo(c, [step |-> "record", msg |-> m, todo |-> work[c].todo \ {t},
                                    rule |-> t.id, status |-> status])
     IN /\ \A u \in work[c].todo : t.id <= u.id
        /\ \/ /\ hook \/ via \in listening
              /\ \/ Publish(copy) /\ Answer("success") /\ UNCHANGED breaks
                 \/ Publish(copy) /\ Answer("failed") /\ Break
                 \/ Answer("failed") /\ Break /\ UNCHANGED <<post, inbox, told>>
           \/ /\ ~hook /\ via \notin listening
              /\ Answer("failed") /\ UNCHANGED <<post, inbox, told, breaks>>
  /\ UNCHANGED <<tables, listening, asking, memories>>

\* INSERT INTO messages; the rule may be gone (foreign key).  Then the next rule.
Record(c) ==
  /\ work[c].step = "record"
  /\ LET w == work[c] r == w.rule turn == told[c][w.msg]
     IN \/ /\ IsRule(r)
           /\ record' = [record EXCEPT ![r] = @ \cup {<<w.msg, c, turn, w.status>>}]
           /\ UNCHANGED <<breaks, unrecorded>>
        \/ ~IsRule(r) /\ UNCHANGED <<record, breaks, unrecorded>>
        \/ Break /\ unrecorded' = unrecorded \cup {<<r, w.msg, c, turn>>} /\ UNCHANGED record
  /\ ForwardThen(c, work[c].msg, work[c].todo)
  /\ UNCHANGED <<rule, gatherer, stored, post, inbox, told, listening, asking, settings,
                 emptied, contested>>

\* The active collectors of the chat; an error of the SELECT counts as none.
Collect(c) ==
  /\ work[c].step = "collect"
  /\ LET m     == work[c].msg
         found == {k \in Gatherers : /\ gatherer[k] # Unset /\ gatherer[k].active
                                     /\ gatherer[k].channel = post[m].chat}
     IN \/ /\ GoTo(c, IF found = {} THEN IdleWork
                      ELSE [step |-> "save", msg |-> m, todo |-> found])
           /\ UNCHANGED breaks
        \/ Break /\ GoTo(c, IdleWork)
  /\ UNCHANGED <<tables, post, inbox, told, listening, asking, memories>>

\* save_realtime_message: INSERT OR IGNORE, so that a message is stored once
\* however often a listener is told of it; its error is logged.
SaveHistory(c) ==
  /\ work[c].step = "save"
  /\ \E k \in work[c].todo :
       /\ GoTo(c, IF work[c].todo = {k} THEN IdleWork ELSE [work[c] EXCEPT !.todo = @ \ {k}])
       /\ \/ stored' = stored \cup {work[c].msg} /\ UNCHANGED breaks
          \/ Break /\ UNCHANGED stored
  /\ UNCHANGED <<rule, record, gatherer, post, inbox, told, listening, asking, memories>>

\* The listener is aborted at an await, or the process ends.
StopListener(c) ==
  /\ c \in listening /\ Break
  /\ listening' = listening \ {c}
  /\ GoTo(c, IdleWork)
  /\ inbox' = [inbox EXCEPT ![c] = {}]
  /\ unrecorded' = IF work[c].step = "record"
                   THEN unrecorded \cup {<<work[c].rule, work[c].msg, c, told[c][work[c].msg]>>}
                   ELSE unrecorded
  /\ UNCHANGED <<tables, post, told, asking, settings, emptied, contested>>

\* A connection with catch_up, from the session as the login saved it: Telegram
\* tells it again what came to each chat since, or since as long as it keeps it,
\* what the account posted itself included.
StartListener(c) ==
  /\ c \notin listening
  /\ listening' = listening \cup {c}
  /\ GoTo(c, IdleWork)
  /\ \E since \in [Members[c] -> 0..Len(post)] :
       LET again == {m \in DOMAIN post : post[m].chat \in Members[c] /\ m > since[post[m].chat]}
       IN /\ inbox' = [inbox EXCEPT ![c] = again]
          /\ told' = [told EXCEPT ![c] = [m \in Posts |-> IF m \in again THEN @[m] + 1 ELSE @[m]]]
  /\ UNCHANGED <<tables, post, asking, breaks, memories>>

Listener(c) == \/ Receive(c) \/ Forward(c) \/ Record(c) \/ Collect(c) \/ SaveHistory(c)

-----------------------------------------------------------------------------
(* The requests on rules: one statement each, but for the deletion *)

SetRule(r, s) ==
  /\ rule' = [rule EXCEPT ![r] = s]
  /\ settings' = [settings EXCEPT ![r] = @ \cup {s}]
  /\ UNCHANGED <<record, gatherer, stored, traffic, request, deleting, breaks, unrecorded,
                 emptied, contested>>

\* create_rule: the next id.
CreateRule ==
  /\ Call
  /\ \E r \in Rules, s \in NewRules :
       /\ settings[r] = {} /\ \A q \in 1..(r - 1) : settings[q] # {}
       /\ SetRule(r, s)

\* update_rule sets the fields the body has.
UpdateRule(r) ==
  /\ IsRule(r) /\ Call
  /\ \E e \in RuleEdits :
       SetRule(r, Edited(rule[r], e))

ToggleRule(r) ==
  /\ IsRule(r) /\ Call
  /\ SetRule(r, [rule[r] EXCEPT !.active = ~@])

\* delete_rule: first its messages ...
DeleteMessages(r) ==
  /\ IsRule(r) /\ Call
  /\ record' = [record EXCEPT ![r] = {}]
  /\ deleting' = deleting \cup {r}
  /\ emptied' = emptied \cup {r}
  /\ UNCHANGED <<rule, gatherer, stored, traffic, request, breaks, settings, unrecorded,
                 contested>>

\* ... then the rule, which a message recorded meanwhile holds back.
DeleteRule(r) ==
  /\ r \in deleting
  /\ deleting' = deleting \ {r}
  /\ \/ record[r] = {} /\ rule' = [rule EXCEPT ![r] = Unset] /\ UNCHANGED breaks
     \/ record[r] # {} /\ UNCHANGED <<rule, breaks>>
     \/ Break /\ UNCHANGED rule
  /\ UNCHANGED <<record, gatherer, stored, traffic, request, calls, memories>>

-----------------------------------------------------------------------------
(* The requests on collectors *)

About(o) == IF request[o] = NoRequest THEN Unset ELSE request[o].body.channel

Open(o, k, step, body) ==
  /\ request[o] = NoRequest /\ Call
  /\ request' = [request EXCEPT ![o] = [step |-> step, id |-> k, body |-> body]]
  /\ contested' = contested \cup {ch \in {body.channel} : \E p \in Operators : About(p) = ch}
  /\ UNCHANGED <<tables, traffic, deleting, breaks, settings, unrecorded, emptied>>

\* create_collector
AskCreate(o) ==
  \E b \in ChannelBodies :
    b.channel \notin {NoChannel, Unset} /\ Open(o, 0, "check", b)

\* update_collector: no check without a new channel, nor for channel 0.
AskUpdate(o) ==
  \E k \in Gatherers, b \in ChannelBodies :
    /\ gatherer[k] # Unset /\ {b.channel, b.active} # {Unset}
    /\ Open(o, k, IF b.channel \in {NoChannel, Unset} THEN "write" ELSE "check", b)

Close(o) == request' = [request EXCEPT ![o] = NoRequest]

\* SELECT COUNT(*) of the other collectors of the channel.
CheckChannel(o) ==
  /\ request[o].step = "check"
  /\ IF \E k \in Gatherers \ {request[o].id} :
          gatherer[k] # Unset /\ gatherer[k].channel = request[o].body.channel
     THEN Close(o) ELSE request' = [request EXCEPT ![o].step = "write"]
  /\ UNCHANGED <<tables, traffic, deleting, calls, breaks, memories>>

GivenOr(v, old) == IF v = Unset THEN old ELSE v

\* INSERT INTO collectors, active unless the body says otherwise; or UPDATE,
\* of what the body has.
WriteCollector(o) ==
  /\ request[o].step = "write"
  /\ LET b == request[o].body k == request[o].id
     IN \/ /\ k = 0
           /\ \E new \in Gatherers :
                /\ gatherer[new] = Unset /\ \A i \in 1..(new - 1) : gatherer[i] # Unset
                /\ gatherer' = [gatherer EXCEPT ![new] =
                     [channel |-> b.channel, active |-> GivenOr(b.active, TRUE)]]
        \/ /\ k # 0
           /\ gatherer' = [gatherer EXCEPT ![k] =
                [channel |-> GivenOr(b.channel, @.channel), active |-> GivenOr(b.active, @.active)]]
  /\ Close(o)
  /\ UNCHANGED <<rule, record, stored, traffic, deleting, calls, breaks, memories>>

\* An error, or the client hangs up.
AskBreaks(o) ==
  /\ request[o] # NoRequest /\ Break /\ Close(o)
  /\ UNCHANGED <<tables, traffic, deleting, calls, memories>>

-----------------------------------------------------------------------------
RoutingNext ==
  \/ Outside \/ CreateRule
  \/ \E c \in Clients : Listener(c) \/ StopListener(c) \/ StartListener(c)
  \/ \E r \in Rules : UpdateRule(r) \/ ToggleRule(r) \/ DeleteMessages(r) \/ DeleteRule(r)
  \/ \E o \in Operators : \/ AskCreate(o) \/ AskUpdate(o) \/ CheckChannel(o)
                          \/ WriteCollector(o) \/ AskBreaks(o)

RoutingSpec == RoutingInit /\ [][RoutingNext]_routingVars

-----------------------------------------------------------------------------
(* Properties *)

Copies == {i \in DOMAIN post : post[i].rule # 0}

\* A rule posts a message at most once for each time that the listener of an
\* account, not its author's, was told of it: when it came, and again by each
\* start that catches up.  It posts only a message that some setting of the rule
\* sends there (handle_new_message, keyword_pass, media_pass).
RuleCopiesAccounted ==
  \A i \in Copies :
    LET p == post[i] original == post[post[i].from]
    IN /\ p.by # original.author /\ original.chat \in Members[p.by]
       /\ p.turn \in 1..told[p.by][p.from]
       /\ \A j \in Copies \ {i} : <<post[j].rule, post[j].from, post[j].by, post[j].turn>>
                                   # <<p.rule, p.from, p.by, p.turn>>
       /\ \E s \in settings[p.rule] : s.target = p.chat /\ Passes(original, s)

\* What a rule is recorded to have posted is there, and what it posted is
\* recorded, once its listener is past it, unless the record failed, its
\* listener ended, or the rule's deletion began (forward_message, delete_rule).
RuleRecordsAccounted ==
  \A r \in Rules : IsRule(r) =>
    /\ \A x \in record[r] : x[4] = "success" =>
         \E i \in Copies : /\ post[i].rule = r /\ post[i].from = x[1] /\ post[i].by = x[2]
                           /\ post[i].turn = x[3]
    /\ \A i \in Copies : post[i].rule = r =>
         LET m == post[i].from c == post[i].by turn == post[i].turn
         IN \/ \E status \in {"success", "failed"} : <<m, c, turn, status>> \in record[r]
            \/ /\ work[c].step = "record" /\ work[c].msg = m /\ work[c].rule = r
               /\ told[c][m] = turn
            \/ <<r, m, c, turn>> \in unrecorded \/ r \in emptied

\* Two collectors are for one channel only after two requests about it
\* crossed: each counts before it writes (create_collector, update_collector).
ChannelsAccounted ==
  \A k, l \in Gatherers :
    (k # l /\ gatherer[k] # Unset /\ gatherer[l] # Unset
       /\ gatherer[k].channel = gatherer[l].channel)
    => gatherer[k].channel \in contested \cup {NoChannel}

\* What the rules post and record, and whom the collectors are for, is accounted
\* for (message_handler.rs, rule.rs, handlers/collector.rs).
RoutingAccounted == RuleCopiesAccounted /\ RuleRecordsAccounted /\ ChannelsAccounted

=============================================================================
