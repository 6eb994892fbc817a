------------------------------ MODULE BotCommands ------------------------------
(***************************************************************************)
(* The /id listener (services/bot_command.rs): a loop asks Telegram for    *)
(* the updates of every bot and answers the command in the chat it came    *)
(* from.  It never confirms an update, so that the list of a bot's chats   *)
(* (get_bot_chats of bot_api.rs) finds them, too: what it has seen is a    *)
(* number in the process, and each call is answered with the oldest        *)
(* updates Telegram still keeps.                                           *)
(***************************************************************************)
EXTENDS Naturals, Sequences

CONSTANTS
  Bots,
  NoBot,
  UpdateLimit, \* updates in an answer: 100
  MaxUpdates, MaxSlips, MaxEnds   \* bounds

ASSUME BotAssumption ==
  /\ NoBot \notin Bots
  /\ {UpdateLimit, MaxUpdates, MaxSlips, MaxEnds} \subseteq Nat

VARIABLES
  usernames, \* the bots whose row has a username
  updates,   \* what was sent to each bot, its update_ids counted from 1
  dropped,   \* how many of them Telegram keeps no more
  aged,      \* how many are older than FRESH_WINDOW_SECS
  cursors,   \* max_seen_update_id
  resting,   \* the bots whose skip_until is to come
  loop,      \* the tick: what it works on
  replies,   \* how often each update was answered, in this process or before
  unsent,    \* updates the answer to which failed
  restarts,  \* how often the process started again while the update was young
  slips, ends

telegram  == <<usernames, updates, dropped, aged>>
botBounds == <<slips, ends>>
botVars   == <<telegram, cursors, resting, loop, replies, unsent, restarts, botBounds>>

\* The bare command, the command with the bot's name, and anything else.
Whats == {"id", "named", "talk"}

Asleep == [at |-> "sleep", left |-> {}, bot |-> NoBot, old |-> [b \in Bots |-> 0], queue |-> {}]

BotTypeOK ==
  /\ usernames \subseteq Bots
  /\ \A b \in Bots : /\ updates[b] \in Seq(Whats)
                     /\ dropped[b] <= aged[b] /\ aged[b] <= Len(updates[b])
                     /\ cursors[b] <= Len(updates[b])
  /\ loop.at \in {"sleep", "next", "poll", "send"} /\ loop.left \cup resting \subseteq Bots
  /\ loop.at \in {"poll", "send"} <=> loop.bot # NoBot

BotInit ==
  /\ usernames \in SUBSET Bots
  /\ updates = [b \in Bots |-> <<>>]
  /\ dropped = [b \in Bots |-> 0] /\ aged = [b \in Bots |-> 0] /\ cursors = [b \in Bots |-> 0]
  /\ resting = {} /\ loop = Asleep
  /\ replies = [b \in Bots |-> [i \in 1..MaxUpdates |-> 0]] /\ unsent = {}
  /\ restarts = [b \in Bots |-> [i \in 1..MaxUpdates |-> 0]]
  /\ slips = 0 /\ ends = 0

Slip == slips < MaxSlips /\ slips' = slips + 1

-----------------------------------------------------------------------------
(* Telegram *)

Post(b) ==
  /\ Len(updates[b]) < MaxUpdates
  /\ \E what \in Whats : updates' = [updates EXCEPT ![b] = Append(@, what)]
  /\ UNCHANGED <<usernames, dropped, aged, cursors, resting, loop, replies,
                 unsent, restarts, botBounds>>

\* Ten minutes, and a day, pass.
GrowOld(b) ==
  /\ \/ aged[b] < Len(updates[b]) /\ aged' = [aged EXCEPT ![b] = @ + 1] /\ UNCHANGED dropped
     \/ dropped[b] < aged[b] /\ dropped' = [dropped EXCEPT ![b] = @ + 1] /\ UNCHANGED aged
  /\ UNCHANGED <<usernames, updates, cursors, resting, loop, replies, unsent,
                 restarts, botBounds>>

\* An answer of getUpdates: the oldest updates there are, up to the last of them.
Newest(b)  == IF Len(updates[b]) <= dropped[b] + UpdateLimit THEN Len(updates[b])
                                                               ELSE dropped[b] + UpdateLimit
Pending(b) == (dropped[b] + 1)..Newest(b)

-----------------------------------------------------------------------------
(* The loop *)

\* fetch_bots reads the clients; the clock is read once for the tick.
BeginTick ==
  /\ loop.at = "sleep"
  /\ loop' = [Asleep EXCEPT !.at = "next", !.left = Bots, !.old = aged]
  /\ UNCHANGED <<telegram, cursors, resting, replies, unsent, restarts, botBounds>>

NextBot ==
  /\ loop.at = "next"
  /\ \/ loop.left = {} /\ loop' = Asleep
     \/ \E b \in loop.left \cap resting :
          loop' = [loop EXCEPT !.left = @ \ {b}]
     \/ \E b \in loop.left \ resting :
          loop' = [loop EXCEPT !.at = "poll", !.bot = b]
  /\ UNCHANGED <<telegram, cursors, resting, replies, unsent, restarts, botBounds>>

Onward == [loop EXCEPT !.at = "next", !.left = @ \ {loop.bot}, !.bot = NoBot, !.queue = {}]

\* The call fails, as it does next to a get_bot_chats of the same bot (409).
PollFails ==
  /\ loop.at = "poll" /\ Slip
  /\ resting' = resting \cup {loop.bot}
  /\ loop' = Onward
  /\ UNCHANGED <<telegram, cursors, replies, unsent, restarts, ends>>

BackoffEnds(b) ==
  /\ b \in resting /\ resting' = resting \ {b}
  /\ UNCHANGED <<telegram, cursors, loop, replies, unsent, restarts, botBounds>>

\* is_id_command: without a username only the bare command.
IsCommand(what, named) == what = "id" \/ (what = "named" /\ named)

\* Mutant: what the cursor has passed is looked at again.
IdRepliesAgain(b, named) ==
  {i \in Pending(b) : IsCommand(updates[b][i], named) /\ i > loop.old[b]}

\* extract_id_replies: the new commands of the answer, the old ones left out.
IdReplies(b, named) ==
  {i \in Pending(b) : i > cursors[b] /\ IsCommand(updates[b][i], named) /\ i > loop.old[b]}

\* The cursor moves before an answer is sent.  The username of a bot whose row
\* has none is asked for (getMe), which may fail.
Polled ==
  /\ loop.at = "poll"
  /\ LET b == loop.bot
     IN /\ \E named \in IF b \in usernames THEN {TRUE} ELSE BOOLEAN :
             LET queue == IdReplies(b, named)
             IN loop' = IF queue = {} THEN Onward ELSE [loop EXCEPT !.at = "send", !.queue = queue]
        /\ cursors' = [cursors EXCEPT ![b] = IF \E i \in Pending(b) : i > @ THEN Newest(b) ELSE @]
  /\ UNCHANGED <<telegram, resting, replies, unsent, restarts, botBounds>>

\* The answers go out in the order of the updates.  One that fails may have
\* arrived; it is not sent again.
SendReply ==
  /\ loop.at = "send"
  /\ \E i \in loop.queue :
       LET b == loop.bot
           Delivered == replies' = [replies EXCEPT ![b][i] = @ + 1]
       IN /\ \A j \in loop.queue : i <= j
          /\ \/ Delivered /\ UNCHANGED <<unsent, slips>>
             \/ (Delivered \/ UNCHANGED replies) /\ unsent' = unsent \cup {<<b, i>>} /\ Slip
          /\ loop' = IF loop.queue = {i} THEN Onward ELSE [loop EXCEPT !.queue = @ \ {i}]
  /\ UNCHANGED <<telegram, cursors, resting, restarts, ends>>

\* stop_bot_command_listener and, with the next process, start_bot_command_listener:
\* the cursors were kept in the process only, and Telegram keeps the updates.
RestartListener ==
  /\ ends < MaxEnds /\ ends' = ends + 1
  /\ cursors' = [b \in Bots |-> 0] /\ resting' = {} /\ loop' = Asleep
  /\ restarts' = [b \in Bots |-> [i \in 1..MaxUpdates |->
                     IF i \in (aged[b] + 1)..Len(updates[b]) THEN restarts[b][i] + 1
                                                             ELSE restarts[b][i]]]
  /\ UNCHANGED <<telegram, replies, unsent, slips>>

-----------------------------------------------------------------------------
BotNext ==
  \/ BeginTick \/ NextBot \/ PollFails \/ Polled \/ SendReply \/ RestartListener
  \/ \E b \in Bots : Post(b) \/ GrowOld(b) \/ BackoffEnds(b)

BotSpec == BotInit /\ [][BotNext]_botVars

-----------------------------------------------------------------------------
(* Properties *)

\* A command is answered at most once, and once more for every restart that
\* finds it still young: the window of FRESH_WINDOW_SECS is all that a new
\* process has instead of the cursors.  Only a young command is to be answered;
\* and one the cursor has passed was answered, is about to be, or its answer
\* failed, unless it is too old by now or the bot's name was not known
\* (run_loop, tick, extract_id_replies).
RepliesAccounted ==
  \A b \in Bots : \A i \in DOMAIN updates[b] :
    LET what    == updates[b][i]
        waiting == loop.bot = b /\ i \in loop.queue
        passed  == i <= cursors[b]
    IN /\ replies[b][i] + (IF waiting THEN 1 ELSE 0) <= 1 + restarts[b][i]
       /\ waiting => i > loop.old[b] /\ passed
       /\ waiting \/ replies[b][i] > 0 => what # "talk"
       /\ (what # "talk" /\ passed) =>
            \/ waiting \/ replies[b][i] > 0 \/ <<b, i>> \in unsent
            \/ i <= aged[b] \/ (what = "named" /\ b \notin usernames)

=============================================================================
