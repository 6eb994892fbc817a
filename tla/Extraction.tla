------------------------------ MODULE Extraction ------------------------------
(***************************************************************************)
(* From a message's text to resources: the rules (services/extractor.rs)   *)
(* and the language models that may be asked to improve on them            *)
(* (services/ai_extractor.rs).  Collection has the records and what        *)
(* becomes of the resources.                                               *)
(*                                                                         *)
(* A text is a sequence of lines, and a line is what the rules look at:    *)
(* its links, its length, the keyword it starts with, its tags.  Several   *)
(* extractions are under way at a time; all choose their endpoints by one  *)
(* counter of the process, and the list of endpoints may change meanwhile. *)
(***************************************************************************)
EXTENDS Naturals, Sequences, FiniteSets, SequencesExt

CONSTANTS
  Extractors,    \* the extractions
  Texts,         \* the texts each may be given
  Links,         \* addresses, ...
  ServiceOf,     \* ... what identify_netdisk says each is, ...
  PartOf,        \* ... and which are a part of the text of another
  NotFound,      \* no service
  ServiceOrder,  \* the services in the order in which identify_netdisk tries them
  Tags,
  Names,         \* titles a model may give
  Codes,         \* codes to open a link with
  NoCode,
  Pools,         \* values of push_ai_endpoints
  Answering,     \* the endpoints that answer, but for faults
  Answers,       \* what a model may answer
  MaxChanges,    \* bound: changes of the option
  MaxMissed      \* bound: calls of answering endpoints that fail

Line == [links : Seq(Links), size : 0..3, key : {"none", "title", "about"},
         ad : BOOLEAN, tags : SUBSET Tags]
FoundLink == [link : Links, within : Codes \cup {NoCode}, after : Codes \cup {NoCode}]
\* joined: its links come as an array, or as a text that begins with "http"; one
\* that does not begin so is a list, and so is an array next to an empty text.
Item  == [name : Names, prefixed : BOOLEAN, urls : Seq(FoundLink), joined : BOOLEAN,
          about : SUBSET {"about"}, tags : SUBSET Tags]

ASSUME ExtractionAssumption ==
  /\ \A e \in Extractors : \A t \in Texts[e] : \A i \in DOMAIN t : t[i] \in Line
  /\ NotFound \in {ServiceOf[l] : l \in Links} /\ PartOf \subseteq Links \X Links
  /\ ToSet(ServiceOrder) = {ServiceOf[l] : l \in Links} \ {NotFound}
  /\ \A p \in Pools : /\ Len(p) \in Nat /\ DOMAIN p = 1..Len(p)
                       /\ \A i \in DOMAIN p : DOMAIN p[i] = {"id", "enable"}
  /\ \A a \in Answers : \A i \in DOMAIN a : a[i] \in Item
  /\ {MaxChanges, MaxMissed} \subseteq Nat

VARIABLES
  pool,      \* the option push_ai_endpoints
  turn,      \* ENDPOINT_COUNTER
  task,      \* the extractions: the text, the rules' resources, the tries
  changes, missed

extractionVars == <<pool, turn, task, changes, missed>>

-----------------------------------------------------------------------------
(* The rules *)

Numbers(text) == {i \in DOMAIN text : text[i].size > 0}

Least(S) == CHOOSE i \in S : \A j \in S : i <= j

\* extract_all_urls, identify_netdisk: the links of known services, in order.
Netdisks(text) ==
  FlattenSeq([i \in DOMAIN text |-> SelectSeq(text[i].links, LAMBDA l : ServiceOf[l] # NotFound)])

\* clean_advertisement: what comes before the first line with a channel's link.
Cleaned(text) ==
  LET ads == {i \in DOMAIN text : text[i].ad}
  IN IF ads = {} THEN text ELSE SubSeq(text, 1, Least(ads) - 1)

With(text, key) == {i \in DOMAIN text : text[i].key = key}

\* extract_title_by_keywords, or else the first line; 0 is "unnamed".
TitleOf(text) ==
  CASE With(text, "title") # {} -> Least(With(text, "title"))
    [] Numbers(text) # {} /\ With(text, "title") = {} -> Least(Numbers(text))
    [] OTHER -> 0

\* extract_description_by_keywords: the lines up to the next empty one.
AboutOf(text) ==
  IF With(text, "about") = {} THEN {}
  ELSE LET i == Least(With(text, "about"))
       IN {j \in i..Len(text) : i..j \subseteq Numbers(text)}

TagsOf(text) == UNION {text[i].tags : i \in DOMAIN text}

\* should_split_multiple
ShouldSplit(links) ==
  /\ Len(links) > 3
  /\ \E i, j \in DOMAIN links : i # j /\ ServiceOf[links[i]] = ServiceOf[links[j]]

HasLink(line, l) == \E k \in ToSet(line.links) : k = l \/ <<l, k>> \in PartOf

\* split_multiple_resources: one resource for each line with a link, the first
\* of the message's links that is found in it, named after the line before.
SplitOf(text, links) ==
  LET Has(i) == {n \in DOMAIN links : HasLink(text[i], links[n])}
      lines  == SetToSortSeq({i \in Numbers(text) : Has(i) # {}}, <)
      Of(i)  == LET l == links[Least(Has(i))]
                IN [title |-> IF i > 1 /\ text[i - 1].size >= 3 THEN i - 1 ELSE i,
                    url |-> <<l>>, category |-> ServiceOf[l], about |-> {},
                    tags |-> TagsOf(text)]
  IN [n \in DOMAIN lines |-> Of(lines[n])]

\* extract_resources
RuleResources(text) ==
  LET links == Netdisks(text)
      clean == Cleaned(text)
      split == SplitOf(clean, links)
  IN CASE links = <<>> -> <<>>
       [] links # <<>> /\ ShouldSplit(links) /\ split # <<>> -> split
       [] OTHER -> <<[title |-> TitleOf(clean), url |-> links, category |-> ServiceOf[links[1]],
                      about |-> AboutOf(clean), tags |-> TagsOf(clean)]>>

-----------------------------------------------------------------------------
(* The answer of a model *)

\* A url of a resource is a text, and the links in it stand for it: mostly one.
\* normalize_url: what follows the first "|", as a code, goes into the text before
\* it, unless that has a code: then the text ends there.
Normal(found) ==
  LET barred == {i \in DOMAIN found : found[i].after # NoCode}
      first  == Least(barred)
      coded  == \E i \in 1..first : found[i].within # NoCode
  IN CASE barred = {} -> found
       [] barred # {} /\ coded -> [SubSeq(found, 1, first) EXCEPT ![first].after = NoCode]
       [] OTHER -> [found EXCEPT ![first] =
                      [link |-> @.link, within |-> @.after, after |-> NoCode]]

\* identify_netdisk, of such a text.
ServiceIn(url) ==
  LET known == {n \in DOMAIN ServiceOrder :
                  \E i \in DOMAIN url : ServiceOf[url[i].link] = ServiceOrder[n]}
  IN IF known = {} THEN NotFound ELSE ServiceOrder[Least(known)]

\* extract_string, call_ai_batch_api: an item as a resource.  An array of links, or a
\* text that begins with "http", is one url; clean_title drops the prefix.
Resource(item) ==
  LET urls == CASE item.urls = <<>> -> <<>>
                [] item.urls # <<>> /\ item.joined -> <<Normal(item.urls)>>
                [] OTHER -> [i \in DOMAIN item.urls |-> Normal(<<item.urls[i]>>)]
  IN [title |-> item.name, url |-> urls,
      category |-> IF urls = <<>> THEN NotFound ELSE ServiceIn(urls[1]),
      about |-> item.about, tags |-> item.tags]

\* merge_same_title_resources, one resource.
Fold(merged, r) ==
  LET same == {i \in DOMAIN merged : merged[i].title = r.title}
  IN IF same = {} THEN Append(merged, r)
     ELSE LET i   == Least(same)
              m   == merged[i]
              all == FoldLeft(LAMBDA u, x : IF x \in ToSet(u) THEN u ELSE Append(u, x), m.url, r.url)
          IN [merged EXCEPT ![i] =
               [title |-> m.title, url |-> all,
                category |-> IF all = <<>> THEN m.category ELSE ServiceIn(all[1]),
                about |-> IF m.about = {} THEN r.about ELSE m.about,
                tags |-> IF m.tags = {} THEN r.tags ELSE m.tags]]

Merged(items) == FoldLeft(Fold, <<>>, [i \in DOMAIN items |-> Resource(items[i])])

-----------------------------------------------------------------------------
NoTask == [step |-> "idle"]

ExtractionInit ==
  /\ pool \in Pools
  /\ turn = 0
  /\ task = [e \in Extractors |-> NoTask]
  /\ changes = 0 /\ missed = 0

\* The enabled endpoints of a list, and the one whose turn it is at t.
Enabled(p) == {i \in DOMAIN p : p[i].enable}
Ahead(p, i) == Cardinality({j \in Enabled(p) : j < i})
AtTurn(p, t) ==
  p[CHOOSE i \in Enabled(p) : Ahead(p, i) = t % Cardinality(Enabled(p))].id

\* The resources are the rules' own, or the model's.
Result(e, how, answer, resources) ==
  task' = [task EXCEPT ![e] = [step |-> "done", how |-> how, text |-> @.text, rules |-> @.rules,
                               pool |-> @.pool, tried |-> @.tried, crossed |-> @.crossed,
                               answer |-> answer, resources |-> resources]]

\* The next endpoint is called.
Asking(e) ==
  LET called == [task[e] EXCEPT !.step = "call"]
  IN [called EXCEPT !.tried = Append(@, AtTurn(called.pool, turn))]

\* The record is read; without a link, or in mode "rule", no model is asked;
\* neither is one without endpoints.
BeginExtraction(e) ==
  /\ task[e] = NoTask
  /\ \E text \in Texts[e], mode \in {"rule", "ai"} :
       LET r    == RuleResources(text)
           asks == r # <<>> /\ mode = "ai" /\ pool # <<>>
       IN task' = [task EXCEPT ![e] =
            [step |-> IF asks THEN "choose" ELSE "done", how |-> "unasked", text |-> text,
             rules |-> r, pool |-> pool, tried |-> <<>>, crossed |-> FALSE, answer |-> <<>>,
             resources |-> r]]
  /\ UNCHANGED <<pool, turn, changes, missed>>

Tries(p) == IF Len(p) < 3 THEN Len(p) ELSE 3

\* Mutant: the counter moves on only after an answer.
ChooseSame(e) ==
  /\ task[e].step = "choose"
  /\ IF Enabled(task[e].pool) = {} THEN Result(e, "fallback", <<>>, task[e].rules)
                                   ELSE task' = [task EXCEPT ![e] = Asking(e)]
  /\ UNCHANGED <<pool, turn, changes, missed>>

\* select_endpoint: the enabled ones by turns, for all extractions together.
Choose(e) ==
  /\ task[e].step = "choose"
  /\ \/ /\ Enabled(task[e].pool) = {}
        /\ Result(e, "fallback", <<>>, task[e].rules) /\ UNCHANGED turn
     \/ /\ Enabled(task[e].pool) # {}
        /\ turn' = turn + 1
        /\ task' = [d \in Extractors |->
             CASE d = e -> Asking(e)
               [] d # e /\ task[d].step \in {"choose", "call"} /\ task[d].tried # <<>>
                    -> [task[d] EXCEPT !.crossed = TRUE]
               [] OTHER -> task[d]]
  /\ UNCHANGED <<pool, changes, missed>>

\* The call fails: the next try, or the rules' resources after the last.
CallFails(e) ==
  /\ task[e].step = "call"
  /\ \/ Last(task[e].tried) \notin Answering /\ UNCHANGED missed
     \/ Last(task[e].tried) \in Answering /\ missed < MaxMissed /\ missed' = missed + 1
  /\ IF Len(task[e].tried) = Tries(task[e].pool)
     THEN Result(e, "fallback", <<>>, task[e].rules)
     ELSE task' = [task EXCEPT ![e].step = "choose"]
  /\ UNCHANGED <<pool, turn, changes>>

\* The model answers; no resource counts as the rules' ones.
CallAnswers(e) ==
  /\ task[e].step = "call" /\ Last(task[e].tried) \in Answering
  /\ \E a \in Answers :
       Result(e, "answer", a, IF a = <<>> THEN task[e].rules ELSE Merged(a))
  /\ UNCHANGED <<pool, turn, changes, missed>>

\* The options are saved.
SetEndpoints ==
  /\ changes < MaxChanges /\ changes' = changes + 1
  /\ pool' \in Pools
  /\ UNCHANGED <<turn, task, missed>>

ExtractionNext ==
  \/ SetEndpoints
  \/ \E e \in Extractors : \/ BeginExtraction(e) \/ Choose(e) \/ CallFails(e) \/ CallAnswers(e)

ExtractionSpec == ExtractionInit /\ [][ExtractionNext]_extractionVars

-----------------------------------------------------------------------------
(* Properties *)

Begun == {e \in Extractors : task[e] # NoTask}

\* Every link of a known service is in one of the rules' resources, but in a
\* message that is split the links of the advertisement, and those of a line in
\* which an earlier one of the message was found; and nothing but links comes
\* from the advertisement (extract_resources, split_multiple_resources).
RuleLinksAccounted ==
  \A e \in Begun :
    LET text  == task[e].text
        rules == task[e].rules
        links == Netdisks(text)
        clean == Cleaned(text)
        Kept(l) == \E i \in DOMAIN rules : l \in ToSet(rules[i].url)
    IN /\ \A l \in ToSet(links) : \/ Kept(l)
                                  \/ /\ ShouldSplit(links)
                                     /\ \A i \in DOMAIN clean : l \in ToSet(clean[i].links) =>
                                          \E k \in ToSet(links) \ {l} : HasLink(clean[i], k) /\ Kept(k)
       /\ \A i \in DOMAIN rules : /\ {rules[i].title} \cup rules[i].about \subseteq 0..Len(clean)
                                  /\ rules[i].tags \subseteq TagsOf(clean)

\* An extraction that asked models and ends with the rules' resources has tried
\* every enabled endpoint, unless there are more than three of them or another
\* extraction took turns in between (select_endpoint, ai_extract_batch).
FallbackAccounted ==
  \A e \in Begun :
    (task[e].step = "done" /\ task[e].how = "fallback") =>
      LET p == task[e].pool
      IN Cardinality(Enabled(p)) > 3 \/ task[e].crossed
         \/ \A i \in Enabled(p) : p[i].id \in ToSet(task[e].tried)

\* Resources of one title are one resource, and it has every link of the answer
\* and a code wherever the answer had one: as a url of its own, or among those it
\* was joined with.  But from the first "|" of joined links on, if there was a code
\* before it, links and codes are lost (normalize_url, clean_title,
\* merge_same_title_resources).
AnswerKept ==
  \A e \in Begun :
    (task[e].step = "done" /\ task[e].how = "answer" /\ task[e].answer # <<>>) =>
      LET out == task[e].resources
          Coded(f) == f.within # NoCode \/ f.after # NoCode
          Alone(item) == ~item.joined \/ Len(item.urls) = 1
          CutOff(item, n) == /\ item.joined
                             /\ \E i \in 1..n : /\ item.urls[i].after # NoCode
                                                /\ \E j \in 1..i : item.urls[j].within # NoCode
      IN /\ \A i, j \in DOMAIN out : i # j => out[i].title # out[j].title
         /\ \A m \in DOMAIN task[e].answer : LET item == task[e].answer[m]
              IN \E i \in DOMAIN out :
                   /\ out[i].title = item.name
                   /\ \A n \in DOMAIN item.urls :
                        \/ ~Alone(item) /\ CutOff(item, n)
                        \/ \E url \in ToSet(out[i].url) :
                             /\ Alone(item) => Len(url) = 1 /\ url[1].after = NoCode
                             /\ \E f \in ToSet(url) : /\ f.link = item.urls[n].link
                                                      /\ Coded(item.urls[n]) => Coded(f)

\* Neither the rules nor the merging of a model's answer loses a link but as these
\* say, and the rules stand in for a model only when none answers (extractor.rs,
\* ai_extractor.rs).
ExtractionAccounted == RuleLinksAccounted /\ FallbackAccounted /\ AnswerKept

=============================================================================
