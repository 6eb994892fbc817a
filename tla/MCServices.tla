---------------------------- MODULE MCServices ----------------------------
(***************************************************************************)
(* Services that keep no state in common, checked in one run: a behaviour  *)
(* exercises one of them, and the others stay as they begin.               *)
(***************************************************************************)
EXTENDS FieldTree, PushConfigs, Routing, Extraction, PanAccounts, PanDrive, ImageProxy,
        BotCommands, ApiKeys, Schedulers

VARIABLE part   \* the service a behaviour exercises

serviceVars == <<part, fieldVars, configVars, routingVars, extractionVars, accountVars, driveVars,
                 proxyVars, botVars, keyVars, schedVars>>

-----------------------------------------------------------------------------
(* The field tree: three fields to begin with *)

Card == [name |-> "card", kind |-> "card", active |-> TRUE]
Tag  == [name |-> "tag", kind |-> "plain", active |-> TRUE]
Calc == [name |-> "tag", kind |-> "script", active |-> FALSE]
MCBodies == {Card, Tag, Calc}

Field(p, s, b, o) == [task |-> 1, parent |-> p, scope |-> s, body |-> b, order |-> o]
MCInitTrees ==
  {<<>>,
   <<Field(0, "list_page", Card, 0), Field(1, "list_page", Tag, 0), Field(2, "list_page", Tag, 0)>>,
   <<Field(0, "list_page", Card, 1), Field(0, "list_page", Tag, 0), Field(0, "detail_page", Calc, 0)>>}

\* Two cards on the page; the first holds two tags, the second one; and so on.
MCFound(name, fragment) ==
  CASE fragment = <<>> -> IF name = "card" THEN 2 ELSE 3
    [] fragment = <<<<"card", 1>>>> -> 2
    [] OTHER -> 1

-----------------------------------------------------------------------------
(* The push configurations *)

CONSTANTS k1, k2, x, y
MCCreations == {[api |-> y, source |-> "selected", ids |-> {k1}]}
MCEdits == {[api |-> x, source |-> Keep, ids |-> Keep],
            [api |-> Keep, source |-> "selected", ids |-> {k2}]}
MCPushedBefore == {{}, {k1}}

-----------------------------------------------------------------------------
(* The rules: from chat ch1 to chat ch2 and back *)

CONSTANTS ag1, ag2, ch1, ch2, hk, kw
MCMembers == (ag1 :> {ch1, ch2}) @@ (ag2 :> {ch2})
MCNewRules ==
  {[source |-> ch1, target |-> ch2, via |-> Unset, active |-> TRUE, mode |-> "exclude",
    keywords |-> {kw}, media |-> "all"],
   [source |-> ch2, target |-> ch1, via |-> ag1, active |-> TRUE, mode |-> "none",
    keywords |-> Unset, media |-> "text"]}
MCRuleEdits == {[mode |-> "include", target |-> hk]}
MCChannelBodies == {[channel |-> ch1, active |-> Unset], [channel |-> NoChannel, active |-> FALSE]}
MCOriginals == {[chat |-> ch1, words |-> {}, media |-> "text"],
                [chat |-> ch2, words |-> {kw}, media |-> "photo"]}

-----------------------------------------------------------------------------
(* The extraction: texts of two lines, and of three with enough links to be split *)

CONSTANTS q1, q2, u1, t0, quark, uc, e1, e2, P1, P2, P3, hot, nA, nB, c1, c2
MCServiceOf == (q1 :> quark) @@ (q2 :> quark) @@ (u1 :> uc) @@ (t0 :> NotFound)
MCServiceOrder == <<quark, uc>>
MCPartOf == {<<q1, q2>>}

Plain(links) == [links |-> links, size |-> 3, key |-> "none", ad |-> FALSE, tags |-> {}]
Blank == [Plain(<<>>) EXCEPT !.size = 0]
MCLines == {Plain(<<q1>>), Plain(<<q2, u1>>), [Plain(<<>>) EXCEPT !.key = "title"],
            [Plain(<<q1>>) EXCEPT !.key = "about", !.tags = {hot}],
            [Plain(<<t0, u1>>) EXCEPT !.ad = TRUE, !.tags = {hot}]}
MCTexts ==
  (e1 :> {text \in [1..3 -> MCLines \cup {Blank}] : Len(Netdisks(text)) = 4} \cup [1..2 -> MCLines])
  @@ (e2 :> {<<Plain(<<q1>>)>>})

MCPools ==
  {<<[id |-> P1, enable |-> TRUE], [id |-> P2, enable |-> TRUE]>>,
   <<[id |-> P1, enable |-> FALSE], [id |-> P2, enable |-> TRUE], [id |-> P3, enable |-> TRUE]>>,
   <<>>}

Link(l, within, after) == [link |-> l, within |-> within, after |-> after]
\* Items with links that are joined, once with a code before the first "|", and
\* with links that are not.
MCItem(name, joined, urls) ==
  [name |-> name, prefixed |-> joined, urls |-> urls, joined |-> joined,
   about |-> IF joined THEN {"about"} ELSE {}, tags |-> {}]
MCAnswers ==
  {<<>>,
   <<MCItem(nA, TRUE, <<Link(q1, NoCode, c1)>>),
     MCItem(nA, TRUE, <<Link(q1, NoCode, c1), Link(u1, NoCode, c2)>>),
     MCItem(nB, FALSE, <<>>)>>,
   <<MCItem(nA, FALSE, <<Link(q1, c1, c2), Link(u1, NoCode, c2)>>),
     MCItem(nA, TRUE, <<Link(u1, c2, NoCode), Link(q1, NoCode, c1), Link(q2, NoCode, NoCode)>>)>>}

-----------------------------------------------------------------------------
\* The requests, and the values of an account, are alike.
MCSymmetry == Permutations(Callers) \cup Permutations(Credentials)
                \cup Permutations(Folders) \cup Permutations(SealKeys)

\* The services that are not exercised begin in one state.
ServicesInit ==
  /\ part \in {"fields", "configs", "routing", "extraction", "accounts", "drive", "proxy", "bots",
              "keys", "schedulers"}
  /\ FieldInit      /\ (part = "fields" <=> node # <<>>)
  /\ ConfigInit     /\ (part = "configs" \/ isPushed = {})
  /\ RoutingInit
  /\ ExtractionInit /\ (part = "extraction" \/ pool = <<>>)
  /\ AccountInit    /\ (part = "accounts" \/ seal = NoSeal)
  /\ DriveInit      /\ (part = "drive" \/ ~(renames \/ reissues))
  /\ ProxyInit
  /\ BotInit        /\ (part = "bots" \/ usernames = {})
  /\ KeyInit
  /\ SchedulerInit  /\ (part = "schedulers" \/ (~BootStarts /\ option.minutes = 0))

ServicesNext ==
  /\ UNCHANGED part
  /\ \/ /\ part = "fields" /\ FieldNext
        /\ UNCHANGED <<configVars, routingVars, extractionVars, accountVars, driveVars,
                       proxyVars, botVars, keyVars, schedVars>>
     \/ /\ part = "configs" /\ ConfigNext
        /\ UNCHANGED <<fieldVars, routingVars, extractionVars, accountVars, driveVars,
                       proxyVars, botVars, keyVars, schedVars>>
     \/ /\ part = "routing" /\ RoutingNext
        /\ UNCHANGED <<fieldVars, configVars, extractionVars, accountVars, driveVars,
                       proxyVars, botVars, keyVars, schedVars>>
     \/ /\ part = "extraction" /\ ExtractionNext
        /\ UNCHANGED <<fieldVars, configVars, routingVars, accountVars, driveVars,
                       proxyVars, botVars, keyVars, schedVars>>
     \/ /\ part = "accounts" /\ AccountNext
        /\ UNCHANGED <<fieldVars, configVars, routingVars, extractionVars, driveVars,
                       proxyVars, botVars, keyVars, schedVars>>
     \/ /\ part = "drive" /\ DriveNext
        /\ UNCHANGED <<fieldVars, configVars, routingVars, extractionVars, accountVars,
                       proxyVars, botVars, keyVars, schedVars>>
     \/ /\ part = "proxy" /\ ProxyNext
        /\ UNCHANGED <<fieldVars, configVars, routingVars, extractionVars, accountVars,
                       driveVars, botVars, keyVars, schedVars>>
     \/ /\ part = "bots" /\ BotNext
        /\ UNCHANGED <<fieldVars, configVars, routingVars, extractionVars, accountVars,
                       driveVars, proxyVars, keyVars, schedVars>>
     \/ /\ part = "keys" /\ KeyNext
        /\ UNCHANGED <<fieldVars, configVars, routingVars, extractionVars, accountVars,
                       driveVars, proxyVars, botVars, schedVars>>
     \/ /\ part = "schedulers" /\ SchedulerNext
        /\ UNCHANGED <<fieldVars, configVars, routingVars, extractionVars, accountVars,
                       driveVars, proxyVars, botVars, keyVars>>

ServicesSpec == ServicesInit /\ [][ServicesNext]_serviceVars
=============================================================================
