------------------------- MODULE MCRepositoryBots -------------------------
(* The bots of one repository for TLC.                                                    *)
EXTENDS RepositoryBots

CONSTANTS i1, i2, p1, p2, p3, p4, t1, t2   \* installations, repositories, region tags

VARIABLE wide   \* handlers overlap, but no call fails: of a pick and of release-please

MCLists == {(i1 :> <<p1, p2, p3>>) @@ (i2 :> <<p4>>)}
MCBodies == [type : {"global", "installation", "repository"}, repo : {NoTarget, p1},
             installation : {NoTarget, i1}, orgs : {{i1, i2}, {i1}}]

\* Region tags: two lines of t1 around one of t2, which is not of a product and on no page.
L(mark, kind, tag) == [mark |-> mark, kind |-> kind, tag |-> tag]
NoFiles == [right |-> "absent", wrong |-> "absent"]
C(status, lines, config, files) == [status |-> status, lines |-> lines, config |-> config, files |-> files]
Untouched == C("modified", <<L("same", "start", t1), L("same", "end", t1)>>, NoFiles, {})
SnippetContents ==
  { Untouched,
    C("modified", <<L("add", "start", t2), L("same", "start", t1), L("add", "end", t2), L("same", "end", t1)>>, NoFiles, {}),
    C("modified", <<L("del", "start", t1), L("same", "end", t1)>>, [right |-> "not_schema", wrong |-> "absent"], {}),
    C("renamed", <<L("same", "start", t1), L("same", "end", t1)>>, NoFiles, {}),
    C("deleted", <<L("del", "start", t1), L("del", "end", t1)>>, NoFiles, {}) }
SnippetConfigs ==
  [own : {"good"}, orgs : {"absent"}, always : BOOLEAN, aggregate : BOOLEAN, ignored : {FALSE}] \cup
  [own : {"empty", "not_yaml"}, orgs : {"absent"}, always : {FALSE}, aggregate : {TRUE}, ignored : {FALSE}] \cup
  [own : {"absent"}, orgs : {"absent", "good"}, always : {FALSE}, aggregate : {FALSE}, ignored : {TRUE}]

LabelContents == {Untouched, C("modified", <<>>, [right |-> "not_schema", wrong |-> "good"], {})}
LabelConfigs ==
  [own : {"good"}, orgs : {"absent"}, always : BOOLEAN] \cup [own : {"absent", "not_yaml"}, orgs : {"good"}, always : {TRUE}]

H(kind, ok, year) == [kind |-> kind, ok |-> ok, year |-> year, found |-> TRUE]
F(status, lines) == [status |-> status, source |-> TRUE, ignored |-> FALSE, lines |-> lines]
HeaderContents ==
  { C("modified", <<>>, NoFiles, {F("added", <<H("copyright", TRUE, FALSE), H("license", TRUE, TRUE)>>)}),
    C("modified", <<>>, [right |-> "good", wrong |-> "absent"],
      {F("added", <<H("copyright", TRUE, FALSE), H("license", TRUE, TRUE)>>)}),
    C("modified", <<>>, NoFiles, {F("modified", <<H("license", TRUE, TRUE), H("copyright", FALSE, FALSE)>>)}),
    C("modified", <<>>, [right |-> "absent", wrong |-> "good"], {F("added", <<H("copyright", TRUE, TRUE)>>)}) }
HeaderConfigs == [own : {"good", "absent", "empty", "not_yaml"}, orgs : {"absent", "good"}, ignoreYear : BOOLEAN]

MCContent == SnippetContents \cup LabelContents \cup HeaderContents

O(path, demand, release, tag, ok) == [path |-> path, onDemand |-> demand, release |-> release, tag |-> tag, ok |-> ok]
ReleaseConfigs ==
  { [primary |-> "main", own |-> O("a", d, r, TRUE, TRUE), branches |-> <<>>] : d \in BOOLEAN, r \in BOOLEAN } \cup
  { [primary |-> "main", own |-> O("a", FALSE, TRUE, FALSE, TRUE),
     branches |-> << [branch |-> "main", options |-> O("a", FALSE, TRUE, TRUE, FALSE)],
                     [branch |-> "main", options |-> O("b", FALSE, TRUE, TRUE, TRUE)] >>] }
FewConfigs == {c \in ReleaseConfigs : c.own.release /\ (c.branches = <<>> => c.own.onDemand = FALSE)}

FirstPicker == CHOOSE h \in Picker : TRUE
FirstRunner == CHOOSE r \in Runner : TRUE
FirstVisitor == CHOOSE v \in Visitor : TRUE

Init ==
  /\ job \in BotJobs /\ wide \in (IF job \in {"pick", "release"} THEN BOOLEAN ELSE {FALSE})
  /\ CronInit(IF job = "cron" THEN MCBodies ELSE {CHOOSE b \in MCBodies : TRUE}, MCLists)
  /\ job # "cron" => archived = {} /\ suspended = {} /\ installed = <<i1, i2>>
  /\ PickInit
  /\ job # "pick" => requires = {} /\ conflicts = {}
  /\ EventsInit
  /\ CASE job = "snippet" -> pull.content \in SnippetContents
       [] job = "label"   -> pull.content = Untouched
       [] job = "header"  -> pull.content \in HeaderContents /\ ~pull.draft
       [] job \notin {"snippet", "label", "header"} -> pull.content = Untouched /\ ~pull.draft
  /\ SnippetInit(IF job = "snippet" THEN SnippetConfigs ELSE {CHOOSE c \in SnippetConfigs : TRUE})
  /\ (job = "snippet" /\ pull.draft) => snippetConfig.own = "empty"
  /\ DoNotMergeInit(IF job = "label" THEN LabelConfigs ELSE {CHOOSE c \in LabelConfigs : TRUE})
  /\ HeaderInit(IF job = "header" THEN HeaderConfigs ELSE {CHOOSE c \in HeaderConfigs : TRUE})
  /\ ReleaseInit(IF job = "release" THEN ReleaseConfigs ELSE {CHOOSE c \in ReleaseConfigs : TRUE})

\* Which of the shared pull request's contents and labels a bot's job uses.
Keeps(contents, labels, n) == pull'.content \in contents /\ pull'.labels \subseteq labels /\ acts' <= n
OneVisitor == \A v \in Visitor \ {FirstVisitor} : visit'[v] = Free

Bounds ==
  /\ job = "pick" => IF wide THEN pickFaults' = 0 /\ written' <= 1
                     ELSE \A h \in Picker \ {FirstPicker} : picker'[h] = Idle
  /\ job = "snippet" =>
       /\ Keeps(SnippetContents, {Refresh, NoPrefix}, 2)
       /\ acts' <= 1 \/ (OneVisitor /\ ~pull.draft /\ snippetConfig.own = "good" /\ ~snippetConfig.always /\ ~snippetConfig.aggregate)
  /\ job = "label" =>
       /\ Keeps(LabelContents, DoNotMergeLabel, 3) /\ OneVisitor
       /\ acts' <= 2 \/ (dnmConfig.own = "good" /\ dnmConfig.always)
  /\ job = "header" =>
       /\ Keeps(HeaderContents, {ForceRun}, 2)
       /\ acts' <= 1 \/ (OneVisitor /\ headerConfig.own = "good")
  /\ job = "release" =>
       /\ IF wide THEN runFaults' = 0 /\ releaseConfig \in FewConfigs
          ELSE \A r \in Runner \ {FirstRunner} : runner'[r] = Lazy
       /\ \/ runActs' <= 1
          \/ /\ releaseConfig.own.release /\ releaseConfig.branches = <<>>
             /\ wide => commits'["main"] <= 1

Next == BotsNext /\ UNCHANGED wide /\ Bounds
Spec == Init /\ [][Next]_<<wide, botVars>>
=============================================================================
