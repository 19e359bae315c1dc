--------------------------- MODULE MCAutoApprove ---------------------------
(***************************************************************************)
(* Two kinds of instance, chosen by the initial state.  "decide": one      *)
(* delivery, nothing else happens, and the pull request and configuration  *)
(* range over all the forms that the checks tell apart.  "race": a few     *)
(* pull requests, two passes at a time, and pushes, edits, dismissals,     *)
(* other pull requests, days and failing calls.                            *)
(***************************************************************************)
EXTENDS AutoApprove

CONSTANTS MaxChanges, MaxFaults

V(dep, major, minor, patch) ==
    [dep |-> dep, major |-> major, minor |-> minor, patch |-> patch,
     rev |-> 0, tag |-> "none"]

File(name, old, new) ==
    [name |-> name, readable |-> TRUE, lines |-> 1, old |-> old, new |-> new]

Deps == {"express", "com.google.cloud:storage", "io.grpc:grpc-core", "grpcVersion",
         "apache-airflow"}

(* A minor upgrade; a patch upgrade that Number() reads as none; a minor   *)
(* downgrade with a higher patch; a major upgrade, and one that keeps the  *)
(* last digit; a new digest or date only.                                  *)
Upgrades(d) ==
    LET v == V(d, 1, 2, 0)
    IN  {<<v, V(d, 1, 3, 0)>>, <<V(d, 1, 2, 1), V(d, 1, 2, 10)>>,
         <<V(d, 1, 5, 1), V(d, 1, 3, 2)>>, <<v, V(d, 2, 0, 0)>>, <<v, V(d, 11, 3, 0)>>,
         <<[v EXCEPT !.tag = "a"], [v EXCEPT !.tag = "b"]>>,
         <<[v EXCEPT !.rev = 1], [v EXCEPT !.rev = 2]>>}

Names == PackageJson \cup Requirements \cup
         {"pom.xml", "build.gradle", "requirements.in", "deps.bzl", "yarn.lock", "go.mod",
          "go.sum", "Dockerfile", "CHANGELOG.md", "README.md", "docs/dyn/index.md",
          "src/index.js", ConfigFile}

Good(name, d) == File(name, V(d, 1, 2, 0), V(d, 1, 3, 0))

OneFile(d) ==
    {{File(n, u[1], u[2])} : n \in Names \ {ConfigFile}, u \in Upgrades(d)}

TwoFiles(d) ==
    {{Good(m, d), f} :
        m \in {"package.json", "go.mod", "pom.xml"},
        f \in UNION {{Good(n, e), [Good(n, e) EXCEPT !.lines = 2],
                      [Good(n, e) EXCEPT !.readable = FALSE]} :
                        n \in Names, e \in {d, "grpcVersion"}}}

PR(author, kind, dep, body, files) ==
    [number |-> 2, author |-> author, title |-> [kind |-> kind, dep |-> dep],
     body |-> body, files |-> files, count |-> Cardinality(files)]

DependencyPRs ==
    {PR("renovate-bot", k, "express", "none", fs) :
        k \in DepsTitles, fs \in OneFile("express")}
    \cup {PR("renovate-bot", k, "express", "none", fs) :
        k \in {"update", "go"}, fs \in TwoFiles("express")}
    \cup UNION {{PR(a, "update", d, "none", fs) :
        a \in {"renovate-bot", "dependabot[bot]"},
        fs \in {{Good(n, e)} : n \in Names, e \in {d, "grpcVersion"}}} : d \in Deps}

AllTitles == ChoreTitles \cup FixTitles \cup DepsTitles \cup {"regen", "breaking"}

OtherFiles == {{Good(n, "express")} : n \in {"package.json", "README.md", "docs/dyn/index.md"}}

OtherPRs ==
    {PR(a, k, "express", "none", fs) :
        a \in {"release-please", "release-please[bot]", "yoshi-automation",
               "yoshi-code-bot", "googleapis-publisher"},
        k \in AllTitles, fs \in OtherFiles}
    \cup {PR(Owl, k, "express", b, fs) :
        k \in AllTitles, b \in {"none", "plain", "lines", "piper"}, fs \in OtherFiles}

V2(ps) == [kind |-> "v2", processes |-> ps]

V1(files, max) ==
    [kind |-> "v1",
     rules |-> [a \in {"renovate-bot", "release-please[bot]", "yoshi-automation",
                       "yoshi-code-bot", "googleapis-publisher", Owl} |->
                  [files |-> files, max |-> max]]]

DependencyProcesses == {p \in Process :
    \E pr0 \in {PR("renovate-bot", k, "com.google.cloud:storage", "none",
                   {Good(n, "com.google.cloud:storage")}) :
                  k \in DepsTitles, n \in Names} :
        CheckPR(p, pr0, [prs |-> << >>, commits |-> {}, metadata |-> "none"], TRUE)}

Repo(prs, commits, metadata) ==
    [prs |-> prs, commits |-> commits, metadata |-> metadata,
     docsSamples |-> FALSE, frozen |-> FALSE]

Mine == [number |-> 2, author |-> Owl]

-----------------------------------------------------------------------------
NodeFiles == {Good("package.json", "express")}

MCContents == {NodeFiles, {Good("src/index.js", "express"), Good(ConfigFile, "express")}}

MCTitles == {[kind |-> k, dep |-> "express"] : k \in {"update", "caret", "fix"}}

Decide0 ==
    /\ \/ /\ pr \in DependencyPRs
          /\ config \in {V1({}, NoLimit), V1(PackageJson, 1)}
                          \cup {V2(<<p>>) : p \in DependencyProcesses}
       \/ /\ pr \in OtherPRs
          /\ config \in {V1({}, NoLimit)}
                          \cup {V2(<<p>>) : p \in Process \ DependencyProcesses}
    /\ repo = Repo(<<Mine>>, {pr.author}, "GAPIC_AUTO")
    /\ weekday \in (IF pr.title.kind = "release" THEN BOOLEAN ELSE {TRUE})
    /\ budget = [changes |-> 0, faults |-> 0, missed |-> FALSE]

OwlPR == PR(Owl, "chore", "express", "plain", {Good("README.md", "express")})

Older == [number |-> 1, author |-> Owl]

Race0 ==
    /\ \/ /\ pr = PR("renovate-bot", "update", "express", "none", NodeFiles)
          /\ \/ /\ config \in {V2(<<"NodeDependency">>), V1({}, NoLimit)}
                /\ repo = Repo(<< >>, {"renovate-bot"}, "none")
             \/ /\ config \in {[kind |-> "invalid"], [kind |-> "none"]}
                /\ repo = [Repo(<< >>, {"renovate-bot"}, "none") EXCEPT !.docsSamples = TRUE]
          /\ weekday = TRUE
       \/ /\ pr = OwlPR
          /\ config \in {V2(<<"OwlBotTemplateChangesNode">>),
                         V2(<<"OwlBotTemplateChanges", "OwlBotTemplateChangesNode">>)}
          /\ repo = Repo(<<Older, Mine>>, {Owl}, "none")
          /\ weekday = TRUE
       \/ /\ pr = PR("release-please", "release", "express", "none", NodeFiles)
          /\ config = V2(<<"NodeRelease">>)
          /\ repo \in {[Repo(<< >>, {"release-please"}, "none") EXCEPT !.frozen = b] :
                          b \in BOOLEAN}
          /\ weekday = FALSE
    /\ \E c \in 0..MaxChanges, f \in 0..MaxFaults :
        /\ IF config.kind = "v2" /\ pr.author = "renovate-bot"
           THEN c + f = MaxChanges + MaxFaults - 1
           ELSE c = MaxChanges /\ f = 0
        /\ budget = [changes |-> c, faults |-> f, missed |-> FALSE]

Init == (Decide0 \/ Race0) /\ AutoApproveInit

Spec == Init /\ [][AutoApproveNext]_vars /\ AutoApproveFair
=============================================================================
