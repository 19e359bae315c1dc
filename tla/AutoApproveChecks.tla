------------------------- MODULE AutoApproveChecks -------------------------
(***************************************************************************)
(* The decision of auto-approve: does a pull request match the             *)
(* configuration of its repository?  Two generations of the decision are   *)
(* in the code: CheckPRAgainstConfig (rules by author, check-pr.ts) and    *)
(* CheckPRAgainstConfigV2 (a list of named processes, check-pr-v2.ts, one  *)
(* class for each in process-checks/).                                     *)
(*                                                                         *)
(* A pull request is a record                                              *)
(*   number, author, title = [kind, dep], body, files, the changed files,  *)
(*   and count, the number of them that the webhook's payload gave.        *)
(* A body is "none", "plain" (one line), "lines" (more than one) or "piper"*)
(* (it holds PiperOrigin-RevId).                                           *)
(* The kind of a title stands for the regular expressions it matches; dep  *)
(* is the dependency it names.  A changed file is                          *)
(*   name, readable (the version patterns match its patch), lines (how     *)
(*   many lines the patch replaces) and old and new, the versions on its   *)
(*   first replaced line: dep, major, minor, patch, rev (the v1-rev20210319*)
(*   part of a Java version, 0 when there is none) and tag (a digest).     *)
(* The repository is prs, the numbers and authors of its open pull         *)
(* requests, oldest first, commits, the authors of the commits on this     *)
(* one, and metadata, the library type in .repo-metadata.json.             *)
(***************************************************************************)
EXTENDS Integers, Sequences, FiniteSets

Owl == "gcf-owl-bot[bot]"

-----------------------------------------------------------------------------
(* File names, by the patterns that the rules match them with.             *)

PackageJson  == {"package.json", "samples/package.json"}
Requirements == {"requirements.txt", "samples/snippets/requirements.txt",
                 "composer/requirements.txt"}
LockFiles    == {"pnpm-lock.yaml", "package-lock.json", "yarn.lock"}

(* Titles, by the patterns that match them: "update" is `fix(deps): update *)
(* dependency D to v1.2.3', "caret" the same `to ^1.2.3', "bump"           *)
(* dependabot's form, "breaking" is `chore!: ...'.                         *)
ChoreTitles  == {"chore", "choreAuto", "release", "readme", "discovery",
                 "docUpdate", "regenChore"}
FixTitles    == {"fix", "feat", "goRegen", "rubyRegen", "update", "caret"}
DepsTitles   == {"update", "caret", "bump", "docker", "go"}

NoLimit == 0

-----------------------------------------------------------------------------
(* Versions.                                                               *)

(* Most patterns repeat a group of one digit, which keeps the last digit   *)
(* of the major number only; the others group the digits and keep all.     *)
LastDigit(v) == [v EXCEPT !.major = @ % 10]

(* Number("1.10") = Number("1.1"): the minor and patch numbers read as one *)
(* decimal fraction.                                                       *)
SameDecimal(v, w) ==
    /\ v.minor = w.minor
    /\ \E k \in {1, 10, 100} : v.patch * k = w.patch \/ w.patch * k = v.patch

IsMajorVersionChanging(old, new) == new.major # old.major

IsMinorVersionUpgraded(old, new) ==
    /\ new.minor > old.minor \/ new.patch > old.patch
    /\ ~SameDecimal(old, new)

RunVersioningValidation(old, new) ==
    ~IsMajorVersionChanging(old, new) /\ IsMinorVersionUpgraded(old, new)

IsVersionValidWithShaOrRev(old, new) ==
    /\ ~IsMajorVersionChanging(old, new)
    /\ old.tag # new.tag \/ IsMinorVersionUpgraded(old, new)

(* semver.lt of the two.                                                   *)
IsVersionBumped(old, new) ==
    \/ old.major < new.major
    \/ old.major = new.major /\ old.minor < new.minor
    \/ old.major = new.major /\ old.minor = new.minor /\ old.patch < new.patch

IsOneDependencyChanged(f) == f.lines = 1

(* The versions of a Java file: when only the date of a client changed, it *)
(* is the date that is compared.                                           *)
JavaVersion(v, w) ==
    IF v.rev # 0 /\ w.rev # 0 /\ v.major = w.major /\ SameDecimal(v, w)
    THEN [v EXCEPT !.major = 0, !.minor = v.rev, !.patch = 0]
    ELSE v

-----------------------------------------------------------------------------
(* The dependency that the title names is the one that changed.            *)

Google == {"com.google.cloud:storage"}
Grpc   == {"io.grpc:grpc-core", "grpcVersion"}

SameDependency(pr, f) ==
    f.old.dep = f.new.dep /\ pr.title.dep = f.new.dep

DoesDependencyChangeMatchPRTitle(pr, f, process) ==
    /\ pr.title.kind = "update"
    /\ process = "java-dependency" => pr.title.dep \in Google
    /\ SameDependency(pr, f)

DoesDependencyChangeMatchPRTitleV2(pr, f, titles) ==
    pr.title.kind \in titles /\ SameDependency(pr, f)

DoesDependencyChangeMatchPRTitleJava(pr, f) ==
    /\ pr.title.kind = "update"
    /\ pr.title.dep \in Google \cup {"io.grpc:grpc-core"}
    /\ SameDependency(pr, f) \/ {f.new.dep, f.old.dep, pr.title.dep} \subseteq Grpc

DoesDependencyMatchAgainstRegexes(f, excluded) == f.new.dep \in excluded

-----------------------------------------------------------------------------
(* The first generation: one rule for each author.                         *)

RenovateFiles == PackageJson \cup {"samples/snippets/requirements.txt"}

LanguageVersioningRule(author, name) ==
    CASE author = "release-please[bot]" /\ name = "package.json" -> "release"
      [] author = "renovate-bot" /\ name \in RenovateFiles -> "dependency"
      [] author = "renovate-bot" /\ name = "pom.xml" -> "java-dependency"
      [] OTHER -> "none"

(* The V1 patterns that read a renovate version keep the last digit of the *)
(* major number, except those of pom.xml.                                  *)
GetVersions(f, process) ==
    IF process = "dependency" THEN <<LastDigit(f.old), LastDigit(f.new)>>
                              ELSE <<f.old, f.new>>

AdditionalRules(pr, f, weekday) ==
    LET process == LanguageVersioningRule(pr.author, f.name)
        v       == GetVersions(f, process)
    IN  process # "none" /\ f.readable =>
          /\ RunVersioningValidation(v[1], v[2])
          /\ IsOneDependencyChanged(f)
          /\ IF process = "release" THEN weekday
             ELSE DoesDependencyChangeMatchPRTitle(pr, f, process)

(* The titles that the schema lets a rule of this author have.             *)
TitlesOf(author) ==
    CASE author = "release-please[bot]" -> {"release"}
      [] author = "yoshi-automation" -> {"readme"}
      [] author = "yoshi-code-bot" -> {"discovery"}
      [] author = "googleapis-publisher" -> {"docUpdate"}
      [] author = Owl -> ChoreTitles \cup {"breaking"}
      [] OTHER -> DepsTitles

(* Mutant: the loop over the files of a renovate pull request, which makes  *)
(* sure that each of them was checked, is dropped.                         *)
CheckRuledFilesOnly(rules, pr, weekday) ==
    /\ pr.author \in DOMAIN rules
    /\ pr.title.kind \in TitlesOf(pr.author)
    /\ \A f \in pr.files : AdditionalRules(pr, f, weekday)
    /\ rules[pr.author].max # NoLimit => pr.count <= rules[pr.author].max

(* rules maps the authors that have a rule to [files, max]; files = {} when*)
(* the rule does not restrict them.                                        *)
CheckPRAgainstConfig(rules, pr, weekday) ==
    /\ pr.author \in DOMAIN rules
    /\ pr.title.kind \in TitlesOf(pr.author)
    /\ \A f \in pr.files : AdditionalRules(pr, f, weekday)
    /\ pr.author = "renovate-bot" =>
         \A f \in pr.files :
            f.readable /\ LanguageVersioningRule(pr.author, f.name) # "none"
    /\ rules[pr.author].files # {} =>
         \A f \in pr.files : f.name \in rules[pr.author].files
    /\ rules[pr.author].max # NoLimit => pr.count <= rules[pr.author].max

-----------------------------------------------------------------------------
(* The second generation: the classes of process-checks.                   *)

ClassRule(pr, authors, titles, names, max) ==
    /\ pr.author \in authors
    /\ pr.title.kind \in titles
    /\ names # {} => \A f \in pr.files : f.name \in names
    /\ max # NoLimit => pr.count <= max

UpdateDiscoveryArtifacts(pr) ==
    ClassRule(pr, {"yoshi-code-bot"}, {"discovery"}, {"docs/dyn/index.md"}, NoLimit)

RegenerateReadme(pr) ==
    ClassRule(pr, {"yoshi-automation"}, {"readme"}, {"README.md"}, 2)

DiscoveryDocUpdate(pr) ==
    ClassRule(pr, {"googleapis-publisher"}, {"docUpdate"}, {}, NoLimit)

GoApiaryCodegen(pr) ==
    ClassRule(pr, {"yoshi-automation"}, {"goRegen"}, {}, NoLimit)

JavaApiaryCodegen(pr) ==
    ClassRule(pr, {"yoshi-code-bot"}, {"regen", "regenChore"}, {}, NoLimit)

PHPApiaryCodegen(pr) ==
    ClassRule(pr, {"yoshi-code-bot"}, {"regen"}, {}, NoLimit)

RubyApiaryCodegen(pr) ==
    ClassRule(pr, {"yoshi-code-bot"}, {"rubyRegen"}, {}, NoLimit)

NodeDependency(pr) ==
    /\ ClassRule(pr, {"renovate-bot"}, {"update", "caret"}, PackageJson, NoLimit)
    /\ \A f \in pr.files :
          /\ f.name \in PackageJson /\ f.readable
          /\ DoesDependencyChangeMatchPRTitleV2(pr, f, {"update", "caret"})
          /\ RunVersioningValidation(LastDigit(f.old), LastDigit(f.new))
          /\ IsOneDependencyChanged(f)

(* The lock files need no check, and a file may change more than one line. *)
(* Only the .bzl pattern reads the whole major number.                     *)
NodeGeneratorDependency(pr) ==
    /\ ClassRule(pr, {"renovate-bot"}, {"update", "caret"},
                 PackageJson \cup {"deps.bzl"} \cup LockFiles, NoLimit)
    /\ \A f \in pr.files : f.name \notin LockFiles =>
          /\ f.readable
          /\ DoesDependencyChangeMatchPRTitleV2(pr, f, {"update", "caret"})
          /\ IF f.name = "deps.bzl" THEN RunVersioningValidation(f.old, f.new)
             ELSE RunVersioningValidation(LastDigit(f.old), LastDigit(f.new))

(* Only the package.json of the root is read.                              *)
NodeRelease(pr, weekday) ==
    /\ ClassRule(pr, {"release-please"}, {"release"},
                 {"package.json", "CHANGELOG.md"}, 2)
    /\ \E f \in pr.files :
          /\ f.name = "package.json" /\ f.readable
          /\ weekday
          /\ RunVersioningValidation(f.old, f.new)
          /\ IsOneDependencyChanged(f)

JavaFile(f, names) ==
    /\ f.name \in names /\ f.readable
    /\ RunVersioningValidation(JavaVersion(f.old, f.new), JavaVersion(f.new, f.old))
    /\ IsOneDependencyChanged(f)

JavaDependency(pr) ==
    /\ ClassRule(pr, {"renovate-bot"}, {"update"}, {"pom.xml", "build.gradle"}, 50)
    /\ \A f \in pr.files : /\ JavaFile(f, {"pom.xml", "build.gradle"})
                           /\ DoesDependencyChangeMatchPRTitleJava(pr, f)

(* build.gradle passes the class rule but has no file rule.                *)
JavaSampleAppDependency(pr) ==
    /\ ClassRule(pr, {"renovate-bot"}, {"update"}, {"pom.xml", "build.gradle"}, 50)
    /\ \A f \in pr.files : /\ JavaFile(f, {"pom.xml"})
                           /\ DoesDependencyChangeMatchPRTitleV2(pr, f, {"update"})

(* A major bump passes here: isVersionBumped, not runVersioningValidation. *)
BumpedFile(pr, f, names) ==
    /\ f.name \in names /\ f.readable
    /\ DoesDependencyChangeMatchPRTitleV2(pr, f, {"update"})
    /\ IsVersionBumped(LastDigit(f.old), LastDigit(f.new))
    /\ IsOneDependencyChanged(f)

PythonDependency(pr) ==
    /\ ClassRule(pr, {"renovate-bot"}, {"update"}, Requirements, NoLimit)
    /\ \A f \in pr.files : BumpedFile(pr, f, Requirements)

PythonSampleAppDependency(pr) ==
    LET names == Requirements \cup {"requirements.in"}
    IN  /\ ClassRule(pr, {"renovate-bot"}, {"update"}, names, NoLimit)
        /\ \A f \in pr.files : BumpedFile(pr, f, names)

PythonSampleDependency(pr) ==
    /\ ClassRule(pr, {"renovate-bot", "dependabot[bot]"}, {"update", "bump"},
                 Requirements, NoLimit)
    /\ \A f \in pr.files :
          /\ f.name # "composer/requirements.txt"
          /\ f.readable
          /\ DoesDependencyChangeMatchPRTitleV2(pr, f, {"update", "bump"})
          /\ ~DoesDependencyMatchAgainstRegexes(f, {"apache-airflow"})
          /\ RunVersioningValidation(LastDigit(f.old), LastDigit(f.new))
          /\ IsOneDependencyChanged(f)

DockerDependency(pr) ==
    /\ ClassRule(pr, {"renovate-bot"}, {"docker"}, {"Dockerfile"}, NoLimit)
    /\ \A f \in pr.files :
          /\ f.readable
          /\ DoesDependencyChangeMatchPRTitleV2(pr, f, {"docker"})
          /\ IsVersionValidWithShaOrRev(f.old, f.new)
          /\ IsOneDependencyChanged(f)

(* A version with a digest has all of its major number read.               *)
GoVersion(v) == IF v.tag = "none" THEN LastDigit(v) ELSE v

GoDependency(pr) ==
    /\ ClassRule(pr, {"renovate-bot"}, {"go"}, {"go.mod", "go.sum"}, NoLimit)
    /\ \A f \in pr.files : f.name # "go.sum" =>
          /\ f.readable
          /\ DoesDependencyChangeMatchPRTitleV2(pr, f, {"go"})
          /\ IsVersionValidWithShaOrRev(GoVersion(f.old), GoVersion(f.new))

(* The owl-bot classes read the repository as well.  An empty body fails   *)
(* every class that wants no PiperOrigin-RevId, and passes the one that    *)
(* wants it.                                                               *)
OnlyOwlCommits(repo) == repo.commits \subseteq {Owl}

IsFirstOpen(repo, author, number) ==
    LET own == SelectSeq(repo.prs, LAMBDA p : p.author = author)
    IN  own # << >> /\ own[1].number = number

OwlBotTemplateChanges(pr, repo) ==
    /\ pr.author = Owl
    /\ pr.title.kind = "choreAuto"
    /\ pr.body \in {"plain", "lines"}
    /\ repo.metadata = "GAPIC_AUTO"

OwlBotTemplateChangesNode(pr, repo) ==
    /\ pr.author = Owl
    /\ pr.title.kind \in ChoreTitles
    /\ pr.body \in {"plain", "lines"}
    /\ IsFirstOpen(repo, pr.author, pr.number)
    /\ OnlyOwlCommits(repo)

(* The pattern for a body without PiperOrigin-RevId matches one line only, *)
(* so a body of several lines without it passes here too.                  *)
OwlBotPRsNode(pr, repo) ==
    /\ pr.author = Owl
    /\ pr.title.kind \in ChoreTitles \cup FixTitles
    /\ pr.body \in {"lines", "piper"}
    /\ IsFirstOpen(repo, pr.author, pr.number)
    /\ OnlyOwlCommits(repo)

OwlBotAPIChanges(pr, repo) ==
    /\ pr.author = Owl
    /\ pr.title.kind # "breaking"
    /\ pr.body \in {"none", "piper"}
    /\ repo.metadata = "GAPIC_AUTO"
    /\ Len(SelectSeq(repo.prs, LAMBDA p : p.author = pr.author)) <= 1
    /\ OnlyOwlCommits(repo)

-----------------------------------------------------------------------------
Process ==
    {"UpdateDiscoveryArtifacts", "RegenerateReadme", "DiscoveryDocUpdate",
     "PythonSampleDependency", "PythonDependency", "NodeDependency", "NodeRelease",
     "OwlBotTemplateChangesNode", "OwlBotPRsNode", "JavaApiaryCodegen", "JavaDependency",
     "OwlBotTemplateChanges", "OwlBotAPIChanges", "PHPApiaryCodegen",
     "PythonSampleAppDependency", "GoDependency", "GoApiaryCodegen", "DockerDependency",
     "JavaSampleAppDependency", "NodeGeneratorDependency", "RubyApiaryCodegen"}

CheckPR(process, pr, repo, weekday) ==
    CASE process = "UpdateDiscoveryArtifacts"  -> UpdateDiscoveryArtifacts(pr)
      [] process = "RegenerateReadme"          -> RegenerateReadme(pr)
      [] process = "DiscoveryDocUpdate"        -> DiscoveryDocUpdate(pr)
      [] process = "PythonSampleDependency"    -> PythonSampleDependency(pr)
      [] process = "PythonDependency"          -> PythonDependency(pr)
      [] process = "NodeDependency"            -> NodeDependency(pr)
      [] process = "NodeRelease"               -> NodeRelease(pr, weekday)
      [] process = "OwlBotTemplateChangesNode" -> OwlBotTemplateChangesNode(pr, repo)
      [] process = "OwlBotPRsNode"             -> OwlBotPRsNode(pr, repo)
      [] process = "JavaApiaryCodegen"         -> JavaApiaryCodegen(pr)
      [] process = "JavaDependency"            -> JavaDependency(pr)
      [] process = "OwlBotTemplateChanges"     -> OwlBotTemplateChanges(pr, repo)
      [] process = "OwlBotAPIChanges"          -> OwlBotAPIChanges(pr, repo)
      [] process = "PHPApiaryCodegen"          -> PHPApiaryCodegen(pr)
      [] process = "PythonSampleAppDependency" -> PythonSampleAppDependency(pr)
      [] process = "GoDependency"              -> GoDependency(pr)
      [] process = "GoApiaryCodegen"           -> GoApiaryCodegen(pr)
      [] process = "DockerDependency"          -> DockerDependency(pr)
      [] process = "JavaSampleAppDependency"   -> JavaSampleAppDependency(pr)
      [] process = "NodeGeneratorDependency"   -> NodeGeneratorDependency(pr)
      [] process = "RubyApiaryCodegen"         -> RubyApiaryCodegen(pr)

(* Two classes read .repo-metadata.json whoever the author is: without the *)
(* file they throw, and the processes after them are not tried.            *)
Throws(process, repo) ==
    process \in {"OwlBotTemplateChanges", "OwlBotAPIChanges"} /\ repo.metadata = "none"

CheckPRAgainstConfigV2(processes, pr, repo, weekday) ==
    LET stop == {i \in DOMAIN processes :
                    \/ Throws(processes[i], repo)
                    \/ CheckPR(processes[i], pr, repo, weekday)}
    IN  IF stop = {} THEN "no"
        ELSE LET first == CHOOSE i \in stop : \A j \in stop : i <= j
             IN  IF Throws(processes[first], repo) THEN "throws" ELSE "yes"
=============================================================================
