--------------------------- MODULE HeaderChecker ---------------------------
(***************************************************************************)
(* packages/header-checker-lint: a check on the license headers of the     *)
(* source files a pull request changes.  The files are listed as they are  *)
(* when the handler gets there, and the check goes to the head of the      *)
(* payload; every error after the configuration is only logged.            *)
(***************************************************************************)
EXTENDS PullRequestEvents, BotConfig, SequencesExt

ASSUME HeaderAssumption == {"schema", "header-check"} \subseteq CheckName

VARIABLE headerConfig  \* own, orgs: the configuration files; ignoreYear: what a good one says

headerVars == <<eventVars, headerConfig>>

ForceRun == "header-checker-lint:force-run"

HeaderTypeOK == EventsTypeOK /\ headerConfig.own \in ConfigText /\ headerConfig.orgs \in ConfigText
HeaderInit(configs) == EventsInit /\ headerConfig \in configs

\* detectLicenseHeader(): the last line with a copyright and the last with a license.
LastOf(lines, kind) ==
  LET own == SelectSeq(lines, LAMBDA l : l.kind = kind)
  IN IF own = <<>> THEN [kind |-> kind, ok |-> FALSE, year |-> FALSE, found |-> FALSE] ELSE Last(own)

\* A file fails without an allowed license or a copyright; a new one also when the holder is
\* not allowed, or the year is not this one.
FailsHeader(f, ignoreYear) ==
  LET license == LastOf(f.lines, "license")
      copyright == LastOf(f.lines, "copyright")
  IN /\ f.source /\ ~f.ignored /\ f.status # "removed"
     /\ \/ ~license.ok
        \/ ~copyright.found
        \/ f.status = "added" /\ (~copyright.ok \/ (~ignoreYear /\ ~copyright.year))
HeaderConclusion(files, ignoreYear) ==
  IF \E f \in files : FailsHeader(f, ignoreYear) THEN "failure" ELSE "success"

\* The configuration of the pull request itself comes first.
HeaderFound(checked) ==
  IF checked # "none" THEN checked
  ELSE GetConfig(headerConfig.own, headerConfig.orgs, FALSE, FALSE, TRUE, TRUE, TRUE)
IgnoresYear(found) == found = "good" /\ headerConfig.ignoreYear

----------------------------------------------------------------------------
HeaderRuns == {"opened", "reopened", "edited", "synchronize"}

\* The removal of the label is not awaited and may fail.
HeaderTakes(v, e) ==
  /\ \/ e.kind \in HeaderRuns /\ TakeEvent(v, e, "check")
     \/ e.kind = "labeled" /\ e.label = ForceRun /\ TakeEvent(v, e, "unlabel")
     \/ ~(e.kind \in HeaderRuns \/ (e.kind = "labeled" /\ e.label = ForceRun)) /\ IgnoreEvent(v, e)
  /\ UNCHANGED headerConfig

RemoveForceRun(v) ==
  /\ VisitAt(v, "unlabel")
  /\ \E l \in {{ForceRun}, {}} : pull' = [pull EXCEPT !.labels = @ \ l]
  /\ VisitTo(v, "check")
  /\ UNCHANGED <<checks, events, acts, visitFaults, hurried, overlapped, missed, headerConfig>>

HeaderChecksConfig(v) ==
  /\ VisitAt(v, "check")
  /\ LET files == pull.content.config IN
       /\ Posted(visit[v].event, IF ConfigErrors(files, TRUE) # {} THEN {<<"schema", "failure">>} ELSE {})
       /\ Visits(v, [visit[v] EXCEPT !.at = "files", !.read = {CheckedConfig(files, TRUE)}])
  /\ Inside /\ UNCHANGED headerConfig

\* A configuration that cannot be read ends it without a check.
ListHeaders(v) ==
  /\ VisitAt(v, "files")
  /\ LET found == HeaderFound(CHOOSE c \in visit[v].read : TRUE)
     IN IF found = "error" THEN Leave(v)
        ELSE Visits(v, [visit[v] EXCEPT !.at = "post",
                          !.bad = {HeaderConclusion(pull.content.files, IgnoresYear(found))}])
  /\ Inside /\ UNCHANGED <<checks, headerConfig>>

PostHeaders(v) ==
  /\ VisitAt(v, "post")
  /\ Posted(visit[v].event, {<<"header-check", c>> : c \in visit[v].bad})
  /\ Leave(v)
  /\ Inside /\ UNCHANGED headerConfig

HeaderFails(v) == VisitFails(v, VisitAt(v, "unlabel") \/ VisitAt(v, "check")) /\ UNCHANGED headerConfig

HeaderStep(v) ==
  \/ \E e \in events : HeaderTakes(v, e)
  \/ RemoveForceRun(v) \/ HeaderChecksConfig(v) \/ ListHeaders(v) \/ PostHeaders(v) \/ HeaderFails(v)

HeaderNext ==
  \/ \E v \in Visitor : HeaderStep(v)
  \/ PeopleAct /\ UNCHANGED headerConfig

HeaderSpec(configs) == HeaderInit(configs) /\ [][HeaderNext]_headerVars

----------------------------------------------------------------------------
(* The check on the head tells of the files of the head under the configuration of the    *)
(* head, in whatever order events are dealt with and whoever pushes between the reads.    *)
HeadersAreOfHead ==
  (Quiet /\ ~missed /\ pull.open) =>
    LET c == pull.content
        found == HeaderFound(CheckedConfig(c.config, TRUE))
    IN /\ checks["schema"] = IF ConfigErrors(c.config, TRUE) # {} THEN "failure" ELSE "none"
       /\ checks["header-check"] =
            IF found = "error" THEN "none" ELSE HeaderConclusion(c.files, IgnoresYear(found))
=============================================================================
