----------------------------- MODULE DoNotMerge -----------------------------
(***************************************************************************)
(* packages/do-not-merge: a failing check as long as a pull request bears  *)
(* the label.  The labels are those of the payload; the check run to be    *)
(* updated is looked up first.                                             *)
(***************************************************************************)
EXTENDS PullRequestEvents, BotConfig

VARIABLES
  dnmConfig,  \* own, orgs: the configuration files; always: what a good one says
  checkRuns,  \* the check runs on the head, oldest first
  unseen      \* history: has the label or the head changed while the pull request was closed?

dnmVars == <<eventVars, dnmConfig, checkRuns, unseen>>

DoNotMergeLabel == {"do not merge", "do-not-merge"}

\* What cannot be read counts as the default.
AlwaysCreates ==
  LET found == GetConfigWithDefault(GetConfig(dnmConfig.own, dnmConfig.orgs, FALSE, FALSE, TRUE, FALSE, TRUE), "empty")
  IN found = "good" /\ dnmConfig.always

DoNotMergeTypeOK == EventsTypeOK /\ checkRuns \in Seq(Conclusion) /\ unseen \in BOOLEAN

DoNotMergeInit(configs) == EventsInit /\ dnmConfig \in configs /\ checkRuns = <<>> /\ unseen = FALSE

----------------------------------------------------------------------------
\* Two handlers; that of the configuration is the first here for an event of both.
DoNotMergeTakes(v, e) ==
  /\ \/ e.kind \in {"opened", "reopened", "edited", "synchronize"} /\ e.open /\ TakeEvent(v, e, "check")
     \/ e.kind \in {"labeled", "unlabeled"} /\ e.open /\ TakeEvent(v, e, "find")
     \/ (~e.open \/ e.kind \in {"closed", "ready_for_review"}) /\ IgnoreEvent(v, e)
  /\ UNCHANGED <<dnmConfig, checkRuns, unseen>>

DoNotMergeChecksConfig(v) ==
  /\ VisitAt(v, "check")
  /\ Posted(visit[v].event,
            IF ConfigErrors(pull.content.config, TRUE) # {} THEN {<<"schema", "failure">>} ELSE {})
  /\ IF visit[v].event.kind = "synchronize" THEN VisitTo(v, "find") ELSE Leave(v)
  /\ Inside /\ UNCHANGED <<dnmConfig, checkRuns, unseen>>

\* The latest check run on the head of the payload; that of an older head is not kept here.
FindCheck(v) ==
  /\ VisitAt(v, "find")
  /\ Visits(v, [visit[v] EXCEPT !.at = "put",
                  !.read = IF visit[v].event.head = pull.head /\ checkRuns # <<>> THEN {Len(checkRuns)} ELSE {}])
  /\ Inside /\ UNCHANGED <<checks, dnmConfig, checkRuns, unseen>>

LabelFound(e) == e.labels \cap DoNotMergeLabel # {}
\* The runs after the call for e, which has found the run of that number.
RunsAfter(e, found) ==
  IF LabelFound(e)
  THEN IF found = {} THEN Append(checkRuns, "failure") ELSE [i \in DOMAIN checkRuns |-> IF i \in found THEN "failure" ELSE checkRuns[i]]
  ELSE IF \E i \in found : checkRuns[i] # "success" THEN [i \in DOMAIN checkRuns |-> IF i \in found THEN "success" ELSE checkRuns[i]]
  ELSE IF AlwaysCreates THEN Append(checkRuns, "success") ELSE checkRuns

PutCheck(v) ==
  /\ VisitAt(v, "put")
  /\ checkRuns' = IF visit[v].event.head = pull.head THEN RunsAfter(visit[v].event, visit[v].read) ELSE checkRuns
  /\ Leave(v)
  /\ Inside /\ UNCHANGED <<checks, dnmConfig, unseen>>

DoNotMergeFails(v) == VisitFails(v, TRUE) /\ UNCHANGED <<dnmConfig, checkRuns, unseen>>

DoNotMergeStep(v) ==
  \/ \E e \in events : DoNotMergeTakes(v, e)
  \/ DoNotMergeChecksConfig(v) \/ FindCheck(v) \/ PutCheck(v) \/ DoNotMergeFails(v)

\* While it is closed its branch is pushed to without an event.
PushClosed(c) ==
  /\ ~pull.open /\ acts < MaxActs /\ acts' = acts + 1
  /\ pull' = [pull EXCEPT !.head = @ + 1, !.content = c]
  /\ checks' = NoChecks
  /\ hurried' = (hurried \/ ~Quiet)
  /\ UNCHANGED <<events, visit, visitFaults, overlapped, missed>>

DoNotMergeNext ==
  \/ \E v \in Visitor : DoNotMergeStep(v)
  \/ /\ PeopleAct \/ \E c \in Content : PushClosed(c)
     /\ checkRuns' = IF pull'.head = pull.head THEN checkRuns ELSE <<>>
     /\ unseen' = (unseen \/ (~pull.open /\ <<pull'.head, pull'.labels>> # <<pull.head, pull.labels>>))
     /\ UNCHANGED dnmConfig

DoNotMergeSpec(configs) == DoNotMergeInit(configs) /\ [][DoNotMergeNext]_dnmVars

----------------------------------------------------------------------------
(* The latest check on the head fails just when the pull request bears the label, when    *)
(* each event was dealt with before the next act, and label and head did not change while *)
(* the pull request was closed: also over tasks tried again halfway, older runs, both     *)
(* labels at once, and configurations that ask for a check always.                        *)
LabelIsChecked ==
  (Quiet /\ ~missed /\ ~hurried /\ ~unseen) =>
    LET latest == IF checkRuns = <<>> THEN "none" ELSE checkRuns[Len(checkRuns)]
    IN pull.open => (latest = "failure" <=> pull.labels \cap DoNotMergeLabel # {})
=============================================================================
