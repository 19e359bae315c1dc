--------------------------- MODULE ReleasePlease ---------------------------
(***************************************************************************)
(* packages/release-please: pushes and a label run the release-please      *)
(* library on each configuration of a branch, one at a time under a lock   *)
(* of the repository: first it makes releases of the release pull requests *)
(* that were merged, then it proposes the next one.  The labels by which   *)
(* the library knows its pull requests follow their closing and reopening. *)
(*                                                                         *)
(* The library is external to src/; of a release what counts here are the  *)
(* commits of its branch it is made of.                                    *)
(***************************************************************************)
EXTENDS Naturals, FiniteSets, Sequences, SequencesExt

CONSTANTS
  Branch, Path,      \* branches, and the paths of components in them
  Runner,            \* handlers that run at a time
  MaxReleasable,     \* bound: commits pushed
  MaxActions,        \* bound: pull requests closed, reopened and merged, and labels set
  MaxRunFaults,      \* bound: failing calls
  MaxRunTries        \* bound: deliveries of a task

ASSUME ReleaseAssumption == MaxReleasable \in Nat /\ MaxRunTries \in Nat \ {0}

VARIABLES
  releaseConfig, \* primary: the branch, own: the options at the top, branches: a sequence of more of them
  commits,       \* commits to be released on each branch
  pulls,         \* release pull requests, in the order of their numbers
  releases,      \* the numbers of those a release has been made of
  tags,          \* the numbers of those whose merge commit bears the tag of the number
  issues,        \* configurations with an issue on their error
  runs,          \* tasks not taken yet
  runner,        \* handlers
  lock,          \* the lock of the repository: {}, or who holds it
  runActs, runFaults,
  expired,       \* history: has a lease run out while its holder still ran?
  failed,        \* history: has a call failed?
  abandoned,     \* history: has a task been given up?
  hasty          \* history: has a release pull request been acted on while a task of it was due?

libraryVars == <<commits, pulls, releases, tags, issues>>
releaseVars == <<releaseConfig, libraryVars, runs, runner, lock, runActs, runFaults, expired, failed, abandoned, hasty>>

\* onDemand, handleGHRelease, tagPullRequestNumber, and whether the configuration is in order.
Options == [path : Path, onDemand : BOOLEAN, release : BOOLEAN, tag : BOOLEAN, ok : BOOLEAN]
BranchOptions == [branch : Branch, options : Options]

\* findBranchConfiguration(): the options at the top are those of the primary branch, unless
\* they are given again for it.  Those of other branches are skipped in the loop over them.
FindBranchConfiguration(b, c) ==
  LET repeated == \E o \in ToSet(c.branches) : o.branch = b /\ o.options.path = c.own.path
  IN (IF b = c.primary /\ ~repeated THEN <<[branch |-> b, options |-> c.own]>> ELSE <<>>) \o c.branches

Component == Branch \X Path
ComponentOf(o) == <<o.branch, o.options.path>>
Configured == UNION {{o \in ToSet(FindBranchConfiguration(b, releaseConfig)) : o.branch = b} : b \in Branch}

Lazy == [at |-> "lazy"]
Resting == runs = {} /\ \A r \in Runner : runner[r] = Lazy

\* kind "push", "labeled", "closed" or "reopened"; labels are those of the payload.
RunTask(kind, of, branch, released, merged, labels) ==
  [kind |-> kind, of |-> of, branch |-> branch, released |-> released, merged |-> merged, labels |-> labels, tries |-> 1]

PullLabels == {"pending", "closed", "tagged"}
Pull(of, from, upTo) == [of |-> of, from |-> from, upTo |-> upTo, state |-> "open", labels |-> {"pending"}]

LatestRelease(of) ==
  LET made == {pulls[i].upTo : i \in {j \in releases : pulls[j].of = of}}
  IN IF made = {} THEN 0 ELSE CHOOSE m \in made : \A n \in made : n <= m
OpenPull(of) == {i \in DOMAIN pulls : pulls[i].of = of /\ pulls[i].state = "open"}
Untagged(of) == {i \in DOMAIN pulls : pulls[i].of = of /\ pulls[i].state = "merged" /\ "pending" \in pulls[i].labels}

ReleaseTypeOK ==
  /\ \A b \in Branch : commits[b] <= MaxReleasable
  /\ pulls \in Seq([of : Component, from : Nat, upTo : Nat, state : {"open", "closed", "merged"}, labels : SUBSET PullLabels])
  /\ \A i \in DOMAIN pulls : pulls[i].from < pulls[i].upTo /\ pulls[i].upTo <= commits[pulls[i].of[1]]
  /\ releases \cup tags \subseteq DOMAIN pulls
  /\ issues \subseteq BranchOptions
  /\ \A t \in runs : t.tries \in 1 .. MaxRunTries
  /\ lock \subseteq Runner /\ Cardinality(lock) <= 1

ReleaseInit(configs) ==
  /\ releaseConfig \in configs
  /\ commits = [b \in Branch |-> 0] /\ pulls = <<>> /\ releases = {} /\ tags = {} /\ issues = {}
  /\ runs = {} /\ runner = [r \in Runner |-> Lazy] /\ lock = {}
  /\ runActs = 0 /\ runFaults = 0
  /\ expired = FALSE /\ failed = FALSE /\ abandoned = FALSE /\ hasty = FALSE

----------------------------------------------------------------------------
(* The handlers *)

RunAt(r, at) == runner[r] # Lazy /\ runner[r].at = at
RunSet(r, s) == runner' = [runner EXCEPT ![r] = s]
RunTo(r, at) == RunSet(r, [runner[r] EXCEPT !.at = at])
HistoryKept == UNCHANGED <<expired, failed, abandoned, hasty>>
Own == HistoryKept /\ UNCHANGED <<releaseConfig, runs, runActs, runFaults>>

\* A mutant of DueConfiguration: those on demand are not run for a release commit.
DueConfigurationNever(t, o) == o.branch = t.branch /\ (t.kind = "push" => ~o.options.onDemand)

\* Of a push the configurations on demand run only when it has a commit of a release; then
\* they do not propose.
DueConfiguration(t, o) == o.branch = t.branch /\ (t.kind = "push" => (o.options.onDemand => t.released))

TakeRun(r, t) ==
  /\ runner[r] = Lazy /\ t \in runs
  /\ runs' = runs \ {t}
  /\ LET start(at) == RunSet(r, [at |-> at, task |-> t, todo |-> <<>>, from |-> 0, made |-> {}, fresh |-> FALSE])
     IN CASE t.kind = "push"     -> start("config")
          [] t.kind = "labeled"  -> start("unlabel")
          [] t.kind = "closed"   -> start(IF ~t.merged /\ "pending" \in t.labels THEN "swap" ELSE "end")
          [] t.kind = "reopened" -> start(IF "closed" \in t.labels THEN "swap" ELSE "end")
  /\ UNCHANGED <<releaseConfig, libraryVars, lock, runActs, runFaults>> /\ HistoryKept

\* A label of force-run that is gone already is no error.
RemoveForceLabel(r) ==
  /\ RunAt(r, "unlabel")
  /\ RunTo(r, "config")
  /\ UNCHANGED <<libraryVars, lock>> /\ Own

ReadReleaseConfig(r) ==
  /\ RunAt(r, "config")
  /\ RunSet(r, [runner[r] EXCEPT !.at = "next", !.todo = FindBranchConfiguration(runner[r].task.branch, releaseConfig)])
  /\ UNCHANGED <<libraryVars, lock>> /\ Own

EndRun(r) ==
  /\ RunAt(r, "end") \/ (RunAt(r, "next") /\ runner[r].todo = <<>>)
  /\ RunSet(r, Lazy)
  /\ UNCHANGED <<libraryVars, lock>> /\ Own

Current(r) == Head(runner[r].todo)
SkipsPullRequest(r) == runner[r].task.kind = "push" /\ Current(r).options.onDemand

SkipConfiguration(r) ==
  /\ RunAt(r, "next") /\ runner[r].todo # <<>> /\ ~DueConfiguration(runner[r].task, Current(r))
  /\ RunSet(r, [runner[r] EXCEPT !.todo = Tail(@)])
  /\ UNCHANGED <<libraryVars, lock>> /\ Own

MustLock(r) == RunAt(r, "next") /\ runner[r].todo # <<>> /\ DueConfiguration(runner[r].task, Current(r))

AcquireRunLock(r) ==
  /\ MustLock(r) /\ lock = {}
  /\ lock' = {r} /\ RunTo(r, "build")
  /\ UNCHANGED libraryVars /\ Own

Locked == {"build", "release", "label", "tag", "propose", "report", "unlock"}

\* buildManifest(): what the latest release was.  It is built for the releases, and again for
\* the proposal when a release was made, or when none are to be made.
BuildManifest(r) ==
  /\ RunAt(r, "build")
  /\ LET o == Current(r)
         built == [runner[r] EXCEPT !.from = LatestRelease(ComponentOf(o)), !.fresh = TRUE]
         releasesFirst == o.options.release /\ ~runner[r].fresh
     IN IF ~o.options.release /\ SkipsPullRequest(r) THEN RunTo(r, "unlock")
        ELSE IF ~o.options.ok THEN RunTo(r, "report")
        ELSE RunSet(r, [built EXCEPT !.at = IF releasesFirst THEN "release" ELSE "propose"])
  /\ UNCHANGED <<libraryVars, lock>> /\ Own

\* createReleases() of the library.  A release that exists is an error that is put up with;
\* the labels are set right even so.
CreateReleases(r) ==
  /\ RunAt(r, "release")
  /\ LET due == Untagged(ComponentOf(Current(r)))
     IN /\ releases' = releases \cup due
        /\ RunSet(r, [runner[r] EXCEPT !.at = "label", !.made = due \ releases])
  /\ UNCHANGED <<commits, pulls, tags, issues, lock>> /\ Own

\* A mutant of AfterReleases: the proposal is made with the manifest of the releases.
AfterReleasesStale(r) == IF SkipsPullRequest(r) THEN "unlock" ELSE "propose"

AfterReleases(r) ==
  CASE runner[r].made # {} /\ ~SkipsPullRequest(r) -> "build"
    [] runner[r].made = {} /\ ~SkipsPullRequest(r) -> "propose"
    [] SkipsPullRequest(r) -> "unlock"

LabelReleases(r) ==
  /\ RunAt(r, "label")
  /\ pulls' = [i \in DOMAIN pulls |->
                 IF i \in Untagged(ComponentOf(Current(r))) /\ i \in releases
                 THEN [pulls[i] EXCEPT !.labels = (@ \ {"pending"}) \cup {"tagged"}] ELSE pulls[i]]
  /\ RunTo(r, IF Current(r).options.tag /\ runner[r].made # {} THEN "tag" ELSE AfterReleases(r))
  /\ UNCHANGED <<commits, releases, tags, issues, lock>> /\ Own

\* A tag of the number of each pull request a release was just made of.
TagPullRequest(r) ==
  /\ RunAt(r, "tag")
  /\ LET left == runner[r].made \ tags
     IN IF left = {} THEN RunTo(r, AfterReleases(r)) /\ UNCHANGED tags
        ELSE \E i \in left : tags' = tags \cup {i} /\ UNCHANGED runner
  /\ UNCHANGED <<commits, pulls, releases, issues, lock>> /\ Own

\* createPullRequests() of the library: nothing as long as a merged one is not released, or
\* there is nothing to release; else the open one, or a new one, gets all commits since then.
CreatePullRequests(r) ==
  /\ RunAt(r, "propose")
  /\ LET of == ComponentOf(Current(r))
         from == runner[r].from
         now == commits[of[1]]
     IN IF Untagged(of) # {} \/ now <= from THEN UNCHANGED pulls
        ELSE IF OpenPull(of) # {}
        THEN pulls' = [i \in DOMAIN pulls |->
                         IF i \in OpenPull(of)
                         THEN [pulls[i] EXCEPT !.from = from, !.upTo = now, !.labels = @ \cup {"pending"}] ELSE pulls[i]]
        ELSE pulls' = Append(pulls, Pull(of, from, now))
  /\ RunTo(r, "unlock")
  /\ UNCHANGED <<commits, releases, tags, issues, lock>> /\ Own

\* An error of the configuration becomes an issue, and the run goes on with the next one.
ReportConfigError(r) ==
  /\ RunAt(r, "report")
  /\ issues' = issues \cup {Current(r)}
  /\ RunTo(r, "unlock")
  /\ UNCHANGED <<commits, pulls, releases, tags, lock>> /\ Own

\* The lock is let go only by the one who holds it.
ReleaseRunLock(r) ==
  /\ RunAt(r, "unlock")
  /\ lock' = lock \ {r}
  /\ RunSet(r, [runner[r] EXCEPT !.at = "next", !.todo = Tail(@), !.made = {}, !.fresh = FALSE])
  /\ UNCHANGED libraryVars /\ Own

\* Both calls are made at once, on the labels as they are now.
OldLabel(r) == IF runner[r].task.kind = "closed" THEN "pending" ELSE "closed"
NewLabel(r) == IF runner[r].task.kind = "closed" THEN "closed" ELSE "pending"
Relabelled(r, gone, put) == [pulls EXCEPT ![runner[r].task.of].labels = (@ \ gone) \cup put]

SwapLabels(r) ==
  /\ RunAt(r, "swap") /\ OldLabel(r) \in pulls[runner[r].task.of].labels
  /\ pulls' = Relabelled(r, {OldLabel(r)}, {NewLabel(r)})
  /\ RunTo(r, "end")
  /\ UNCHANGED <<commits, releases, tags, issues, lock>> /\ Own

----------------------------------------------------------------------------
(* Failures *)

Retried(r) ==
  /\ RunSet(r, Lazy)
  /\ LET t == runner[r].task
     IN IF t.tries < MaxRunTries
        THEN runs' = runs \cup {[t EXCEPT !.tries = @ + 1]} /\ UNCHANGED abandoned
        ELSE abandoned' = TRUE /\ UNCHANGED runs

\* The lock is not free within two minutes.
LockTimesOut(r) ==
  /\ MustLock(r) /\ lock \ {r} # {}
  /\ Retried(r)
  /\ UNCHANGED <<releaseConfig, libraryVars, lock, runActs, runFaults, expired, failed, hasty>>

\* A call fails: the lock is let go as the error passes.  When the instance dies it is kept.
RunFails(r) ==
  /\ runner[r] # Lazy /\ runner[r].at # "swap" /\ runFaults < MaxRunFaults
  /\ runFaults' = runFaults + 1 /\ failed' = TRUE
  /\ lock' \in {lock, lock \ {r}}
  /\ Retried(r)
  /\ UNCHANGED <<releaseConfig, libraryVars, runActs, expired, hasty>>

\* One of the two calls fails, after the other was made or before: the other is not called off.
SwapFails(r) ==
  /\ RunAt(r, "swap") /\ runFaults < MaxRunFaults
  /\ runFaults' = runFaults + 1 /\ failed' = TRUE
  /\ \E gone \in {{OldLabel(r)}, {}}, put \in {{NewLabel(r)}, {}} :
       /\ gone = {} \/ put = {}
       /\ pulls' = Relabelled(r, gone, put)
  /\ Retried(r)
  /\ UNCHANGED <<releaseConfig, commits, releases, tags, issues, lock, runActs, expired, hasty>>

\* That the old label is gone already, as after such a failure, is an error every time.
SwapRefused(r) ==
  /\ RunAt(r, "swap") /\ OldLabel(r) \notin pulls[runner[r].task.of].labels
  /\ pulls' = Relabelled(r, {}, {NewLabel(r)})
  /\ Retried(r)
  /\ UNCHANGED <<releaseConfig, commits, releases, tags, issues, lock, runActs, runFaults, expired, failed, hasty>>

\* A lease runs out, most often that of an instance that died.
LeaseRunsOut ==
  /\ lock # {} /\ lock' = {}
  /\ expired' = (expired \/ \E r \in lock : runner[r] # Lazy /\ runner[r].at \in Locked)
  /\ UNCHANGED <<releaseConfig, libraryVars, runs, runner, runActs, runFaults, failed, abandoned, hasty>>

----------------------------------------------------------------------------
(* People *)

ByOthers == UNCHANGED <<releaseConfig, releases, tags, issues, runner, lock, runFaults, expired, failed, abandoned>>

PushCommit(b) ==
  /\ commits[b] < MaxReleasable
  /\ commits' = [commits EXCEPT ![b] = @ + 1]
  /\ runs' = runs \cup {RunTask("push", commits[b] + 1, b, FALSE, FALSE, {})}
  /\ UNCHANGED <<pulls, runActs, hasty>> /\ ByOthers

\* Tasks of the pull request that are not done.
IsDue(i) ==
  \/ \E t \in runs : t.kind \in {"closed", "reopened"} /\ t.of = i
  \/ \E r \in Runner : runner[r] # Lazy /\ runner[r].task.kind \in {"closed", "reopened"} /\ runner[r].task.of = i

ActOn(i, state) ==
  /\ runActs < MaxActions /\ runActs' = runActs + 1
  /\ hasty' = (hasty \/ IsDue(i))
  /\ pulls' = [pulls EXCEPT ![i].state = state]
  /\ UNCHANGED commits /\ ByOthers

CloseRelease(i) ==
  /\ pulls[i].state = "open" /\ ActOn(i, "closed")
  /\ runs' = runs \cup {RunTask("closed", i, pulls[i].of[1], FALSE, FALSE, pulls[i].labels)}
\* GitHub reopens none whose branch has another one by now.
ReopenRelease(i) ==
  /\ pulls[i].state = "closed" /\ \A j \in DOMAIN pulls : pulls[j].of = pulls[i].of => j <= i
  /\ ActOn(i, "open")
  /\ runs' = runs \cup {RunTask("reopened", i, pulls[i].of[1], FALSE, FALSE, pulls[i].labels)}
\* The push has the commit of the bot.
MergeRelease(i) ==
  /\ pulls[i].state = "open" /\ ActOn(i, "merged")
  /\ runs' = runs \cup {RunTask("closed", i, pulls[i].of[1], FALSE, TRUE, pulls[i].labels),
                        RunTask("push", i, pulls[i].of[1], TRUE, FALSE, {})}
\* The label is put on any pull request to the branch, be it merged or closed.
ForceRelease(b) ==
  /\ runActs < MaxActions /\ runActs' = runActs + 1
  /\ runs' = runs \cup {RunTask("labeled", runActs', b, FALSE, FALSE, {})}
  /\ UNCHANGED <<commits, pulls, hasty>> /\ ByOthers

RunStep(r) ==
  \/ \E t \in runs : TakeRun(r, t)
  \/ RemoveForceLabel(r) \/ ReadReleaseConfig(r) \/ EndRun(r) \/ SkipConfiguration(r) \/ AcquireRunLock(r) \/ BuildManifest(r)
  \/ CreateReleases(r) \/ LabelReleases(r) \/ TagPullRequest(r) \/ CreatePullRequests(r) \/ ReportConfigError(r)
  \/ ReleaseRunLock(r) \/ SwapLabels(r) \/ SwapRefused(r) \/ LockTimesOut(r) \/ RunFails(r) \/ SwapFails(r)

ReleaseNext ==
  \/ \E r \in Runner : RunStep(r)
  \/ LeaseRunsOut
  \/ \E b \in Branch : PushCommit(b) \/ ForceRelease(b)
  \/ \E i \in DOMAIN pulls : CloseRelease(i) \/ ReopenRelease(i) \/ MergeRelease(i)

ReleaseSpec(configs) == ReleaseInit(configs) /\ [][ReleaseNext]_releaseVars

----------------------------------------------------------------------------
(* No commit is released twice, and none is passed over, as long as no lease runs out     *)
(* while its holder is at it: the releases of a component follow one upon the other,      *)
(* whichever pushes run late or again, and wherever a run was cut off.  Excepted is a     *)
(* pull request acted on while a task of the act before was due: closed, reopened and     *)
(* merged in haste it has no label "pending" and lets the next one be proposed and        *)
(* merged; then the late task gives the label back, and both are released.                *)
ReleasesFollow ==
  (~expired /\ ~hasty) =>
    \A i \in releases :
      LET others == {j \in releases \ {i} : pulls[j].of = pulls[i].of}
      IN /\ \A j \in others : pulls[j].upTo <= pulls[i].from \/ pulls[i].upTo <= pulls[j].from
         /\ pulls[i].from = 0 \/ \E j \in others : pulls[j].upTo = pulls[i].from

(* When all is done, no task was given up (half a swap of labels ends so), no lease ran   *)
(* out and no pull request was acted on while the label of the act before was still due:  *)
(* each release pull request has the label of its state, each merged one whose            *)
(* configuration makes releases is released and tagged, and of each releasing             *)
(* configuration that is not on demand commits not released yet are all proposed in an    *)
(* open pull request, unless somebody closed one of its pull requests unmerged.  A tag is *)
(* lost for good when a call fails after the release was made.                            *)
AllIsReleased ==
  (Resting /\ ~abandoned /\ ~hasty /\ ~expired) =>
    \A o \in {p \in Configured : p.options.ok} :
      LET of == ComponentOf(o)
          own == {i \in DOMAIN pulls : pulls[i].of = of}
      IN /\ \A i \in own :
              /\ pulls[i].state = "closed" => "closed" \in pulls[i].labels
              /\ pulls[i].state = "open"   => "pending" \in pulls[i].labels
              /\ (pulls[i].state = "merged" /\ o.options.release) => i \in releases /\ Untagged(of) = {}
              /\ (i \in releases /\ o.options.tag /\ ~failed) => i \in tags
         /\ (~o.options.onDemand /\ o.options.release /\ commits[of[1]] > LatestRelease(of)) =>
              \E i \in own : pulls[i].state \in {"open", "closed"} /\ (pulls[i].state = "open" => pulls[i].upTo = commits[of[1]])
=============================================================================
