------------------------ MODULE OwlBotPostProcessor ------------------------
(***************************************************************************)
(* packages/owl-bot: the post processor on one pull request of a           *)
(* repository's own branch.  A push or a label starts a run: it takes the  *)
(* Datastore lock of the pushed commit, looks for a loop, has Cloud Build  *)
(* run the container on the branch, waits for it, and closes a pull        *)
(* request that has become empty.  The build pushes to the same branch,    *)
(* which starts the next run.                                              *)
(*                                                                         *)
(* The lock is what LeaseLock promises: one lease for each commit, which   *)
(* runs out LOCK_TIMEOUT after it was taken.  Commits are numbered; a      *)
(* squashing build replaces commits instead of adding one, and its result  *)
(* has a number of its own all the same.  Authors' dates are of the past:  *)
(* what is committed now has the latest.                                   *)
(***************************************************************************)
EXTENDS Naturals, FiniteSets, Sequences, SequencesExt

CONSTANTS
  Run,             \* request slots; a slot is taken until its build is over, too
  None,            \* no run
  CircuitBreaker,  \* of hasOwlBotLoop()
  CommitPage,      \* how many commits it lists: the first of the pull request (100)
  MaxCommits,      \* bound: commits of the pull request
  MaxExtras        \* bound: labels put on and taken off, dead or redelivered runs,
                   \* calls that fail, all together

ASSUME RunAssumption == None \notin Run /\ Run # {} /\ IsFiniteSet(Run)
ASSUME BoundsAssumption ==
  /\ CircuitBreaker \in Nat \ {0} /\ CommitPage \in Nat \ {0, 1}
  /\ MaxCommits \in Nat \ {0} /\ MaxExtras \in Nat

Commit  == 1 .. MaxCommits
\* pull_request.opened, .synchronize, .reopened; "owlbot:run" put by a bot, by a human
Trigger == [by : {"push", "bot", "human"}, sha : Commit]
Lease   == [by : Run \cup {None}, expired : BOOLEAN]
NoLease == [by |-> None, expired |-> FALSE]

\* where a run is: what it awaits
Pc      == {"idle", "last", "lock", "loop", "get", "trigger", "wait", "pulls", "files",
            "close", "delete", "release", "throw"}

RunState ==
  [pc : Pc,
   trigger : Trigger,
   overdue : BOOLEAN,    \* history: its lease has run out
   ignored : BOOLEAN]    \* history: "owl-bot-ignore" was there all along

\* Only a bot's label makes a run look at the last commit.
RunValue == {x \in RunState : x.pc = "last" => x.trigger.by = "bot"}

Stage    == {"none", "queued", "cloned", "amended", "committed", "pulled"}
NoBuild  == [stage |-> "none", asked |-> FALSE, base |-> 1, tagged |-> FALSE, merged |-> FALSE]
BuildState ==
  [stage : Stage,
   asked : BOOLEAN,      \* its run was started by a human
   base : Commit,        \* the commit its working tree is based upon
   tagged : BOOLEAN,     \* that commit is one to amend
   merged : BOOLEAN]     \* did git pull make a merge?

VARIABLES
  origin,    \* GitHub: "user", or one of Owl Bot's: "copy", "squash" (squash: true)
  open,      \* GitHub: the pull request is open
  branch,    \* GitHub: its branch exists
  head,      \* GitHub: its latest commit
  tagged,    \* GitHub: it has a Copy-Tag of a configuration with "squash: true"
  streak,    \* GitHub: how many of the last commits have the post processor's message
  listed,    \* GitHub: the first page of its commits, by their authors' dates: which
             \* of them have that message?
  cut,       \* GitHub: it has commits that are not on that page
  files,     \* GitHub: does the pull request change anything?
  ignore,    \* GitHub: it has the label "owl-bot-ignore"
  triggers,  \* webhooks not handled yet
  lease,     \* Datastore: the lock of each commit
  run,       \* the runs
  build,     \* Cloud Build: the build of each run
  extras,    \* bound: label edits and faults so far
  asked,     \* history: did a human's run push in the present streak?
  theirs,    \* history: the latest commit pushed by a person, 0 if there is none
  lost,      \* history: was a person's commit overwritten?
  dropped    \* history: commits whose run gave up waiting for the lock

commits == <<head, tagged, streak, listed, cut>>
github  == <<origin, open, branch, commits, files, ignore>>
history == <<asked, theirs, lost, dropped>>
vars    == <<github, triggers, lease, run, build, extras, history>>

TypeOK ==
  /\ origin \in {"user", "copy", "squash"}
  /\ open \in BOOLEAN /\ branch \in BOOLEAN
  /\ head \in Commit
  /\ tagged \in BOOLEAN
  /\ streak \in 0 .. head
  /\ listed \in Seq(BOOLEAN) /\ cut \in BOOLEAN
  /\ files \in BOOLEAN /\ ignore \in BOOLEAN
  /\ triggers \in SUBSET Trigger
  /\ lease \in [Commit -> Lease]
  /\ run \in [Run -> RunValue]
  /\ build \in [Run -> BuildState]
  /\ extras \in 0 .. MaxExtras
  /\ asked \in BOOLEAN /\ lost \in BOOLEAN
  /\ theirs \in 0 .. MaxCommits
  /\ dropped \in SUBSET Commit

Opened  == [by |-> "push", sha |-> 1]
Idle    == [pc |-> "idle", trigger |-> Opened, overdue |-> FALSE, ignored |-> FALSE]

\* The pull request was opened, or reopened after the post processor committed to it.
Init ==
  /\ origin \in {"user", "copy", "squash"}
  /\ open = TRUE /\ branch = TRUE /\ head = 1
  /\ tagged = (origin = "squash")
  /\ streak \in IF tagged THEN {0} ELSE {0, 1}
  /\ listed = IF streak = 0 THEN <<FALSE>> ELSE <<FALSE, TRUE>>
  /\ cut = FALSE
  /\ files = TRUE /\ ignore = FALSE
  /\ triggers = {Opened}
  /\ lease = [c \in Commit |-> NoLease]
  /\ run = [r \in Run |-> Idle]
  /\ build = [r \in Run |-> NoBuild]
  /\ extras = 0
  /\ asked = FALSE /\ theirs = 0 /\ lost = FALSE /\ dropped = {}

----------------------------------------------------------------------------
(* People and other bots *)

Extra == extras < MaxExtras /\ extras' = extras + 1

Synchronized == triggers' = triggers \cup {[by |-> "push", sha |-> head']}

\* A page with room for it lists a new commit at its author's date.
List(page, at, own) == IF Len(page) < CommitPage THEN InsertAt(page, at, own) ELSE page

Dates == 1 .. Len(listed) + 1

\* A person's commit may be older than those on the branch.
UserPush ==
  /\ open /\ branch /\ head < MaxCommits
  /\ head' = head + 1 /\ tagged' = FALSE /\ streak' = 0 /\ files' = TRUE
  /\ \E at \in Dates : listed' = List(listed, at, FALSE)
  /\ cut' = (cut \/ Len(listed) >= CommitPage)
  /\ Synchronized
  /\ asked' = FALSE
  /\ theirs' = head'
  /\ UNCHANGED <<origin, open, branch, ignore, lease, run, build, extras, lost, dropped>>

Label(by) ==
  /\ open /\ Extra
  /\ triggers' = triggers \cup {[by |-> by, sha |-> head]}
  /\ UNCHANGED <<github, lease, run, build, history>>

\* "owl-bot-ignore" is put on or taken off.
Ignore ==
  /\ Extra
  /\ ignore' = ~ignore
  /\ run' = [r \in Run |-> [run[r] EXCEPT !.ignored = FALSE]]
  /\ UNCHANGED <<origin, open, branch, commits, files, triggers, lease, build, history>>

----------------------------------------------------------------------------
(* Runs *)

At(r, pc)   == run[r].pc = pc
GoTo(r, pc) == run' = [run EXCEPT ![r].pc = pc]
Finish(r)   == run' = [run EXCEPT ![r] = Idle]
Build(r, b) == build' = [build EXCEPT ![r] = b]
Sha(r)      == run[r].trigger.sha

\* between acquireLock() and releaseLock()
HoldsLock(r) == run[r].pc \notin {"idle", "last", "lock"}

\* Handlers that are not about this repository's pull requests return at once.
Start(r, t) ==
  /\ At(r, "idle") /\ build[r] = NoBuild
  /\ t \in triggers
  /\ triggers' = triggers \ {t}
  /\ run' = [run EXCEPT ![r] = [pc |-> IF t.by = "bot" THEN "last" ELSE "lock",
                                trigger |-> t, overdue |-> FALSE, ignored |-> ignore]]
  /\ UNCHANGED <<github, lease, build, extras, history>>

\* The label comes from a bot: not if the last commit is the post processor's.
LastCommit(r) ==
  /\ At(r, "last")
  /\ IF streak > 0 THEN Finish(r) ELSE GoTo(r, "lock")
  /\ UNCHANGED <<github, triggers, lease, build, extras, history>>

\* mutant: a trigger that is not of the latest commit is dropped
AcquireLockOfHead(r) ==
  /\ At(r, "lock")
  /\ \/ /\ lease[Sha(r)] = NoLease \/ lease[Sha(r)].expired
        /\ Sha(r) = head
        /\ lease' = [lease EXCEPT ![Sha(r)] = [by |-> r, expired |-> FALSE]]
        /\ GoTo(r, "loop")
     \/ Sha(r) # head /\ Finish(r) /\ UNCHANGED lease
     \/ lease[Sha(r)] # NoLease /\ Finish(r) /\ UNCHANGED lease
  /\ UNCHANGED <<github, triggers, build, extras, history>>

\* peek() and acquire(): refused while another run's lease lasts, and the run is then
\* over, "likely already running from another trigger".
AcquireLock(r) ==
  /\ At(r, "lock")
  /\ \/ /\ lease[Sha(r)] = NoLease \/ lease[Sha(r)].expired
        /\ lease' = [lease EXCEPT ![Sha(r)] = [by |-> r, expired |-> FALSE]]
        /\ GoTo(r, "loop")
     \/ /\ lease[Sha(r)] # NoLease /\ ~lease[Sha(r)].expired
        /\ Finish(r) /\ UNCHANGED lease
  /\ UNCHANGED <<github, triggers, build, extras, history>>

\* mutant: the last commits are not looked at
HasOwlBotLoopNever(r) ==
  /\ At(r, "loop")
  /\ GoTo(r, "get")
  /\ UNCHANGED <<github, triggers, lease, build, extras, history>>

\* hasOwlBotLoop(): the latest commits on the first page are all the post processor's.
LoopListed ==
  /\ Len(listed) >= CircuitBreaker
  /\ \A i \in DOMAIN listed : i > Len(listed) - CircuitBreaker => listed[i]

\* fetchOwlBotLock() ... hasOwlBotLoop(): a missing or corrupt lock file, or a base
\* that is not the default branch, ends the run, and so does a loop.
HasOwlBotLoop(r) ==
  /\ At(r, "loop")
  /\ \/ GoTo(r, "release")
     \/ (run[r].trigger.by = "human" \/ ~LoopListed) /\ GoTo(r, "get")
  /\ UNCHANGED <<github, triggers, lease, build, extras, history>>

\* mutant: the label is not looked at
GetPullRequestBlindly(r) ==
  /\ At(r, "get")
  /\ GoTo(r, "trigger")
  /\ UNCHANGED <<github, triggers, lease, build, extras, history>>

GetPullRequest(r) ==
  /\ At(r, "get")
  /\ GoTo(r, IF ignore THEN "release" ELSE "trigger")
  /\ UNCHANGED <<github, triggers, lease, build, extras, history>>

RunBuildTrigger(r) ==
  /\ At(r, "trigger")
  /\ Build(r, [NoBuild EXCEPT !.stage = "queued", !.asked = (run[r].trigger.by = "human")])
  /\ GoTo(r, "wait")
  /\ UNCHANGED <<github, triggers, lease, extras, history>>

\* waitForBuild(): the build is over, or a poll failed, which is a result as well.
WaitForBuild(r) ==
  /\ At(r, "wait")
  /\ \/ build[r] = NoBuild /\ UNCHANGED extras
     \/ build[r] # NoBuild /\ Extra
  /\ GoTo(r, "pulls")
  /\ UNCHANGED <<github, triggers, lease, build, history>>

\* updatePullRequestAfterPostProcessor()
GetPullRequestAgain(r) ==
  /\ At(r, "pulls")
  /\ GoTo(r, IF ignore \/ origin = "user" THEN "release" ELSE "files")
  /\ UNCHANGED <<github, triggers, lease, build, extras, history>>

ListFiles(r) ==
  /\ At(r, "files")
  /\ GoTo(r, IF files THEN "release" ELSE "close")
  /\ UNCHANGED <<github, triggers, lease, build, extras, history>>

ClosePullRequest(r) ==
  /\ At(r, "close")
  /\ open' = FALSE
  /\ GoTo(r, "delete")
  /\ UNCHANGED <<origin, branch, commits, files, ignore,
                 triggers, lease, build, extras, history>>

DeleteRef(r) ==
  /\ At(r, "delete")
  /\ branch' = FALSE
  /\ GoTo(r, "release")
  /\ UNCHANGED <<origin, open, commits, files, ignore,
                 triggers, lease, build, extras, history>>

\* The run is over; if it threw, the queue delivers its trigger again.
Return(r) ==
  /\ At(r, "release") \/ At(r, "throw")
  /\ triggers' = IF At(r, "throw") THEN triggers \cup {run[r].trigger} ELSE triggers
  /\ Finish(r)

\* mutant: release() does not look whose lock it is
ReleaseAnyLock(r) ==
  /\ Return(r)
  /\ lease' = [lease EXCEPT ![Sha(r)] = NoLease]
  /\ UNCHANGED <<github, build, extras, history>>

\* releaseLock(): another run's lock is left alone.
ReleaseLock(r) ==
  /\ Return(r)
  /\ lease' = IF lease[Sha(r)].by = r THEN [lease EXCEPT ![Sha(r)] = NoLease] ELSE lease
  /\ UNCHANGED <<github, build, extras, history>>

----------------------------------------------------------------------------
(* Time and failures *)

\* LOCK_TIMEOUT is over.
LeaseExpires(c) ==
  /\ lease[c] # NoLease /\ ~lease[c].expired
  /\ lease' = [lease EXCEPT ![c].expired = TRUE]
  /\ run' = [r \in Run |->
               [run[r] EXCEPT !.overdue = @ \/ (lease[c].by = r /\ HoldsLock(r) /\ Sha(r) = c)]]
  /\ UNCHANGED <<github, triggers, build, extras, history>>

\* The instance dies; the queue delivers the trigger again, and the build goes on.
Die(r) ==
  /\ ~At(r, "idle")
  /\ Extra
  /\ triggers' = triggers \cup {run[r].trigger}
  /\ Finish(r)
  /\ UNCHANGED <<github, lease, build, history>>

\* The queue waits no longer for the run's answer and delivers the trigger again.
Redeliver(r) ==
  /\ ~At(r, "idle")
  /\ Extra
  /\ triggers' = triggers \cup {run[r].trigger}
  /\ UNCHANGED <<github, lease, run, build, history>>

\* acquire() gives up: its transactions failed all the time, though one may have written
\* the lease.  That is a LockError too, so the run is over as if another made it.
AcquireTimesOut(r) ==
  /\ At(r, "lock")
  /\ lease[Sha(r)] = NoLease \/ lease[Sha(r)].expired
  /\ Extra
  /\ lease' \in {lease, [lease EXCEPT ![Sha(r)] = [by |-> r, expired |-> FALSE]]}
  /\ dropped' = dropped \cup {Sha(r)}
  /\ Finish(r)
  /\ UNCHANGED <<github, triggers, build, asked, theirs, lost>>

\* A call of runPostProcessor() throws; the lock is released all the same.  (Of the
\* build's polls one that throws is a result: WaitForBuild.)
RunThrows(r) ==
  /\ run[r].pc \in {"loop", "get", "trigger", "pulls", "files", "close", "delete"}
  /\ Extra
  /\ GoTo(r, "throw")
  /\ UNCHANGED <<github, triggers, lease, build, history>>

\* The transaction of release() fails, which it only logs.
ReleaseFails(r) ==
  /\ Return(r)
  /\ Extra
  /\ UNCHANGED <<github, lease, build, history>>

----------------------------------------------------------------------------
(* The build: cloud-build/update-pr.yaml, commitPostProcessorUpdate() *)

InStage(r, stage) == build[r].stage = stage

\* Any step of a build may fail, and the branch may be gone.
BuildEnds(r) ==
  /\ build[r] # NoBuild
  /\ Build(r, NoBuild)
  /\ UNCHANGED <<github, triggers, lease, run, extras, history>>

Clone(r) ==
  /\ InStage(r, "queued") /\ branch
  /\ Build(r, [build[r] EXCEPT !.stage = "cloned", !.base = head, !.tagged = tagged])
  /\ UNCHANGED <<github, triggers, lease, run, extras, history>>

\* The label is looked at again; a commit with a Copy-Tag is amended if the
\* repository's .OwlBot.yaml says squash.
CommitUpdate(r) ==
  /\ InStage(r, "cloned") /\ ~ignore
  /\ Build(r, [build[r] EXCEPT !.stage =
                 IF build[r].tagged THEN "amended" ELSE "committed"])
  /\ UNCHANGED <<github, triggers, lease, run, extras, history>>

\* What a push to the branch does.
Pushed(r, amended, s) ==
  /\ head < MaxCommits
  /\ head' = head + 1 /\ tagged' = amended /\ streak' = s /\ files' \in BOOLEAN
  /\ Synchronized
  /\ asked' = (s > 0 /\ (asked \/ build[r].asked))
  /\ Build(r, NoBuild)
  /\ UNCHANGED <<origin, open, ignore, lease, run, extras, theirs, dropped>>

\* git push -f: the amended commit is the only one.
ForcePush(r) ==
  /\ InStage(r, "amended")
  /\ Pushed(r, TRUE, 0)
  /\ listed' = <<FALSE>> /\ cut' = FALSE
  /\ branch' = TRUE
  /\ lost' = (lost \/ build[r].base < theirs)

Pull(r) ==
  /\ InStage(r, "committed") /\ branch
  /\ Build(r, [build[r] EXCEPT !.stage = "pulled", !.base = head,
                               !.merged = build[r].base # head])
  /\ UNCHANGED <<github, triggers, lease, run, extras, history>>

\* The new commit is the latest; under a merge others may have been committed since.
ListsPush(merged) ==
  IF merged
  THEN /\ \E at \in Dates :
            LET page == List(listed, at, TRUE)
            IN  listed' = List(page, Len(page) + 1, FALSE)
       /\ cut' = (cut \/ Len(listed) + 2 > CommitPage)
  ELSE /\ listed' = List(listed, Len(listed) + 1, TRUE)
       /\ cut' = (cut \/ Len(listed) >= CommitPage)

\* mutant: git push -f
PushForced(r) ==
  /\ InStage(r, "pulled") /\ branch
  /\ Pushed(r, FALSE, streak + 1)
  /\ ListsPush(FALSE)
  /\ lost' = (lost \/ build[r].base < theirs)
  /\ UNCHANGED branch

\* git push: rejected if the branch has moved on; a merge's message is not the post
\* processor's.
Push(r) ==
  /\ InStage(r, "pulled") /\ branch /\ build[r].base = head
  /\ Pushed(r, FALSE, IF build[r].merged THEN 0 ELSE streak + 1)
  /\ ListsPush(build[r].merged)
  /\ UNCHANGED <<branch, lost>>

----------------------------------------------------------------------------

RunStep(r) ==
  \/ LastCommit(r) \/ AcquireLock(r) \/ HasOwlBotLoop(r) \/ GetPullRequest(r)
  \/ RunBuildTrigger(r) \/ WaitForBuild(r) \/ GetPullRequestAgain(r) \/ ListFiles(r)
  \/ ClosePullRequest(r) \/ DeleteRef(r) \/ ReleaseLock(r)

Fault(r) ==
  Die(r) \/ Redeliver(r) \/ AcquireTimesOut(r) \/ RunThrows(r) \/ ReleaseFails(r)

BuildStep(r) ==
  \/ BuildEnds(r) \/ Clone(r) \/ CommitUpdate(r) \/ ForcePush(r) \/ Pull(r) \/ Push(r)

Next ==
  \/ UserPush \/ Ignore
  \/ \E by \in {"bot", "human"} : Label(by)
  \/ \E r \in Run, t \in triggers : Start(r, t)
  \/ \E r \in Run : RunStep(r) \/ BuildStep(r) \/ Fault(r)
  \/ \E c \in Commit : LeaseExpires(c)

Spec == Init /\ [][Next]_vars

\* Every await settles, every build ends (its timeout is three hours), and the queue
\* keeps delivering triggers.
FairSpec ==
  /\ Spec
  /\ \A r \in Run : WF_vars(RunStep(r)) /\ WF_vars(BuildStep(r))
  /\ SF_vars(\E r \in Run, t \in triggers : Start(r, t))

----------------------------------------------------------------------------
(* Properties *)

\* The lock does its work while its lease lasts: of two runs for the same commit one
\* has outlived its lease (owl-bot.ts:567-584).
LeasedRunsAlone ==
  \A r, s \in Run :
    (r # s /\ HoldsLock(r) /\ HoldsLock(s) /\ Sha(r) = Sha(s))
      => run[r].overdue \/ run[s].overdue

\* Why: a run that has not outlived its lease has it.
LeaseInv ==
  /\ \A r \in Run : (HoldsLock(r) /\ ~run[r].overdue)
       => lease[Sha(r)] = [by |-> r, expired |-> FALSE]
  /\ LeasedRunsAlone

\* Runs that nobody asked for add no more commits in a row than the circuit breaker
\* lets pass, and one for each other run that had passed it already
\* (core.ts:525-576); as long as all commits are on the first page, for of those
\* behind it none is looked at.
StreakBounded == ~asked /\ ~cut => streak < CircuitBreaker + Cardinality(Run)

\* The runs that nobody asked for whose next push has been let pass.
Armed ==
  {r \in Run : \/ run[r].pc \in {"get", "trigger"} /\ run[r].trigger.by # "human"
               \/ build[r] # NoBuild /\ ~build[r].asked}

\* The streak is at the end of a page that lists all commits.
StreakListed ==
  ~cut => /\ streak <= Len(listed)
          /\ \A i \in DOMAIN listed : i > Len(listed) - streak => listed[i]

\* Why: a run that pushes is armed no more, and none is armed at the breaker.
StreakInv ==
  /\ \A r \in Run : run[r].pc \in {"last", "lock", "loop", "get", "trigger"} => build[r] = NoBuild
  /\ ~asked /\ ~cut => streak < CircuitBreaker + Cardinality(Run \ Armed)
  /\ StreakListed

\* Without "squash: true" no commit of a person is overwritten
\* (commit-post-processor-update.ts:141-168).
UserCommitsKept == origin # "squash" => ~lost

\* A run during all of which the pull request was labelled "owl-bot-ignore" neither
\* builds nor closes it (core.ts:118, core.ts:628).
IgnoredIsLeft ==
  \A r \in Run :
    run[r].ignored => run[r].pc \notin {"trigger", "wait", "files", "close", "delete"}

\* The run whose lease a commit's lock is has died, or could not release it.
Orphaned(c) ==
  /\ lease[c].by # None /\ ~lease[c].expired
  /\ ~(HoldsLock(lease[c].by) /\ Sha(lease[c].by) = c)

\* A push or a human's label leads to a run for its commit that comes to its end,
\* whichever of its triggers is first, and however often they are delivered or a run
\* throws: the run that the lock refuses is made by its holder (owl-bot.ts:557-600).
\* Unless a run dies or fails to release the lock, whose lease then refuses the run
\* made in its stead, or acquire() gives up, which passes for a refusal.
TriggersAreServed ==
  \A c \in Commit :
    (\E t \in triggers : t.sha = c /\ t.by # "bot")
      ~> \/ \E r \in Run : run[r].pc = "release" /\ Sha(r) = c
         \/ Orphaned(c) \/ c \in dropped

=============================================================================
