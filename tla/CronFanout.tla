----------------------------- MODULE CronFanout -----------------------------
(***************************************************************************)
(* packages/gcf-utils, handleScheduled(): a request of Cloud Scheduler is  *)
(* fanned out into tasks, one for the whole bot, one for each installation *)
(* of the app, or one for each of their repositories, in batches that are  *)
(* given later and later starts.  Installations and repositories are       *)
(* listed page by page while the tasks of those already seen are being     *)
(* created; meanwhile people archive repositories and take them out of the *)
(* installation.                                                           *)
(***************************************************************************)
EXTENDS Naturals, FiniteSets, Sequences, SequencesExt

CONSTANTS
  Installation,   \* installations of the app
  Repository,     \* repositories, each in at most one installation
  CronPage,       \* bound: entries of one page of a listing (30 in the code)
  CronBatch,      \* bound: batchSize (30 in the code)
  MaxCronFaults,  \* bound: failing calls
  MaxCronEdits    \* bound: edits of people during the request

NoTarget == "none"

ASSUME CronAssumption ==
  /\ CronPage \in Nat \ {0} /\ CronBatch \in Nat \ {0}
  /\ IsFiniteSet(Installation) /\ NoTarget \notin Installation \cup Repository

VARIABLES
  installed,  \* the installations in the order of the listing
  repos,      \* the repositories of each, in the order of the listing
  archived,   \* repositories archived or disabled
  suspended,  \* installations suspended
  scheduled,  \* the body of the request: cron_type, repo, installation, allowed_organizations
  fanout,     \* its handler; at: "installations" or "repos" while a listing is read, "one" when
              \* there is one task to be created; count: promises.length
  pending,    \* calls of enqueueTask() under way
  cronTasks,  \* tasks created
  cronFaults, \* number of failing calls
  cronEdits,  \* number of edits
  unsteady    \* history: repositories archived or taken out during the request, or whose page moved or task failed

listVars == <<installed, repos, archived, suspended>>
cronVars == <<listVars, scheduled, fanout, pending, cronTasks, cronFaults, cronEdits, unsteady>>

\* A listing that is read page by page: the page to be fetched next (0: none) and the
\* entries of the latest one that are left.
NewCursor == [next |-> 1, items |-> <<>>]
Exhausted(c) == c.items = <<>> /\ c.next = 0
NeedsPage(c) == c.items = <<>> /\ c.next # 0
NextPage(c, list) ==
  [next  |-> IF Len(list) > c.next * CronPage THEN c.next + 1 ELSE 0,
   items |-> SubSeq(list, (c.next - 1) * CronPage + 1,
                    IF Len(list) < c.next * CronPage THEN Len(list) ELSE c.next * CronPage)]
Rest(c) == [c EXCEPT !.items = Tail(@)]

Task(kind, of, delay) == [kind |-> kind, of |-> of, delay |-> delay]
CronTask == [kind : {"global", "installation", "repository"}, of : Installation \cup Repository \cup {NoTarget}, delay : Nat]

CronBodies ==
  [type : {"global", "installation", "repository"}, repo : Repository \cup {NoTarget},
   installation : Installation \cup {NoTarget}, orgs : SUBSET Installation]

CronTypeOK ==
  /\ scheduled \in CronBodies
  /\ fanout.at \in {"start", "one", "installations", "repos", "answered", "failed"}
  /\ fanout.installation \in Installation \cup {NoTarget}
  /\ fanout.count \in 0 .. CronBatch /\ fanout.delay \in Nat
  /\ pending \subseteq CronTask /\ cronTasks \subseteq CronTask
  /\ Cardinality(pending) <= CronBatch
  /\ archived \cup unsteady \subseteq Repository /\ suspended \subseteq Installation

CronInit(bodies, lists) ==
  /\ repos \in lists
  /\ installed \in SetToSeqs(Installation)
  /\ archived \in {{}} \cup {{r} : r \in Repository}
  /\ suspended \in {{}} \cup {{i} : i \in Installation}
  /\ scheduled \in bodies
  /\ fanout = [at |-> "start", installations |-> NewCursor, installation |-> NoTarget,
               repos |-> NewCursor, count |-> 0, delay |-> 0]
  /\ pending = {} /\ cronTasks = {} /\ unsteady = {}
  /\ cronFaults = 0 /\ cronEdits = 0

----------------------------------------------------------------------------
\* With a repository, or an installation, in the body its task alone is created; a cron of
\* installations does not look at the repository.
HandleScheduled ==
  /\ fanout.at = "start"
  /\ LET one(kind, of) == /\ pending' = {Task(kind, of, 0)}
                          /\ fanout' = [fanout EXCEPT !.at = "one"]
     IN \/ scheduled.type = "global" /\ one("global", NoTarget)
        \/ /\ scheduled.type = "installation" /\ scheduled.installation # NoTarget
           /\ one("installation", scheduled.installation)
        \/ /\ scheduled.type = "repository" /\ scheduled.repo # NoTarget
           /\ one("repository", scheduled.repo)
        \/ /\ scheduled.type = "repository" /\ scheduled.repo = NoTarget /\ scheduled.installation # NoTarget
           /\ fanout' = [fanout EXCEPT !.at = "repos", !.installation = scheduled.installation]
           /\ UNCHANGED pending
        \/ /\ scheduled.installation = NoTarget
           /\ \/ scheduled.type = "installation"
              \/ scheduled.type = "repository" /\ scheduled.repo = NoTarget
           /\ fanout' = [fanout EXCEPT !.at = "installations"]
           /\ UNCHANGED pending
  /\ UNCHANGED <<listVars, scheduled, cronTasks, cronFaults, cronEdits, unsteady>>

FetchInstallations ==
  /\ fanout.at = "installations" /\ NeedsPage(fanout.installations) /\ pending = {}
  /\ fanout' = [fanout EXCEPT !.installations = NextPage(@, installed)]
  /\ UNCHANGED <<listVars, scheduled, pending, cronTasks, cronFaults, cronEdits, unsteady>>

\* A cron of installations looks neither at suspensions nor at allowed_organizations.
NextInstallation ==
  /\ fanout.at = "installations" /\ fanout.installations.items # <<>> /\ pending = {}
  /\ LET i == Head(fanout.installations.items)
         rest == [fanout EXCEPT !.installations = Rest(@)]
     IN \/ /\ scheduled.type = "installation"
           /\ pending' = {Task("installation", i, 0)} /\ fanout' = rest
        \/ /\ scheduled.type = "repository"
           /\ fanout' = IF i \in scheduled.orgs /\ i \notin suspended
                        THEN [rest EXCEPT !.at = "repos", !.installation = i, !.repos = NewCursor] ELSE rest
           /\ UNCHANGED pending
  /\ UNCHANGED <<listVars, scheduled, cronTasks, cronFaults, cronEdits, unsteady>>

FetchRepos ==
  /\ fanout.at = "repos" /\ NeedsPage(fanout.repos) /\ fanout.count < CronBatch
  /\ fanout' = [fanout EXCEPT !.repos = NextPage(@, repos[fanout.installation])]
  /\ UNCHANGED <<listVars, scheduled, pending, cronTasks, cronFaults, cronEdits, unsteady>>

\* A mutant of NextRepo: the listing ends at an archived repository.
NextRepoStopsAtArchived ==
  /\ fanout.at = "repos" /\ fanout.repos.items # <<>> /\ fanout.count < CronBatch
  /\ LET r == Head(fanout.repos.items)
     IN IF r \in archived
        THEN fanout' = [fanout EXCEPT !.repos = [next |-> 0, items |-> <<>>]] /\ UNCHANGED pending
        ELSE /\ fanout' = [fanout EXCEPT !.repos = Rest(@), !.count = @ + 1]
             /\ pending' = pending \cup {Task("repository", r, fanout.delay)}
  /\ UNCHANGED <<listVars, scheduled, cronTasks, cronFaults, cronEdits, unsteady>>

\* The page says whether a repository is archived; the task is not awaited.
NextRepo ==
  /\ fanout.at = "repos" /\ fanout.repos.items # <<>> /\ fanout.count < CronBatch
  /\ LET r == Head(fanout.repos.items)
     IN IF r \in archived
        THEN fanout' = [fanout EXCEPT !.repos = Rest(@)] /\ UNCHANGED pending
        ELSE /\ fanout' = [fanout EXCEPT !.repos = Rest(@), !.count = @ + 1]
             /\ pending' = pending \cup {Task("repository", r, fanout.delay)}
  /\ UNCHANGED <<listVars, scheduled, cronTasks, cronFaults, cronEdits, unsteady>>

\* A mutant of BatchDone: the batch is not awaited.
BatchNotAwaited ==
  /\ fanout.at = "repos" /\ fanout.count = CronBatch
  /\ fanout' = [fanout EXCEPT !.count = 0, !.delay = @ + 1]
  /\ UNCHANGED <<listVars, scheduled, pending, cronTasks, cronFaults, cronEdits, unsteady>>

\* A full batch is awaited and the next one starts later.
BatchDone ==
  /\ fanout.at = "repos" /\ fanout.count = CronBatch /\ pending = {}
  /\ fanout' = [fanout EXCEPT !.count = 0, !.delay = @ + 1]
  /\ UNCHANGED <<listVars, scheduled, pending, cronTasks, cronFaults, cronEdits, unsteady>>

\* The rest of an installation's is awaited, and the next one's start no later.
ReposDone ==
  /\ fanout.at = "repos" /\ Exhausted(fanout.repos) /\ fanout.count < CronBatch /\ pending = {}
  /\ fanout' = [fanout EXCEPT !.count = 0,
                  !.at = IF scheduled.installation = NoTarget THEN "installations" ELSE "answered"]
  /\ UNCHANGED <<listVars, scheduled, pending, cronTasks, cronFaults, cronEdits, unsteady>>

Answer ==
  /\ pending = {}
  /\ fanout.at = "one" \/ (fanout.at = "installations" /\ Exhausted(fanout.installations))
  /\ fanout' = [fanout EXCEPT !.at = "answered"]
  /\ UNCHANGED <<listVars, scheduled, pending, cronTasks, cronFaults, cronEdits, unsteady>>

Enqueued(t) ==
  /\ t \in pending
  /\ pending' = pending \ {t} /\ cronTasks' = cronTasks \cup {t}
  /\ UNCHANGED <<listVars, scheduled, fanout, cronFaults, cronEdits, unsteady>>

\* scheduledToTask() logs the error of a repository's task; any other is the request's.
EnqueueFails(t) ==
  /\ t \in pending /\ cronFaults < MaxCronFaults
  /\ pending' = pending \ {t} /\ cronFaults' = cronFaults + 1
  /\ IF t.kind = "repository"
     THEN unsteady' = unsteady \cup {t.of} /\ UNCHANGED fanout
     ELSE fanout' = [fanout EXCEPT !.at = "failed"] /\ UNCHANGED unsteady
  /\ UNCHANGED <<listVars, scheduled, cronTasks, cronEdits>>

\* A page cannot be read: the request is answered 500, while calls under way go on.
ListingFails ==
  /\ cronFaults < MaxCronFaults
  /\ \/ fanout.at = "installations" /\ NeedsPage(fanout.installations) /\ pending = {}
     \/ fanout.at = "repos" /\ NeedsPage(fanout.repos) /\ fanout.count < CronBatch
  /\ fanout' = [fanout EXCEPT !.at = "failed"] /\ cronFaults' = cronFaults + 1
  /\ UNCHANGED <<listVars, scheduled, pending, cronTasks, cronEdits, unsteady>>

----------------------------------------------------------------------------
(* People *)

Edit == fanout.at \notin {"answered", "failed"} /\ cronEdits < MaxCronEdits /\ cronEdits' = cronEdits + 1

ArchiveRepo(r) ==
  /\ Edit /\ r \notin archived
  /\ archived' = archived \cup {r} /\ unsteady' = unsteady \cup {r}
  /\ UNCHANGED <<installed, repos, suspended, scheduled, fanout, pending, cronTasks, cronFaults>>

\* The repositories after r move up: the first one of a page that is still to be read
\* moves to the one before it.
UninstallRepo(i, r) ==
  /\ Edit
  /\ LET n == Len(repos[i])
         first == (fanout.repos.next - 1) * CronPage + 1
     IN \E k \in 1 .. n :
          /\ repos[i][k] = r
          /\ repos' = [repos EXCEPT ![i] = RemoveAt(@, k)]
          /\ unsteady' = unsteady \cup {r} \cup
               (IF fanout.at = "repos" /\ fanout.installation = i /\ fanout.repos.next > 1 /\ k < first /\ first <= n
                THEN {repos[i][first]} ELSE {})
  /\ UNCHANGED <<installed, archived, suspended, scheduled, fanout, pending, cronTasks, cronFaults>>

CronStep ==
  \/ HandleScheduled \/ FetchInstallations \/ NextInstallation \/ FetchRepos \/ NextRepo
  \/ BatchDone \/ ReposDone \/ Answer \/ ListingFails
  \/ \E t \in pending : Enqueued(t) \/ EnqueueFails(t)

CronNext ==
  \/ CronStep
  \/ \E r \in Repository : ArchiveRepo(r)
  \/ \E i \in Installation, r \in Repository : UninstallRepo(i, r)

CronSpec(bodies, lists) == CronInit(bodies, lists) /\ [][CronNext]_cronVars

----------------------------------------------------------------------------
(* The repositories and installations the request is for. *)
AllInstallations == scheduled.installation = NoTarget
InstallationsMeant ==
  IF AllInstallations THEN scheduled.orgs \ suspended ELSE {scheduled.installation}
ReposMeant ==
  IF scheduled.repo # NoTarget THEN {scheduled.repo}
  ELSE (UNION {ToSet(repos[i]) : i \in InstallationsMeant}) \ archived

(* A cron that was answered 200 has a task for every repository it is for: none is passed *)
(* over at the edge of a page, of a batch or of an installation, although archived ones   *)
(* and suspended installations lie in between and calls end in any order.  Excepted are   *)
(* the repositories whose task could not be created, which is only logged, and those that *)
(* moved to a page already read when another one was taken out of the installation.       *)
EveryRepositoryIsRun ==
  fanout.at = "answered" =>
    /\ scheduled.type = "global" => Task("global", NoTarget, 0) \in cronTasks
    /\ scheduled.type = "installation" =>
         \A i \in (IF AllInstallations THEN Installation ELSE {scheduled.installation}) :
           Task("installation", i, 0) \in cronTasks
    /\ scheduled.type = "repository" =>
         \A r \in ReposMeant \ unsteady : \E t \in cronTasks : t.kind = "repository" /\ t.of = r
=============================================================================
