------------------------- MODULE OwlBotLockUpdate -------------------------
(***************************************************************************)
(* packages/owl-bot: updating the lock files when a post processor's image *)
(* is published.                                                           *)
(*                                                                         *)
(* The Pub/Sub message of an image starts one Cloud Build build for every  *)
(* repository whose stored configurations have another digest, unless one  *)
(* is recorded for that repository and digest.  The build commits the new  *)
(* lock file to a branch named for the digest, runs the image and opens a  *)
(* pull request.  A job scans the builds every hour, retries those that    *)
(* failed, and lets another trigger, which ignores failing, have a go when *)
(* maxTries of them have failed.                                           *)
(*                                                                         *)
(* Time passes in days: within each the job, which is due every hour, runs *)
(* to its end at least once, and all builds end.                           *)
(***************************************************************************)
EXTENDS OwlBotConfigs

CONSTANTS
  Publisher,   \* request slots that handle Pub/Sub messages
  MaxTries,    \* --max-tries, 3
  Recent,      \* twentyFourHours, in days
  Window,      \* seventyTwoHours, in days
  MaxBuilds,   \* bound: builds
  MaxTime      \* bound: days

ASSUME LockUpdateAssumption ==
  /\ IsFiniteSet(Publisher)
  /\ {MaxTries, Recent, Window} \subseteq Nat \ {0} /\ {MaxBuilds, MaxTime} \subseteq Nat

BuildId == 1 .. MaxBuilds
NoBuild == 0

\* A build of Cloud Build. Retries have the substitutions of the build they retry,
\* a fresh token among them, so that a group is an original build and its retries.
Status == {"queued", "cloned", "pushed", "success", "failure"}
Build  ==
  [repo : Repo, digest : Digest,
   group : BuildId,       \* the substitutions, named for the build that had them first
   forced : BOOLEAN,      \* started by the forcing trigger
   status : Status,
   at : 0 .. MaxTime]     \* createTime

PublishState ==
  [pc : {"idle", "next", "find", "trigger", "record"},
   digest : Digest \cup {NoLock},
   todo : SUBSET Repo,    \* repositories found stale and not gone through yet
   repo : Repo \cup {"none"},
   build : 0 .. MaxBuilds]
NoPublish == [pc |-> "idle", digest |-> NoLock, todo |-> {}, repo |-> "none", build |-> NoBuild]

VARIABLES
  messages,    \* Pub/Sub: digests whose INSERT is not handled yet
  published,   \* how many images have been published
  publish,     \* the requests
  buildOf,     \* Firestore: the collection lock-update-builds
  builds,      \* Cloud Build, the oldest first
  branches,    \* GitHub: the branches owl-bot-update-lock-<digest> of each repository
  pulls,       \* GitHub: repositories and digests with an open pull request
  rebuilds,    \* the hourly job: the builds it still has to start again, forced or not
  scanned,     \* has the job come to its end today?
  time

lockVars == <<messages, published, publish, buildOf, builds, branches, pulls, rebuilds, scanned, time>>
allVars  == <<configsVars, faults, lockVars>>

LockTypeOK ==
  /\ messages \subseteq Digest /\ published \in 0 .. MaxDigests
  /\ publish \in [Publisher -> PublishState]
  /\ buildOf \in [Repo -> [Digest -> 0 .. MaxBuilds]]
  /\ builds \in Seq(Build) /\ Len(builds) <= MaxBuilds
  /\ branches \subseteq Repo \X Digest
  /\ pulls \subseteq Repo \X Digest
  /\ rebuilds \subseteq BuildId \X BOOLEAN
  /\ scanned \in BOOLEAN /\ time \in 0 .. MaxTime

LockInit ==
  /\ messages = {} /\ published = 0
  /\ publish = [h \in Publisher |-> NoPublish]
  /\ buildOf = [r \in Repo |-> [d \in Digest |-> NoBuild]]
  /\ builds = <<>>
  /\ branches = {} /\ pulls = {}
  /\ rebuilds = {} /\ scanned = FALSE /\ time = 0

----------------------------------------------------------------------------
(* The environment. *)

Publish ==
  /\ published < MaxDigests
  /\ published' = published + 1
  /\ messages' = messages \cup {published'}
  /\ UNCHANGED <<configsVars, faults, publish, buildOf, builds, branches, pulls, rebuilds, scanned, time>>

Ended(b) == builds[b].status \in {"success", "failure"}

Tick ==
  /\ time < MaxTime
  /\ scanned /\ rebuilds = {} /\ \A b \in DOMAIN builds : Ended(b)
  /\ time' = time + 1 /\ scanned' = FALSE
  /\ UNCHANGED <<configsVars, faults, messages, published, publish, buildOf, builds, branches, pulls, rebuilds>>

\* Someone merges the pull request: the lock file is the new one.
Merge(r, d) ==
  /\ <<r, d>> \in pulls
  /\ Land(r, [Last(commits[r]) EXCEPT !.lock = d])
  /\ pulls' = pulls \ {<<r, d>>}
  /\ closed' = closed \cup {r}
  /\ UNCHANGED <<archived, issues, store, clearing, refresh, faults, messages, published,
                 publish, buildOf, builds, branches, rebuilds, scanned, time>>

----------------------------------------------------------------------------
(* onPostProcessorPublished() and triggerOneBuildForUpdatingLock(). *)

\* findReposWithPostProcessor(): the configurations are the ones read here. A
\* missing lock file is a stale one.
OnPostProcessorPublished(h, d) ==
  /\ publish[h].pc = "idle" /\ d \in messages
  /\ messages' = messages \ {d}
  /\ publish' = [publish EXCEPT ![h] = [NoPublish EXCEPT
       !.pc = "next", !.digest = d,
       !.todo = {r \in Repo : store[r].commit # 0 /\ store[r].lock # d}]]
  /\ UNCHANGED <<configsVars, faults, published, buildOf, builds, branches, pulls, rebuilds, scanned, time>>

PublishUnchanged ==
  UNCHANGED <<configsVars, faults, messages, published, branches, pulls, rebuilds, scanned, time>>

NextStaleRepo(h) ==
  LET p == publish[h] IN
  /\ p.pc = "next"
  /\ publish' = [publish EXCEPT ![h] =
       IF p.todo = {} THEN NoPublish
       ELSE LET r == CHOOSE x \in p.todo : TRUE
            IN  [p EXCEPT !.pc = "find", !.todo = p.todo \ {r}, !.repo = r]]
  /\ PublishUnchanged /\ UNCHANGED <<buildOf, builds>>

FindBuildIdForUpdatingLock(h) ==
  /\ publish[h].pc = "find"
  /\ publish' = [publish EXCEPT ![h].pc =
       IF buildOf[publish[h].repo][publish[h].digest] # NoBuild THEN "next" ELSE "trigger"]
  /\ PublishUnchanged /\ UNCHANGED <<buildOf, builds>>

RunBuild(r, d, g, forced) ==
  /\ Len(builds) < MaxBuilds
  /\ builds' = Append(builds, [repo |-> r, digest |-> d, group |-> g, forced |-> forced,
                               status |-> "queued", at |-> time])

RunBuildTrigger(h) ==
  /\ publish[h].pc = "trigger"
  /\ RunBuild(publish[h].repo, publish[h].digest, Len(builds) + 1, FALSE)
  /\ publish' = [publish EXCEPT ![h].pc = "record", ![h].build = Len(builds')]
  /\ PublishUnchanged /\ UNCHANGED buildOf

\* The first build recorded stays.
RecordBuildIdForUpdatingLock(h) ==
  LET p == publish[h] IN
  /\ p.pc = "record"
  /\ buildOf' = [buildOf EXCEPT ![p.repo][p.digest] = IF @ = NoBuild THEN p.build ELSE @]
  /\ publish' = [publish EXCEPT ![h].pc = "next", ![h].build = NoBuild]
  /\ PublishUnchanged /\ UNCHANGED builds

\* Mutant: the message is acknowledged although handling it failed.
PublishFailsForGood(h) ==
  /\ publish[h].pc # "idle"
  /\ Fault
  /\ publish' = [publish EXCEPT ![h] = NoPublish]
  /\ UNCHANGED <<configsVars, messages, published, buildOf, builds, branches, pulls, rebuilds, scanned, time>>

\* A call fails or the instance dies: the message is delivered again.
PublishFails(h) ==
  /\ publish[h].pc # "idle"
  /\ Fault
  /\ messages' = messages \cup {publish[h].digest}
  /\ publish' = [publish EXCEPT ![h] = NoPublish]
  /\ UNCHANGED <<configsVars, published, buildOf, builds, branches, pulls, rebuilds, scanned, time>>

PublishStep(h) ==
  \/ \E d \in Digest : OnPostProcessorPublished(h, d)
  \/ NextStaleRepo(h) \/ FindBuildIdForUpdatingLock(h)
  \/ RunBuildTrigger(h) \/ RecordBuildIdForUpdatingLock(h)

----------------------------------------------------------------------------
(* The builds: cloud-build/update-lock-branch.yaml. *)

BuildGoes(b, status) ==
  /\ builds' = [builds EXCEPT ![b].status = status]
  /\ UNCHANGED <<configsVars, messages, published, publish, buildOf, rebuilds, scanned, time>>

\* With the lock file up to date already there is nothing to commit, which fails.
BuildClones(b) ==
  /\ builds[b].status = "queued"
  /\ BuildGoes(b, IF Last(commits[builds[b].repo]).lock = builds[b].digest
                  THEN "failure" ELSE "cloned")
  /\ UNCHANGED <<faults, branches, pulls>>

\* git push without -f: the commit is a new one, so it fails if the branch exists.
BuildPushes(b) ==
  LET name == <<builds[b].repo, builds[b].digest>> IN
  /\ builds[b].status = "cloned"
  /\ IF name \in branches
       THEN BuildGoes(b, "failure") /\ UNCHANGED branches
       ELSE BuildGoes(b, "pushed") /\ branches' = branches \cup {name}
  /\ UNCHANGED <<faults, pulls>>

BuildCreatesPull(b) ==
  /\ builds[b].status = "pushed"
  /\ BuildGoes(b, "success")
  /\ pulls' = pulls \cup {<<builds[b].repo, builds[b].digest>>}
  /\ UNCHANGED <<faults, branches>>

\* A step fails: the container, an outage, a token that is past its hour.
BuildFails(b) ==
  /\ builds[b].status \in {"queued", "cloned", "pushed"}
  /\ BuildGoes(b, "failure")
  /\ Fault
  /\ UNCHANGED <<branches, pulls>>

BuildStep(b) == BuildClones(b) \/ BuildPushes(b) \/ BuildCreatesPull(b)

----------------------------------------------------------------------------
(* scanAndRetryFailedLockUpdates(), every hour. *)

\* How long before the newest build of all one was created.
Elapsed(b) == Last(builds).at - builds[b].at
\* Mutant: builds that have not ended are left out.
MembersEnded(g, forced) == {b \in DOMAIN builds : /\ builds[b].group = g /\ builds[b].forced = forced
                                                  /\ Elapsed(b) <= Window /\ Ended(b)}
\* The map countsMap: of the groups with a recent build, all builds within the window.
Members(g, forced) == {b \in DOMAIN builds : /\ builds[b].group = g /\ builds[b].forced = forced
                                             /\ Elapsed(b) <= Window}

Counted(g, forced) == \E b \in Members(g, forced) : Elapsed(b) <= Recent
Failures(g, forced) == {b \in Members(g, forced) : builds[b].status = "failure"}

\* A build that has not ended counts as a success.
OnlyFailures(g, forced) == Counted(g, forced) /\ Failures(g, forced) = Members(g, forced)
Newest(S) == CHOOSE b \in S : \A x \in S : x <= b

\* filterBuildsToRetry(): of each group that only failed, the newest build is to be
\* started again, by the forcing trigger once it has had its tries and unless that
\* one has been at it already.
Failed == {x \in BuildId \X BOOLEAN : OnlyFailures(x[1], x[2])}
Retries ==
  {<<Newest(Members(x[1], x[2])), FALSE>> : x \in
     {y \in Failed : Cardinality(Failures(y[1], y[2])) < MaxTries}}
ForceRetries ==
  {<<Newest(Members(x[1], x[2])), TRUE>> : x \in
     {y \in Failed : Cardinality(Failures(y[1], y[2])) >= MaxTries /\ ~ Counted(y[1], TRUE)}}

JobUnchanged ==
  UNCHANGED <<configsVars, messages, published, publish, buildOf, branches, pulls, time>>

FilterBuildsToRetry ==
  /\ rebuilds = {}
  /\ rebuilds' = Retries \cup ForceRetries
  /\ scanned' = (scanned \/ rebuilds' = {})
  /\ JobUnchanged /\ UNCHANGED <<faults, builds>>

\* retryBuild() keeps the trigger and the substitutions, runBuildTrigger() of the
\* forcing trigger the substitutions. The retries come first.
Rebuild(x) ==
  LET build == builds[x[1]] IN
  /\ x \in rebuilds /\ (x[2] => \A y \in rebuilds : y[2])
  /\ RunBuild(build.repo, build.digest, build.group, build.forced \/ x[2])
  /\ rebuilds' = rebuilds \ {x}
  /\ scanned' = (rebuilds' = {})
  /\ JobUnchanged /\ UNCHANGED faults

\* A call fails: the rest has to wait for the next hour.
JobFails ==
  /\ rebuilds # {}
  /\ Fault
  /\ rebuilds' = {}
  /\ JobUnchanged /\ UNCHANGED <<builds, scanned>>

----------------------------------------------------------------------------
LockNext ==
  \/ Publish \/ Tick
  \/ \E r \in Repo, d \in Digest : Merge(r, d)
  \/ \E h \in Publisher : PublishStep(h) \/ PublishFails(h)
  \/ \E b \in DOMAIN builds : BuildStep(b) \/ BuildFails(b)
  \/ FilterBuildsToRetry \/ JobFails
  \/ \E x \in rebuilds : Rebuild(x)

LockFairness == \A h \in Publisher : WF_allVars(PublishStep(h))

LockUpdateInit == ConfigsInit /\ LockInit
LockUpdateNext == (ConfigsNext /\ UNCHANGED lockVars) \/ LockNext
LockUpdateSpec == LockUpdateInit /\ [][LockUpdateNext]_allVars /\ LockFairness

----------------------------------------------------------------------------
(* Properties. *)

LockUpdateTypeOK == ConfigsTypeOK /\ LockTypeOK

Tries(g, forced) == Cardinality({b \in DOMAIN builds : builds[b].group = g /\ builds[b].forced = forced})

\* No build is tried more than maxTries times by either trigger, although the job
\* only sees the builds of the window and only those that have ended: it runs
\* often enough for a group never to lose sight of its first build.
TriesBounded == \A g \in BuildId, forced \in BOOLEAN : Tries(g, forced) <= MaxTries

\* An image whose message is there gets a build for every repository that is known
\* to use another one, or the repository is up to date by then, or unknown; through
\* failures and dead instances, as the message comes back and the repositories done
\* are found in the store.
ImagesAreServed ==
  \A r \in Repo, d \in Digest :
    (d \in messages /\ store[r].commit # 0 /\ store[r].lock # d)
      ~> (buildOf[r][d] # NoBuild \/ store[r].lock = d \/ store[r].commit = 0)
=============================================================================
