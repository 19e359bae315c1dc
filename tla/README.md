# Verification of repo-automation-bots

TLA+ models of the parts of this repository that carry its own protocols, the TLC
configurations that check them on small instances, and TLAPS proofs of what matters
most for every size. `PROJECT.json` lists the components, the runs, the mutants that
each property has to catch, the source lines of every definition, the hazards and the
theorems.

To check a run: `tlc -workers 2 -config MCGcfTask.cfg MCGcfTask`. To check the
proofs: `tlapm SharedPartsProofs.tla`.

## The system

Each bot is a small HTTP service on Cloud Run, about thirty of them in `src/packages`.
These parts are shared by nearly all of them or carry most of the protocol:

| part | state it keeps | operations | talks to |
|---|---|---|---|
| `gcf-utils` (`GCFBootstrapper`) | none of its own; Cloud Tasks queue, payload bucket | receive a webhook, Pub/Sub message or cron call; store a big body; create a task; run the bot's handler when the task comes back; answer 200, 500 or 503 | GitHub, Pub/Sub, Cloud Scheduler as senders; Cloud Tasks; Cloud Storage; the bot's handler |
| `datastore-lock` (`DatastoreLock`) | one Datastore entity for each lock key: `{uuid, expiry}` | `acquire`, `release`, `peek` | called by blunderbuss, canary-bot, flakybot, label-utils, owl-bot, release-please |
| `merge-on-green` | Datastore table `mog-prs`, a row for each pull request to merge | webhooks labeled, unlabeled, closed; cron: merge, clean the table up, look for labelled pull requests without a row | GitHub (labels, reviews, checks, merge) |
| `owl-bot` | Firestore: configurations, lock builds, copy builds; a Datastore lock for each commit | post-process a pull request; refresh configurations; update lock files when an image is published; copy code from googleapis-gen | GitHub, Cloud Build, `datastore-lock` |
| `flakybot`, `issue-utils` | GitHub issues and comments | open, reopen, close, group and deduplicate issues from test results; add or update a marked comment | GitHub, `datastore-lock` |
| `release-please` | GitHub: release pull requests, their labels, releases, tags; a lock for each repository | on a push or a label: make releases of what was merged, propose the next; keep labels true when a pull request closes or reopens | the external release-please library, `datastore-lock` |
| `cherry-pick-bot` | GitHub: a new and a temporary branch for each pick | pick a merged commit onto the branches comments ask for | GitHub |
| `auto-approve`, `snippet-bot`, `do-not-merge`, `header-checker-lint` with `bot-config-utils` | one check, review, label or comment on a pull request | decide from its payload, files and configuration | GitHub |
| the others | none, or one label, check or comment | one decision for each event | GitHub |

How they interact: every event of every bot goes through `gcf-utils`, so every handler
can run more than once for one event, can run twice at the same time, and can stop
half way. The handlers that may not overlap on one issue, pull request or commit take
a lock of `datastore-lock`. GitHub is the shared state that everybody (people, bots,
builds) reads and writes without a lock.

Where it is hard:

* **Redelivery.** A task is retried after an error, a lost answer or a passed deadline;
  the attempt given up may go on beside the retry.
* **Leases.** A lock is a lease by wall clock. Replies of commits get lost, holders die,
  clocks differ, and a body may run longer than its lease.
* **Read, await, act.** Every bot reads GitHub or its table, awaits, and acts on what it
  read: labels, heads, reviews and rows have moved on by then.
* **Self-made events.** Owl Bot pushes to the branch whose pushes start it; merge-on-green
  removes the labels whose removal it listens to.
* **Partial failure.** Several calls are caught and logged, and the code goes on with an
  empty answer.

What makes each part correct: `gcf-utils` bounds the handler's runs, cuts no retry short
and loses no event silently; a lock excludes others while its lease lasts, is never
deleted by somebody else, and can always be taken over in the end; merge-on-green
respects "do not merge", keeps the users' labels and leaves no row of a closed pull
request; Owl Bot does not feed itself for ever, overwrites nobody's commits, leaves an
ignored pull request alone, serves every push and image, and passes over no commit of
googleapis-gen; flakybot forgets no failure; auto-approve approves no change but that of the
named dependency, and in the end what fits; a cron reaches every repository; a pick holds the
commit and nothing else; checks and comments tell of the head; no commit is released twice or
not at all.

That is what they are for. Several of these hold under conditions only, which each property
states and "What the violated runs show" lists: three bots read one page of a list and do not see
what is beyond it (the loop breaker the first 100 commits, cherry-pick-bot the first 30 comments,
snippet-bot the first 50), auto-approve takes some versions for upgrades that are none and restores
no approval that was dismissed, and who takes a lock goes on without it after a time-out, or lets
its trigger go.

## Modules

| module | of | kind |
|---|---|---|
| `LeaseLock` | `datastore-lock`: what callers may rely on | abstract specification |
| `DatastoreLock` | `datastore-lock/src/datastore-lock.ts` | detailed; implements `LeaseLock` |
| `GcfTask` | `gcf-utils/src/gcf-utils.ts`, `server/server.ts`, `installations.ts` | task path |
| `MergeOnGreen` | `merge-on-green/src/merge-on-green.ts`, `merge-logic.ts` | bot and its environment |
| `OwlBotPostProcessor` | `owl-bot/src/owl-bot.ts`, `core.ts`, `bin/commands/commit-post-processor-update.ts` | bot, its builds and the lock as `LeaseLock` promises it |
| `OwlBotConfigs` | `owl-bot/src/configs-store.ts`, `handlers.ts`, `database.ts`, `fetch-configs.ts` | the store of configurations and its refreshes |
| `OwlBotLockUpdate` | `owl-bot/src/handlers.ts`, `scan-and-retry-failed-lock-updates.ts`, `update-lock.ts`, `create-pr.ts`, `cloud-build/update-lock-branch.yaml` | builds of lock updates, over `OwlBotConfigs` |
| `OwlBotCopy` | `owl-bot/src/copy-code.ts`, `scan-googleapis-gen-and-create-pull-requests.ts`, `create-pr.ts`, `database.ts` | jobs that copy from googleapis-gen |
| `OwlBotJobs` | | the three before it, which run beside each other |
| `Flakybot` | `flakybot/src/flakybot.ts` | bot, issues and the lock of an issue |
| `AutoApproveChecks` | `auto-approve/src/check-pr.ts`, `check-pr-v2.ts`, `utils-for-pr-checking.ts`, `process-checks/**` | the decision, a pure function |
| `AutoApprove` | `auto-approve/src/auto-approve.ts`, `get-pr-info.ts`, `check-config.ts` | bot and its environment, over `AutoApproveChecks` |
| `CronFanout` | `gcf-utils/src/gcf-utils.ts`, `installations.ts` | cron path |
| `CherryPick` | `cherry-pick-bot/src/bot.ts`, `cherry-pick.ts` | bot and GitHub's branches |
| `PullRequestEvents` | | a pull request, its events and the tasks of a bot; environment of the next three |
| `BotConfig` | `bot-config-utils/src/bot-config-utils.ts` | finding and checking a configuration, pure |
| `RegionTags` | `snippet-bot/src/region-tag-parser.ts`, `violations.ts` | parser and violations, pure |
| `SnippetBot` | `snippet-bot/src/snippet-bot.ts`, `configuration.ts`, `issue-utils/src/issue-comments.ts` | bot, over the three before it |
| `DoNotMerge`, `HeaderChecker` | `do-not-merge/src/do-not-merge.ts`; `header-checker-lint/src/*.ts` | bots, over `PullRequestEvents` and `BotConfig` |
| `ReleasePlease` | `release-please/src/release-please.ts`, `runner.ts` | bot, its lock, and the library from its calls |
| `RepositoryBots` | | the six bots from `CronFanout` on, one of them at a time |
| `MC...` | | TLC instances |
| `...Proofs` | | theorems |

Composition: `OwlBotLockUpdate` runs on the store of `OwlBotConfigs`, whose refreshes race with
its messages; `SnippetBot` is the bot on the pull request of `PullRequestEvents` with the
configuration of `BotConfig` and the tags of `RegionTags`; `OwlBotPostProcessor`, `Flakybot` and
`ReleasePlease` use a lock by the contract that `DatastoreLock` is shown to implement; and each
bot's environment retries its tasks as `GcfTask` does. Bots that share no state
(`RepositoryBots`; in `MCOwlBotJobs`, the lock updates and the copying) run one at a time, chosen by
the variable `job`: interleaving them would multiply states and show nothing more. `MCRepositoryBots`
adds the instance's bounds and the flag `wide`: of a pick or a release either handlers overlap
or calls fail.

Every `await` that matters is a step of its own. A definition headed *mutant* is a
plausible bug and used by nothing: it replaces the definition it stands next to when one
wants to see that a property would notice.

### DatastoreLock

A client is one `DatastoreLock` object (one uuid). `pc` follows it through
`acquire()`: `loop` (the `while` test), `get` (`transaction.get`), `decide` (free,
expired or active?), `commit`, `sleep`; then `held`; then `release()`: `relGet`,
`relCommit`. `entity` is the Datastore entity, `seen` what the transaction read,
`buffer` what it will write. A Datastore transaction is serializable: `fresh[c]` says that
nobody committed since `c` read, and only then does `c`'s commit take effect.

Failures: any call may reject; a rejected commit may have been applied
(`AcquireFailure`, `ReleaseFailure`); a process may die anywhere (`Crash`), with its
commit still in flight and applied later (`OrphanCommit`). Clocks differ by up to
`MaxSkew`: `now` is the slowest and each `Date.now()` any value from it to
`now + MaxSkew`.

`LockActive` ignores the uuid as the code does: an object whose own commit was applied
with its reply lost is refused by its own lease.

`LeaseLock` hides all that: `Grant` of a free or expired lease, `GiveBack` by its owner.
The refinement maps `lease` to `entity` and is checked and proved.

### GcfTask

`trig` and `reply` are the request of an event's sender (`Deliver`, `CheckOrganization`,
`Upload`, `CreateTask`); `queue` and `retry` are the task and the count Cloud Tasks sends
with it; `attempt[t][n]` is the n-th attempt, which may overlap with the next. `Boot`,
`Abort`, `DownloadFails`, `StartHandler`, `HandlerDone` and `HandlerThrows` are
`GCFBootstrapper.gcf` in its order: load the bot and verify the signature, download
the body, compare the retry count, run the handler, answer.

### MergeOnGreen

One pull request, its row, and `Worker` slots in which jobs run beside each other. A job's
`pc` names what it awaits. `Labeled` and `UnlabeledOrClosed` are the webhooks; `FindHanging`,
`CleanTable` and `ListPRs` are the cron calls; `GetLatestCommit`, `StatusesForRef`,
`GetInfo`, `Merge` and `UpdateBranch` are `mergeOnGreen()`. The environment edits labels,
pushes, approves, closes, moves the base branch, and loses webhooks. `dismissals` holds the
calls of `maybeDismissReviews()` which nobody awaits. `wanted` is history: the merge labels that
users put there and did not take off, but for one put back before the bot has dealt with the
removal of the last (`CleaningUp`), which the clean-up under way may take for the old one.

### OwlBotPostProcessor

One pull request on a branch of the repository itself. `run[r]` is a handler: `lock`
(`acquireLock`), `loop` (`hasOwlBotLoop` and the checks before it), `get`
(`triggerPostProcessBuild` reads the labels), `trigger`, `wait` (`waitForBuild`), `pulls` to
`delete` (`updatePullRequestAfterPostProcessor`), `release`. `build[r]` is the build it
started, which goes on when the run dies: clone, commit or amend, pull, push. `streak` is how many
commits in a row are the post processor's; `listed` is what `hasOwlBotLoop` sees of them, the first
page of the pull request's commits (`CommitPage`, 100 in the code) in the order of their authors'
dates, and `cut` says that there are more. `lease` is the lock of each commit, used by the contract
of `LeaseLock` rather than by its transactions. `UserPush`, `Label`, `Ignore` are people and
other bots; `LeaseExpires`, `AcquireTimesOut`, `ReleaseFails`, `Die`, `Redeliver` and the steps that
throw are time and failure.

### OwlBotConfigs and OwlBotLockUpdate

A refresh (`refresh[p]`) reads the stored document, the head of the default branch and its two
files one after the other, and stores by compare-and-set on the commit it started from;
`clearConfigs` and `refreshConfigs` are the two ends of it. A publisher (`publish[h]`) goes
through the repositories whose stored digest differs: `find` (is a build recorded?), `trigger`,
`record`. `builds` are Cloud Build's builds in order, with the group of retries each belongs to;
`BuildPushes` and `BuildCreatesPull` are what a build does to GitHub. The hourly job puts its
decisions into `rebuilds`. A day passes (`Tick`) only when the job has run and builds have ended.

### OwlBotCopy

`scanner[s]` is a job: `scan` walks back over googleapis-gen and fills `stack`; `clone` reads the
library repository; `each`, `rest` and `batch` look for an open pull request of one file, of the
files left over, of a batch; `copy`, `push`, `record` append to one; `copyNew`, `pushNew`,
`create`, `record` make one. A push that is not forced is refused if the branch has moved, and makes
it anew if it is gone (`Accepts`). A regenerator does `copyCodeIntoPullRequest` and
`regeneratePullRequest`. A pushed copy is its tag; `delivered`, `skipped`, `raced`, `late` and `lost`
are histories of tags, which no guard reads.

### Flakybot

`worker[w]` is a handler, its `pc` the call it awaits: list, close duplicates, list again, then per
failed test lock, get, comments, comment or reopen or create, and per passed test close. Issues
keep what the code reads of them: title, state, labels, whether they are locked or closed for
more than ten days, and the commits with a failure noted. `Whole` is a build without results.

### AutoApprove and AutoApproveChecks

`AutoApproveChecks` gives each of the twenty-one process classes and the three rules of the first
generation as an operator on a pull request's record; patterns are abstracted to the kinds of
titles, files and versions they tell apart, versions keep their digits where the code cuts or
compares them oddly. `AutoApprove` is the handler with each of its reads as a step. A delivery is the
part of its event's payload that the handler reads, which for a dismissed review lacks the number and
the file count (`DismissedDelivery`); its tries are those of the task (`Retry`).

### CronFanout

Listings are read by pages (`NextPage`) while tasks of those seen are being created (`pending`);
`BatchDone` awaits a batch; `NextInstallation` and `NextRepo` are the two callbacks. Scheduled
delays grow with the number of the batch.

### CherryPick

A commit is a record of what reaches into it (`from`, `changes`, `on`); the steps of a handler are the
calls of `cherryPickAsPullRequest` and `cherryPickCommits` in their order, over the new branch and its
temporary one. Both handlers, of a comment and of the close, run over one `inbox`. Each request has
its place among the comments: on the first page, which the handler of the close reads, or after it,
from before or after the merge (`Place`, `FillPage`).

### PullRequestEvents and the three bots on it

A visit takes an event with the payload of its moment and reads the rest (diff, files,
configuration of the head, comments, check runs) as it is when it gets there. `hurried` and
`overlapped` record that an act came before the last was dealt with, and that two visits
overlapped. Each bot adds its own configuration and what it keeps on GitHub. `SnippetBot` finds its
comment unless those of others fill the page it looks at (`buried`).

### ReleasePlease

A run takes a push or a forcing label, finds the configurations of its branch that are due, and for each:
lock, build the manifest, create releases, label and tag, build the manifest again, propose, release the
lock. What the library does (a release for each merged pull request labelled pending; a proposal of the
commits since the latest release in the manifest) is modelled from how it is called. The webhooks of
closing and reopening swap labels by two calls made at once.

## Runs

| run | instance | what it shows |
|---|---|---|
| `datastore_lock` | 2 objects, lease 1 tick, time-out 2, skew 1, time up to 5 | mutual exclusion of leases, the outcomes of `release()`, only the owner deletes, refinement of `LeaseLock`, `acquire()` returns |
| `gcf_task` | 1 event, 2 deliveries, limit 1, retry counts to 2 | the handler's runs are bounded, no retry is cut short, no dangling body, "accepted" means there is a task, every task leaves unless its body cannot be read to the last |
| `merge_on_green` | 2 jobs, 1 commit, 3 label edits, no failing call | "do not merge" is respected; the users' label is kept |
| `merge_on_green_live` | 1 job, 2 commits, 1 edit, 1 failing call, rows age | rows of closed pull requests and old rows leave; labelled pull requests are found |
| `mog_exact` | 1 job, 2 commits, 2 edits | *violated*: see below |
| `owl_bot_post_processor` | 2 runs, 3 commits, breaker 1, pages of 4, 1 label edit or fault | a run within its lease holds it, and so is alone; people's commits are kept; an ignored pull request is left alone; while the first page lists all commits, the bot's own streak is bounded, with runs side by side too |
| `owl_bot_loop` | 2 runs, 2 commits, breaker 1, pages of 3, 1 label edit or fault | the push and the human's label of one commit contend for its lock, and one of them is served, unless a lock is left behind or `acquire()` gives up |
| `owl_bot_jobs` | 2 refreshes, 1 message handler, 1 image, 3 commits, 6 builds over 3 days, 2 tries; 2 configuration files, 2 commits of googleapis-gen, 1 job with 2 faults or 2 overlapping ones | older configurations never win; tries are bounded; images are served; no commit is passed over or lost; all are copied |
| `flakybot` | 2 tests and a build without results, threshold 2; 3 reports in turn, or 2 that may overlap with one upset, or one on duplicates | a failure is known, noted once, and the issue of a flaky test stays open |
| `auto_approve` | every kind of pull request and configuration once; a few with 2 passes at a time, 2 tries, 2 changes and a failing call or the reverse | only the named dependency changes; what fits from its last push or edit on is approved in the end |
| `auto_approve_upgrades` | the same | *violated*: see below |
| `repository_bots` | one bot for each behaviour: 2 installations and 4 repositories in pages and batches of 2; 1 target with 2 pick handlers, requests on and beyond the first page; pull requests with 1 to 3 acts, 2 visits, 1 failing call; 1 branch, 2 components, 2 commits, 2 acts and 2 runs of releases | no repository, no release, and no request on the first page or from after the merge is passed over; a pick holds the pick alone; checks and the latest comment tell of the head; releases follow one another |

Why these bounds are enough for the interesting cases:

* *datastore_lock.* Two objects suffice for every property, each of which speaks of a holder
  and one other. Time 5 leaves room for a lease that expires during a body, a takeover by a
  fast clock, a late commit of the dead holder and a full time-out of the waiter. With no
  skew the takeover by a fast clock disappears. The code's numbers (20 s lease, 120 s time-out by default)
  enter only as "the time-out is longer than the lease".
* *gcf_task.* `MaxDispatch` must exceed `Limit`, so that the "too many retries" branch is
  reached; what the queue delivers after it is not followed; two deliveries let an event have two tasks, one of which the sender believes lost.
  All attempts of a task can be running together.
* *merge_on_green.* One edit sets the label, one takes it away or adds "do not merge", a third puts
  it back, also while a clean-up is under way; two jobs make every pair of a webhook and a cron pass
  overlap.
* *owl_bot.* Three commits: a person's, the bot's on top, and a person's push that races with
  a build. The breaker is 1 where the code has 5, so that three
  commits are enough for a streak to reach the bound `CircuitBreaker + 2`, with runs side by side or
  one after the other: without `hasOwlBotLoop` it does. Pages of 4 list all commits of most of these pull requests, and not
  of those in which builds add merge commits. The theorem covers every breaker and page.
  `owl_bot_loop` has fewer commits, as liveness costs more: its one extra is a label beside the push of
  the same commit, a run that dies, throws or is delivered again, or a lock that is not got or
  not released.
* *owl_bot_jobs.* A refresh and its rival read three commits, so that either can come back last.
  Two tries out of `MaxTries = 2` and six builds let every failing build be retried, forced and fail
  again, with one image served to one repository; three days exceed the window of the code, in its
  own ratio (`Recent` 1, `Window` 2 days of time, where the code has 24 and 72 hours). Copying needs two
  commits to be passed over between, and two files for a pull request of several; `Combine = 1`
  makes both ways of combining reachable. Two overlapping jobs with one fault were run apart, on 5.1
  million states.
* *flakybot.* Two tests reach the threshold that groups them; a passing and a failing report of one
  commit come in both orders, with a third after them. Overlap without the restrictions of the
  instance (5.0 million states) held too.
* *auto_approve.* Two tries and two faults let a delivery run out of tries. Passes that overlap matter for a few pull requests only, since a decision does not
  depend on the state of others; decisions are enumerated apart. A larger instance (4.0 million
  states) held too.
* *repository_bots.* A page, a batch and an installation each end at another place in lists of three
  and one. One pick is the second commit since the target left, so that a wrong sibling takes the
  first one along. Pages of comments are full or not (`pageFull`, `buried`) rather than counted. Acts are bounded by job: larger instances with one more act or handler held as
  well (picks 14 million states, snippet-bot 4.8, do-not-merge 8.6, header-checker 7.5).

Deadlock is not checked: every model may stop legitimately (all clients final, no event
left, the pull request merged).

Where a property speaks of a bot that is left alone (`HoldsThePickAlone`, `OneCommentOfHead`,
`LabelIsChecked` in `ChecksTellOfHead`, `NotedOnce`, `FlakyStaysOpen`), a history variable says
when that was not so, and the instance has the other behaviours as well: without the condition TLC finds
the property violated, and the remarks below say how.

Constants named `Max...` are bounds of the models, not of the code (but for the limits of retries),
and appear in the guard of the action they bound.

### Fairness

* `DatastoreLock`: clocks advance, and the steps of `acquire()` and `release()` are weakly
  fair, since each is a library call that resolves or rejects. Nobody has to call `acquire()`
  nor to finish a body, and crashes are allowed.
* `GcfTask`: the queue dispatches a queued task, and each attempt's awaits settle. Senders owe
  nothing. A task whose handler fails for ever leaves because the retry count grows, one whose body
  cannot be read does not (`CannotBeRead`). `HandlerDone` and
  `HandlerThrows` are one fairness condition, so a handler that always throws is a fair
  behaviour.
* `MergeOnGreen`: the awaits of a job settle; a webhook that stays is handled in the end, and
  each cron job finds a free slot again and again (strong fairness: a slot is not always free).
* `OwlBotPostProcessor`: the awaits of a run settle, builds end (they have a time-out), a queued
  trigger finds a slot again and again. `TriggersAreServed` holds through runs that throw and are made
  again; it excuses a commit whose lock was left behind or not got, which loses the trigger, see below.
* `OwlBotLockUpdate`: the awaits of a message's handler settle, and Pub/Sub delivers a message again
  until it is answered 200; `OwlBotCopy`: some job is started again and its calls settle. Nothing is
  owed by people, refreshes or builds.
* `AutoApprove`: the awaits of a pass settle and a waiting delivery is taken. `FittingIsApproved` excuses
  a behaviour in which a delivery ran out of tries or a failed read was taken for an answer.
* `Flakybot` and the bots of `repository_bots` are checked for safety; what they owe in the end is
  stated of the states in which no task is left (`handled`, `Quiet`, `Resting`), so no fairness is assumed.

## What the violated runs show

1. `mog_exact`. `README.md:35` of merge-on-green promises that a commit pushed after the approval
   removes the approval and is not merged. `maybeDismissReviews()` is called without `await`
   (`merge-logic.ts:606`), so the merge can go first.
2. `auto_approve_upgrades`. The comment at `utils-for-pr-checking.ts:429` says that a version is only
   upgraded and its major number kept. The patterns of the process checks keep the last digit of a
   major number, so 1.2.0 to 11.3.0 passes; and a higher patch number passes with a lower
   minor one, 1.5.1 to 1.3.2.

Met while modelling and kept as remarks, without a run of their own:

* *gcf-utils.* The handler runs up to `maxRetries + 1` times for a task: the first attempt has count
  0 and the comparison is `>` (`gcf-utils.ts:535`); `HandlerRunsBounded` states that number. The
  count is compared after the body was downloaded, so a download that always fails is retried
  until the queue gives up by its own rules. `server.ts:57` answers 200 to what the bootstrapper throws
  outside its own `try`, and Cloud Tasks deletes a task that no handler saw (`BootSwallowed`).
* *merge-on-green.* The clean-up after `unlabeled` removes a label that was put back before it ran, so
  such a label is not in `wanted`; after a failing call `LabelKept` does not hold, since a failed
  `listLabels` is taken for "no label".
  `getPR()` turns a failed `pulls.get` into a pull request without labels (`merge-logic.ts:117`), which
  passes the test for "do not merge": with `MaxFaults = 1` `DoNotMergeHeld` fails. An approval of the
  latest commit is dismissed when it came after the pass read the head (`:402`). With more than 25
  rows a random choice decides which are looked at.
* *owl-bot, post processor.* The lock of a commit is a lease of 25 s (`owl-bot.ts:76`) around a build that
  can take hours, so that two images do run for one commit although `:567` says they are prevented.
  With `squash: true` a build force-pushes and can overwrite a person's commit made during the build;
  `UserCommitsKept` leaves these pull requests out. A squashed or merged commit hides earlier ones
  from the circuit breaker. It reads the first 100 commits, in the order of their authors' dates
  (`core.ts:542`), so that past them the last ones are never looked at and the bot may go on for ever: the
  bound of `StreakBounded` ends where the page does (`cut`). A run that dies, or cannot release, leaves its
  lock behind; its trigger, redelivered within 25 s, is refused by that lock, answered 200 and
  lost, as is one whose `acquire()` gives up. "owl-bot-ignore" put on during a build does not stop it. A push between `listFiles` and the deletion of the branch is deleted with it (`core.ts:645`).
* *owl-bot, copying.* Copies that another job pushed after this one looked are overwritten by its
  forced push and yet recorded (`copy-code.ts:586`); `OnlyLateIsLost` says that no others are. A job
  that finds *one* tag of a batch recorded by another job drops the whole batch
  (`copy-code.ts:366`-`378`): if that other job then fails, or its pull request is closed, the tag of
  another file of the batch is never copied, since a tag of a later commit is recorded and the next
  job looks back no further. `NothingIsPassedOver` leaves these tags, `raced`, out. It takes
  four commits, two files, two jobs, batches of two and two faults; the attempt to prove the
  property without the exception led there.
* *flakybot.* `acquire()`'s result is ignored, so two handlers comment without the lock after a
  time-out; closing takes none at all, and a failure noted in between leaves the issue closed. An
  open issue labelled "quiet" gets no comment when its test fails (`flakybot.ts:584`), so that a
  passing build of the same commit finds no failure in it and closes it.
* *auto-approve.* `pull_request_review.dismissed` is cast to a `PullRequestEvent` (`auto-approve.ts:336`,
  `:343`), but its payload has neither `number` nor `changed_files`: the checks list the files of no
  pull request, and a dismissed approval is not restored before the next push or edit. `createReview` names no commit, so what is approved may have been pushed after the
  files were listed. A pull request that waits for another of the same bot to close gets no event when
  it does. A 404 of `listFiles` and an unreadable configuration end a pass as if there were nothing to
  do, and malformed YAML in a pull request's own configuration throws before a check is posted.
* *cherry-pick-bot.* The temporary branch is named for target and commit only: two handlers on one
  branch can leave a pick that does not hold the picked commit alone (`HoldsThePick` does not hold). The handler of the
  close looks at `merge_commit_sha` and not at `merged` (`bot.ts:191`), so a pull request closed
  unmerged is picked from GitHub's test merge. It lists the first 30 comments only (`bot.ts:198`): a request
  written after those, and before the merge, is never served.
* *snippet-bot.* With `aggregateChecks: false` and only the end of a region left, no check is posted; a
  scan that ends early leaves the comment of the scan before; overlapping handlers write two comments, and
  only the first is kept up to date (`issue-comments.ts:62`). The bot looks for its comment among the first
  50: once others' fill them it writes another for every scan.
* *do-not-merge* has no handler of `reopened`, so that a label or head changed while the pull request was closed goes
  unchecked. *header-checker-lint* logs every error after its configuration and posts nothing then.
* *release-please.* Half a swap of labels (`Promise.all` with one call failing) makes every retry fail on the
  half that is done, and the task is given up. A tag is lost for good when a call fails after
  the release was made. A run longer than the lease of ten minutes can release twice.

## Proofs

Checked by TLAPS for every value of the constants that the named assumptions of the modules admit,
about 24 000 obligations. A property that holds in a few instances only is a theorem of its
specification as it stands; where a theorem has a hypothesis of its own, it is named here. A
specification that starts from one of several configurations, listings or issues takes their set as
its parameter (`FlakybotSpec(starts)`), and its theorems hold for each such set. The five
parts in `RepositoryBotsProofs` share that module because the instance shares them.

**DatastoreLock.** `TypeCorrect`; `LockInvariant`, the induction; from it `LeaseMutualExclusion`,
`HolderKeepsEntity`, `ReleaseOutcomes`, `OwnerDeletes` and the refinement `LockImplementsLease`.
Mutual exclusion is not inductive: a late commit could take effect under a holder. `LockInv`
rules it out in three steps. A transaction that can still commit has read the present entity
(`ReadsAreCurrent`); what it will write is therefore justified by the present entity, a takeover
of a free or expired lease or the owner's delete (`WritesAreJustified`); so whatever commits, a
holder whose lease still runs keeps its entity (`HoldersAreCovered`), and two running leases
would be one entity with two uuids (`BuffersAreOwn`).

**GcfTask.** `GcfTypeCorrect`, which bounds the retry counts that ran the handler; from it
`HandlerRunsAreBounded` by a cardinality argument; and `GcfInvariant`. "No retry is cut short" needs
that retries are counted without gaps (`RetriesHaveNoGaps`), "no dangling body" that a
request about to create a task has stored its body (`BodiesPrecedeTasks`).

**MergeOnGreen.** `TypeCorrect` and `BlockedNotMerged`: if no call fails, a pull request labelled "do
not merge" from the moment a pass reads the table up to the merge is not merged. `BlockedInv` says
why: the history flag `blocked` implies the label, and a pass at its merge does not have it,
because `GetInfo` saw the label missing and the flag never comes back. `LabelsAreKept`: in every
behaviour up to its first failed call the jobs leave a merge label that users want kept. A job that
takes a row and its label away began with the removal of the last merge label (`CleaningUp`, and
then nobody wants one kept), found none on the pull request, or came after the merge (`Kept`).

**OwlBotPostProcessor.** `TypeCorrect`; `LockCoversRuns` (a run that has not outlived its lease has it,
hence two runs for one commit have one that is overdue); `BreakerHolds` and `StreaksAreBounded`;
`IgnoredAreLeft`; `CommitsAreKept`. The bound on the streak needs the runs that have passed the
breaker and not pushed yet (`Armed`): each may add one commit, so `streak` stays below the
breaker plus the runs that are *not* armed, and a push turns one armed run into one that is not.
The breaker looks at the page, not the branch: while the page has all commits (`~cut`) the streak is at
its end (`StreakListed`), since the builds' commits are the youngest. Both theorems end there, for the
code has no bound beyond its page.
Runs started by a person are let through by the code and are excused by the history variable
`asked`.

**OwlBotJobs** (`OwlBotConfigs`, `OwlBotLockUpdate`, `OwlBotCopy`).

* `LockUpdateTypeCorrect` and, from the types alone, `ConfigsNeverReplacedByOlder`: a refresh stores the
  head it read after the document, and the compare-and-set lets it do so on that document only.
* `TriesAreBounded`, under `Recent + MaxTries <= Window + 1`, which the code's 24 hours, 72 hours and
  three tries satisfy in days and which the bound needs: without it a build leaves the window before its
  tries are used up and is counted afresh. `TriesInv` says that the builds of one group were started
  on different days and that none that is due for a retry is older than a day.
* `NoCommitIsPassedOver`. A job works from the oldest commit on its stack, so that a tag is never
  recorded before the older ones of its file are dealt with. `StackInOrder` says so of what is
  older than the stack, `WorkInHand` of the commit the job is at: what it pushed, what is in
  the batch and what is left over make up all files of the commit.
* `OnlyLateTagsAreLost`: who is about to overwrite the branch of an open pull request has
  its tags in the clone, or they came late (`LateInv`). It rests on the branch being named for
  the files, hence on `Scanner` and `Regenerator` being apart and on no target being empty.
* `OwlBotTypeCorrect`: all of them together.

**RepositoryBots.**

* `PickTypeCorrect`, `PicksAreExact` (`Undisturbed`: what the new and the temporary branch
  hold at each of the handler's calls) and `NoRequestIsLost` (each request that may be asked, and is on
  the first page of comments or came after the merge, is served, waiting, or `Reaches` says which
  handler still comes to it). None is marked as later than the merge before it
  (`PlacesInv`), and an edit leaves a comment in its place.
* `CronReachesAll`, for every list, page and batch size: what a page held that has been passed is
  enqueued or failed, and the rest is `Ahead`, on the page read or one not read yet.
* `OneCommentTellsOfHead`, `HeadersTellOfHead`, `LabelHasItsCheck`. The three have one shape: what is
  shown is right, or an event that will put it right is waiting, or a handler is at the places
  from which it still does. For the headers that holds however handlers overlap, as a check is
  posted on the head of its own event and older heads are told apart (`HasReadHead`). For label and
  comment it needs that the bot was left alone, `OneByOne` and `~overlapped`. That there is one comment
  is proved for a bot that finds its own (`~buried`); that the latest tells of the head, for both.
* `ParserFindsMismatches`: whatever a file holds, the open tags that `parseRegionTags()` keeps let it find
  fault exactly with files whose starts and ends do not pair up (`TagsMatch`, which does not
  mention open tags). After each line a tag is open exactly if its last line so far is a start;
  the least line at which the two part ways would have a faulty line before it.
* `SnippetChecksAreOfHead`, from the parser's theorem and `HeadIsScanned`: what a handler has found wrong
  in the files it has read of its own head, and has still to post, is what is wrong there.
* `ChecksAreOfHead`: the three bots on a pull request in the composition, from the invariants above;
  each is kept by a step of its own bot, and no other bot's step touches its variables.
* `BotsTypeCorrect`: the types of all six, for configurations whose files are texts, with the bounds that
  are not types alone. No event tells of a push to come or outlives its tries (`EventsBounded`); no more
  calls of the fan-out are under way than the batch has room for, since `BatchDone` waits for all of
  them (`CronPending`); the lock has one holder and a tag its release (`ReleaseBounds`).

**ReleasePlease.** `NoCommitIsReleasedTwice`. The releases of a component form a chain that ends in the
manifest (`ReleasesChain`); only the last proposal can still be merged (`OnlyLastInPlay`); the
holder of the lock knows the latest release where it is about to act (`KnowsLatest`); and no
label of a pull request comes back late (`NoLateLabel`). The last two are what an expired lease
and an act in haste break, hence `~expired` and `~hasty` in the property.
`EverythingIsReleased` says that whatever is left undone is somebody's (`Served`): what was
merged is released and labelled, or a run will come to its configuration, or is at it
(`MergedAreReleased`); what was pushed is in a pull request that is open or was closed, or a run
will still propose it (`CommitsAreProposed`); a label that does not tell the state has a task
due that will set it (`LabelsFollow`), and a release without its tag a handler at it
(`TagsFollow`). A handler passes a configuration only when it has done all of that for it
(`GoesOn`), and one that fails leaves its task behind. That a proposal leaves nothing out needs
`KnowsLatest`, hence the chain. The theorem has one hypothesis: where a component is configured
twice the two agree on its tags (`AgreeOnTags`); else the run of the one that asks for no tag
may make the release, and the other finds nothing left to do.

**Flakybot.** `FlakybotTypeCorrect`, `FailuresAreKnown`, `FailuresAreNotedOnce`, for any issues
there at the start, and `FlakyTestsStayOpen`, for any that do not ask for quiet. A worker has
made known each failure it has gone by, or is at the issue that will make it known
(`LosesNone`); while no lock lapses, who is at an issue has its lock and so nobody notes the
commit between its look at the comments and its own (`NotesAlone`). A flaky test keeps its issue
open because a handler that is alone knows what it changes (`StaysInv`): what it listed still
stands as far as it will act on it (`ListStands`, `AtOpenIssue`), each test it goes by has one
open issue at most once the spare ones are closed (`ClosesSpares`), and what it closes is
neither flaky nor has the commit's failure (`LeavesOpen`). An issue labelled "quiet" gets no
comment, so that a failure leaves no trace in it for the passing build to see; hence the
hypothesis.

**AutoApprove.** `AutoApproveTypeCorrect`, and `NamesDependency`: each file that a pass listed on a
renovate pull request it approves is a lock file or about the dependency of the title. A pass is
typed by what it has read at each place (`IsPass`): the number it was called for, a title, files and
a configuration of some moment. The decision is a function of these, so the theorem goes through
each process and the rule of the first generation: what its patterns say of a title and what they
say of a file agree on one dependency, whatever was pushed between the reads.

Not every invariant that is proved is run as well: the type invariants of the first four modules and
the inductive strengthenings are proved for every size; the larger strengthenings were
checked by TLC on the runs' instances before.

The provers take no theorem of induction over data. Where one is needed (a least number, a list's
last element, the pages of a listing) the proofs take a least counterexample by the library's
`WFMin` over the numbers instead (`LeastIsIn`, `GreatestFirst`, `Least`).

Only model-checked: the liveness properties (`AcquireReturns`, `TasksLeave`, `RowsAreCleared`,
`HangingIsFound`, `OldRowsLeave`, `TriggersAreServed`, `ImagesAreServed`, `EveryCommitIsCopied`,
`FittingIsApproved`), which need fairness. Every invariant and every action property of the passing
runs is a theorem.

## Not modelled

* `gcf-utils`: the wording of its answers, secrets and logging.
* `merge-on-green`: more than one pull request (rows are independent), rate limits beyond "too few
  calls left", the text of comments, branch protection beyond success or failure.
* `owl-bot` post processor: checks shown on the pull request (the check is posted on the head of
  that moment), drafts, forks. Copying: which files are copied (regular expressions over
  directories), the text of commits, the depth of clones, the commands run by hand.
* `flakybot`: XML, the text of issues and comments, which are kept by the commits they name.
* `snippet-bot`: the full scan of a repository that an issue asks for, the nightly export of products, the
  caches of snippets; a pull request has one file.
* `release-please`: the library; the configuration's schema check on pull requests, which is `BotConfig`'s
  with another schema; the list of labels kept in step with the bot.
* `header-checker-lint` and `auto-approve`: the regular expressions, which are given by what they match.
* The remaining bots keep no state and decide once for each event; `PROJECT.json` gives the reason
  for each. Three directories hold only a README here (policy, release-brancher,
  release-trigger).

## Plan

Done, in this order: `LeaseLock` and `DatastoreLock` (everything that excludes relies on it),
`GcfTask` (everything is called through it), `MergeOnGreen`, `OwlBotPostProcessor` with their proofs;
`OwlBotConfigs`, `OwlBotLockUpdate`, `OwlBotCopy`; `Flakybot`; `AutoApprove`; `CronFanout`, `CherryPick`,
`SnippetBot`, `DoNotMerge`, `HeaderChecker`, `ReleasePlease`, `RepositoryBots`.

The proofs: `SharedPartsProofs` (`DatastoreLock` and `GcfTask`), `MergeOnGreenProofs`,
`OwlBotPostProcessorProofs`, then `OwlBotJobsProofs`, `RepositoryBotsProofs`, `ReleasePleaseProofs`,
`FlakybotProofs`, `AutoApproveProofs`.

Next:

1. `OwlBotPostProcessor` with `DatastoreLock` in place of the lease, as a refinement of the present
   model.
2. `blunderbuss`, `auto-label`, `trusted-contribution` on `PullRequestEvents`.
