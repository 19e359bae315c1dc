----------------------------- MODULE OwlBotCopy -----------------------------
(***************************************************************************)
(* packages/owl-bot: copying code from googleapis-gen into pull requests   *)
(* of a library repository.                                                *)
(*                                                                         *)
(* A job scans the commits of googleapis-gen, the newest first, until it   *)
(* finds one that is done, and puts what is to do on a stack.  Then it     *)
(* copies, the oldest commit first: into an open pull request of the same  *)
(* configuration files if there is one, into a new one if not.  What was   *)
(* copied is known by its copy tag, the path of the configuration file and *)
(* the commit, kept in Firestore.  Jobs may overlap, and anything they do  *)
(* may fail; the next job starts from the tags.  People merge and close    *)
(* pull requests, and have them regenerated.                               *)
(*                                                                         *)
(* One library repository; others only put more on the stack.  Its stored  *)
(* configurations do not change meanwhile.  Files are left out: the copy   *)
(* of a configuration file at a commit is its tag.                         *)
(***************************************************************************)
EXTENDS Naturals, Sequences, FiniteSets, SequencesExt

CONSTANTS
  Yaml,        \* configuration files of the repository, numbers in order of their paths
  Scanner,     \* jobs
  Regenerator, \* builds that regenerate a pull request or copy into it again
  Combine,     \* combinePullsThreshold
  BatchSize,   \* maxYamlCountPerPullRequest
  MaxSource,   \* bound: commits of googleapis-gen
  MaxCopyFaults \* bound: failures and acts of people, all together

ASSUME CopyAssumption ==
  /\ Yaml \subseteq Nat /\ IsFiniteSet(Yaml) /\ Yaml # {} /\ Scanner \cap Regenerator = {}
  /\ Combine \in Nat /\ BatchSize \in Nat \ {0}
  /\ MaxSource \in Nat \ {0} /\ MaxCopyFaults \in Nat

Source == 1 .. MaxSource
Tag    == Yaml \X Source
\* A branch is named for the set of configuration files it is copied for.
Branch == (SUBSET Yaml) \ {{}}

VARIABLES
  source,     \* googleapis-gen: the configuration files each commit affects
  begin,      \* begin-after-commit-hash, 0 if there is none
  allowed,    \* is the repository's organisation one Owl Bot may write to?
  file,       \* GitHub: is a configuration file "good", "broken" or "missing"?
  branch,     \* GitHub: the commits of each branch, each the set of its copy tags
  open,       \* GitHub: the branches with an open pull request
  recorded,   \* Firestore: the copy tags of the collection copy-builds
  scanner, regenerator,
  copyFaults, \* bound
  delivered,  \* history: tags pushed to a branch, or reported as an error
  skipped,    \* history: tags whose configuration file was missing
  raced,      \* history: tags left to another job, which had recorded a tag of the same pull request
  late,       \* history: tags others pushed to a process' branch, or opened a pull
              \* request with, since it looked
  lost        \* history: tags of an open pull request overwritten that were not late

github  == <<source, begin, allowed, file>>
history == <<delivered, skipped, raced, late, lost>>
copyVars == <<github, branch, open, recorded, scanner, regenerator, copyFaults, history>>

Todo == [yamls : Branch, commit : Source]
\* "each", "rest", "batch": searches for a pull request, see List
ScannerPc == {"idle", "scan", "clone", "each", "rest", "batch",
              "copy", "push", "record", "copyNew", "pushNew", "create"}
ScannerState ==
  [pc : ScannerPc,
   cursor : 0 .. MaxSource,      \* the commit it looks at, going back
   stack : Seq(Todo),            \* the last one is the oldest
   clone : [Branch -> Seq(SUBSET Tag)],   \* of the repository: the branches
   phase : {"each", "rest", "batch"},     \* the search it is in
   todo : SUBSET Yaml,           \* files this phase still has to go through
   leftOvers : SUBSET Yaml,
   target : SUBSET Yaml,         \* the branch it has looked for
   tags : SUBSET Tag]            \* copiedYamls
Nothing == [b \in Branch |-> <<>>]
ScanIdle == [pc |-> "idle", cursor |-> 0, stack |-> <<>>, clone |-> Nothing, phase |-> "each", todo |-> {},
         leftOvers |-> {}, target |-> {}, tags |-> {}]

RegeneratorState ==
  [pc : {"idle", "list", "fetch", "push"},
   again : BOOLEAN,              \* 'append' or 'regenerate'
   target : SUBSET Yaml,
   clone : Seq(SUBSET Tag)]
AtRest == [pc |-> "idle", again |-> FALSE, target |-> {}, clone |-> <<>>]

CopyTypeOK ==
  /\ source \in Seq(SUBSET Yaml) /\ Len(source) <= MaxSource
  /\ begin \in 0 .. MaxSource /\ allowed \in BOOLEAN
  /\ file \in [Yaml -> {"good", "broken", "missing"}]
  /\ branch \in [Branch -> Seq(SUBSET Tag)] /\ open \subseteq Branch
  /\ {recorded, delivered, skipped, raced, lost} \subseteq SUBSET Tag
  /\ scanner \in [Scanner -> ScannerState]
  /\ regenerator \in [Regenerator -> RegeneratorState]
  /\ late \in [Scanner \cup Regenerator -> SUBSET Tag]
  /\ copyFaults \in 0 .. MaxCopyFaults

CopyInit ==
  /\ source = <<>> /\ begin \in {0, 1} /\ allowed \in BOOLEAN
  /\ file = [y \in Yaml |-> "good"]
  /\ branch = Nothing /\ open = {} /\ recorded = {}
  /\ scanner = [s \in Scanner |-> ScanIdle] /\ regenerator = [g \in Regenerator |-> AtRest]
  /\ copyFaults = 0
  /\ delivered = {} /\ skipped = {} /\ raced = {} /\ lost = {}
  /\ late = [p \in Scanner \cup Regenerator |-> {}]

CopyFault == copyFaults < MaxCopyFaults /\ copyFaults' = copyFaults + 1
Tags(commits) == UNION Range(commits)

----------------------------------------------------------------------------
(* The environment. *)

\* googleapis-gen is regenerated from the APIs.
Generate ==
  /\ Len(source) < MaxSource
  /\ \E ys \in SUBSET Yaml : source' = Append(source, ys)
  /\ UNCHANGED <<begin, allowed, file, branch, open, recorded, scanner, regenerator, copyFaults, history>>

\* A configuration file is broken, removed or repaired.
EditFile(y) ==
  /\ \E x \in {"good", "broken", "missing"} \ {file[y]} : file' = [file EXCEPT ![y] = x]
  /\ CopyFault
  /\ UNCHANGED <<source, begin, allowed, branch, open, recorded, scanner, regenerator, history>>

\* A pull request is merged or closed, and its branch deleted or not.
ClosePull(b) ==
  /\ b \in open
  /\ open' = open \ {b}
  /\ branch' \in {branch, [branch EXCEPT ![b] = <<>>]}
  /\ CopyFault
  /\ UNCHANGED <<github, recorded, scanner, regenerator, history>>

----------------------------------------------------------------------------
(* Pushes to a branch. *)

Target(p) == IF p \in Scanner THEN scanner[p].target ELSE regenerator[p].target
\* Everybody else who has looked at the branch misses these tags.
Misses(p, b, tags) ==
  late' = [q \in DOMAIN late |-> IF q # p /\ Target(q) = b THEN late[q] \cup tags ELSE late[q]]
Looks(p) == late' = [late EXCEPT ![p] = {}]

\* A push that is not forced is refused unless the branch is still what was cloned, or is
\* gone: then it is there again.
Accepts(b, clone) == branch[b] \in {clone, <<>>}
Push(p, b, clone, tags) ==
  /\ branch' = [branch EXCEPT ![b] = Append(clone, tags)]
  /\ delivered' = delivered \cup tags
  /\ Misses(p, b, tags \cup (Tags(clone) \ Tags(branch[b])))

PushForced(p, b, tags) ==
  /\ branch' = [branch EXCEPT ![b] = <<tags>>]
  /\ delivered' = delivered \cup tags
  /\ lost' = lost \cup (IF b \in open THEN (Tags(branch[b]) \ tags) \ late[p] ELSE {})
  /\ Misses(p, b, tags)

----------------------------------------------------------------------------
(* scanGoogleapisGenAndCreatePullRequests() *)

Becomes(s, new) == scanner' = [scanner EXCEPT ![s] = new]

\* The job starts: it clones googleapis-gen.
StartScan(s) ==
  /\ scanner[s].pc = "idle" /\ source # <<>>
  /\ Becomes(s, [ScanIdle EXCEPT !.pc = "scan", !.cursor = Len(source)])
  /\ UNCHANGED <<github, branch, open, recorded, regenerator, copyFaults, history>>

TooOld(c) == c <= begin
\* The files a commit affects and that have not been copied at it.
TodoYamls(c) == IF TooOld(c) THEN {} ELSE {y \in source[c] : <<y, c>> \notin recorded}
\* Mutant: always one piece of work for all files, however few there are.
TodosCombined(c) == <<[yamls |-> TodoYamls(c), commit |-> c]>>

\* One piece of work for each file, in some order, or one for all of them if they are many.
Todos(c) ==
  LET ys == TodoYamls(c) IN
  IF Cardinality(ys) > Combine THEN <<[yamls |-> ys, commit |-> c]>>
  ELSE LET files == SetToSeq(ys)
       IN  [i \in 1 .. Len(files) |-> [yamls |-> {files[i]}, commit |-> c]]

\* Mutants: the newest is copied first; the search ends at a commit of other repositories.
ScanCommitNewestFirst(s) ==
  LET c == scanner[s].cursor IN
  /\ scanner[s].pc = "scan" /\ c > 0
  /\ Becomes(s, [scanner[s] EXCEPT
       !.stack = Todos(c) \o @,
       !.cursor = IF source[c] # {} /\ Todos(c) = <<>> THEN 0 ELSE c - 1])
  /\ UNCHANGED <<github, branch, open, recorded, regenerator, copyFaults, history>>
ScanCommitStopsEarly(s) ==
  LET c == scanner[s].cursor IN
  /\ scanner[s].pc = "scan" /\ c > 0
  /\ Becomes(s, [scanner[s] EXCEPT !.stack = @ \o Todos(c), !.cursor = IF Todos(c) = <<>> THEN 0 ELSE c - 1])
  /\ UNCHANGED <<github, branch, open, recorded, regenerator, copyFaults, history>>

\* One commit is looked at.  The search is over at one that affects files and leaves
\* nothing to do.
ScanCommit(s) ==
  LET c == scanner[s].cursor IN
  /\ scanner[s].pc = "scan" /\ c > 0
  /\ Becomes(s, [scanner[s] EXCEPT
       !.stack = @ \o Todos(c),
       !.cursor = IF source[c] # {} /\ Todos(c) = <<>> THEN 0 ELSE c - 1])
  /\ UNCHANGED <<github, branch, open, recorded, regenerator, copyFaults, history>>

\* What is next on the stack; the job is over when it is empty.
Pop(s) == [ScanIdle EXCEPT !.pc = IF scanner[s].stack = <<>> THEN "idle" ELSE "clone",
                       !.stack = scanner[s].stack]
ScanEnds(s) ==
  /\ scanner[s].pc = "scan" /\ scanner[s].cursor = 0
  /\ Becomes(s, Pop(s))
  /\ UNCHANGED <<github, branch, open, recorded, regenerator, copyFaults, history>>

----------------------------------------------------------------------------
(* copyCodeAndAppendOrCreatePullRequest() and findAndAppendPullRequest() *)

Work(s) == Last(scanner[s].stack)
\* The next work, from a copy of the repository of its own.
Finished(x) ==
  [ScanIdle EXCEPT !.stack = Front(x.stack), !.pc = IF Len(x.stack) = 1 THEN "idle" ELSE "clone"]

\* The repository is cloned.  InvalidOrgError: the work is dropped.
Clone(s) ==
  LET x == scanner[s] IN
  /\ x.pc = "clone"
  /\ Becomes(s, IF allowed THEN [x EXCEPT !.pc = "each", !.clone = branch, !.todo = Work(s).yamls]
                ELSE Finished(x))
  /\ UNCHANGED <<github, branch, open, recorded, regenerator, copyFaults, history>>

\* How the work goes on when a search has led to a pull request, or has not: for each
\* file, then for all that are left over unless these are all, then in batches.
Found(x) == CASE x.phase = "each"  -> [x EXCEPT !.pc = "each", !.todo = @ \ x.target]
              [] x.phase = "rest"  -> Finished(x)
              [] x.phase = "batch" -> [x EXCEPT !.pc = "batch", !.todo = @ \ x.target]
NotFound(x) ==
  CASE x.phase = "each"  -> [x EXCEPT !.pc = "each", !.todo = @ \ x.target, !.leftOvers = @ \cup x.target]
    [] x.phase = "rest"  -> [x EXCEPT !.pc = "batch", !.todo = x.leftOvers]
    [] x.phase = "batch" -> [x EXCEPT !.pc = "copyNew"]

EachDone(s) ==
  LET x == scanner[s] IN
  /\ x.pc = "each" /\ x.todo = {}
  /\ Becomes(s, CASE x.leftOvers = {} -> Finished(x)
                  [] x.leftOvers = Work(s).yamls -> [x EXCEPT !.pc = "batch", !.todo = x.leftOvers]
                  [] OTHER -> [x EXCEPT !.pc = "rest"])
  /\ UNCHANGED <<github, branch, open, recorded, regenerator, copyFaults, history>>

BatchesDone(s) ==
  /\ scanner[s].pc = "batch" /\ scanner[s].todo = {}
  /\ Becomes(s, Finished(scanner[s]))
  /\ UNCHANGED <<github, branch, open, recorded, regenerator, copyFaults, history>>

Batch(S) == {y \in S : Cardinality({x \in S : x < y}) < BatchSize}
Wanted(x) == CASE x.pc = "each"  -> {CHOOSE y \in x.todo : \A z \in x.todo : y <= z}
               [] x.pc = "rest"  -> x.leftOvers
               [] x.pc = "batch" -> Batch(x.todo)

\* Is there an open pull request?  Its branch is checked out, which throws if the
\* clone is older than the branch.
List(s) ==
  LET x == [scanner[s] EXCEPT !.phase = scanner[s].pc, !.target = Wanted(scanner[s])] IN
  /\ scanner[s].pc \in {"each", "rest", "batch"} /\ (scanner[s].pc = "rest" \/ scanner[s].todo # {})
  /\ Becomes(s, CASE x.target \notin open -> NotFound(x)
                  [] x.target \in open /\ x.clone[x.target] = <<>> -> ScanIdle
                  [] OTHER -> [x EXCEPT !.pc = "copy"])
  /\ Looks(s)
  /\ UNCHANGED <<github, branch, open, recorded, regenerator, copyFaults, delivered, skipped, raced, lost>>

\* copyCodeIntoCommit(): a broken file is reported and recorded, a missing one skipped.
TagsOf(s, state) == {<<y, Work(s).commit>> : y \in {z \in scanner[s].target : file[z] = state}}
CopyCodeIntoCommit(s) ==
  /\ recorded' = recorded \cup TagsOf(s, "broken")
  /\ delivered' = delivered \cup TagsOf(s, "broken")
  /\ skipped' = skipped \cup TagsOf(s, "missing")
  /\ UNCHANGED <<github, branch, open, regenerator, copyFaults, late, lost>>

\* Nothing to push, or another instance of Owl Bot has won the race: for one file at least.
Copy(s) ==
  /\ scanner[s].pc = "copy"
  /\ LET tags == TagsOf(s, "good") IN
       /\ Becomes(s, IF tags = {} \/ tags \cap recorded # {} THEN Found(scanner[s])
                     ELSE [scanner[s] EXCEPT !.pc = "push", !.tags = tags])
       /\ raced' = raced \cup (IF tags \cap recorded # {} THEN tags \ recorded ELSE {})
  /\ CopyCodeIntoCommit(s)

\* git push, not forced: it throws if it is refused.
PushToPull(s) ==
  LET x == scanner[s] IN
  /\ x.pc = "push"
  /\ IF Accepts(x.target, x.clone[x.target])
       THEN /\ Push(s, x.target, x.clone[x.target], x.tags)
            /\ Becomes(s, [x EXCEPT !.pc = "record"])
       ELSE Becomes(s, ScanIdle) /\ UNCHANGED <<branch, delivered, late>>
  /\ UNCHANGED <<github, open, recorded, regenerator, copyFaults, skipped, raced, lost>>

\* recordBuildForCopy(), one tag after the other.
Record(s) ==
  LET x == scanner[s]
      tag == CHOOSE t \in x.tags : \A u \in x.tags : t[1] <= u[1]
  IN
  /\ x.pc = "record"
  /\ recorded' = recorded \cup {tag}
  /\ Becomes(s, IF x.tags = {tag} THEN Found([x EXCEPT !.tags = {}]) ELSE [x EXCEPT !.tags = @ \ {tag}])
  /\ UNCHANGED <<github, branch, open, regenerator, copyFaults, history>>

\* No pull request: a new branch from the default one.
CopyNew(s) ==
  /\ scanner[s].pc = "copyNew"
  /\ Becomes(s, IF TagsOf(s, "good") = {} THEN Found(scanner[s])
                ELSE [scanner[s] EXCEPT !.pc = "pushNew", !.tags = TagsOf(s, "good")])
  /\ CopyCodeIntoCommit(s) /\ UNCHANGED raced

\* createPullRequestFromLastCommit() with Force.Yes
PushNew(s) ==
  /\ scanner[s].pc = "pushNew"
  /\ PushForced(s, scanner[s].target, scanner[s].tags)
  /\ Becomes(s, [scanner[s] EXCEPT !.pc = "create"])
  /\ UNCHANGED <<github, open, recorded, regenerator, copyFaults, skipped, raced>>

\* GitHub refuses a second pull request of a branch: that throws.
CreatePull(s) ==
  LET b == scanner[s].target IN
  /\ scanner[s].pc = "create"
  /\ open' = open \cup {b}
  /\ Becomes(s, IF b \in open THEN ScanIdle ELSE [scanner[s] EXCEPT !.pc = "record"])
  /\ Misses(s, b, IF b \in open THEN {} ELSE Tags(branch[b]))
  /\ UNCHANGED <<github, branch, recorded, regenerator, copyFaults, delivered, skipped, raced, lost>>

\* A call fails or the process dies: the job is over.
ScannerFails(s) ==
  /\ scanner[s].pc # "idle"
  /\ CopyFault
  /\ Becomes(s, ScanIdle)
  /\ UNCHANGED <<github, branch, open, recorded, regenerator, history>>

ScannerStep(s) ==
  \/ StartScan(s) \/ ScanCommit(s) \/ ScanEnds(s) \/ Clone(s)
  \/ List(s) \/ EachDone(s) \/ BatchesDone(s) \/ Copy(s) \/ PushToPull(s) \/ Record(s)
  \/ CopyNew(s) \/ PushNew(s) \/ CreatePull(s)

----------------------------------------------------------------------------
(* copyCodeIntoPullRequest() *)

Turns(g, new) == regenerator' = [regenerator EXCEPT ![g] = new]

\* Someone ticks the pull request's box, or the bootstrapper puts "owlbot:copy-commands".
StartRegenerate(g, b) ==
  /\ regenerator[g].pc = "idle" /\ b \in open
  /\ CopyFault
  /\ \E again \in BOOLEAN :
       Turns(g, [pc |-> "list", again |-> again, target |-> b, clone |-> branch[b]])
  /\ Looks(g)
  /\ UNCHANGED <<github, branch, open, recorded, scanner, delivered, skipped, raced, lost>>

\* No pull request any more, no copy tag, or a file of the newest tags that cannot be
\* read: that is reported, and nothing is done.
NewestTags(commits) == {t \in Tags(commits) : \A u \in Tags(commits) : u[2] <= t[2]}
FindPull(g) ==
  LET r == regenerator[g] IN
  /\ r.pc = "list"
  /\ Turns(g, IF r.target \notin open \/ Tags(r.clone) = {} \/ (\E t \in NewestTags(r.clone) : file[t[1]] # "good")
              THEN AtRest
              ELSE [r EXCEPT !.pc = IF r.again THEN "push" ELSE "fetch"])
  /\ UNCHANGED <<github, branch, open, recorded, scanner, copyFaults, history>>

\* Mutant: the branch fetched again is not compared with the clone.
FetchAgainOnly(g) ==
  LET r == regenerator[g] IN
  /\ r.pc = "fetch"
  /\ Turns(g, [r EXCEPT !.pc = "push"])
  /\ Looks(g)
  /\ UNCHANGED <<github, branch, open, recorded, scanner, copyFaults, delivered, skipped, raced, lost>>

\* The branch has got new commits since: that is reported, and nothing is pushed.
FetchAgain(g) ==
  LET r == regenerator[g] IN
  /\ r.pc = "fetch"
  /\ Turns(g, IF branch[r.target] # r.clone THEN AtRest ELSE [r EXCEPT !.pc = "push"])
  /\ Looks(g)
  /\ UNCHANGED <<github, branch, open, recorded, scanner, copyFaults, delivered, skipped, raced, lost>>

\* One commit with all the tags replaces the branch; or another commit, without a tag.
PushRegenerated(g) ==
  LET r == regenerator[g] IN
  /\ r.pc = "push" /\ ~ r.again
  /\ PushForced(g, r.target, Tags(r.clone))
  /\ Turns(g, AtRest)
  /\ UNCHANGED <<github, open, recorded, scanner, copyFaults, skipped, raced>>
PushAgain(g) ==
  LET r == regenerator[g] IN
  /\ r.pc = "push" /\ r.again
  /\ IF Accepts(r.target, r.clone) THEN Push(g, r.target, r.clone, {})
     ELSE UNCHANGED <<branch, delivered, late>>
  /\ Turns(g, AtRest)
  /\ UNCHANGED <<github, open, recorded, scanner, copyFaults, skipped, raced, lost>>

RegeneratorStep(g) == FindPull(g) \/ FetchAgain(g) \/ PushRegenerated(g) \/ PushAgain(g)

----------------------------------------------------------------------------
CopyNextWith(scanners) ==
  \/ Generate
  \/ \E y \in Yaml : EditFile(y)
  \/ \E b \in Branch : ClosePull(b)
  \/ \E s \in scanners : ScannerStep(s) \/ ScannerFails(s)
  \/ \E g \in Regenerator : RegeneratorStep(g) \/ (\E b \in Branch : StartRegenerate(g, b))
CopyNext == CopyNextWith(Scanner)

\* Jobs keep being started, and run.
CopyFairness == WF_copyVars(\E s \in Scanner : ScannerStep(s))

CopySpec == CopyInit /\ [][CopyNext]_copyVars /\ CopyFairness

----------------------------------------------------------------------------
(* Properties. *)

Affects(y, c) == c <= Len(source) /\ y \in source[c] /\ ~ TooOld(c)

\* No commit of googleapis-gen is passed over: once a later one is recorded for a
\* file, the earlier ones have reached a branch or were reported, unless the file was
\* missing then, or another job had already recorded a file of the same pull request.
\* A job that fails half way, jobs that overlap, and tags recorded one by one leave no
\* other gap, although a job only looks back to the first commit that is done.
NothingIsPassedOver ==
  \A y \in Yaml, c, d \in Source :
    (c < d /\ Affects(y, c) /\ <<y, d>> \in recorded) => <<y, c>> \in delivered \cup skipped \cup raced

\* A forced push to an open pull request only overwrites copies that came there after
\* the pusher last looked.
OnlyLateIsLost == lost = {}

\* Every commit is copied in the end, for every file it affects.
EveryCommitIsCopied ==
  \A y \in Yaml, c \in Source :
    (allowed /\ Affects(y, c)) ~> (<<y, c>> \in delivered \cup skipped \cup raced)
=============================================================================
