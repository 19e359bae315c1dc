----------------------------- MODULE CherryPick -----------------------------
(***************************************************************************)
(* packages/cherry-pick-bot.  "/cherry-pick <branch>" on a merged pull     *)
(* request picks its merge commit onto the head of that branch, as a pull  *)
(* request of its own; on an open one the request waits until it is        *)
(* merged.  The commit is picked with GitHub's merges alone: a temporary   *)
(* branch is put on a sibling of the commit, the commit is merged into it, *)
(* and the tree that comes out is committed on top of the new branch.      *)
(*                                                                         *)
(* A commit is what matters of it here: how far it reaches into the base   *)
(* branch of the pull request (the merge base), the changes in its tree,   *)
(* and, on a branch of the bot, the target it started from and the number  *)
(* of commits on it.                                                       *)
(***************************************************************************)
EXTENDS Naturals, FiniteSets

CONSTANTS
  Target,          \* branches named in comments
  Picker,          \* handlers that run at a time
  Pick,            \* the commit to be picked is the Pick-th of the base branch since the target left it
  MaxComments,     \* bound: comments written and edited
  MaxPickFaults,   \* bound: failing calls
  MaxPickTries,    \* bound: deliveries of a task
  MaxTargetMoves   \* bound: commits of others on the targets

ASSUME PickAssumption ==
  /\ Target # {}
  /\ {Pick, MaxPickTries} \subseteq Nat \ {0}
  /\ {MaxComments, MaxPickFaults, MaxTargetMoves} \subseteq Nat

VARIABLES
  original,    \* the pull request that is picked: "open", "merged" or "closed"
  asked,       \* its comments: <<target, may its author ask for it?, where it is>>
  pageFull,    \* are there, of whoever, as many comments as one page of the listing has (30)?
  requires,    \* the branches that require reviews ("base": the base of the pull request)
  conflicts,   \* the targets the commit does not apply to
  targets,     \* the head of each target
  branches,    \* the bot's new branches, {} or {commit}
  temps,       \* their temporary branches, {} or {commit}
  pickPulls,   \* the pull requests from the new branches
  told,        \* the targets a comment says there is a conflict with
  inbox,       \* tasks not taken yet
  picker,      \* handlers
  pickFaults, moves, written,
  crowded,     \* history: have two handlers worked on one branch at the same time?
  gaveUp       \* history: has a task been given up?

githubVars == <<original, asked, pageFull, requires, conflicts, targets, branches, temps, pickPulls, told>>
countVars  == <<pickFaults, moves, written>>
pickVars   == <<githubVars, inbox, picker, countVars, crowded, gaveUp>>

\* The branch is named for the target and the commit: the merge commit, or the test merge
\* GitHub keeps of a pull request closed without a merge.
Key == Target \X {"merge", "test"}

\* A comment is on the first page, or came after it, before or after the merge.
Place == {"first page", "later", "after merge"}
PlaceNow == IF ~pageFull THEN "first page" ELSE IF original = "merged" THEN "after merge" ELSE "later"

Commit(reach, tree, base, picks) == [reach |-> reach, tree |-> tree, base |-> base, picks |-> picks]
Exactly(c) == c.picks = 1 /\ c.tree = c.base \cup {Pick}

Idle == [at |-> "idle"]
\* A task: the comment or the close it is for, with what its payload says.
Job(kind, target, sha, allowed, tries) ==
  [kind |-> kind, target |-> target, sha |-> sha, allowed |-> allowed, tries |-> tries]
Jobs == [kind : {"comment", "closed"}, target : Target, sha : {"merge", "test"}, allowed : BOOLEAN,
         tries : 1 .. MaxPickTries]

Working == {"branch", "ref", "temp", "sibling", "merge", "commit", "update", "delete", "pull"}
KeyOf(p) == <<p.target, p.job.sha>>

PickTypeOK ==
  /\ original \in {"open", "merged", "closed"}
  /\ asked \subseteq Target \X BOOLEAN \X Place /\ pageFull \in BOOLEAN
  /\ conflicts \cup told \subseteq Target
  /\ \A k \in Key : Cardinality(branches[k]) <= 1 /\ Cardinality(temps[k]) <= 1
  /\ pickPulls \in [Key -> {"none", "open", "closed", "merged"}]
  /\ inbox \subseteq Jobs
  /\ \A h \in Picker : picker[h] = Idle \/
       (picker[h].job \in Jobs /\ picker[h].todo \subseteq Target /\ picker[h].at \in Working \cup {"get", "list", "next"})
  /\ pickFaults \in 0 .. MaxPickFaults /\ moves \in 0 .. MaxTargetMoves /\ written \in 0 .. MaxComments

\* The target has a change of its own, 0, since the base branch left it.
PickInit ==
  /\ original = "open" /\ asked = {} /\ pageFull = FALSE /\ told = {}
  /\ requires \in SUBSET (Target \cup {"base"}) /\ conflicts \in SUBSET Target
  /\ targets = [t \in Target |-> Commit(0, {0}, {0}, 0)]
  /\ branches = [k \in Key |-> {}] /\ temps = [k \in Key |-> {}] /\ pickPulls = [k \in Key |-> "none"]
  /\ inbox = {} /\ picker = [h \in Picker |-> Idle]
  /\ pickFaults = 0 /\ moves = 0 /\ written = 0
  /\ crowded = FALSE /\ gaveUp = FALSE

----------------------------------------------------------------------------
(* The handlers of bot.ts *)

Crowd(ps) ==
  \E g, h \in Picker : /\ g # h /\ ps[g].at \in Working /\ ps[h].at \in Working
                       /\ KeyOf(ps[g]) = KeyOf(ps[h])
Goes(h, p) == /\ picker' = [picker EXCEPT ![h] = p]
              /\ crowded' = (crowded \/ Crowd([picker EXCEPT ![h] = p]))
GoesTo(h, at) == Goes(h, [picker[h] EXCEPT !.at = at])

Take(h, j) ==
  /\ picker[h] = Idle /\ j \in inbox
  /\ inbox' = inbox \ {j}
  /\ Goes(h, [at |-> IF j.kind = "comment" THEN "get" ELSE "list", job |-> j, todo |-> {},
              target |-> j.target, head |-> targets[j.target], tree |-> {}])
  /\ UNCHANGED <<githubVars, countVars, gaveUp>>

\* issue_comment: the author, then whether the pull request is merged by now.
GetPull(h) ==
  /\ picker[h].at = "get"
  /\ LET j == picker[h].job
     IN IF j.allowed /\ original = "merged"
        THEN Goes(h, [picker[h] EXCEPT !.at = "next", !.todo = {j.target}]) ELSE Goes(h, Idle)
  /\ UNCHANGED <<githubVars, countVars, inbox, gaveUp>>

\* pull_request.closed: every target that a comment of the first page asks for; no other
\* page is read.
ListComments(h) ==
  /\ picker[h].at = "list"
  /\ Goes(h, [picker[h] EXCEPT !.at = "next", !.todo = {c[1] : c \in {d \in asked : d[2] /\ d[3] = "first page"}}])
  /\ UNCHANGED <<githubVars, countVars, inbox, gaveUp>>

AllDone(h) ==
  /\ picker[h].at = "next" /\ picker[h].todo = {}
  /\ Goes(h, Idle)
  /\ UNCHANGED <<githubVars, countVars, inbox, gaveUp>>

\* A mutant of NextTarget: the reviews of the base branch are not looked at.
NextTargetStrict(h) ==
  /\ picker[h].at = "next"
  /\ \E t \in picker[h].todo :
       IF t \in requires
       THEN Goes(h, [picker[h] EXCEPT !.todo = @ \ {t}])
       ELSE Goes(h, [picker[h] EXCEPT !.todo = @ \ {t}, !.at = "branch", !.target = t, !.head = targets[t]])
  /\ UNCHANGED <<githubVars, countVars, inbox, gaveUp>>

\* A target that requires reviews only takes commits of a base that does.
NextTarget(h) ==
  /\ picker[h].at = "next"
  /\ \E t \in picker[h].todo :
       IF t \in requires /\ "base" \notin requires
       THEN Goes(h, [picker[h] EXCEPT !.todo = @ \ {t}])
       ELSE Goes(h, [picker[h] EXCEPT !.todo = @ \ {t}, !.at = "branch", !.target = t, !.head = targets[t]])
  /\ UNCHANGED <<githubVars, countVars, inbox, gaveUp>>

----------------------------------------------------------------------------
(* cherryPickAsPullRequest() *)

NoPicks(c) == Commit(c.reach, c.tree, c.tree, 0)

\* createOrUpdateRef() is forced.  A pull request that has no commits left is closed by GitHub.
CreateBranch(h) ==
  /\ picker[h].at = "branch"
  /\ LET k == KeyOf(picker[h]) IN
       /\ branches' = [branches EXCEPT ![k] = {NoPicks(picker[h].head)}]
       /\ pickPulls' = [pickPulls EXCEPT ![k] = IF @ = "open" THEN "closed" ELSE @]
  /\ GoesTo(h, "ref")
  /\ UNCHANGED <<original, asked, pageFull, requires, conflicts, targets, temps, told, countVars, inbox, gaveUp>>

GetRef(h) ==
  /\ picker[h].at = "ref"
  /\ \E c \in branches[KeyOf(picker[h])] : Goes(h, [picker[h] EXCEPT !.at = "temp", !.head = c])
  /\ UNCHANGED <<githubVars, countVars, inbox, gaveUp>>

PutTemp(h, c, at) ==
  /\ temps' = [temps EXCEPT ![KeyOf(picker[h])] = {c}]
  /\ GoesTo(h, at)
  /\ UNCHANGED <<original, asked, pageFull, requires, conflicts, targets, branches, pickPulls, told, countVars, inbox, gaveUp>>

CreateTemp(h) == picker[h].at = "temp" /\ PutTemp(h, picker[h].head, "sibling")

\* A mutant of PutSibling: the sibling keeps the parent of the head.
PutSiblingOfHead(h) ==
  /\ picker[h].at = "sibling" /\ temps[KeyOf(picker[h])] # {}
  /\ PutTemp(h, Commit(picker[h].head.reach, picker[h].head.tree, picker[h].head.base, 1), "merge")

\* The sibling has the parent of the commit to be picked and the tree of the head, so that
\* the merge brings the changes of that commit alone.
PutSibling(h) ==
  /\ picker[h].at = "sibling" /\ temps[KeyOf(picker[h])] # {}
  /\ PutTemp(h, Commit(Pick - 1, picker[h].head.tree, picker[h].head.base, 1), "merge")

\* The changes between the merge base and the commit.
MergedTree(c) == c.tree \cup (c.reach + 1) .. Pick

MergeTemp(h) ==
  /\ picker[h].at = "merge" /\ picker[h].target \notin conflicts
  /\ \E c \in temps[KeyOf(picker[h])] :
       /\ c.reach < Pick
       /\ temps' = [temps EXCEPT ![KeyOf(picker[h])] = {Commit(Pick, MergedTree(c), c.base, c.picks + 1)}]
       /\ Goes(h, [picker[h] EXCEPT !.at = "commit", !.tree = MergedTree(c)])
  /\ UNCHANGED <<original, asked, pageFull, requires, conflicts, targets, branches, pickPulls, told, countVars, inbox, gaveUp>>

\* The conflict is told in a comment; both branches stay.
MergeConflict(h) ==
  /\ picker[h].at = "merge" /\ picker[h].target \in conflicts /\ temps[KeyOf(picker[h])] # {}
  /\ told' = told \cup {picker[h].target}
  /\ GoesTo(h, "next")
  /\ UNCHANGED <<original, asked, pageFull, requires, conflicts, targets, branches, temps, pickPulls, countVars, inbox, gaveUp>>

CommitTemp(h) ==
  /\ picker[h].at = "commit" /\ temps[KeyOf(picker[h])] # {}
  /\ LET p == picker[h]
         c == Commit(p.head.reach, p.tree, p.head.base, p.head.picks + 1)
     IN /\ temps' = [temps EXCEPT ![KeyOf(p)] = {c}]
        /\ Goes(h, [p EXCEPT !.at = "update", !.head = c])
  /\ UNCHANGED <<original, asked, pageFull, requires, conflicts, targets, branches, pickPulls, told, countVars, inbox, gaveUp>>

UpdateBranch(h) ==
  /\ picker[h].at = "update" /\ branches[KeyOf(picker[h])] # {}
  /\ branches' = [branches EXCEPT ![KeyOf(picker[h])] = {picker[h].head}]
  /\ GoesTo(h, "delete")
  /\ UNCHANGED <<original, asked, pageFull, requires, conflicts, targets, temps, pickPulls, told, countVars, inbox, gaveUp>>

DeleteTemp(h) ==
  /\ picker[h].at = "delete" /\ temps[KeyOf(picker[h])] # {}
  /\ temps' = [temps EXCEPT ![KeyOf(picker[h])] = {}]
  /\ GoesTo(h, "pull")
  /\ UNCHANGED <<original, asked, pageFull, requires, conflicts, targets, branches, pickPulls, told, countVars, inbox, gaveUp>>

\* GitHub refuses a second pull request of a branch and one without commits.
MayCreatePull(k) == pickPulls[k] # "open" /\ \E c \in branches[k] : c.picks > 0

CreatePull(h) ==
  /\ picker[h].at = "pull" /\ MayCreatePull(KeyOf(picker[h]))
  /\ pickPulls' = [pickPulls EXCEPT ![KeyOf(picker[h])] = "open"]
  /\ GoesTo(h, "next")
  /\ UNCHANGED <<original, asked, pageFull, requires, conflicts, targets, branches, temps, told, countVars, inbox, gaveUp>>

----------------------------------------------------------------------------
(* A handler throws, and its task is delivered again or given up. *)

Throws(h) ==
  /\ Goes(h, Idle)
  /\ LET j == picker[h].job
     IN IF j.tries < MaxPickTries
        THEN inbox' = inbox \cup {[j EXCEPT !.tries = @ + 1]} /\ UNCHANGED gaveUp
        ELSE gaveUp' = TRUE /\ UNCHANGED inbox
  /\ UNCHANGED githubVars

\* A reference is gone, there is nothing to merge, or the pull request cannot be created.
CannotGoOn(h) ==
  /\ LET k == KeyOf(picker[h])
         noTemp == temps[k] = {}
     IN \/ picker[h].at \in {"ref", "update"} /\ branches[k] = {}
        \/ picker[h].at \in {"sibling", "merge", "commit", "delete"} /\ noTemp
        \/ picker[h].at = "merge" /\ picker[h].target \notin conflicts /\ \E c \in temps[k] : c.reach >= Pick
        \/ picker[h].at = "pull" /\ ~MayCreatePull(k)
  /\ Throws(h)
  /\ UNCHANGED countVars

\* A call fails, or its reply is lost, or the instance dies.
CallFails(h) ==
  /\ picker[h] # Idle /\ pickFaults < MaxPickFaults
  /\ pickFaults' = pickFaults + 1
  /\ Throws(h)
  /\ UNCHANGED <<moves, written>>

----------------------------------------------------------------------------
(* People *)

ByPeople == UNCHANGED <<requires, conflicts, temps, told, picker, pickFaults, crowded, gaveUp>>

WriteComment(t, may) ==
  /\ written < MaxComments /\ written' = written + 1
  /\ asked' = asked \cup {<<t, may, PlaceNow>>}
  /\ inbox' = inbox \cup {Job("comment", t, "merge", may, 1)}
  /\ UNCHANGED <<original, pageFull, targets, branches, pickPulls, moves>> /\ ByPeople

\* The comment now asks for another target, or is edited elsewhere; it stays in its place.
EditComment(t, may, u) ==
  /\ written < MaxComments /\ written' = written + 1
  /\ \E w \in Place :
       /\ <<t, may, w>> \in asked
       /\ asked' = (asked \ {<<t, may, w>>}) \cup {<<u, may, IF w = "first page" THEN w ELSE PlaceNow>>}
  /\ inbox' = inbox \cup {Job("comment", u, "merge", may, 1)}
  /\ UNCHANGED <<original, pageFull, targets, branches, pickPulls, moves>> /\ ByPeople

\* Enough comments for the first page, which may be about anything.
FillPage ==
  /\ ~pageFull /\ pageFull' = TRUE
  /\ UNCHANGED <<original, asked, targets, branches, pickPulls, inbox, moves, written>> /\ ByPeople

CloseOriginal(how) ==
  /\ original = "open"
  /\ original' = how
  /\ inbox' = inbox \cup {Job("closed", (CHOOSE t \in Target : TRUE), IF how = "merged" THEN "merge" ELSE "test", TRUE, 1)}
  /\ UNCHANGED <<asked, pageFull, targets, branches, pickPulls, moves, written>> /\ ByPeople

TargetMoves(t) ==
  /\ moves < MaxTargetMoves /\ moves' = moves + 1
  /\ targets' = [targets EXCEPT ![t].tree = @ \cup {Pick + 1 + moves}]
  /\ UNCHANGED <<original, asked, pageFull, branches, pickPulls, inbox, written>> /\ ByPeople

\* The pull request of the bot is merged, and its branch is often deleted with it.
MergePull(k, delete) ==
  /\ pickPulls[k] = "open" /\ moves < MaxTargetMoves /\ moves' = moves + 1
  /\ pickPulls' = [pickPulls EXCEPT ![k] = "merged"]
  /\ \E c \in branches[k] : targets' = [targets EXCEPT ![k[1]].tree = @ \cup c.tree]
  /\ branches' = [branches EXCEPT ![k] = IF delete THEN {} ELSE @]
  /\ UNCHANGED <<original, asked, pageFull, inbox, written>> /\ ByPeople

PickerStep(h) ==
  \/ \E j \in inbox : Take(h, j)
  \/ GetPull(h) \/ ListComments(h) \/ AllDone(h) \/ NextTarget(h)
  \/ CreateBranch(h) \/ GetRef(h) \/ CreateTemp(h) \/ PutSibling(h) \/ MergeTemp(h) \/ MergeConflict(h)
  \/ CommitTemp(h) \/ UpdateBranch(h) \/ DeleteTemp(h) \/ CreatePull(h)
  \/ CannotGoOn(h) \/ CallFails(h)

PickNext ==
  \/ \E h \in Picker : PickerStep(h)
  \/ \E t \in Target, may \in BOOLEAN : WriteComment(t, may) \/ (\E u \in Target : EditComment(t, may, u))
  \/ FillPage
  \/ \E how \in {"merged", "closed"} : CloseOriginal(how)
  \/ \E t \in Target : TargetMoves(t)
  \/ \E k \in Key, delete \in BOOLEAN : MergePull(k, delete)

PickSpec == PickInit /\ [][PickNext]_pickVars

----------------------------------------------------------------------------
(* The pull request of a pick holds the picked commit on the head of its target and       *)
(* nothing else.                                                                          *)
HoldsThePick == \A k \in Key : pickPulls[k] = "open" => \A c \in branches[k] : Exactly(c)

(* That is so although tasks fail at any call and are run again over the branches they    *)
(* left, as long as no two of them work on one branch at the same time.                   *)
HoldsThePickAlone == ~crowded => HoldsThePick

(* No request is lost between the two handlers: when all tasks have come to their end     *)
(* and none was given up, every target that somebody who may ask for it asks for has a    *)
(* pull request, a comment on a conflict, or stricter reviews than the base branch,       *)
(* whatever the order of comment and merge and of their two tasks.  Not so of a request   *)
(* beyond the first page of comments, when it was written before the merge.               *)
Requested(t) == \E w \in {"first page", "after merge"} : <<t, TRUE, w>> \in asked
RequestsAreServed ==
  (original = "merged" /\ inbox = {} /\ ~gaveUp /\ \A h \in Picker : picker[h] = Idle) =>
    \A t \in Target : Requested(t) =>
      \/ pickPulls[<<t, "merge">>] # "none" \/ t \in told
      \/ t \in requires /\ "base" \notin requires
=============================================================================
