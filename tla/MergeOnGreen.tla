---------------------------- MODULE MergeOnGreen ----------------------------
(***************************************************************************)
(* packages/merge-on-green: one pull request, its row in the Datastore     *)
(* table "mog-prs", and the bot's jobs that run beside each other: the     *)
(* labeled, unlabeled and closed webhooks, and the cron jobs that merge,   *)
(* clean the table up and look for labelled pull requests without a row.   *)
(* Every await of a job is a step of its own.                              *)
(***************************************************************************)
EXTENDS Naturals, FiniteSets

CONSTANTS
  Worker,       \* request slots of the service
  MaxCommits,   \* bound: commits of the pull request
  MaxEdits,     \* bound: labellings and unlabellings by users
  MaxFaults,    \* bound: calls of a job that fail
  Ages          \* do rows grow older than MAX_TEST_TIME?

ASSUME BoundsAssumption ==
  MaxCommits \in Nat \ {0} /\ MaxEdits \in Nat /\ MaxFaults \in Nat

ASSUME AgesAssumption == Ages \in BOOLEAN

Mog    == {"automerge", "automerge: exact"}
Labels == Mog \cup {"do not merge"}
Commit == 1 .. MaxCommits
Sha    == Commit \cup {0}   \* 0 is no commit
NoRow  == [label |-> "none", old |-> FALSE]
Row    == [label : Mog, old : BOOLEAN]
Hook   == [kind : {"labeled", "unlabeled", "closed"}, labels : SUBSET Mog]

\* where a job is: what it awaits
Pc == {"idle", "addPR", "save", "getPR", "remove", "cleanUp",
       "sha", "statuses", "info", "merge", "update", "pulls", "labels", "find"}

Idle == [pc |-> "idle", hook |-> FALSE, label |-> "none", stop |-> FALSE, sha |-> 0,
         flag |-> FALSE, blocked |-> FALSE]

Record == [pc : Pc,
           hook : BOOLEAN,              \* a webhook: retried if it throws
           label : Mog \cup {"none"},   \* of the row read, or to be written
           stop : BOOLEAN,              \* the row read was too old
           sha : Sha,                   \* the latest commit when the pass looked
           flag : BOOLEAN,              \* merge: is it behind?  clean-up: is it closed?
           blocked : BOOLEAN]           \* history: "do not merge" was there all along

\* A job on its way to write a row has the label for it, a pass that looked at the
\* latest commit knows it.
Writes == {"find", "addPR", "save"}
Looked == {"statuses", "info"}
Job    == {j \in Record : /\ j.pc \in Writes => j.label \in Mog
                          /\ j.pc \in Looked => j.sha \in Commit}

VARIABLES
  pr,          \* GitHub: the pull request
  labels,      \* GitHub: its labels
  head,        \* GitHub: its latest commit
  green,       \* GitHub: the commits whose required checks passed
  review,      \* GitHub: the commit of the approving review, 0 if there is none
  behind,      \* GitHub: the base branch has moved on
  hooks,       \* webhooks not handled yet
  row,         \* Datastore: the table's row
  job,         \* the bot's jobs
  dismissals,  \* the commits of calls to maybeDismissReviews() not finished yet
  edits,       \* bound: edits so far
  faults,      \* bound: faults so far
  wanted,      \* history: the merge labels that the users want kept
  merged       \* history: what the merge ignored

github == <<pr, labels, head, green, review, behind>>
user   == <<edits, wanted>>
vars   == <<github, hooks, row, job, dismissals, user, faults, merged>>

TypeOK ==
  /\ pr \in {"open", "merged", "closed"}
  /\ labels \in SUBSET Labels
  /\ head \in Commit
  /\ green \in SUBSET Commit
  /\ review \in Sha
  /\ behind \in BOOLEAN
  /\ hooks \in SUBSET Hook
  /\ row \in Row \cup {NoRow}
  /\ job \in [Worker -> Job]
  /\ dismissals \in SUBSET Commit
  /\ edits \in 0 .. MaxEdits
  /\ faults \in 0 .. MaxFaults
  /\ wanted \in SUBSET Mog
  /\ merged \in SUBSET {"do not merge", "stale review"}

Init ==
  /\ pr = "open" /\ labels = {} /\ head = 1 /\ green = {} /\ review = 0 /\ behind = FALSE
  /\ hooks = {}
  /\ row = NoRow
  /\ job = [w \in Worker |-> Idle]
  /\ dismissals = {}
  /\ edits = 0 /\ faults = 0 /\ wanted = {} /\ merged = {}

----------------------------------------------------------------------------
(* People, GitHub and time *)

\* The handlers look at the merge labels of the payload only, and at none of a closing.
Send(kind, ls) == hooks' = hooks \cup {[kind |-> kind, labels |-> ls \cap Mog]}

\* The jobs for which "do not merge" has been there since they began.
StillBlocked(ls) ==
  [w \in Worker |-> [job[w] EXCEPT !.blocked = @ /\ "do not merge" \in ls]]

\* The removal of the last merge label is still to be dealt with: its webhook waits,
\* or a job is about to take the row and its label away.
Cleans     == {"getPR", "remove", "cleanUp"}
CleaningUp ==
  \/ \E h \in hooks : h.kind = "unlabeled" /\ h.labels = {}
  \/ \E w \in Worker : job[w].pc \in Cleans

\* A label put back in that time may go with the old one; nobody can want it kept.
AddLabel(l) ==
  /\ pr = "open" /\ l \notin labels /\ edits < MaxEdits
  /\ edits' = edits + 1
  /\ labels' = labels \cup {l}
  /\ wanted' = IF CleaningUp THEN wanted ELSE wanted \cup ({l} \cap Mog)
  /\ Send("labeled", labels')
  /\ UNCHANGED <<pr, head, green, review, behind, row, job, dismissals, faults, merged>>

RemoveLabel(l) ==
  /\ pr = "open" /\ l \in labels /\ edits < MaxEdits
  /\ edits' = edits + 1
  /\ labels' = labels \ {l}
  /\ wanted' = wanted \ {l}
  /\ Send("unlabeled", labels')
  /\ job' = StillBlocked(labels')
  /\ UNCHANGED <<pr, head, green, review, behind, row, dismissals, faults, merged>>

Push ==
  /\ pr = "open" /\ head < MaxCommits
  /\ head' = head + 1
  /\ UNCHANGED <<pr, labels, green, review, behind, hooks, row, job, dismissals, user, faults, merged>>

ChecksPass(c) ==
  /\ c <= head /\ c \notin green
  /\ green' = green \cup {c}
  /\ UNCHANGED <<pr, labels, head, review, behind, hooks, row, job, dismissals, user, faults, merged>>

Approve ==
  /\ pr = "open" /\ review # head
  /\ review' = head
  /\ UNCHANGED <<pr, labels, head, green, behind, hooks, row, job, dismissals, user, faults, merged>>

BaseMoves ==
  /\ pr = "open" /\ ~behind
  /\ behind' = TRUE
  /\ UNCHANGED <<pr, labels, head, green, review, hooks, row, job, dismissals, user, faults, merged>>

Close ==
  /\ pr = "open"
  /\ pr' = "closed"
  /\ Send("closed", {})
  /\ UNCHANGED <<labels, head, green, review, behind, row, job, dismissals, user, faults, merged>>

\* "missed webhook"
LoseHook(h) ==
  /\ h \in hooks
  /\ hooks' = hooks \ {h}
  /\ UNCHANGED <<github, row, job, dismissals, user, faults, merged>>

RowAges ==
  /\ Ages /\ row # NoRow /\ ~row.old
  /\ row' = [row EXCEPT !.old = TRUE]
  /\ UNCHANGED <<github, hooks, job, dismissals, user, faults, merged>>

----------------------------------------------------------------------------
(* Jobs *)

At(w, pc)   == job[w].pc = pc
Become(w, j) == job' = [job EXCEPT ![w] = j]
GoTo(w, pc) == job' = [job EXCEPT ![w].pc = pc]
Finish(w)   == Become(w, Idle)

Fault(w) == faults < MaxFaults /\ faults' = faults + 1

\* A call throws: a webhook's task is retried from the start, a cron job is not.
Throws(w) ==
  /\ ~At(w, "idle")
  /\ Fault(w)
  /\ \/ Finish(w)
     \/ job[w].hook /\ At(w, "save") /\ GoTo(w, "addPR")
     \/ job[w].hook /\ job[w].pc \in Cleans /\ GoTo(w, "getPR")
  /\ UNCHANGED <<github, hooks, row, dismissals, user, merged>>

\* pull_request.labeled: any label, as long as a merge label is on the pull request
Labeled(w, h) ==
  /\ At(w, "idle") /\ h \in hooks /\ h.kind = "labeled"
  /\ hooks' = hooks \ {h}
  /\ \/ h.labels = {} /\ UNCHANGED job
     \/ \E l \in h.labels :
          Become(w, [Idle EXCEPT !.pc = "addPR", !.hook = TRUE, !.label = l])
  /\ UNCHANGED <<github, row, dismissals, user, faults, merged>>

\* pull_request.unlabeled: only if no merge label is left; pull_request.closed
UnlabeledOrClosed(w, h) ==
  /\ At(w, "idle") /\ h \in hooks /\ h.kind \in {"unlabeled", "closed"}
  /\ hooks' = hooks \ {h}
  /\ IF h.kind = "unlabeled" /\ h.labels # {}
       THEN UNCHANGED job
       ELSE Become(w, [Idle EXCEPT !.pc = "getPR", !.hook = TRUE])
  /\ UNCHANGED <<github, row, dismissals, user, faults, merged>>

\* mutant: the search for "automerge: exact" is left out
FindHangingOne(w) ==
  /\ At(w, "idle") /\ pr = "open" /\ "automerge" \in labels
  /\ Become(w, [Idle EXCEPT !.pc = "find", !.label = "automerge"])
  /\ UNCHANGED <<github, hooks, row, dismissals, user, faults, merged>>

\* schedule.installation with findHangingPRs: one search for each merge label
FindHanging(w) ==
  /\ At(w, "idle") /\ pr = "open"
  /\ \E l \in labels \cap Mog : Become(w, [Idle EXCEPT !.pc = "find", !.label = l])
  /\ UNCHANGED <<github, hooks, row, dismissals, user, faults, merged>>

FindRow(w) ==
  /\ At(w, "find")
  /\ IF row = NoRow THEN GoTo(w, "addPR") ELSE Finish(w)
  /\ UNCHANGED <<github, hooks, row, dismissals, user, faults, merged>>

\* checkForBranchProtection(): its failure is logged, and the row not written.
CheckForBranchProtection(w) ==
  /\ At(w, "addPR")
  /\ \/ GoTo(w, "save") /\ UNCHANGED faults
     \/ Finish(w) /\ Fault(w)
  /\ UNCHANGED <<github, hooks, row, dismissals, user, merged>>

AddPR(w) ==
  /\ At(w, "save")
  /\ row' = [label |-> job[w].label, old |-> FALSE]
  /\ Finish(w)
  /\ UNCHANGED <<github, hooks, dismissals, user, faults, merged>>

GetRow(w) ==
  /\ At(w, "getPR")
  /\ IF row = NoRow
       THEN Finish(w)
       ELSE Become(w, [job[w] EXCEPT !.pc = "remove", !.label = row.label])
  /\ UNCHANGED <<github, hooks, row, dismissals, user, faults, merged>>

RemovePR(w) ==
  /\ At(w, "remove")
  /\ row' = NoRow
  /\ GoTo(w, "cleanUp")
  /\ UNCHANGED <<github, hooks, dismissals, user, faults, merged>>

CleanUpPullRequest(w) ==
  /\ At(w, "cleanUp")
  /\ IF job[w].label \in labels
       THEN labels' = labels \ {job[w].label} /\ Send("unlabeled", labels')
       ELSE UNCHANGED <<labels, hooks>>
  /\ Finish(w)
  /\ UNCHANGED <<pr, head, green, review, behind, row, dismissals, user, faults, merged>>

----------------------------------------------------------------------------
(* schedule.global with cleanUp *)

CleanTable(w) ==
  /\ At(w, "idle") /\ row # NoRow
  /\ Become(w, [Idle EXCEPT !.pc = "pulls", !.label = row.label])
  /\ UNCHANGED <<github, hooks, row, dismissals, user, faults, merged>>

PullsGet(w) ==
  /\ At(w, "pulls")
  /\ \/ Become(w, [job[w] EXCEPT !.pc = "labels", !.flag = pr # "open"]) /\ UNCHANGED faults
     \/ Become(w, [job[w] EXCEPT !.pc = "labels"]) /\ Fault(w)
  /\ UNCHANGED <<github, hooks, row, dismissals, user, merged>>

\* mutant: only the label "automerge" is looked for
ListLabelsOne(w) ==
  /\ At(w, "labels")
  /\ IF job[w].flag \/ "automerge" \notin labels THEN GoTo(w, "remove") ELSE Finish(w)
  /\ UNCHANGED <<github, hooks, row, dismissals, user, faults, merged>>

\* mutant: a closed pull request is not looked for
ListLabelsOpen(w) ==
  /\ At(w, "labels")
  /\ IF labels \cap Mog = {} THEN GoTo(w, "remove") ELSE Finish(w)
  /\ UNCHANGED <<github, hooks, row, dismissals, user, faults, merged>>

\* The row goes if the pull request is closed or no merge label is found on it: a
\* failed listLabelsOnIssue() finds none.
ListLabels(w) ==
  /\ At(w, "labels")
  /\ \/ /\ IF job[w].flag \/ labels \cap Mog = {} THEN GoTo(w, "remove") ELSE Finish(w)
        /\ UNCHANGED faults
     \/ GoTo(w, "remove") /\ Fault(w)
  /\ UNCHANGED <<github, hooks, row, dismissals, user, merged>>

----------------------------------------------------------------------------
(* schedule.installation with performMerge *)

\* mutant: a pull request that timed out stays if it was not merged
ReturnsOnlyRemove(w, remove) == IF remove THEN GoTo(w, "remove") ELSE Finish(w)

\* checkPRMergeability(): what mergeOnGreen() returned decides.
Returns(w, remove) == IF remove \/ job[w].stop THEN GoTo(w, "remove") ELSE Finish(w)

ListPRs(w) ==
  /\ At(w, "idle") /\ row # NoRow
  /\ Become(w, [Idle EXCEPT !.pc = "sha", !.label = row.label, !.stop = row.old,
                            !.blocked = "do not merge" \in labels])
  /\ UNCHANGED <<github, hooks, row, dismissals, user, faults, merged>>

\* rateLimit.get() says that too few calls remain, or getLatestCommit()
GetLatestCommit(w) ==
  /\ At(w, "sha")
  /\ \/ Returns(w, FALSE)
     \/ Become(w, [job[w] EXCEPT !.pc = "statuses", !.sha = head])
  /\ UNCHANGED <<github, hooks, row, dismissals, user, faults, merged>>

\* statusesForRef(); a pull request that timed out is told so and leaves the table.
StatusesForRef(w) ==
  /\ At(w, "statuses")
  /\ IF job[w].sha \in green THEN GoTo(w, "info") ELSE Returns(w, job[w].stop)
  /\ UNCHANGED <<github, hooks, row, dismissals, user, faults, merged>>

\* mutant: the label "do not merge" is not looked at
GetInfoUnblocked(w) ==
  /\ At(w, "info")
  /\ Become(w, [job[w] EXCEPT !.pc = "merge", !.flag = behind])
  /\ UNCHANGED <<github, hooks, row, dismissals, user, faults, merged>>

\* getPR(): a failed pulls.get() gives a pull request without labels.
\* maybeDismissReviews() is started and not awaited.
GetInfo(w) ==
  /\ At(w, "info")
  /\ \/ /\ IF "do not merge" \in labels
             THEN Returns(w, FALSE) /\ UNCHANGED dismissals
             ELSE /\ Become(w, [job[w] EXCEPT !.pc = "merge", !.flag = behind])
                  /\ dismissals' = IF "automerge: exact" \in labels
                                     THEN dismissals \cup {job[w].sha} ELSE dismissals
        /\ UNCHANGED faults
     \/ GoTo(w, "merge") /\ Fault(w) /\ UNCHANGED dismissals
  /\ UNCHANGED <<github, hooks, row, user, merged>>

DismissReviews(c) ==
  /\ c \in dismissals
  /\ dismissals' = dismissals \ {c}
  /\ review' = IF review = c THEN review ELSE 0
  /\ UNCHANGED <<pr, labels, head, green, behind, hooks, row, job, user, faults, merged>>

\* What GitHub requires of a merge.
Mergeable == pr = "open" /\ head \in green /\ review # 0 /\ ~behind

Ignored(w) ==
  {x \in {"do not merge", "stale review"} :
     \/ x = "do not merge" /\ job[w].blocked
     \/ x = "stale review" /\ "automerge: exact" \in labels /\ review # head}

\* pulls.merge(): merges whatever the head is now, or fails; the reply can be lost.
Merge(w) ==
  /\ At(w, "merge")
  /\ \/ /\ Mergeable
        /\ pr' = "merged"
        /\ merged' = Ignored(w)
        /\ Send("closed", {})
        /\ \/ Returns(w, TRUE) /\ UNCHANGED faults
           \/ Returns(w, FALSE) /\ Fault(w)
     \/ /\ ~Mergeable
        /\ IF job[w].flag THEN GoTo(w, "update") ELSE Returns(w, FALSE)
        /\ UNCHANGED <<pr, hooks, merged, faults>>
  /\ UNCHANGED <<labels, head, green, review, behind, row, dismissals, user>>

UpdateBranch(w) ==
  /\ At(w, "update")
  /\ \/ /\ pr = "open" /\ behind /\ head < MaxCommits
        /\ head' = head + 1
        /\ behind' = FALSE
     \/ UNCHANGED <<head, behind>>
  /\ Returns(w, FALSE)
  /\ UNCHANGED <<pr, labels, green, review, hooks, row, dismissals, user, faults, merged>>

----------------------------------------------------------------------------

Environment ==
  \/ \E l \in Labels : AddLabel(l) \/ RemoveLabel(l)
  \/ Push \/ Approve \/ BaseMoves \/ Close \/ RowAges
  \/ \E c \in Commit : ChecksPass(c)
  \/ \E h \in hooks : LoseHook(h)

Starts(w) ==
  \/ \E h \in hooks : Labeled(w, h) \/ UnlabeledOrClosed(w, h)
  \/ FindHanging(w) \/ CleanTable(w) \/ ListPRs(w)

Continues(w) ==
  \/ FindRow(w) \/ CheckForBranchProtection(w) \/ AddPR(w)
  \/ GetRow(w) \/ RemovePR(w) \/ CleanUpPullRequest(w)
  \/ PullsGet(w) \/ ListLabels(w)
  \/ GetLatestCommit(w) \/ StatusesForRef(w) \/ GetInfo(w) \/ Merge(w) \/ UpdateBranch(w)

Next ==
  \/ Environment
  \/ \E w \in Worker : Starts(w) \/ Continues(w) \/ Throws(w)
  \/ \E c \in Commit : DismissReviews(c)

Spec == Init /\ [][Next]_vars

\* Every await settles, webhooks are delivered or lost, and the cron jobs run again
\* and again.
FairSpec ==
  /\ Spec
  /\ \A w \in Worker : WF_vars(Continues(w))
  /\ \A c \in Commit : WF_vars(DismissReviews(c))
  /\ SF_vars(\E w \in Worker, h \in hooks : Labeled(w, h) \/ UnlabeledOrClosed(w, h))
  /\ SF_vars(\E w \in Worker : FindHanging(w))
  /\ SF_vars(\E w \in Worker : CleanTable(w))
  /\ SF_vars(\E w \in Worker : ListPRs(w))

----------------------------------------------------------------------------
(* Properties *)

\* "there is a do not merge label": a pull request that carried the label from the
\* time the pass read the table until the merge is not merged (merge-logic.ts:592).
DoNotMergeHeld == "do not merge" \notin merged

\* Why: without faults no pass at its merge has seen the label all along.
BlockedInv ==
  /\ \A w \in Worker : job[w].blocked => "do not merge" \in labels
  /\ \A w \in Worker : job[w].pc = "merge" => ~job[w].blocked
  /\ DoNotMergeHeld

\* README: "automerge: exact will only merge if the review for the pull request is
\* for its most recent commit" (merge-logic.ts:604).
ExactReviewed == "stale review" \notin merged

\* While a pull request is open, a merge label that a user put there is kept until a user
\* takes it off, in whatever order webhooks and jobs come: unless it timed out, a call
\* failed, or it was put there before the bot had dealt with the removal of the last
\* one (merge-on-green.ts:219-273, 755-803).
Undisturbed == pr = "open" /\ ~Ages /\ faults = 0
LabelKept   == Undisturbed => wanted \subseteq labels

\* Why: what takes the row and a label away began with the removal of the last merge
\* label, or found none; no job has read an old row or seen the pull request closed.
Kept ==
  /\ wanted \subseteq labels
  /\ CleaningUp => wanted = {}
  /\ \A h \in hooks : h.kind # "closed"
  /\ row.old = FALSE
  /\ \A w \in Worker : /\ job[w].stop = FALSE
                       /\ job[w].pc \in {"pulls", "labels"} => job[w].flag = FALSE

KeptInv == Undisturbed => Kept

\* A merged or closed pull request leaves the table for good.
RowsAreCleared == pr # "open" ~> [](row = NoRow)

\* The README's "built-in mechanism to check every so often": a labelled pull
\* request gets its row, though its webhook was lost.
HangingIsFound ==
  (pr = "open" /\ labels \cap Mog # {}) ~> (row # NoRow \/ labels \cap Mog = {} \/ pr # "open")

\* A row that is too old leaves the table.
OldRowsLeave == row.old ~> ~row.old

=============================================================================
