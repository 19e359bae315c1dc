---------------------------- MODULE AutoApprove ----------------------------
(***************************************************************************)
(* The handler of auto-approve: one pull request, the deliveries of its    *)
(* events, and the passes of the handler over them, while its author       *)
(* pushes and edits, reviewers dismiss, other pull requests close and days *)
(* go by.  What a pass decides is in AutoApproveChecks.                    *)
(*                                                                         *)
(* A delivery carries the pull request as it was when the event happened;  *)
(* the files, the configuration, the other pull requests and the reviews   *)
(* are read one after the other while the pass runs.  A pass that throws   *)
(* is run again from its delivery: MaxTries tries in all (gcf-utils).      *)
(***************************************************************************)
EXTENDS AutoApproveChecks

CONSTANTS Workers,     \* the passes that can run at the same time
          MaxTries,    \* how often a delivery is tried in all
          PageSize,    \* listReviews returns the first page only (30)
          LabelTries,  \* retryAddLabel: 3 retries after the first try
          Contents,    \* what a push can make the changed files
          Titles       \* what an edit can make the title

ASSUME BoundsAssumption == MaxTries \in Nat \ {0} /\ LabelTries \in Nat

VARIABLES config,    \* .github/auto-approve.yml on the default branch
          pr,        \* the pull request as it is now
          repo,      \* the repository as it is now
          weekday,   \* Monday to Thursday in Los Angeles
          reviews,   \* the reviews of the pull request, oldest first
          exact,     \* it carries `automerge: exact'
          check,     \* the last conclusion of `Auto-approve.yml check'
          queue,     \* deliveries that wait for a pass
          work,      \* what each worker is at
          budget,    \* changes, faults: what may still happen
          settled    \* history: it has fitted ever since its last push or
                     \* edit, and no approval was dismissed after that

vars == <<config, pr, repo, weekday, reviews, exact, check, queue, work, budget,
          settled>>

Approver   == "yoshi-approver"
ConfigFile == ".github/auto-approve.yml"

Idle == [at |-> "idle"]

-----------------------------------------------------------------------------
(* Would a pass with this delivery's payload, on these files and this      *)
(* repository, approve?                                                    *)
Payload(d, files) ==
    [number |-> d.number, author |-> d.author, title |-> d.title,
     body |-> d.body, count |-> d.count, files |-> files]

Verdict(d, files, r, day) ==
    IF config.kind = "v1"
    THEN IF CheckPRAgainstConfig(config.rules, Payload(d, files), day)
         THEN "yes" ELSE "no"
    ELSE CheckPRAgainstConfigV2(config.processes, Payload(d, files), r, day)

(* RELEASE_FREEZE holds the pull requests of release-please back.          *)
IsFrozen(d, r) == r.frozen /\ d.author \in {"release-please", "release-please[bot]"}

TouchesConfig(files) == \E f \in files : f.name = ConfigFile

Fits(d, files, r, day) ==
    /\ config.kind \in {"v1", "v2"}
    /\ ~TouchesConfig(files)
    /\ ~IsFrozen(d, r)
    /\ Verdict(d, files, r, day) = "yes"

IsPullRequest(p) ==
    p = [number |-> p.number, author |-> p.author, title |-> p.title,
         body |-> p.body, files |-> p.files, count |-> p.count]

Delivery(p) ==
    [number |-> p.number, author |-> p.author, title |-> p.title,
     body |-> p.body, count |-> p.count, tries |-> MaxTries]

(* The payload of pull_request_review.dismissed has no `number' of its own *)
(* and its pull request no `changed_files': the handler casts it to a      *)
(* PullRequestEvent all the same.  No pull request has the number 0.       *)
Undefined == 0

DismissedDelivery(p) ==
    [Delivery(p) EXCEPT !.number = Undefined, !.count = Undefined]

IsDelivery(d, number) ==
    /\ d = [number |-> d.number, author |-> d.author, title |-> d.title,
            body |-> d.body, count |-> d.count, tries |-> d.tries]
    /\ d.number \in {number, Undefined}
    /\ d.tries \in 1 .. MaxTries

IsPass(x, number) ==
    /\ x = [at |-> x.at, delivery |-> x.delivery, files |-> x.files,
            retries |-> x.retries]
    /\ x.at \in {"files", "prConfig", "config", "again", "decide", "reviews",
                 "approve", "label"}
    /\ IsDelivery(x.delivery, number)
    /\ x.retries \in 0 .. LabelTries

(* Something happens in the world: news is what is delivered of it, and    *)
(* since whether what fits after it has to be approved.                    *)
Move(p, r, day, news, since) ==
    /\ budget.changes > 0
    /\ budget' = [budget EXCEPT !.changes = @ - 1]
    /\ pr' = p
    /\ repo' = r
    /\ weekday' = day
    /\ queue' = queue \cup news
    /\ settled' = (since /\ Fits(Delivery(p), p.files, r, day))
    /\ UNCHANGED <<config, exact, check, work>>

(* A configuration of the second generation names processes of the code    *)
(* (its schema allows no other).  A delivery waits for the first pass.     *)
AutoApproveInit ==
    /\ config.kind \in {"none", "invalid", "v1", "v2"}
    /\ config.kind = "v2" => config.processes \in Seq(Process)
    /\ IsPullRequest(pr)
    /\ weekday \in BOOLEAN
    /\ budget \in [changes : Nat, faults : Nat, missed : BOOLEAN]
    /\ reviews = << >> /\ exact = FALSE /\ check = "none"
    /\ queue = {Delivery(pr)}
    /\ work = [w \in Workers |-> Idle]
    /\ settled = Fits(Delivery(pr), pr.files, repo, weekday)

-----------------------------------------------------------------------------
(* The people and the calendar.                                            *)

(* pull_request.synchronize: new files, perhaps with a commit of another   *)
(* author among them.                                                      *)
Push(files, author) ==
    LET p == [pr EXCEPT !.files = files, !.count = Cardinality(files)]
        r == [repo EXCEPT !.commits = @ \cup {author}]
    IN  /\ files # pr.files
        /\ Move(p, r, weekday, {Delivery(p)}, TRUE)
        /\ UNCHANGED reviews

(* pull_request.edited                                                     *)
Edit(title) ==
    LET p == [pr EXCEPT !.title = title]
    IN  /\ title # pr.title
        /\ Move(p, repo, weekday, {Delivery(p)}, TRUE)
        /\ UNCHANGED reviews

(* pull_request_review.dismissed: an approval is taken back.               *)
Dismiss ==
    /\ \E i \in DOMAIN reviews :
          /\ reviews[i] = [user |-> Approver, state |-> "APPROVED"]
          /\ reviews' = [reviews EXCEPT ![i].state = "DISMISSED"]
    /\ Move(pr, repo, weekday, {DismissedDelivery(pr)}, FALSE)

(* Somebody else reviews; an older pull request of the repository closes;  *)
(* the day changes.  None of the three is an event of this pull request.   *)
Comment ==
    /\ reviews' = Append(reviews, [user |-> "human", state |-> "COMMENTED"])
    /\ Move(pr, repo, weekday, {}, settled)

OtherCloses ==
    /\ \E p \in {repo.prs[i] : i \in DOMAIN repo.prs} :
          /\ p.number # pr.number
          /\ Move(pr, [repo EXCEPT !.prs = SelectSeq(@, LAMBDA q : q # p)],
                  weekday, {}, settled)
    /\ UNCHANGED reviews

DayChanges ==
    /\ Move(pr, repo, ~weekday, {}, settled)
    /\ UNCHANGED reviews

-----------------------------------------------------------------------------
(* The handler.                                                            *)

Still == UNCHANGED <<config, pr, repo, weekday, settled>>

To(w, at) == work' = [work EXCEPT ![w].at = at]

Done(w) == work' = [work EXCEPT ![w] = Idle]

Take(w) ==
    /\ work[w].at = "idle"
    /\ \E d \in queue :
          /\ queue' = queue \ {d}
          /\ work' = [work EXCEPT ![w] =
                        IF IsFrozen(d, repo) THEN Idle
                        ELSE [at |-> "files", delivery |-> d, files |-> {},
                              retries |-> LabelTries]]
    /\ UNCHANGED <<reviews, exact, check, budget>> /\ Still

(* A call throws: the task is tried again, or given up.                    *)
LastTry(w) == work[w].delivery.tries = 1

Retry(w) ==
    LET d == work[w].delivery
    IN  /\ Done(w)
        /\ queue' = IF d.tries > 1 THEN queue \cup {[d EXCEPT !.tries = @ - 1]}
                                   ELSE queue

Fail(w) ==
    /\ work[w].at # "idle"
    /\ budget.faults > 0
    /\ budget' = [budget EXCEPT !.faults = @ - 1, !.missed = @ \/ LastTry(w)]
    /\ Retry(w)
    /\ UNCHANGED <<reviews, exact, check>> /\ Still

(* getChangedFiles: a 404 is logged, and the pass ends as if all was well. *)
NotFound(w) ==
    /\ work[w].at \in {"files", "again"}
    /\ budget.faults > 0
    /\ budget' = [budget EXCEPT !.faults = @ - 1, !.missed = TRUE]
    /\ Done(w)
    /\ UNCHANGED <<reviews, exact, check, queue>> /\ Still

(* A pull request that changes the configuration only gets a check of it.  *)
ReadFiles(w) ==
    /\ work[w].at = "files"
    /\ IF TouchesConfig(pr.files) THEN To(w, "prConfig") ELSE To(w, "config")
    /\ UNCHANGED <<reviews, exact, check, queue, budget>> /\ Still

(* checkAutoApproveConfig: the new content is good, breaks the schema, or  *)
(* is no YAML at all; then validateSchema throws, and no check is made.    *)
ConfigOutcomes == {"success", "failure", "throws"}

SubmitCheck(conclusion) == check' = conclusion

CheckPRConfig(w) ==
    /\ work[w].at = "prConfig"
    /\ \E outcome \in ConfigOutcomes :
          IF outcome = "throws" THEN Retry(w) /\ UNCHANGED check
          ELSE Done(w) /\ SubmitCheck(outcome) /\ UNCHANGED queue
    /\ UNCHANGED <<reviews, exact, budget>> /\ Still

(* context.config, then evaluateAndSubmitCheckForConfig.                   *)
ReadConfig(w) ==
    /\ work[w].at = "config"
    /\ CASE config.kind = "none" -> Done(w) /\ UNCHANGED check
         [] config.kind = "invalid" -> Done(w) /\ SubmitCheck("failure")
         [] OTHER -> To(w, "again") /\ SubmitCheck("success")
    /\ UNCHANGED <<reviews, exact, queue, budget>> /\ Still

(* An error while the configuration is read counts as none.                *)
ConfigUnreadable(w) ==
    /\ work[w].at = "config"
    /\ budget.faults > 0
    /\ budget' = [budget EXCEPT !.faults = @ - 1, !.missed = TRUE]
    /\ Done(w)
    /\ UNCHANGED <<reviews, exact, check, queue>> /\ Still

(* The checks list the changed files a second time, by the number at the   *)
(* top of the payload: without one there is no such pull request, and the  *)
(* 404 counts as a pull request that does not fit.                         *)
ReadFilesAgain(w) ==
    /\ work[w].at = "again"
    /\ IF work[w].delivery.number = Undefined
       THEN Done(w)
       ELSE work' = [work EXCEPT ![w].files = pr.files, ![w].at = "decide"]
    /\ UNCHANGED <<reviews, exact, check, queue, budget>> /\ Still

Decide(w) ==
    /\ work[w].at = "decide"
    /\ CASE Verdict(work[w].delivery, work[w].files, repo, weekday) = "yes" ->
              To(w, "reviews") /\ UNCHANGED queue
         [] Verdict(work[w].delivery, work[w].files, repo, weekday) = "no" ->
              Done(w) /\ UNCHANGED queue
         [] OTHER -> Retry(w)
    /\ UNCHANGED <<reviews, exact, check, budget>> /\ Still

(* cleanReviews(getReviewsCompleted()): the last review of each reviewer   *)
(* among those of the first page.                                          *)
GetReviewsCompleted ==
    SubSeq(reviews, 1, IF Len(reviews) < PageSize THEN Len(reviews) ELSE PageSize)

(* Mutant: any review of the approver counts, a dismissed one too.         *)
IsPRReviewed == \E i \in DOMAIN GetReviewsCompleted : reviews[i].user = Approver

IsPRApproved ==
    LET own == SelectSeq(GetReviewsCompleted, LAMBDA r : r.user = Approver)
    IN  own # << >> /\ own[Len(own)].state = "APPROVED"

ReadReviews(w) ==
    /\ work[w].at = "reviews"
    /\ To(w, IF IsPRApproved THEN "label" ELSE "approve")
    /\ UNCHANGED <<reviews, exact, check, queue, budget>> /\ Still

(* createReview names no commit: it approves what the head is by now.      *)
Approve(w) ==
    /\ work[w].at = "approve"
    /\ reviews' = Append(reviews, [user |-> Approver, state |-> "APPROVED"])
    /\ To(w, "label")
    /\ UNCHANGED <<exact, check, queue, budget>> /\ Still

(* retryAddLabel; python-docs-samples gets no label.                       *)
AddLabel(w) ==
    /\ work[w].at = "label"
    /\ exact' = (exact \/ ~repo.docsSamples)
    /\ Done(w)
    /\ UNCHANGED <<reviews, check, queue, budget>> /\ Still

(* Mutant: the number of retries left is not looked at.                    *)
LabelsChangedAgain(w) ==
    /\ work[w].at = "label" /\ ~repo.docsSamples
    /\ budget.faults > 0
    /\ budget' = [budget EXCEPT !.faults = @ - 1]
    /\ work' = [work EXCEPT ![w].retries = @ - 1]
    /\ UNCHANGED <<reviews, exact, check, queue>> /\ Still

(* addLabels answers 412: tried again with a new etag, at most three times.*)
LabelsChanged(w) ==
    /\ work[w].at = "label" /\ ~repo.docsSamples
    /\ budget.faults > 0
    /\ IF work[w].retries > 0
       THEN /\ work' = [work EXCEPT ![w].retries = @ - 1]
            /\ budget' = [budget EXCEPT !.faults = @ - 1]
            /\ UNCHANGED queue
       ELSE /\ Retry(w)
            /\ budget' = [budget EXCEPT !.faults = @ - 1, !.missed = @ \/ LastTry(w)]
    /\ UNCHANGED <<reviews, exact, check>> /\ Still

Step(w) ==
    \/ Take(w) \/ ReadFiles(w) \/ CheckPRConfig(w) \/ ReadConfig(w)
    \/ ReadFilesAgain(w) \/ Decide(w) \/ ReadReviews(w) \/ Approve(w) \/ AddLabel(w)

AutoApproveNext ==
    \/ \E w \in Workers :
          \/ Step(w)
          \/ Fail(w) \/ NotFound(w) \/ ConfigUnreadable(w) \/ LabelsChanged(w)
    \/ \E files \in Contents, author \in {pr.author, "human"} : Push(files, author)
    \/ \E title \in Titles : Edit(title)
    \/ Dismiss \/ Comment \/ OtherCloses \/ DayChanges

(* Cloud Run keeps a pass going, and Cloud Tasks hands every task over.    *)
AutoApproveFair == \A w \in Workers : WF_vars(Step(w))

AutoApproveSpec == AutoApproveInit /\ [][AutoApproveNext]_vars /\ AutoApproveFair

-----------------------------------------------------------------------------
(* The approver's approval stands.                                         *)
Approved == \E i \in DOMAIN reviews :
                reviews[i] = [user |-> Approver, state |-> "APPROVED"]

AutoApproveTypeOK ==
    /\ exact \in BOOLEAN /\ weekday \in BOOLEAN /\ settled \in BOOLEAN
    /\ reviews \in Seq([user : {Approver, "human"},
                        state : {"APPROVED", "DISMISSED", "COMMENTED"}])
    /\ check \in {"none", "success", "failure"}
    /\ budget \in [changes : Nat, faults : Nat, missed : BOOLEAN]
    /\ IsPullRequest(pr)
    /\ \A d \in queue : IsDelivery(d, pr.number)
    /\ DOMAIN work = Workers
    /\ \A w \in Workers : work[w] = Idle \/ IsPass(work[w], pr.number)

(* A renovate pull request that a pass goes on to approve changes the one  *)
(* dependency that its title names and nothing else that matters: every    *)
(* file that the pass listed is a lock file, or its first replaced line was*)
(* read and is about that dependency (all gRPC artifacts count as one).    *)
(* Whatever the generation of the configuration, and whatever was pushed   *)
(* or edited while the pass ran.                                           *)
OnlyNamedDependency ==
    \A w \in Workers :
        /\ work[w].at \in {"reviews", "approve", "label"}
        /\ work[w].delivery.author = "renovate-bot"
        => \A f \in work[w].files :
              \/ f.name \in LockFiles \cup {"go.sum"}
              \/ /\ f.readable
                 /\ LET deps == {f.old.dep, f.new.dep, work[w].delivery.title.dep}
                    IN  Cardinality(deps) = 1 \/ deps \subseteq Grpc

(* A dependency that is only approved as an upgrade is one: the comment of *)
(* runVersioningValidation says that it makes sure that a version is only  *)
(* upgraded, not downgraded, and that the major version is not bumped.     *)
OnlyMinorUpgrades ==
    \A w \in Workers :
        /\ work[w].at \in {"reviews", "approve", "label"}
        /\ config.kind = "v2" /\ config.processes = <<"NodeDependency">>
        => \A f \in work[w].files :
              f.new.major = f.old.major /\ IsVersionBumped(f.old, f.new)

(* A pull request that fits, and goes on fitting, from its last push or    *)
(* edit on, and whose approval nobody dismissed since, is in the end       *)
(* approved and labelled, for good: whatever older deliveries, dismissals  *)
(* and failed tries there were.  Unless a delivery was given up, its last  *)
(* try having failed, a listing answered 404, or the configuration could   *)
(* not be read, which the handler takes for an answer.  (The event of a    *)
(* dismissal restores nothing: see DismissedDelivery.)                     *)
FittingIsApproved ==
    <>[]settled => <>[](Approved /\ (exact \/ repo.docsSamples)) \/ <>budget.missed
=============================================================================
