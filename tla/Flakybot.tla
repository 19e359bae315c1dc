------------------------------ MODULE Flakybot ------------------------------
(***************************************************************************)
(* packages/flakybot: issues for failing tests.                            *)
(*                                                                         *)
(* Every build of a repository reports its results in a message of its     *)
(* own; messages are handled side by side and, when handling one fails,    *)
(* again.  A handler lists the issues once, closes duplicates, opens or    *)
(* comments on the issues of tests that failed and closes those of tests   *)
(* that passed.  It writes to an issue of a failed test under a lock, but  *)
(* goes on without it when it cannot get it; it closes issues without one. *)
(*                                                                         *)
(* The tests are those of one package, whose issues are grouped when many  *)
(* fail, and Whole, the failure of a build that reported no tests.         *)
(***************************************************************************)
EXTENDS Naturals, Sequences, FiniteSets, SequencesExt

CONSTANTS
  TestCase,     \* the tests of the package, numbers
  Worker,       \* request slots
  Threshold,    \* 10: so many failures of a package share one issue
  MaxReports,   \* bound: builds
  MaxRevision,  \* bound: commits the builds are of
  MaxIssues,    \* bound: issues
  MaxUpsets     \* bound: failures, time-outs and acts of people, all together

ASSUME FlakybotAssumption ==
  /\ TestCase \subseteq Nat \ {0, 1} /\ IsFiniteSet(TestCase) /\ IsFiniteSet(Worker) /\ "free" \notin Worker
  /\ Threshold \in Nat \ {0, 1} /\ {MaxReports, MaxRevision, MaxIssues, MaxUpsets} \subseteq Nat

Grouped == 0
Whole   == 1
Title   == TestCase \cup {Grouped, Whole}
Revision == 1 .. MaxRevision
Label   == {"flaky", "quiet"}
IssueNumber == 1 .. MaxIssues

\* failures: the commits with a failure noted in the body or in a comment
Issue == [title : Title, open : BOOLEAN, labels : SUBSET Label, locked : BOOLEAN,
          old : BOOLEAN,        \* closed for more than 10 days
          closedAt : Nat,       \* orders the closed issues, 0 for an open one
          failures : SUBSET Revision]

\* findTestResults(), deduplicated by title; skipped tests are in neither.
Report == [commit : Revision, passes : SUBSET TestCase, failures : SUBSET Title]

WorkerPc == {"idle", "list", "duplicates", "relist", "open", "lock", "get", "comments", "comment",
             "reopen", "reason", "create", "close", "closeComments", "closeIssue", "markFlaky"}
WorkerState ==
  [pc : WorkerPc, report : 0 .. MaxReports,
   seen : Seq(Issue),          \* the issues, as they were listed
   duplicates : SUBSET IssueNumber, modified : BOOLEAN,
   todo : SUBSET Title,        \* failures not gone through yet
   title : Title,              \* the one it is at, or the grouped issue's
   number : 0 .. MaxIssues,    \* the issue it is at
   labels : SUBSET Label]      \* of that issue, fetched again
Unoccupied == [pc |-> "idle", report |-> 0, seen |-> <<>>, duplicates |-> {}, modified |-> FALSE,
         todo |-> {}, title |-> Grouped, number |-> 0, labels |-> {}]

VARIABLES
  issuesOf,    \* GitHub: the issues, by number
  lockOf,      \* Datastore: the worker that holds the lock of an issue, or "free"
  reports,     \* the builds so far
  inbox,       \* reports not handled yet
  worker,
  upsets,      \* bound
  received,    \* history: reports whose handling was begun
  handled,     \* history: reports that were handled to the end
  exclusive,   \* history: no lock has lapsed, nor was gone without
  serial,      \* history: workers never overlapped, and nothing odd happened
  doubled      \* history: has a failure been noted twice on an open issue?

flakyVars == <<issuesOf, lockOf, reports, inbox, worker, upsets, received, handled, exclusive, serial, doubled>>

FlakybotTypeOK ==
  /\ issuesOf \in Seq(Issue) /\ Len(issuesOf) <= MaxIssues
  /\ lockOf \in [IssueNumber -> Worker \cup {"free"}]
  /\ reports \in Seq(Report) /\ Len(reports) <= MaxReports
  /\ {inbox, received, handled} \subseteq SUBSET (1 .. MaxReports)
  /\ worker \in [Worker -> WorkerState]
  /\ upsets \in 0 .. MaxUpsets /\ exclusive \in BOOLEAN /\ serial \in BOOLEAN /\ doubled \in BOOLEAN

\* The issues there are when the bot is installed, or of earlier builds.
FlakybotStarts(there) ==
  /\ issuesOf = there /\ lockOf = [i \in IssueNumber |-> "free"]
  /\ reports = <<>> /\ inbox = {} /\ worker = [w \in Worker |-> Unoccupied]
  /\ upsets = 0 /\ received = {} /\ handled = {}
  /\ exclusive = TRUE /\ serial = TRUE /\ doubled = FALSE
FlakybotInit == FlakybotStarts(<<>>)

----------------------------------------------------------------------------
(* The environment. *)

Upset == upsets < MaxUpsets /\ upsets' = upsets + 1 /\ serial' = FALSE

\* A build ends: with test results, or only with word that it failed or did not.
BuildReports ==
  /\ Len(reports) < MaxReports
  /\ \E c \in Revision, passes \in SUBSET TestCase, failures \in (SUBSET TestCase) \cup {{Whole}} :
       /\ failures = {Whole} => passes = {}
       /\ reports' = Append(reports, [commit |-> c, passes |-> passes, failures |-> failures])
  /\ inbox' = inbox \cup {Len(reports')}
  /\ UNCHANGED <<issuesOf, lockOf, worker, upsets, received, handled, exclusive, serial, doubled>>

Close(issue) ==
  [issue EXCEPT !.open = FALSE,
                !.closedAt = 1 + Cardinality({i \in DOMAIN issuesOf :
                                   issuesOf[i].title = issue.title /\ issuesOf[i].closedAt # 0})]

\* Someone closes an issue, asks for quiet or locks the conversation; or it gets old.
PeopleEdit(i) ==
  /\ Upset
  /\ issuesOf' \in {[issuesOf EXCEPT ![i] = x] : x \in
       {[issuesOf[i] EXCEPT !.labels = @ \cup {"quiet"}], [issuesOf[i] EXCEPT !.locked = TRUE]}
       \cup (IF issuesOf[i].open THEN {Close(issuesOf[i])} ELSE {[issuesOf[i] EXCEPT !.old = TRUE]})}
  /\ UNCHANGED <<lockOf, reports, inbox, worker, received, handled, exclusive, doubled>>

\* Its lease is over although its worker is not done, or is dead.
LockLapses(i) ==
  /\ lockOf[i] # "free"
  /\ lockOf' = [lockOf EXCEPT ![i] = "free"]
  /\ Upset /\ exclusive' = FALSE
  /\ UNCHANGED <<issuesOf, reports, inbox, worker, received, handled, doubled>>

----------------------------------------------------------------------------
(* The handler of pubsub.message. *)

Works(w, new) == worker' = [worker EXCEPT ![w] = new]
ReportOf(w) == reports[worker[w].report]
Unlocked == UNCHANGED <<lockOf, exclusive>>
Inbox == UNCHANGED <<reports, inbox, upsets, received, handled, serial>>

StartReport(w) ==
  /\ worker[w].pc = "idle"
  /\ \E b \in inbox :
       /\ Works(w, [Unoccupied EXCEPT !.pc = "list", !.report = b])
       /\ inbox' = inbox \ {b} /\ received' = received \cup {b}
  /\ serial' = (serial /\ \A v \in Worker : worker[v].pc = "idle")
  /\ UNCHANGED <<issuesOf, reports, upsets, handled, doubled>> /\ Unlocked

\* Several open issues with the title of a result: all but the flaky or first ones.
TitlesOf(report) == report.passes \cup report.failures
Flaky(issue) == "flaky" \in issue.labels
Kept(S) == LET best == IF \E i \in S : Flaky(issuesOf[i]) THEN {i \in S : Flaky(issuesOf[i])} ELSE S
           IN  CHOOSE i \in best : \A j \in best : i <= j
Duplicates(report) ==
  {i \in DOMAIN issuesOf :
     /\ issuesOf[i].open /\ issuesOf[i].title \in TitlesOf(report)
     /\ i # Kept({j \in DOMAIN issuesOf : issuesOf[j].open /\ issuesOf[j].title = issuesOf[i].title})}

ListIssues(w) ==
  /\ worker[w].pc = "list"
  /\ Works(w, [worker[w] EXCEPT !.pc = "duplicates", !.seen = issuesOf,
                                !.duplicates = Duplicates(ReportOf(w)),
                                !.modified = Duplicates(ReportOf(w)) # {},
                                !.todo = ReportOf(w).failures])
  /\ UNCHANGED <<issuesOf, doubled>> /\ Unlocked /\ Inbox

\* deduplicateIssues(): they are closed one by one.
DeduplicateIssues(w) ==
  LET S == worker[w].duplicates
      i == CHOOSE j \in S : \A k \in S : j <= k
  IN
  /\ worker[w].pc = "duplicates"
  /\ IF S = {}
       THEN /\ Works(w, [worker[w] EXCEPT !.pc = IF worker[w].modified THEN "relist" ELSE "open"])
            /\ UNCHANGED issuesOf
       ELSE /\ issuesOf' = [issuesOf EXCEPT ![i] = IF @.open THEN Close(@) ELSE @]
            /\ Works(w, [worker[w] EXCEPT !.duplicates = S \ {i}])
  /\ UNCHANGED doubled /\ Unlocked /\ Inbox

ListAgain(w) ==
  /\ worker[w].pc = "relist"
  /\ Works(w, [worker[w] EXCEPT !.pc = "open", !.seen = issuesOf])
  /\ UNCHANGED <<issuesOf, doubled>> /\ Unlocked /\ Inbox

----------------------------------------------------------------------------
(* openIssues() *)

Least(S) == CHOOSE i \in S : \A j \in S : i <= j
Titled(seen, t) == {i \in DOMAIN seen : seen[i].title = t}
OpenOnes(seen, t) == {i \in Titled(seen, t) : seen[i].open}
\* findExistingIssue(): an open one, or the one closed last; 0 if there is none.
FindExistingIssue(seen, t) ==
  IF OpenOnes(seen, t) # {} THEN Least(OpenOnes(seen, t))
  ELSE IF Titled(seen, t) = {} \/ t = Whole THEN 0
  ELSE CHOOSE i \in Titled(seen, t) : \A j \in Titled(seen, t) \ {i} :
         \/ seen[i].closedAt > seen[j].closedAt
         \/ seen[i].closedAt = seen[j].closedAt /\ i < j

\* What is next: the grouped issue, a new grouped one, the next failure, or closing.
\* Failures that share an issue are done with together.
OpenIssues(w) ==
  LET x == worker[w]
      grouped == OpenOnes(x.seen, Grouped)
      t == CHOOSE u \in x.todo : TRUE
      existing == FindExistingIssue(x.seen, t)
      rest == [x EXCEPT !.todo = @ \ {t}, !.title = t, !.number = existing]
  IN
  /\ x.pc = "open"
  /\ Works(w,
       CASE x.todo = {} -> [x EXCEPT !.pc = "close", !.number = 0]
         [] x.todo \ {Whole} # {} /\ grouped # {} ->
              [x EXCEPT !.pc = "lock", !.todo = @ \ TestCase, !.title = Grouped, !.number = Least(grouped)]
         [] Cardinality(x.todo) >= Threshold /\ x.todo = ReportOf(w).failures /\ grouped = {} ->
              [x EXCEPT !.pc = "create", !.todo = {}, !.title = Grouped]
         [] OTHER -> [rest EXCEPT !.pc = IF existing = 0 THEN "create" ELSE "lock"])
  /\ UNCHANGED <<issuesOf, doubled>> /\ Unlocked /\ Inbox

\* Mutant: the issue is written to whoever has the lock, and nobody counts that as odd.
LockBlindly(w) ==
  /\ worker[w].pc = "lock"
  /\ lockOf' = [lockOf EXCEPT ![worker[w].number] = w]
  /\ Works(w, [worker[w] EXCEPT !.pc = "get"])
  /\ UNCHANGED <<issuesOf, reports, inbox, upsets, received, handled, exclusive, serial, doubled>>

\* acquire() and, when somebody else has the lock for too long, going on without it.
Lock(w) ==
  LET x == worker[w] IN
  /\ x.pc = "lock"
  /\ IF lockOf[x.number] = "free"
       THEN lockOf' = [lockOf EXCEPT ![x.number] = w] /\ UNCHANGED <<exclusive, upsets, serial>>
       ELSE Upset /\ exclusive' = FALSE /\ UNCHANGED lockOf
  /\ Works(w, [x EXCEPT !.pc = "get"])
  /\ UNCHANGED <<issuesOf, reports, inbox, received, handled, doubled>>

\* The "finally" of the work on an issue: release() does nothing to somebody else's lock.
Release(w) == lockOf' = [i \in IssueNumber |-> IF lockOf[i] = w THEN "free" ELSE lockOf[i]]
NextFailure(w) == Works(w, [worker[w] EXCEPT !.pc = "open"]) /\ Release(w) /\ UNCHANGED exclusive

\* Mutant: a closed issue that cannot be reopened is left alone.
GetOrLeave(w) ==
  LET x == worker[w]
      i == issuesOf[x.number]
  IN
  /\ x.pc = "get"
  /\ IF x.title # Grouped /\ ~ i.open
       THEN IF i.locked \/ i.old THEN NextFailure(w)
            ELSE Works(w, [x EXCEPT !.pc = "reopen", !.labels = i.labels]) /\ Unlocked
       ELSE IF i.labels # {} THEN NextFailure(w)
       ELSE Works(w, [x EXCEPT !.pc = "comments"]) /\ Unlocked
  /\ UNCHANGED <<issuesOf, doubled>> /\ Inbox

\* The issue is fetched again.  A closed one is reopened as flaky unless it is locked
\* or old; an open one gets a comment unless it is quiet or flaky.
Get(w) ==
  LET x == worker[w]
      i == issuesOf[x.number]
  IN
  /\ x.pc = "get"
  /\ IF x.title # Grouped /\ ~ i.open
       THEN Works(w, [x EXCEPT !.pc = IF i.locked \/ i.old THEN "create" ELSE "reopen", !.labels = i.labels])
            /\ Unlocked
       ELSE IF i.labels # {} THEN NextFailure(w)
       ELSE Works(w, [x EXCEPT !.pc = "comments"]) /\ Unlocked
  /\ UNCHANGED <<issuesOf, doubled>> /\ Inbox

\* containsBuildFailure(): in the body or a comment.
ContainsBuildFailure(w) == ReportOf(w).commit \in issuesOf[worker[w].number].failures

ReadComments(w) ==
  /\ worker[w].pc = "comments"
  /\ IF ContainsBuildFailure(w) THEN NextFailure(w)
     ELSE Works(w, [worker[w] EXCEPT !.pc = "comment"]) /\ Unlocked
  /\ UNCHANGED <<issuesOf, doubled>> /\ Inbox

NoteFailure(w) ==
  issuesOf' = [issuesOf EXCEPT ![worker[w].number].failures = @ \cup {ReportOf(w).commit}]

CreateComment(w) ==
  /\ worker[w].pc = "comment"
  /\ NoteFailure(w)
  /\ doubled' = (doubled \/ ContainsBuildFailure(w))
  /\ NextFailure(w)
  /\ Inbox

\* Mutant: with the name of the label as it is on GitHub.
MarkIssueFlakyWithPrefix(w) ==
  issuesOf' = [issuesOf EXCEPT ![worker[w].number] =
    [@ EXCEPT !.labels = {"flakybot: flaky"}, !.open = TRUE, !.closedAt = 0, !.old = FALSE]]

\* markIssueFlaky(): all labels of flakybot but "flaky" go, "quiet" too.
MarkIssueFlaky(w) ==
  issuesOf' = [issuesOf EXCEPT ![worker[w].number] =
    [@ EXCEPT !.labels = {"flaky"}, !.open = TRUE, !.closedAt = 0, !.old = FALSE]]

Reopen(w) ==
  /\ worker[w].pc = "reopen"
  /\ MarkIssueFlaky(w)
  /\ Works(w, [worker[w] EXCEPT !.pc = "reason"])
  /\ UNCHANGED doubled /\ Unlocked /\ Inbox

CommentReason(w) ==
  /\ worker[w].pc = "reason"
  /\ NoteFailure(w)
  /\ NextFailure(w)
  /\ UNCHANGED doubled /\ Inbox

\* openNewIssue(), or the creation of the grouped one.
OpenNewIssue(w) ==
  /\ worker[w].pc = "create" /\ Len(issuesOf) < MaxIssues
  /\ issuesOf' = Append(issuesOf, [title |-> worker[w].title, open |-> TRUE, labels |-> {}, locked |-> FALSE,
                                   old |-> FALSE, closedAt |-> 0, failures |-> {ReportOf(w).commit}])
  /\ NextFailure(w)
  /\ UNCHANGED doubled /\ Inbox

----------------------------------------------------------------------------
(* closeIssues() *)

\* Is an issue one that passed and did not fail? The grouped issue passes with any test.
Passed(report, t) ==
  IF t = Grouped THEN report.failures \cap TestCase = {} /\ report.passes # {}
  ELSE t \in report.passes \ report.failures
ToClose(w) ==
  {i \in DOMAIN worker[w].seen : /\ i > worker[w].number
     /\ LET issue == worker[w].seen[i] IN issue.open /\ Passed(ReportOf(w), issue.title) /\ ~ Flaky(issue)}

CloseIssues(w) ==
  /\ worker[w].pc = "close"
  /\ IF ToClose(w) = {}
       THEN Works(w, Unoccupied) /\ handled' = handled \cup {worker[w].report}
       ELSE Works(w, [worker[w] EXCEPT !.pc = "closeComments", !.number = Least(ToClose(w))]) /\ UNCHANGED handled
  /\ UNCHANGED <<issuesOf, reports, inbox, upsets, received, serial, doubled>> /\ Unlocked

\* Mutant: a test that passed is fine.
ReadNoComments(w) ==
  /\ worker[w].pc = "closeComments"
  /\ Works(w, [worker[w] EXCEPT !.pc = "closeIssue"])
  /\ UNCHANGED <<issuesOf, doubled>> /\ Unlocked /\ Inbox

ReadCommentsToClose(w) ==
  /\ worker[w].pc = "closeComments"
  /\ Works(w, [worker[w] EXCEPT !.pc = IF ContainsBuildFailure(w) THEN "markFlaky" ELSE "closeIssue"])
  /\ UNCHANGED <<issuesOf, doubled>> /\ Unlocked /\ Inbox

CloseIssue(w) ==
  /\ worker[w].pc = "closeIssue"
  /\ issuesOf' = [issuesOf EXCEPT ![worker[w].number] = IF @.open THEN Close(@) ELSE @]
  /\ Works(w, [worker[w] EXCEPT !.pc = "close"])
  /\ UNCHANGED doubled /\ Unlocked /\ Inbox

\* It passed in one build and failed in another: flaky.  The rest is left for another build.
MarkFlaky(w) ==
  /\ worker[w].pc = "markFlaky"
  /\ MarkIssueFlaky(w)
  /\ Works(w, Unoccupied) /\ handled' = handled \cup {worker[w].report}
  /\ UNCHANGED <<reports, inbox, upsets, received, serial, doubled>> /\ Unlocked

\* A call fails, with the lock released, or the instance dies with it; the report comes back.
WorkerFails(w) ==
  /\ worker[w].pc # "idle"
  /\ Upset
  /\ Works(w, Unoccupied) /\ inbox' = inbox \cup {worker[w].report}
  /\ Release(w) \/ UNCHANGED lockOf
  /\ UNCHANGED <<issuesOf, reports, received, handled, exclusive, doubled>>

WorkerStep(w) ==
  \/ StartReport(w) \/ ListIssues(w) \/ DeduplicateIssues(w) \/ ListAgain(w)
  \/ OpenIssues(w) \/ Lock(w) \/ Get(w) \/ ReadComments(w) \/ CreateComment(w)
  \/ Reopen(w) \/ CommentReason(w) \/ OpenNewIssue(w)
  \/ CloseIssues(w) \/ ReadCommentsToClose(w) \/ CloseIssue(w) \/ MarkFlaky(w)

FlakybotNext ==
  \/ BuildReports
  \/ \E w \in Worker : WorkerStep(w) \/ WorkerFails(w)
  \/ \E i \in DOMAIN issuesOf : PeopleEdit(i) \/ LockLapses(i)

\* A repository with the issues of one of starts.
FlakybotSpec(starts) == (\E there \in starts : FlakybotStarts(there)) /\ [][FlakybotNext]_flakyVars

----------------------------------------------------------------------------
(* Properties. *)

\* A failing test whose report is handled to the end is known: its issue or the grouped
\* one has a failure of that commit, or is flaky or quiet and so gets no more comments.
\* Overlapping handlers, missing locks and handlers that died do not change that.
FailureIsKnown ==
  \A b \in handled : \A t \in reports[b].failures :
    \E i \in DOMAIN issuesOf :
      /\ issuesOf[i].title \in {t} \cup (IF t = Whole THEN {} ELSE {Grouped})
      /\ reports[b].commit \in issuesOf[i].failures \/ issuesOf[i].labels # {}

\* A failure of a commit is noted once on an open issue, however many handlers find it
\* at once, as long as locks are got and last.
NotedOnce == exclusive => ~ doubled

\* A test that passed in one build of a commit and failed in another has an open issue
\* when both are handled, in either order, if handlers do not overlap and builds are of
\* that commit only.
FlakyStaysOpen ==
  serial => \A a, b \in handled :
    ((\A r \in received : reports[r].commit = reports[a].commit) /\ received = handled) =>
      \A t \in reports[a].passes \cap reports[b].failures :
        \E i \in DOMAIN issuesOf : issuesOf[i].open /\ issuesOf[i].title \in {t, Grouped}
=============================================================================
